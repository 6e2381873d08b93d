CONSTANTS
  cwRequests = {"save", "again", "submit"}
  cwSubmits = {"submit"}
  cwActionOf <- actionOfRequest
  cwQuestions = {1, 2}
  cwTextQuestions = {2}
  cwChanges <- photosAndText
  cwForeign = "foreign"
  cwMaxPending = 2
  cwMaxMarkers = 2
  cwMaxCalls = 2
  cwMaxEdits = 1
  cwMaxCrashes = 1
  cfTickets = {1, 2, 3}
  cfMaxRows = 2
  cfMaxCrashes = 1
  rwWorkspaces = {i1, i2}
  rwAgents = {"agent"}
  rwOwnersPage = "page"
  rwMaxWorkspaces = 1
  rwMaxTexts = 2
  rwMaxRevision = 3
  rwMaxRuns = 2
  rwMaxCrashes = 1
  Ids = {i1, i2}
  Actions = {a1, a2}
  Forms = {f1, f2}
  Calls = {c1, c2}
  None = None
  MaxPosts = 2
  MaxCrashes = 1
SPECIFICATION AllSpec
SYMMETRY Symmetry
INVARIANTS
  WritesTyped
  SecondUseRejected
  OnlyAsApproved
  LateRejected
  AnsweredIsSettled
  LoneDecisionStands
  NeverReplayed
  ReadyIsReadable
  RunsAreSound
PROPERTIES
  AnswersAreTrue
  NothingUnseenIsReplaced
CHECK_DEADLOCK FALSE
