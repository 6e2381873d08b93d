-------------------------------- MODULE Writes --------------------------------
(* Approvals, and the writes to Crowdmark and to the Racket workspace that wait for
   them.  One component runs at a time: each has its own state and its own bounds,
   and part says which one runs. *)
EXTENDS Approvals, Sequences

VARIABLE part  \* the component that runs

\* Writes to Crowdmark, of one assignment.
CONSTANTS cwRequests, cwSubmits, cwActionOf, cwQuestions, cwTextQuestions,
  cwChanges, cwForeign, cwMaxPending, cwMaxMarkers, cwMaxCalls, cwMaxEdits,
  cwMaxCrashes
\* Something is to be changed, on questions of the assignment, and a text at most once.
ASSUME CrowdmarkAssumption ==
  /\ Len(cwChanges) \in Nat \ {0} /\ DOMAIN cwChanges = 1..Len(cwChanges)
  /\ \A i \in DOMAIN cwChanges : cwChanges[i].q \in cwQuestions
  /\ \A i, j \in DOMAIN cwChanges :
       cwChanges[i].q = cwChanges[j].q /\ cwChanges[i].q \in cwTextQuestions => i = j
  /\ cwMaxPending \in Nat
VARIABLES cwSite, cwWire, cwArgs, cwConsumed, cwMarkers, cwQueue, cwJob,
  cwAnswer, cwBegun, cwSent, cwCalls, cwEdits, cwCrashes

cwVars == <<cwSite, cwWire, cwArgs, cwConsumed, cwMarkers, cwQueue, cwJob,
  cwAnswer, cwBegun, cwSent, cwCalls, cwEdits, cwCrashes>>

CW == INSTANCE CrowdmarkWrite WITH Requests <- cwRequests,
  Submits <- cwSubmits, actionOf <- cwActionOf, Questions <- cwQuestions,
  TextQuestions <- cwTextQuestions, changes <- cwChanges, Foreign <- cwForeign,
  MaxPending <- cwMaxPending, MaxMarkers <- cwMaxMarkers,
  MaxCalls <- cwMaxCalls, MaxEdits <- cwMaxEdits, MaxCrashes <- cwMaxCrashes,
  site <- cwSite, wire <- cwWire, args <- cwArgs, consumed <- cwConsumed,
  markers <- cwMarkers, queue <- cwQueue, job <- cwJob, answer <- cwAnswer,
  begun <- cwBegun, sent <- cwSent, calls <- cwCalls, edits <- cwEdits,
  crashes <- cwCrashes

\* Photos uploaded for them.
CONSTANTS cfTickets, cfMaxRows, cfMaxCrashes
ASSUME FilesAssumption == cfMaxRows \in Nat
VARIABLES cfFiles, cfTorn, cfExpired, cfClosed, cfTask, cfReady, cfCrashes

cfVars == <<cfFiles, cfTorn, cfExpired, cfClosed, cfTask, cfReady, cfCrashes>>

CF == INSTANCE CrowdmarkFiles WITH Tickets <- cfTickets, MaxRows <- cfMaxRows,
  MaxCrashes <- cfMaxCrashes, files <- cfFiles, torn <- cfTorn, expired <- cfExpired,
  closed <- cfClosed, task <- cfTask, ready <- cfReady, crashes <- cfCrashes

\* The Racket workspaces: agents, the owner's page and the runner.
CONSTANTS rwWorkspaces, rwAgents, rwOwnersPage, rwMaxWorkspaces, rwMaxTexts,
  rwMaxRevision, rwMaxRuns, rwMaxCrashes
ASSUME WorkspacesAssumption ==
  rwMaxTexts \in Nat /\ rwMaxRuns \in Nat /\ rwOwnersPage \notin rwAgents
VARIABLES rwDisk, rwLocked, rwJob, rwConsumed, rwPosted, rwRunning, rwLost,
  rwPage, rwTexts, rwRuns, rwCrashes

rwVars == <<rwDisk, rwLocked, rwJob, rwConsumed, rwPosted, rwRunning, rwLost,
  rwPage, rwTexts, rwRuns, rwCrashes>>

RW == INSTANCE RacketWorkspace WITH Workspaces <- rwWorkspaces,
  Agents <- rwAgents, Page <- rwOwnersPage, MaxWorkspaces <- rwMaxWorkspaces,
  MaxTexts <- rwMaxTexts, MaxRevision <- rwMaxRevision, MaxRuns <- rwMaxRuns,
  MaxCrashes <- rwMaxCrashes, disk <- rwDisk, locked <- rwLocked, job <- rwJob,
  consumed <- rwConsumed, posted <- rwPosted, running <- rwRunning,
  lost <- rwLost, page <- rwPage, texts <- rwTexts, runs <- rwRuns,
  crashes <- rwCrashes

-----------------------------------------------------------------------------
(* One component runs; the variables of the others are 0. *)

Parts == {"approvals", "write", "files", "racket"}

AllInit ==
  /\ part \in Parts /\ Init
  /\ \/ part = "write" /\ CW!Init
     \/ part # "write" /\ cwSite = 0 /\ cwWire = 0 /\ cwArgs = 0 /\
        cwConsumed = 0 /\ cwMarkers = 0 /\ cwQueue = 0 /\ cwJob = 0 /\
        cwAnswer = 0 /\ cwBegun = 0 /\ cwSent = 0 /\ cwCalls = 0 /\
        cwEdits = 0 /\ cwCrashes = 0
  /\ \/ part = "files" /\ CF!Init
     \/ part # "files" /\ cfFiles = 0 /\ cfTorn = 0 /\ cfExpired = 0 /\ cfClosed = 0 /\
        cfTask = 0 /\ cfReady = 0 /\ cfCrashes = 0
  /\ \/ part = "racket" /\ RW!Init
     \/ part # "racket" /\ rwDisk = 0 /\ rwLocked = 0 /\ rwJob = 0 /\
        rwConsumed = 0 /\ rwPosted = 0 /\ rwRunning = 0 /\ rwLost = 0 /\
        rwPage = 0 /\ rwTexts = 0 /\ rwRuns = 0 /\ rwCrashes = 0

ApprovalsStep ==
  part = "approvals" /\ Next /\ UNCHANGED <<part, cwVars, cfVars, rwVars>>

WriteStep ==
  part = "write" /\ CW!Next /\ UNCHANGED <<part, vars, cfVars, rwVars>>

FilesStep ==
  part = "files" /\ CF!Next /\ UNCHANGED <<part, vars, cwVars, rwVars>>

RacketStep ==
  part = "racket" /\ RW!Next /\ UNCHANGED <<part, vars, cwVars, cfVars>>

AllNext ==
  \/ ApprovalsStep \/ WriteStep \/ FilesStep \/ RacketStep

allVars == <<part, vars, cwVars, cfVars, rwVars>>

AllSpec == AllInit /\ [][AllNext]_allVars

-----------------------------------------------------------------------------

\* Values stay in their types, in every component.
WritesTyped ==
  CASE part = "approvals" -> TypeOK
    [] part = "write" -> CW!TypeOK
    [] part = "files" -> CF!TypeOK
    [] part = "racket" -> RW!TypeOK

\* crowdmark.mjs: an action is carried out once, over retries, a second approval,
\* unknown outcomes and kills; a submission is what the owner reviewed.
NeverReplayed == part = "write" => CW!NeverReplayed /\ CW!SubmittedAsReviewed

\* crowdmark.mjs: "changed" means that nothing was sent, "saved" that everything
\* is stored and no earlier page is lost.
AnswersAreTrue ==
  [][part = "write" => CW!ChangedIsUntouched /\ CW!SavedIsStored]_allVars

\* crowdmark-files.mjs: an upload answered "ready" can be used until it expires.
ReadyIsReadable == part = "files" => CF!ReadyIsReadable

\* racket-workspace.mjs, racket.js: no save replaces a text its author has not seen.
NothingUnseenIsReplaced ==
  [][part = "racket" => RW!NothingUnseenIsReplaced]_allVars

\* racket-workspace.mjs: an approved run finds the runner free, and the output kept
\* with a text is that text's.
RunsAreSound == part = "racket" => RW!RunnerIsFree /\ RW!OutputIsOfItsText

=============================================================================
