SPECIFICATION AllSpec
CONSTANTS
  siLogins = {"hand", "auto1", "auto2"}
  siAutomatic = {"auto1", "auto2"}
  siNoLoginRun = "none"
  siMaxFaults = 1
  auRuns = {c1, c2}
  auMaxCounter = 2
  auMaxFaults = 1
  ssProcs = {c1, c2}
  ssKeys = {"k1", "k2"}
  ssMaxFaults = 1
  pwAccounts = {"a1", "a2"}
  pwSetups = {c1, c2}
  pwStarts = {"t1"}
  pwMaxFaults = 1
  c1 = c1
  c2 = c2
  s1 = s1
  Calls = {c1, c2}
  Servers = {s1}
  serverOf <- OnOneServer
  Owner = Owner
  MaxTokens = 3
  MaxLogins = 2
INVARIANTS
  AccountsTyped
  NobodyWaitsInVain
  OnlySavedTokensAreUsed
  DuoIsSpared
  SecretsSurvive
PROPERTY NewerLoginSurvives
SYMMETRY CallsAlike
CHECK_DEADLOCK FALSE
