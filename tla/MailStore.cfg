CONSTANTS
  gcCalls = {"c1", "c2"}
  gcImports = {"i1", "i2"}
  gcMaxWorkers = 3
  rcBatches = {"b1", "b2"}
  rcRequests <- batchRequests
  rcKeys = {"k1", "k2"}
  rcPerBatch = 2
  rcMaxBatches = 1
  rcConcurrency = 1
  bpReaders = {1, 2, 3}
  bpMaxBrowsers = 3
  shCalls = {1, 2, 3}
  shMaxPending = 2
  shMaxLogins = 3
  psReads = {"r1", "r2"}
  psForms = {"f1", "f2"}
  psAccountOf <- formAccounts
  psNoAccount = "none"
  psMaxPending = 2
  psMaxCrashes = 1
  csMaxLogins = 4
  csForeign = {3}
  roLibraries = {"l1", "l2"}
  roReaders = {"r1"}
  roBookers = {"b1"}
  roSlots = 3
  roMaxChanges = 1
  poAgents = {"a1", "a2"}
  poCommands = {"m1", "m2"}
  poRequests = {1, 2}
  poLimit = 1
  poWindow = 1
  poMaxTime = 1
  poMaxKills = 1
  small = small
  large = large
  spam = spam
  Messages <- ThreeMessages
  Size <- Sizes
  Deliveries = {d1, d2}
  Owner = Owner
  Trusted = {small, large}
  Malformed = {}
  MaxMessages = 2
  MaxBytes = 2
  None = None
  MaxOffers = 3
  MaxForms = 1
  MaxFaults = 1
  MaxCrashes = 1
SPECIFICATION AllSpec
INVARIANTS
  ReadersTyped
  AckedIsKept
  ListsAreSound
  RoomsCanBeBooked
  NewSessionIsUsed
  NobodyIsLeftOver
  AccessIsCurrent
PROPERTY ImplementsMailbox
CHECK_DEADLOCK FALSE
