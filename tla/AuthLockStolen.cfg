SPECIFICATION Spec
CONSTANTS
  Procs = {a, b, c, d}
  NoOwner = NoOwner
  MaxAttempts = 3
  MaxDepth = 16
  MaxCalls = 2
  MaxCrashes = 2
CHECK_DEADLOCK FALSE
INVARIANT MutualExclusion
