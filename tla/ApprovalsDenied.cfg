CONSTANTS
  Ids = {i1}
  Actions = {a1}
  Forms = {f1, f2}
  Calls = {c1}
  None = None
  MaxPosts = 2
  MaxCrashes = 0
SPECIFICATION Spec
PROPERTY DeniedIsRejected
CHECK_DEADLOCK FALSE
