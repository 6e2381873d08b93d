SPECIFICATION Spec
CONSTANTS
  Calls = {c1, c2}
  MaxPending = 2
  MaxLogins = 2
INVARIANT JarExpires
CHECK_DEADLOCK FALSE
