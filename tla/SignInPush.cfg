SPECIFICATION Spec
CONSTANTS
  Logins = {"hand", "auto1", "auto2"}
  Automatic = {"auto1", "auto2"}
  NoLoginRun = "none"
  MaxFaults = 1
INVARIANT NoPushAfterAnother
CHECK_DEADLOCK FALSE
