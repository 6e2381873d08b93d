SPECIFICATION AllFairSpec
CONSTANTS
  acCalls = {"c1", "c2"}
  acBookmarks = {"next"}
  acFirstPage = "first"
  acCapacity = 1
  acMaxAttempts = 2
  hoUsers = {"u1", "u2", "u3"}
  hoRivals = {{"u2", "u3"}}
  hoCommands = {"c1", "c2"}
  dlCalls = {"c1", "c2"}
  dlMaxCopies = 2
  dlMaxCrashes = 1
  dlOwner = "owner"
  trIds = {"i1", "i2"}
  trCalls = {"c1", "c2"}
  trMaxPending = 1
  Procs = {a, b, c, d}
  NoOwner = NoOwner
  MaxAttempts = 2
  MaxDepth = 16
  MaxCalls = 1
  MaxCrashes = 2
INVARIANTS
  LockTyped
  HolderIsNamed
  LoneAcquisitionSucceeds
  LoginsAndRateHold
  FilesAreWhole
PROPERTY WhatBeginsEnds
CHECK_DEADLOCK FALSE
