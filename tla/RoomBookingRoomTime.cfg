CONSTANTS
  Calls = {c1, c2}
  Requests = {r1, r2}
  Slots = {t1}
  Parties = {p1, p2}
  NoSig = NoSig
  MaxCrashes = 1
SPECIFICATION Spec
INVARIANT OneAttemptPerRoomTime
