CONSTANTS
  Calls = {c1, c2}
  Requests = {r1, r2}
  Slots = {t1}
  Parties = {p1, p2}
  NoSig = NoSig
  MaxCrashes = 1
  msDeliveries = {"d1", "d2"}
  msOwner = "owner"
  msMessages = {"small", "large"}
  msSize <- mailSizes
  msTrusted = {"large"}
  msMalformed = {}
  msMaxMessages = 2
  msMaxBytes = 2
  msNone = "none"
  msMaxOffers = 2
  msMaxForms = 1
  msMaxFaults = 1
  msMaxCrashes = 1
  cfTickets = {1, 2}
  cfMaxRows = 2
  cfMaxCrashes = 1
SPECIFICATION EndsSpec
INVARIANTS
  TypeOK
  SubmitAtMostOnce
  CancelAtMostOnce
  OneReservationPerSignature
  LiveIsJournalled
  ConfirmedIsHeld
PROPERTIES
  ImplementsLedger
  RequestsEnd
  ExpiredIsRemoved
CHECK_DEADLOCK FALSE
