CONSTANTS
  small = small
  large = large
  spam = spam
  Messages <- TwoMessages
  Size <- Sizes
  Deliveries = {d1, d2}
  Owner = Owner
  Trusted = {small, large}
  Malformed = {}
  MaxMessages = 2
  MaxBytes = 2
  None = None
  MaxOffers = 2
  MaxForms = 0
  MaxFaults = 0
  MaxCrashes = 1
SPECIFICATION Spec
INVARIANT OlderIsDeleted
CHECK_DEADLOCK FALSE
