CONSTANTS
  Attempt = {a1, a2, a3}
  Endpoints = 2
  Payloads = 1
  Threshold = 2
  Unlinked = Unlinked
  MaxCrashes = 1
SPECIFICATION Spec
SYMMETRY Symmetric
CHECK_DEADLOCK FALSE
INVARIANTS
  TypeOK
  DuplicatesWereUnheard
  OrdersAreAccountedFor
  BreakerTrips
