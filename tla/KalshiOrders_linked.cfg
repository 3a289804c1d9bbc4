CONSTANTS
  Attempt = {a1}
  Endpoints = 1
  Payloads = 1
  Threshold = 1
  Unlinked = Unlinked
  MaxCrashes = 0
SPECIFICATION Spec
CHECK_DEADLOCK FALSE
INVARIANTS
  OrderIdLinked
