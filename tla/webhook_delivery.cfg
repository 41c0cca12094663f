\* Two background passes, one request, one edit, one drain cut short.
SPECIFICATION Spec
CONSTANTS
  Events = {e1}
  Hooks = {h1}
  Passes = {p1, p2}
  Requests = {r1}
  Operators = {o1}
  MaxAttempts = 2
  MaxRequests = 1
  MaxEdits = 1
  MaxDeaths = 1
  Transactional = TRUE
INVARIANTS TypeOK DeliveredWasAccepted PassesGiveUp
PROPERTY EveryDeliverySettles
CHECK_DEADLOCK FALSE
