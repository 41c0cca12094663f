\* A single-use offer, two processes over PostgreSQL, one fault: the promise of the book and progress.
SPECIFICATION Spec
CONSTANTS
  Attempts = {a1, a2}
  Keys = {k1}
  NoKey = NoKey
  Amounts = {1, 2}
  AskedCycles = {0}
  SingleUse = TRUE
  Recurring = FALSE
  CycleAmount = 1
  CapCycles = 0
  SpendingCap = 0
  Transactional = TRUE
  Procs = {p1, p2}
  MaxFaults = 1
INVARIANTS TypeOK SingleUseOnce AnswersBacked IdempotentAnswers ReservationsOwned
PROPERTIES KeepsBook EveryRequestAnswered
CHECK_DEADLOCK FALSE
