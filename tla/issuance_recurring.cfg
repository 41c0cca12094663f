\* A recurring offer in the single-process store: the third cycle would break the spending cap.
SPECIFICATION Spec
CONSTANTS
  Attempts = {a1, a2, a3}
  Keys = {k1}
  NoKey = NoKey
  Amounts = {1, 2}
  AskedCycles = {0, 1, 2, 3}
  SingleUse = FALSE
  Recurring = TRUE
  CycleAmount = 2
  CapCycles = 3
  SpendingCap = 5
  Transactional = FALSE
  Procs = {p1}
  MaxFaults = 0
SYMMETRY AttemptSymmetry
INVARIANTS SequentialCycles CapsRespected LockExclusive
CHECK_DEADLOCK FALSE
