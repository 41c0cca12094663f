\* A recurring offer in the single-process store, whose cycles fail and are replaced; one handler at a time writes statuses.
SPECIFICATION SafetySpec
CONSTANTS
  Attempts = {a1, a2, a3}
  Keys = {}
  NoKey = NoKey
  Amounts = {1}
  AskedCycles = {0}
  SingleUse = FALSE
  Recurring = TRUE
  CycleAmount = 1
  CapCycles = 3
  SpendingCap = 2
  Transactional = FALSE
  Writers = {w1}
  Posted = {"invoice_failed"}
  MaxDeaths = 1
SYMMETRY AttemptSymmetry
INVARIANTS TypeOK CapsRespected  StatusesAnnounced
PROPERTY TerminalFrozen
CHECK_DEADLOCK FALSE
