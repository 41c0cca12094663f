\* Violation: a late synchronisation takes a paid record back to received.
SPECIFICATION SafetySpec
CONSTANTS
  Attempts = {a1}
  Keys = {}
  NoKey = NoKey
  Amounts = {1}
  AskedCycles = {0}
  SingleUse = FALSE
  Recurring = FALSE
  CycleAmount = 1
  CapCycles = 0
  SpendingCap = 0
  Transactional = TRUE
  Writers = {w1, w2}
  Posted = {}
  MaxDeaths = 0
PROPERTY TerminalFrozen
CHECK_DEADLOCK FALSE
