SPECIFICATION Spec
CONSTANTS
  Attempts = {a1, a2}
  Keys = {k1}
  NoKey = NoKey
  Amounts = {2}
  AskedCycles = {0}
  SingleUse = FALSE
  Recurring = FALSE
  CycleAmount = 0
  CapCycles = 0
  SpendingCap = 0
  Transactional = TRUE
  Flows = {f1, f2}
  Options <- MCOptions
  Units = {0, 1, 2, 3, 4}
  Worlds <- MCWorlds
  Amount = 2
  MaxFaults = 1
INVARIANTS TypeOK DryRunBeforeFunds
PROPERTIES SendsWhenItCan
CHECK_DEADLOCK FALSE
