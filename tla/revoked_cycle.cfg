\* Violation: a pass puts back the approval it listed before the payer revoked it.
SPECIFICATION SafetySpec
CONSTANTS
  Attempts = {i1, i2}
  Keys <- MCKeys
  NoKey = NoKey
  Amounts = {1}
  AskedCycles = {1, 2}
  SingleUse = FALSE
  Recurring = TRUE
  CycleAmount = 1
  CapCycles = 2
  SpendingCap = 2
  Transactional = TRUE
  Flows = {p1}
  MaxFaults = 0
  Approvals = {a1}
  MaxFailures = 2
PROPERTY NoCycleAfterRevocation
CHECK_DEADLOCK FALSE
