\* Two overlapping passes over one approval of two cycles, with failures and a revocation.
SPECIFICATION Spec
CONSTANTS
  Attempts = {i1, i2, i3}
  Keys <- MCKeys
  NoKey = NoKey
  Amounts = {1}
  AskedCycles = {1, 2}
  SingleUse = FALSE
  Recurring = TRUE
  CycleAmount = 1
  CapCycles = 2
  SpendingCap = 2
  Transactional = TRUE
  Flows = {p1, p2}
  MaxFaults = 1
  Approvals = {a1}
  MaxFailures = 2
INVARIANTS TypeOK PaidInOrder ConsentKept
PROPERTY EveryApprovalEnds
CHECK_DEADLOCK FALSE
