\* The passes of a worker race with an operator over one record.
SPECIFICATION WorkSpec
CONSTANTS
  Attempts = {a1}
  Keys = {}
  NoKey = NoKey
  Amounts = {1}
  AskedCycles = {0}
  SingleUse = FALSE
  Recurring = FALSE
  CycleAmount = 1
  CapCycles = 0
  SpendingCap = 0
  Transactional = TRUE
  Writers = {w1, w2}
  Workers = {w1}
  Posted = {}
  MaxDeaths = 1
PROPERTIES SyncConverges PaymentAnnounced
CHECK_DEADLOCK FALSE
