SPECIFICATION Spec
CONSTANTS
  Offers = {o1, o2}
  Recurring = {o2}
  None = None
  MaxInvoices = 2
  MaxClicks = 2
  MaxFaults = 2
INVARIANTS TypeOK
PROPERTIES MarksWhatWasShown ActivitySettles ButtonsComeBack
CHECK_DEADLOCK FALSE
