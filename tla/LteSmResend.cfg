SPECIFICATION Spec
CONSTANTS
  MaxLost = 1
  MaxStart = 1
  MaxCellSel = 1
PROPERTY ResentAsSent
