SPECIFICATION UnitsSpec
CONSTANTS
  MaxLost = 1
  MaxStart = 1
  MaxCellSel = 1
  BandSet <- MCBands
  OperSet = {0, 1}
  MaxNodes = 3
  OamTable <- MCTable
  OamUpsets = 2
  GsmLosses = 2
  GsmBacklog = 3
INVARIANTS
  TypeOK
  Supervised
  ReadyMeansHeard
  Retried
PROPERTIES
  RunsAsAsked
  NoticesSilence
  CellAsOrdered
  ScansServed
  StartsInSilence
CHECK_DEADLOCK FALSE
