\* A process that has crashed takes no further step.
SPECIFICATION Spec
CONSTANTS
  NumModems = 2
  Maker <- MCMaker
  UavStatuses = {"TAKEOFF"}
  MainStatuses = {"GOBACK"}
  Confs <- MCConfs
  InPlace = FALSE
  MaxDatagrams = 1
  MaxCommits = 1
  AtReliable = TRUE
  MayRoam = FALSE
  SweepFitsDelay = FALSE
  StatusHolds = TRUE
  LaunchFitsDelay = TRUE
PROPERTIES OnlyEdgeRowsMayDiffer
CHECK_DEADLOCK FALSE
