SPECIFICATION Spec
CONSTANTS
  NumModems = 1
  Maker <- MCMakerYuga
  UavStatuses = {"TAKEOFF"}
  MainStatuses = {"NORMAL", "GOBACK"}
  Confs <- MCConfsPoor
  InPlace = FALSE
  MaxDatagrams = 1
  MaxCommits = 1
  AtReliable = TRUE
  MayRoam = FALSE
  SweepFitsDelay = TRUE
  StatusHolds = TRUE
  LaunchFitsDelay = TRUE
INVARIANTS OperModeIs4GOr3G
