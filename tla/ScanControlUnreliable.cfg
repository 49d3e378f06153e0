SPECIFICATION Spec
CONSTANTS
  NumModems = 1
  Maker <- MCMakerYuga
  UavStatuses = {"TAKEOFF"}
  MainStatuses = {"GOBACK"}
  Confs <- MCConfsPoor
  InPlace = FALSE
  MaxDatagrams = 1
  MaxCommits = 0
  AtReliable = FALSE
  MayRoam = TRUE
  SweepFitsDelay = TRUE
  StatusHolds = TRUE
  LaunchFitsDelay = TRUE
INVARIANTS ScanArmedInFlight
