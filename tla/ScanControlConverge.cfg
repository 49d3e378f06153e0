SPECIFICATION FairSpec
CONSTANTS
  NumModems = 1
  Maker <- MCMakerYuga
  UavStatuses = {"OTHER"}
  MainStatuses = {"NORMAL", "GOBACK"}
  Confs <- MCConfsHoles
  InPlace = FALSE
  MaxDatagrams = 1
  MaxCommits = 1
  AtReliable = TRUE
  MayRoam = FALSE
  SweepFitsDelay = TRUE
  StatusHolds = TRUE
  LaunchFitsDelay = TRUE
PROPERTIES ModeConverges
