SPECIFICATION Spec
CONSTANTS
  NumModems = 2
  Maker <- MCMaker
  UavStatuses = {"TAKEOFF"}
  MainStatuses = {"NORMAL", "GOBACK"}
  Confs <- MCConfs
  InPlace = FALSE
  MaxDatagrams = 2
  MaxCommits = 1
  AtReliable = TRUE
  MayRoam = FALSE
  SweepFitsDelay = TRUE
  StatusHolds = TRUE
  LaunchFitsDelay = TRUE
INVARIANTS TypeOK NoUseAfterClose CacheCoherent
PROPERTIES NoSweepStartsWhileSwitching RowMatchesHeader SwitchReachesModems
