SPECIFICATION FairSpec
CONSTANTS
  NumModems = 1
  Maker <- MCMaker1
  UavStatuses = {"OTHER", "TAKEOFF", "LANDED_NORMAL"}
  MainStatuses = {"NORMAL"}
  Confs <- MCConf4G
  InPlace = FALSE
  MaxDatagrams = 4
  MaxCommits = 0
  AtReliable = TRUE
  MayRoam = FALSE
  SweepFitsDelay = TRUE
  StatusHolds = TRUE
  LaunchFitsDelay = TRUE
INVARIANTS QuietOnGround ClockLag
PROPERTIES StatusAcked
