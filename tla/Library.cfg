SPECIFICATION LibSpec
CONSTANTS
  Events = {heartbeat, startup}
  None = None
  Times = {3, 4}
  TimerEvents = 4
  OwnDelete = FALSE
  heartbeat = heartbeat
  startup = startup
  Wrap = 1196
  MaxPosts = 2
  Items = {one, two}
  NoItem = NoItem
  one = one
  two = two
  MsgNum = 3
  Nodes = {one, two, three}
  three = three
  HeadNode = HeadNode
  Null = Null
  Clients = {one, two, three}
  NoClient = NoClient
  ConnSlots = 2
  MaxUnread = 1
  SimFaults = 1
  Keys = {"udpPort", "uartPort"}
  Values = {1, 2, 65537}
  Words = {1}
  NoValue = 0
  CfgFiles <- MCFiles
  CfgWrites = 2
  MaxItems = 2
  TryCount = 2
  MaxFailed = 1
  ScanModems = 2
  Levels = {0, 31, 96, 97, 99, 255}
  CellReports <- MCReports
  ParaUpdates <- MCUpdates
INVARIANTS
  LibraryInOrder
  OneFresh
  StatusTrue
  RowsTrue
  RightCell
PROPERTIES
  FiresOnTime
  DeleteSilences
  Kept
  ScansResume
  RingIsQueue
  Received
  CardsApart
  FileKeepsValues
  Recovers
