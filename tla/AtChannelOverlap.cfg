SPECIFICATION FairSpec
CONSTANTS
  Threads = {control, sampler}
  Modems = {m1}
  Patterns <- MCOnlyOk
  TryCount = 2
  PollCount = 2
  BufLen = 2
  MaxExchanges = 2
  MaxRestarts = 0
  MayRefuse = FALSE
  Overlap = TRUE
  Timely = FALSE
  control = control
  sampler = sampler
  m1 = m1
PROPERTIES
  NoWriteDuringRead
  ExchangeEnds
CHECK_DEADLOCK FALSE
