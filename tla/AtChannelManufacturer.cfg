SPECIFICATION Spec
CONSTANTS
  Threads = {control}
  Modems = {m1}
  Patterns <- MCManu
  TryCount = 3
  PollCount = 3
  BufLen = 4
  MaxExchanges = 1
  MaxRestarts = 0
  MayRefuse = FALSE
  Overlap = FALSE
  Timely = TRUE
  control = control
  m1 = m1
PROPERTY ReadEndsOnAnswer
CHECK_DEADLOCK FALSE
