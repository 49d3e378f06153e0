SPECIFICATION Spec
CONSTANTS
  Threads = {control, sampler}
  Modems = {m1, m2}
  Patterns <- MCOnlyOk
  TryCount = 3
  PollCount = 3
  BufLen = 4
  MaxExchanges = 3
  MaxRestarts = 1
  MayRefuse = TRUE
  Overlap = FALSE
  Timely = TRUE
  control = control
  sampler = sampler
  m1 = m1
  m2 = m2
INVARIANTS
  TypeOK
  VerdictTrue
PROPERTY Promise
CHECK_DEADLOCK FALSE
