\* One call of any kind, with two windows of four units of time; two lookups of two
\* models, one of them listed; two kimi calls of any two efforts.
CONSTANTS
  m1 = m1  m2 = m2  x = x  y = y  low = low  high = high  t1 = t1  t2 = t2
  None = None  Nobody = Nobody  NoModel = NoModel  NoConfig = NoConfig
  Timeout = 3
  Grace = 1
  Backoff = 1
  Window = 1
  Continuations = 1
  Failures <- SomeFailures
  Members = {m1, m2}
  Models = {x, y}
  Listed = {x}
  Refresh = 3
  Again = 1
  MaxTime = 5
  Spawns = {t1, t2}
  Efforts = {low, high}
  Versions = 1
CHECK_DEADLOCK FALSE
SPECIFICATION Spec
INVARIANTS NoFalseAnswer OneDeadline CountedAsLastMet RoutedAsAllowed OneDownloadPerWindow RunsItsOwnEffort
