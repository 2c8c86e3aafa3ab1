\* Three calls of a laddered oracle about one question, each called directly or in a
\* fan-out of one slot; the breaker trips on two errors, quota holds are
\* switched on and off.
CONSTANTS
  c1 = c1  c2 = c2  c3 = c3  c4 = c4  q1 = q1  q2 = q2
  Calls = {c1, c2, c3}
  Window = 2
  MinSamples = 2
  ThrNum = 1  ThrDen = 2
  Cooldown = 1
  Switches = {TRUE}
  HoldBases = {0, 1}
  HoldMax = 1
  Jitter = 0
  StepMax = 1
  Questions = {q1}
  Names <- Ladder
  Reports = TRUE
  Slots = 1
  NoEntry = NoEntry
CHECK_DEADLOCK FALSE
SPECIFICATION RunFairSpec
INVARIANTS EveryAttemptRecordedOnce CacheTellsTheTruth OnlyAnswersJudge
PROPERTIES EveryQueuedCallEnds
