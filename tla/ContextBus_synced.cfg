\* Two clients whose clocks agree with the daemon's write and read one key, where
\* requests may be handled long after their client gave up; or they write three keys
\* with a cap of two rows each, and a sweep every other put.
CONSTANTS
  a = a  b = b  c = c  k1 = k1  k2 = k2  k3 = k3
  Clients = {a, b}
  Keys = {k1, k2, k3}
  Ops = {"put", "get", "delete"}
  Offset <- Agreeing
  Skew = 1
  Slack = 1
  Token = TRUE
  Cap = 2
  SweepEvery = 2
  Restores = FALSE
  MaxTime = 3
  MaxLate = 1
  NoRow = NoRow  NoRequest = NoRequest  NoReply = NoReply
SYMMETRY Interchangeable
CHECK_DEADLOCK FALSE
SPECIFICATION UsedSpec
INVARIANTS HonestPeersServed
PROPERTIES AcknowledgedIsPublished
