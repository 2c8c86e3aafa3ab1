\* Two clients of one key, one with a clock far ahead, no token; the owner restores
\* backups.
CONSTANTS
  a = a  b = b  c = c  k1 = k1  k2 = k2  k3 = k3
  Clients = {a, b}
  Keys = {k1}
  Ops = {"put", "get", "delete"}
  Offset <- FarAhead
  Skew = 1
  Slack = 1
  Token = FALSE
  Cap = 0
  SweepEvery = 2
  Restores = TRUE
  MaxTime = 3
  MaxLate = 0
  NoRow = NoRow  NoRequest = NoRequest  NoReply = NoReply
SYMMETRY SameKeys
CHECK_DEADLOCK FALSE
SPECIFICATION UsedSpec
PROPERTIES NoRollback FloorNotPoisoned
