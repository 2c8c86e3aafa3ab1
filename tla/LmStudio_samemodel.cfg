SPECIFICATION FairSpec
CONSTANTS
  c1 = c1
  c2 = c2
  c3 = c3
  r1 = r1
  p1 = p1
  p2 = p2
  a = a
  b = b
  d = d
  e = e
  Calls = {c1, c2}
  Removers = {r1}
  Procs = {p1}
  ProcOf <- OneProcess
  Models = {a, b}
  ModelOf <- SameModel
  Need <- LongPrompts
  Want = 4
  Floor = 1
  Jit = 2
  Size <- Weights
  Capacity = 9
  Broken = {}
  Residents <- SmallA
  MaySwap = {c1}
  FileLocks = TRUE
  Impatient = {c1, c2}
  Faults = {"catalog", "chat", "load"}
  None = None
INVARIANTS BusyKept NoSilentTruncation
PROPERTIES WorkersEnd
CHECK_DEADLOCK FALSE
