SPECIFICATION Spec
CONSTANTS
  c1 = c1
  c2 = c2
  c3 = c3
  r1 = r1
  p1 = p1
  p2 = p2
  a = a
  b = b
  d = d
  e = e
  Calls = {c1, c2, c3}
  Removers = {r1}
  Procs = {p1}
  ProcOf <- OneProcess
  Models = {a, b, d, e}
  ModelOf <- OwnModels
  Need <- Prompts
  Want = 4
  Floor = 1
  Jit = 2
  Size <- Weights
  Capacity = 10
  Broken = {e}
  Residents <- AandD
  MaySwap = {c1, c2, c3}
  FileLocks = TRUE
  Impatient = {}
  Faults = {"unload", "chat"}
  None = None
PROPERTIES SwapRestores
CHECK_DEADLOCK FALSE
