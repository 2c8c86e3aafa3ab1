\* Two calls of one binary with one slot, one of them capped: a child may hold its
\* pipes for ever.
CONSTANTS
  c1 = c1  c2 = c2  g1 = g1
  Calls = {c1, c2}
  Gates = {g1}
  GateOf <- OneGate
  Limit = 1
  Timeout = 2
  Drain = 1
  PoolSize = 2
  Capped = {c2}
SPECIFICATION FairSpec
INVARIANTS SlotsConserved NoStray WallTime
PROPERTIES ImplementsSlotPool
