\* Three requests on two sessions, any of four installations, both plans;
\* the ladder may be pinned.
CONSTANTS
  a1 = a1  a2 = a2  a3 = a3  s1 = s1  s2 = s2  top = top  floor = floor
  Sessions = {s1, s2}
  Asks = {a1, a2, a3}
  Candidates <- Ladder
  Transports <- AllTransports
  Plans <- BothPlans
  Served <- Installations
  Pins = {top}
  NoPin = NoPin  NoConv = NoConv  HttpMark = HttpMark  NoAsk = NoAsk
  MaxNeeds = 1
  Unnamed = {"cli"}
  DumpMayFail = FALSE
SYMMETRY Interchangeable
CHECK_DEADLOCK FALSE
SPECIFICATION Spec
INVARIANTS ConversationIsItsOwn NothingLost
