----------------------------- MODULE SlotPool -----------------------------
(***************************************************************************)
(* What a per-binary gate promises its callers: at most Limit of them are  *)
(* inside at once, a caller comes in at most once, and whoever is inside   *)
(* leaves.  A caller may also give up without ever coming in.  A Limit of  *)
(* zero or less is no gate at all.                                         *)
(***************************************************************************)
EXTENDS Integers, FiniteSets

CONSTANTS Calls, Gates, GateOf, Limit

VARIABLES
  inside,   \* the callers that hold a slot
  over      \* the callers that have left, or given up

poolVars == <<inside, over>>

Init == inside = {} /\ over = {}

Room(g) == Limit > 0 => Cardinality({c \in inside : GateOf[c] = g}) < Limit

Enter(c) ==
  /\ c \notin inside \cup over
  /\ Room(GateOf[c])
  /\ inside' = inside \cup {c}
  /\ UNCHANGED over

Exit(c) ==
  /\ c \in inside
  /\ inside' = inside \ {c}
  /\ over' = over \cup {c}

GiveUp(c) ==
  /\ c \notin inside \cup over
  /\ over' = over \cup {c}
  /\ UNCHANGED inside

Next == \E c \in Calls : Enter(c) \/ Exit(c) \/ GiveUp(c)

Spec == Init /\ [][Next]_poolVars

\* Whoever is inside leaves; nobody is promised to be let in.
FairSpec == Spec /\ \A c \in Calls : WF_poolVars(Exit(c))
=============================================================================
