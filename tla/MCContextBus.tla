------------------------- MODULE MCContextBus -------------------------
(* Instances of ContextBus for TLC, and two uses of it in one run. *)
EXTENDS ContextBus, TLC

CONSTANTS a, b, c, k1, k2, k3

\* Clocks that agree; clocks the skew window tolerates; a clock far ahead.
Agreeing == [x \in Clients |-> 0]
WithinSkew == [x \in Clients |-> IF x = a THEN 1 ELSE IF x = b THEN -1 ELSE 0]
FarAhead == [x \in Clients |-> IF x = a THEN 3 ELSE 0]
\* Clients with the same clock, and keys, are interchangeable.
Interchangeable == Permutations(Clients) \cup Permutations(Keys)
SameKeys == Permutations(Keys)

---------------------------------------------------------------------
\* Two ways to use the bus: any operation on one key, or nothing but puts, on all keys,
\* no longer and never late.
Uses ==
  {[ops |-> Ops, keys |-> {k}, late |-> MaxLate, until |-> MaxTime] : k \in Keys}
    \cup {[ops |-> {"put"}, keys |-> Keys, late |-> 0, until |-> MaxTime - 1]}

VARIABLE use

Within ==
  /\ \A x \in Clients : req[x] # NoRequest => req[x].op \in use.ops /\ req[x].key \in use.keys
  /\ Cardinality(late) <= use.late /\ now <= use.until

\* What a step keeps to.
In == UNCHANGED use /\ Within'

UsedInit == Init /\ use \in Uses

UsedNext ==
  \/ \E x \in Clients :
       \/ \E op \in Ops, k \in Keys : Send(x, op, k) /\ In
       \/ Serve(x) /\ In
       \/ Receive(x) /\ In
       \/ GiveUp(x) /\ In
  \/ \E r \in late : ServeLate(r) /\ In
  \/ Restart /\ In
  \/ TakeBackup /\ In
  \/ Restore /\ In
  \/ Tick /\ In

UsedSpec == UsedInit /\ [][UsedNext]_<<vars, use>>
=============================================================================
