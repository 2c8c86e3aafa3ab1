----------------------------- MODULE MCLmStudio -----------------------------
(* Instances of LmStudio for TLC.  Windows: the floor 1, LM Studio's own 2, the default *)
(* 4; weights of 2 units.                                                               *)
EXTENDS LmStudio

CONSTANTS c1, c2, c3, r1, p1, p2, a, b, d, e

Resident(m, ctx) == [model |-> m, id |-> 1, ctx |-> ctx, jit |-> FALSE]

OneProcess == [w \in Workers |-> p1]
RemoverApart == [w \in Workers |-> IF w \in Removers THEN p2 ELSE p1]

\* Two calls on model a, one of them with a long prompt, and its removal.
SameModel == [w \in Workers |-> a]
\* A call on model b, one on the resident a, one on e, and the removal of a.
OwnModels == [w \in Workers |-> IF w = c1 THEN b ELSE IF w = c3 THEN e ELSE a]

LongPrompts == [c \in Calls |-> 3]
Prompts == [c \in Calls |-> IF c = c1 THEN 3 ELSE 1]
Weights == [m \in Models |-> 2]

SmallA == {Resident(a, 2)}
OneA == {Resident(a, 3)}
\* Two residents besides the model that is asked for.
AandD == {Resident(a, 3), Resident(d, 3)}
=============================================================================
