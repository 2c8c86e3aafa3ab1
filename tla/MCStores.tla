------------------------------- MODULE MCStores -------------------------------
(* Instances of Stores for TLC. *)
EXTENDS Stores

CONSTANTS s1, s2, mine, nobodys, w1, w2, council, tracing, on, fable, glm, p1, p2, stats, a1, a2,
          b1, b2, b3, i1, i2, f1, f2, text1, text2, nomic, minilm

\* A question refers to one blob or to two.
OneOrTwo == {<<b1>>, <<b1, b2>>}

TwoFiles == <<f1, f2>>
==============================================================================
