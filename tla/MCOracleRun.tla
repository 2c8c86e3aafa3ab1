--------------------------- MODULE MCOracleRun ---------------------------
(* Instances of OracleRun for TLC. *)
EXTENDS OracleRun, TLC

CONSTANTS c1, c2, c3, c4, q1, q2

\* The Fable ladder of two ids.
Ladder == <<"top", "floor">>

Interchangeable == Permutations(Calls)
=============================================================================
