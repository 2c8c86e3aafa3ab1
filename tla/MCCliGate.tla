---------------------------- MODULE MCCliGate ----------------------------
(* Instances of CliGate for TLC. *)
EXTENDS CliGate

CONSTANTS c1, c2, g1

\* Everybody on one binary.
OneGate == [c \in Calls |-> g1]
=============================================================================
