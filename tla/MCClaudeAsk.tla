--------------------------- MODULE MCClaudeAsk ---------------------------
(* Instances of ClaudeAsk for TLC. *)
EXTENDS ClaudeAsk, TLC

CONSTANTS a1, a2, a3, s1, s2, top, floor

Ladder == <<top, floor>>

BothPlans == {<<"sdk", "cli">>, <<"http">>}
AllTransports == {"sdk", "cli", "http"}

\* An up-to-date host, one that only knows the floor, one whose CLI is older than
\* its SDK, and one that accepts neither model.
Installations ==
  {AllTransports \X {top, floor},
   AllTransports \X {floor},
   {<<"sdk", top>>, <<"sdk", floor>>, <<"cli", floor>>, <<"http", top>>},
   {}}

Interchangeable == Permutations(Asks) \cup Permutations(Sessions)
=============================================================================
