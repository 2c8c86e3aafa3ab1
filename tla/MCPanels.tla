------------------------------ MODULE MCPanels -------------------------------
(* Instances of Panels for TLC. *)
EXTENDS Panels

CONSTANTS a, b, g, G

\* Anthropic's models are of one lab.
Labs3 == [s \in Seats |-> IF s \in {"fable", "fable51", "opus"} THEN "one" ELSE "other"]

\* Fable's ladder is at 5.1.
Labels == [s \in Seats |-> IF s = "fable51" THEN "fable" ELSE s]

Known == <<"fable", "fable51", "opus", "minimax">>
Alias == [n \in {"m3"} |-> "minimax"]
Twin == [n \in {"twin"} |-> <<"fable", "opus">>]
Ids == [t \in {a, b, g, G} |-> IF t = G THEN g ELSE t]

Three == <<"fable", "opus", "minimax">>
Both == <<a, b>>

AllLists ==
  [council |-> {<<>>, <<"twin", "m3">>, <<"m3", "minimax", "fable">>, <<"fable", "nobody">>,
                <<" ", "nobody">>, <<a, "opus">>},
   hosted |-> {<<>>, <<g, G>>, <<" ">>},
   local |-> {<<>>, <<b, b>>, <<" ">>},
   chain |-> {<<>>, <<"twin", "fable">>, <<"m3", "nobody">>, <<"nobody">>},
   conference |-> {<<>>, <<"fable51", "twin">>, <<"fable", "m3", "nobody">>, <<g, G, "opus">>, <<"m3", "minimax">>}]

Hosts ==
  [provider : {"ollama"}, configured : {<<g>>}, featured : {<<>>}, key : {TRUE}, codex : BOOLEAN, persisted : {None}]
    \cup [provider : {"atlas"}, configured : {<<>>}, featured : {<<>>, <<g>>}, key : BOOLEAN, codex : BOOLEAN,
          persisted : {None, "opus", "nobody"}]

\* The answers of a chain's stage or a debater that make a difference there.
FewVoices == {r \in Replies : r.rec \in {"apply", "reject"} /\ (r.conf = "low" => r.whole)}
==============================================================================
