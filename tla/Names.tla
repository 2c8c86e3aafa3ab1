-------------------------------- MODULE Names --------------------------------
(* How a caller names models (oracles.py): canonical tokens, aliases, groups    *)
(* that stand for several models, and the tokens of hosted models, of which     *)
(* two may spell the same id.                                                   *)
EXTENDS Integers, Sequences, FiniteSets

CONSTANTS
  Oracles,   \* KNOWN, in its order
  Excluded,  \* those no tier lists
  AliasOf,   \* other names of one model
  GroupOf,   \* names of several
  IdOf,      \* the hosted tokens, and the model each names
  Blank      \* a name of nothing but spaces

Hosted == DOMAIN IdOf
IsOracle(n) == \E i \in DOMAIN Oracles : Oracles[i] = n
Recognized(n) == IsOracle(n) \/ n \in Hosted
Elements(s) == {s[i] : i \in DOMAIN s}

Canonical(n) == IF n \in DOMAIN AliasOf THEN AliasOf[n] ELSE n
Id(t) == IF t \in Hosted THEN IdOf[t] ELSE t

\* Oracles, aliases, groups and hosted tokens are told apart, and a group is of
\* oracles (_validate_groups).
ASSUME NamesAssumption ==
  /\ Oracles \in Seq(Elements(Oracles)) /\ \A i, j \in DOMAIN Oracles : Oracles[i] = Oracles[j] => i = j
  /\ AliasOf \in [DOMAIN AliasOf -> Elements(Oracles)] /\ IdOf \in [Hosted -> Hosted]
  /\ \A g \in DOMAIN GroupOf : /\ GroupOf[g] \in Seq(Elements(GroupOf[g]))
                               /\ \A m \in Elements(GroupOf[g]) : IsOracle(Canonical(m))
  /\ Elements(Oracles) \cap Hosted = {}
  /\ Blank \notin Elements(Oracles) \cup Hosted \cup DOMAIN AliasOf \cup DOMAIN GroupOf

\* A loop that keeps those in S.
Kept(s, S) ==
  LET upTo[i \in 0 .. Len(s)] ==
        IF i = 0 THEN <<>> ELSE upTo[i - 1] \o IF s[i] \in S THEN <<s[i]>> ELSE <<>>
  IN upTo[Len(s)]

\* One that keeps the first that names each model.
FirstSeen(s) ==
  LET upTo[i \in 0 .. Len(s)] ==
        IF i = 0 THEN <<>>
        ELSE LET seen == upTo[i - 1]
             IN seen \o IF \E y \in Elements(seen) : Id(y) = Id(s[i]) THEN <<>> ELSE <<s[i]>>
  IN upTo[Len(s)]

\* expand_groups: as if the members had been typed.
Expanded(names) ==
  LET upTo[i \in 0 .. Len(names)] ==
        IF i = 0 THEN <<>>
        ELSE upTo[i - 1] \o IF names[i] \in DOMAIN GroupOf THEN GroupOf[names[i]] ELSE <<names[i]>>
  IN upTo[Len(names)]

Requested(names) ==
  LET typed == Kept(Expanded(names), Elements(Expanded(names)) \ {Blank})
  IN [i \in DOMAIN typed |-> Canonical(typed[i])]

\* resolve_ordered, for a chain: order and repeats matter.
InOrder(names) ==
  LET all == Requested(names)
      known == {n \in Elements(all) : Recognized(n)}
  IN [recognized |-> Kept(all, known), unknown |-> Kept(all, Elements(all) \ known)]

\* resolve, for a panel: each model once, the oracles first in KNOWN's order.
Resolved(names) ==
  LET all == InOrder(names)
  IN [recognized |-> Kept(Oracles, Elements(all.recognized)) \o FirstSeen(Kept(all.recognized, Hosted)),
      unknown |-> FirstSeen(all.unknown)]

\* tier_models, with the ollama models configured for a council.
TierMembers(tier, ollama) ==
  LET members == Kept(Oracles, Elements(Oracles) \ Excluded)
  IN IF tier \in DOMAIN GroupOf THEN GroupOf[tier]
     ELSE IF tier = "middle" THEN members
     ELSE IF tier = "full" THEN members \o ollama
     ELSE <<"fable", "minimax">>

\* A slot for one model takes no group (_resolve_synth_token, _resolve_one).
Single(n) == n \notin DOMAIN GroupOf /\ Recognized(Canonical(n))

\* What a name asks for.
Meant(n) ==
  IF n \in DOMAIN GroupOf THEN {Canonical(m) : m \in Elements(GroupOf[n])} ELSE {Canonical(n)} \ {Blank}
=============================================================================
