------------------------------- MODULE Admission -------------------------------
(* The handlers of server.py that stand before a panel: whom a caller's words     *)
(* name, who of them can be asked, who merges, and what is refused at once.       *)
EXTENDS Council, Chain, Debate, Conference

CONSTANTS
  Lists,     \* the lists of names a caller may give: of a council, a hosted or
             \* a local one, a chain and a conference
  Slots,     \* the names a caller may give for one model
  Tiers,     \* and for a tier
  Candidates, \* the default bench of a conference
  Denials,   \* what the operator's denylist may be
  Gateways,  \* the hosts a hosted council may find
  Keyless,   \* the hosted models a local CLI answers
  OnBox      \* the models a local council has configured

\* Gateways: provider, configured, featured, key, codex, persisted.  featured is what
\* the catalog recommends, <<>> when it cannot be reached; ollama has neither a
\* catalog to ask nor a ladder of synthesizers.

\* The models a hosted council's names select.
Selected(given) == FirstSeen(Kept(given, Elements(given) \ {Blank}))

Words == UNION {Elements(names) : names \in Lists.council}

\* What the caller's lists come to are models, and names that are none.
ASSUME ListsAssumption ==
  /\ \A names \in Lists.council \cup {TierMembers(tier, <<>>) : tier \in Tiers} :
       Resolved(names) \in [recognized : Seq(Seats), unknown : Seq(Words)]
  /\ \A names \in Lists.hosted \cup {g.configured : g \in Gateways} \cup {g.featured : g \in Gateways} :
       Selected(names) \in Seq(Seats)
  /\ \A names \in Lists.local \cup {OnBox} : names \in Seq(Seats \cup {Blank})
  /\ \A names \in Lists.conference \cup {Candidates} : names \in Seq(Elements(names))

\* A denial is of models: a provider on the denylist stands for each of its own, and a
\* token that names neither turns nothing off.
ASSUME DenialsAssumption == \A denied \in Denials : \A k \in denied : Recognized(k)

\* is_disabled: a model is turned off whatever its spelling.
Disabled(k, denied) == \E d \in denied : Id(d) = Id(k)
TurnedOff(seats, denied) == {k \in seats : Disabled(k, denied)}

Reject(tool) == Return([tool |-> tool, status |-> "error", cleanup |-> {}], FALSE)
AsNamed(synth) == IF synth = None THEN "fable" ELSE Canonical(synth)
Acceptable(synth) == synth = None \/ Single(synth)

\* Every context_ref is missing, or the store cannot be read.
Unprepared ==
  /\ pc = "ask" /\ Reject("none")
  /\ UNCHANGED <<councilVars, chainVars, debateVars, conferenceVars>>

\* ask_council: the names, or else the tier's; none that is known is an error.
AskCouncil ==
  /\ pc = "ask"
  /\ \E names \in Lists.council, tier \in Tiers, synth \in Slots, denied \in Denials :
       LET r == Resolved(IF names = <<>> THEN TierMembers(tier, <<>>) ELSE names)
       IN IF Acceptable(synth) /\ r.recognized # <<>>
            THEN Convene(Elements(r.recognized), TurnedOff(Elements(r.recognized), denied), Len(r.unknown), FALSE,
                         AsNamed(synth), {})
            ELSE Reject("council") /\ UNCHANGED councilVars
  /\ UNCHANGED <<chainVars, debateVars, conferenceVars>>

\* Who merges a gateway's council: as asked, as configured, the codex CLI, the
\* gateway's own model, or Fable.
Adjudicator(synth, g) ==
  IF synth # None \/ g.provider = "ollama" THEN synth
  ELSE IF g.persisted # None THEN g.persisted
  ELSE IF g.codex THEN "codex"
  ELSE IF g.key THEN "gpt" ELSE "fable"

\* A council of one provider's models; without a key, only of those a local CLI
\* answers.
AskHostedCouncil ==
  /\ pc = "ask"
  /\ \E names \in Lists.hosted, synth \in Slots, g \in Gateways, denied \in Denials :
       LET given == IF names # <<>> THEN names
                    ELSE IF g.configured # <<>> THEN g.configured ELSE g.featured
           selected == Selected(given)
           reachable == g.provider = "ollama" \/ g.key \/ Elements(selected) \subseteq Keyless
       IN IF selected # <<>> /\ reachable /\ Acceptable(Adjudicator(synth, g))
            THEN Convene(Elements(selected), TurnedOff(Elements(selected), denied), 0, FALSE,
                         AsNamed(Adjudicator(synth, g)), {})
            ELSE Reject("council") /\ UNCHANGED councilVars
  /\ UNCHANGED <<chainVars, debateVars, conferenceVars>>

\* A council of LM Studio's models, one at a time; ids are as spelled.
AskLocalCouncil ==
  /\ pc = "ask"
  /\ \E names \in Lists.local, synth \in Slots, denied \in Denials, initial \in SUBSET Local :
       LET seats == Elements(IF names = <<>> THEN OnBox ELSE names) \ {Blank}
       IN IF seats # {} /\ Acceptable(synth)
            THEN Convene(seats, TurnedOff(seats, denied), 0, TRUE, AsNamed(synth), initial)
            ELSE Reject("council") /\ UNCHANGED councilVars
  /\ UNCHANGED <<chainVars, debateVars, conferenceVars>>

\* The stages in the order given; what is not known is left out.
AskChain ==
  /\ pc = "ask"
  /\ \E names \in Lists.chain :
       length' = Len(InOrder(IF names = <<>> THEN <<"minimax", "fable">> ELSE names).recognized)
  /\ Goto("chain")
  /\ UNCHANGED <<steps, councilVars, debateVars, conferenceVars>>

\* The three roles are one model each; the rounds are one or two.
AskDebate ==
  /\ pc = "ask"
  /\ \E roles \in [{"proposer", "opponent", "adjudicator"} -> Slots], n \in 0..3 :
       IF \A r \in DOMAIN roles : Acceptable(roles[r])
         THEN Goto("debate") /\ rounds' = IF n <= 1 THEN 1 ELSE 2
         ELSE Reject("debate") /\ UNCHANGED rounds
  /\ UNCHANGED <<turns, open, ruling, councilVars, chainVars, conferenceVars>>

\* The bench is of those that can be asked; who is denied was not asked for, who
\* cannot be reached or is not known was.  The default bench is of those candidates
\* that can be asked; what the client's picker returns is one more list of names.
AskConference ==
  /\ pc = "ask"
  /\ \E names \in Lists.conference, down \in SUBSET Elements(Oracles), denied \in Denials,
        n \in 0..(MaxOpen + 1), attack \in BOOLEAN, synth \in Slots :
       LET up(s) == Kept(s, Elements(s) \ (down \cup TurnedOff(Elements(s), denied)))
           asked == IF names = <<>> THEN up(Candidates) ELSE names
           r == Resolved(asked)
           seats == up(r.recognized)
           missing == {k \in Elements(r.recognized) : k \in down /\ ~Disabled(k, denied)}
       IN IF Len(seats) < 2 \/ ~Acceptable(synth)
            THEN Reject("conference") /\ UNCHANGED conferenceVars
            ELSE /\ Goto("blind")
                 /\ named' = asked /\ off' = {Id(k) : k \in denied} /\ bench' = seats
                 /\ plan' = [NoPlan EXCEPT !.rounds = IF n = 0 THEN 3 ELSE IF n > MaxOpen THEN MaxOpen ELSE n,
                                           !.attack = attack,
                                           !.missing = Len(r.unknown) + Cardinality(missing)]
                 /\ UNCHANGED <<script, speakers, premise, mapped>>
  /\ UNCHANGED <<councilVars, chainVars, debateVars>>

\* The operator leaves the client's picker; or the guard denies the topic.
LeaveConference ==
  /\ pc = "ask"
  /\ \E why \in {"cancelled", "refused"} : Return([tool |-> "conference", status |-> why], FALSE)
  /\ UNCHANGED <<councilVars, chainVars, debateVars, conferenceVars>>

AdmissionNext ==
  \/ Unprepared \/ AskCouncil \/ AskHostedCouncil \/ AskLocalCouncil \/ AskChain \/ AskDebate
  \/ AskConference \/ LeaveConference
=============================================================================
