------------------------------ MODULE Conference -------------------------------
(* ask_conference (conference.py, and its handler in server.py): a blind round   *)
(* of every seat, an attack on the premise the openings share, open rounds in    *)
(* which each seat reads the transcript so far, and a rapporteur's map of the    *)
(* disagreement.  Every call may yield nothing.                                  *)
EXTENDS Panel, Names

CONSTANTS
  LabelOf,  \* the model's label; two seats may have the same
  Budget,   \* how many turns a transcript may show (_TRANSCRIPT_BUDGET)
  MaxOpen   \* how many rounds a caller may ask for

VARIABLES
  named,    \* the names the caller used, or the default bench
  off,      \* the models on the denylist
  bench,    \* the seats that can be reached, in order
  plan,     \* rounds, attack: as asked for; missing: how many seats were not filled; floor: the
            \* round and turn; blind: how many turns of the script are kept whatever follows
  script,   \* the turns that said something: by, round, shown
  speakers, \* the seats that have said something, in order
  premise,  \* who attacks what the openings share, and who was said to assert it
  mapped    \* "none", "whole", "elided" or "failed"

conferenceVars == <<named, off, bench, plan, script, speakers, premise, mapped>>

NoPlan == [rounds |-> 0, attack |-> FALSE, missing |-> 0, floor |-> <<0, 0>>, blind |-> 0]

ConferenceInit ==
  /\ named = <<>> /\ off = {} /\ bench = <<>> /\ plan = NoPlan
  /\ script = <<>> /\ speakers = <<>> /\ premise = None /\ mapped = "none"

-----------------------------------------------------------------------------

\* Mutant of Speaking: two seats with one label are one speaker.
SpeakingByLabel(spoken, key) ==
  IF \E i \in DOMAIN spoken : LabelOf[spoken[i]] = LabelOf[key] THEN spoken ELSE Append(spoken, key)

\* Kept by key, "since two seats can share a label".
Speaking(spoken, key) ==
  IF \E i \in DOMAIN spoken : spoken[i] = key THEN spoken ELSE Append(spoken, key)

AllSpeaking(spoke) ==
  LET upTo[i \in 0 .. Len(spoke)] == IF i = 0 THEN <<>> ELSE Speaking(upTo[i - 1], spoke[i])
  IN upTo[Len(spoke)]

\* take: a turn goes on the transcript, or says nothing.
Take(key, round, shown, says) ==
  IF says THEN /\ script' = Append(script, [by |-> key, round |-> round, shown |-> shown])
               /\ speakers' = Speaking(speakers, key)
  ELSE UNCHANGED <<script, speakers>>

\* _render: the blind round is always kept, and of the rest the latest turns that
\* fit beside it, one at least.
Shown(turns) ==
  LET room == IF Budget > plan.blind THEN Budget - plan.blind ELSE 1
  IN {i \in DOMAIN turns : i <= plan.blind \/ i > Len(turns) - room}

\* The rounds after the blind one, or the map.
AfterBlind == IF plan.rounds >= 2 THEN "open" ELSE "map"

-----------------------------------------------------------------------------
(* The rounds. *)

\* Every seat is asked at once from the seed alone; the answers are committed in
\* the order of the bench.
BlindRound ==
  /\ pc = "blind"
  /\ \E say \in SUBSET Elements(bench) :
       LET spoke == Kept(bench, say)
       IN /\ speakers' = AllSpeaking(spoke)
          /\ script' = [i \in DOMAIN spoke |-> [by |-> spoke[i], round |-> 1, shown |-> {}]]
          /\ plan' = [plan EXCEPT !.blind = Len(spoke), !.floor = <<2, 1>>]
          /\ Goto(IF plan.attack /\ plan.rounds >= 2 /\ Len(spoke) >= 3 THEN "premise" ELSE AfterBlind)
  /\ UNCHANGED <<named, off, bench, premise, mapped>>

\* Who attacks: the first seat none of whose label was said to assert the premise;
\* the last seat, if all were, or if nobody was.
Attacker(asserted) ==
  LET others == {i \in DOMAIN speakers : LabelOf[speakers[i]] \notin asserted}
  IN speakers[IF asserted = {} \/ others = {} THEN Len(speakers)
              ELSE CHOOSE i \in others : \A j \in others : i <= j]

\* The rapporteur names the shared premise and who asserts it, or none.
NamePremise ==
  /\ pc = "premise"
  /\ \/ Goto("open") /\ UNCHANGED premise
     \/ /\ \E some \in SUBSET Elements(speakers) :
             premise' = [attacker |-> Attacker({LabelOf[k] : k \in some}), asserted |-> some]
        /\ Goto("attack")
  /\ UNCHANGED <<named, off, bench, plan, script, speakers, mapped>>

\* The attack, from the seed and the premise alone, counts as blind.
AttackPremise ==
  /\ pc = "attack"
  /\ \E says \in BOOLEAN : Take(premise.attacker, 1, {}, says)
  /\ plan' = [plan EXCEPT !.blind = Len(script')]
  /\ Goto("open")
  /\ UNCHANGED <<named, off, bench, premise, mapped>>

\* Each round begins one seat later than the last.
Speaker(round, turn) == bench[((turn + round - 2) % Len(bench)) + 1]

\* One seat after another, over what the transcript shows it.
OpenTurn ==
  /\ pc = "open"
  /\ LET round == plan.floor[1]
         turn == plan.floor[2]
         last == turn = Len(bench)
     IN /\ \E says \in BOOLEAN : Take(Speaker(round, turn), round, Shown(script), says)
        /\ plan' = [plan EXCEPT !.floor = IF last THEN <<round + 1, 1>> ELSE <<round, turn + 1>>]
        /\ IF last /\ round = plan.rounds THEN Goto("map") ELSE UNCHANGED panelVars
  /\ UNCHANGED <<named, off, bench, premise, mapped>>

Elided == Shown(script) # DOMAIN script

\* The handler's payload: who spoke of those asked for, and how the map was made.
Reported(how) ==
  LET asked == Len(bench) + plan.missing
      spoke == Len(speakers)
  IN IF script = <<>>
       THEN Return([tool |-> "conference", status |-> "error"], FALSE)
     ELSE Return([tool |-> "conference", status |-> "ok", quorum |-> <<spoke, asked>>,
                  degraded |-> spoke < asked, monologue |-> spoke < 2,
                  map |-> how \in {"whole", "elided"}, elided |-> how = "elided"], FALSE)

\* With two turns at least the rapporteur maps what it is shown, or fails.
Map ==
  /\ pc = "map"
  /\ mapped' \in IF Len(script) < 2 THEN {"none"}
                 ELSE {"failed", IF Elided THEN "elided" ELSE "whole"}
  /\ Reported(mapped')
  /\ UNCHANGED <<named, off, bench, plan, script, speakers, premise>>

ConferenceNext == BlindRound \/ NamePremise \/ AttackPremise \/ OpenTurn \/ Map

-----------------------------------------------------------------------------
(* What the conference promises. *)

\* "one that heard from fewer must not pass a monologue off as a full discussion",
\* and a map "written on less than that has to say so": every model the caller named,
\* by whatever name, and that the operator has not turned off, is on the transcript,
\* or the payload is degraded; and no map is without the blind round, "the only
\* independent evidence", nor taken for one of the whole discussion when it is not.
HeardAsAsked ==
  pc = "done" /\ payload.tool = "conference" /\ payload.status = "ok" =>
    LET asked == {Id(m) : m \in UNION {Meant(n) : n \in Elements(named)}} \ off
        heard == {Id(script[i].by) : i \in DOMAIN script}
        read == Shown(script)
    IN /\ payload.degraded <=> ~(asked \subseteq heard)
       /\ payload.monologue <=> Cardinality(heard) = 1
       /\ payload.map =>
            /\ {i \in DOMAIN script : script[i].round = 1} \subseteq read
            /\ payload.elided <=> read # DOMAIN script

\* "Prefer a seat that did NOT assert it": it is attacked by such a seat, where the
\* rapporteur has left one.
AttackedByAnother ==
  pc # "ask" /\ premise # None /\ premise.attacker \in premise.asserted
    => Elements(speakers) \subseteq premise.asserted
=============================================================================
