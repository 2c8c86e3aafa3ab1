----------------------------- MODULE PanelsProofs -----------------------------
(* What holds of every panel, for any seats, labs, answers, claims and names.         *)
EXTENDS Panels, FiniteSetTheorems, SequenceTheorems, WellFoundedInduction, TLAPS

CouncilPlaces == {"council", "asking", "synth", "conclude"}
ChainPlaces == {"chain", "stage", "rescue"}
DebatePlaces == {"debate"} \cup Awaited
ConferencePlaces == {"blind", "premise", "attack", "open", "map"}

-----------------------------------------------------------------------------
(* One tool at a time: what a handler does not do leaves its state alone, and does    *)
(* not end where another's begins.                                                    *)

\* A payload is told once, and nothing is kept before.
OutInv == pc # "done" => payload = None /\ stored = FALSE

\* The handler is at one of these places, and goes on there or returns a payload.
Within(places, tool) ==
  /\ pc \in places /\ pc' \in places \cup {"done"}
  /\ pc' # "done" => UNCHANGED <<payload, stored>>
  /\ pc' = "done" => payload'.tool = tool

\* The threads that outlive their seats' turns.
Threads == \E s \in Seats : Chats(s) \/ \E done \in BOOLEAN : Loads(s, done)

LEMMA ChainWithin == ChainNext => Within(ChainPlaces, "chain")
  BY DEF ChainNext, ChainOpen, Stage, ChainTimesOut, ChainRescue, Delivered, Goto, Return,
         Within, ChainPlaces, panelVars

LEMMA ConferenceWithin == ConferenceNext => Within(ConferencePlaces, "conference")
<1>1. \A how : Reported(how) => pc' = "done" /\ payload'.tool = "conference"
  BY DEF Reported, Return
<1> QED
  BY <1>1 DEF ConferenceNext, BlindRound, NamePremise, AttackPremise, OpenTurn, Map, AfterBlind,
         Goto, Within, ConferencePlaces, panelVars

LEMMA DebateWithin == DebateNext => Within(DebatePlaces, "debate")
<1>1. \A at, r, c : Finish(at, r, c) => pc' = "done" /\ payload'.tool = "debate"
  BY DEF Finish, Return
<1>2. \A at, r, c : Settle(at, r, c) => pc' = "done" /\ payload'.tool = "debate"
  BY <1>1 DEF Settle
<1>3. \A c, r : Adjudicate(c, r) => pc' = "adjudicate" /\ UNCHANGED <<payload, stored>>
  BY DEF Adjudicate, Goto
<1> QED
  BY <1>2, <1>3 DEF DebateNext, DebateOpen, Propose, Refute, Revise, Rebut, Rule, DebateTimesOut,
         Goto, Return, Within, DebatePlaces, Awaited, panelVars

\* What the answers are worth is told, or the synthesis is next.
LEMMA WeighEnds ==
  ASSUME NEW all, Weigh(all)
  PROVE  /\ pc' \in {"done", "synth"} /\ (pc' # "done" => UNCHANGED <<payload, stored>>)
         /\ pc' = "done" => payload'.tool = "council" /\ stored' = FALSE
         /\ Cardinality(Ok(all)) \notin {0, 1} => pc' = "synth"
         /\ Cardinality(Ok(all)) = 0 => payload'.status # "ok"
         /\ Cardinality(Ok(all)) = 1 => payload' = Verdict(all, None, FALSE, {})
         /\ pc' = "synth" => Cardinality(Ok(all)) \notin {0, 1}
<1> DEFINE n == Cardinality(Ok(all))
<1>1. CASE n = 0
  <2>1. \E status \in {"refused", "error"} :
          Return([tool |-> "council", status |-> status, cleanup |-> {}], FALSE)
    BY <1>1 DEF Weigh
  <2> QED
    BY <1>1, <2>1 DEF Return
<1>2. CASE n = 1
  <2>0. n # 0
    BY <1>2
  <2>1. Return(Verdict(all, None, FALSE, {}), FALSE)
    BY <2>0, <1>2 DEF Weigh
  <2>2. Verdict(all, None, FALSE, {}).tool = "council"
    BY DEF Verdict
  <2> QED
    BY <1>2, <2>0, <2>1, <2>2 DEF Return
<1>3. CASE n \notin {0, 1}
  <2>1. Goto("synth")
    BY <1>3 DEF Weigh
  <2> QED
    BY <1>3, <2>1 DEF Goto
<1> QED
  BY <1>1, <1>2, <1>3

\* Of the council, all but the threads and a seat's own end.
LEMMA CouncilWithin ==
  CouncilNext => \/ Within(CouncilPlaces, "council")
                 \/ Threads
                 \/ \E s \in Seats : FreeSeat(s) \/ TurnTimesOut(s)
<1> SUFFICES ASSUME CouncilNext, ~Threads, ~\E s \in Seats : FreeSeat(s) \/ TurnTimesOut(s)
             PROVE  Within(CouncilPlaces, "council")
  OBVIOUS
<1>1. CASE Harvest
  BY <1>1, WeighEnds DEF Harvest, Within, CouncilPlaces
<1>2. CASE Conclude
  <2>1. pc = "conclude" /\ \E by, cut, keep : Return(Verdict(answers, by, cut, left'), keep)
    BY <1>2 DEF Conclude
  <2>2. \A by, cut : Verdict(answers, by, cut, left').tool = "council"
    BY DEF Verdict
  <2> QED
    BY <2>1, <2>2 DEF Return, Within, CouncilPlaces
<1> QED
  BY <1>1, <1>2 DEF CouncilNext, Open, SynthFails, SynthAnswers, MemberEnds, BeginTurn,
         Goto, Return, Within, CouncilPlaces, Threads, panelVars

-----------------------------------------------------------------------------
(* The council's panel and its answers. *)

\* Who was asked is a finite set, no larger than what was asked for; only they answer,
\* nobody before the panel is asked and everybody before the synthesis, which takes
\* two at least.  A seat has its turn only while the panel is asked one at a time.
CouncilInv ==
  /\ IsFiniteSet(request.panel) /\ request.requested \in Nat
  /\ Cardinality(request.panel) <= request.requested
  /\ DOMAIN answers \subseteq request.panel
  /\ \A s \in DOMAIN answers : answers[s] \in Replies \cup Failures
  /\ pc \in {"ask", "council"} => DOMAIN answers = {}
  /\ turn # None => pc = "asking" /\ request.sequential
  /\ pc \in {"synth", "conclude"} => DOMAIN answers = request.panel /\ Cardinality(Ok(answers)) >= 2

\* What a caller's names come to is finite, and so is who is asked of them.
LEMMA Convened ==
  ASSUME NEW seats \in SUBSET Seats, NEW denied, NEW unknown \in Nat, NEW sequential, NEW synth,
         NEW initial, Convene(seats, denied, unknown, sequential, synth, initial)
  PROVE  /\ IsFiniteSet(request'.panel) /\ request'.requested \in Nat
         /\ Cardinality(request'.panel) <= request'.requested
         /\ UNCHANGED <<answers, turn, payload, stored>> /\ pc' = "council"
<1>1. IsFiniteSet(seats \ denied)
  BY CouncilAssumption, FS_Subset
<1>2. Cardinality(seats \ denied) \in Nat
  BY <1>1, FS_CardinalityType
<1>3. request'.panel = seats \ denied /\ request'.requested = Cardinality(seats \ denied) + unknown
  BY DEF Convene
<1> QED
  BY <1>1, <1>2, <1>3 DEF Convene, Goto

LEMMA ElementsOfSeq == ASSUME NEW S, NEW q \in Seq(S) PROVE Elements(q) \subseteq S /\ Len(q) \in Nat
  BY DEF Elements

\* The merger of a panel asked one at a time is one that a slot names.
Convening ==
  \E seats \in SUBSET Seats, unknown \in Nat : \E denied, sequential, synth, initial :
    /\ Convene(seats, denied, unknown, sequential, synth, initial)
    /\ sequential => \E slot \in Slots : synth = AsNamed(slot)

\* Every way to a council convenes some seats, one at a time only where they are
\* LM Studio's.
LEMMA AskConvenes ==
  ASSUME AskCouncil \/ AskHostedCouncil \/ AskLocalCouncil
  PROVE  pc = "ask" /\ ((Reject("council") /\ UNCHANGED councilVars) \/ Convening)
<1>1. CASE AskCouncil
  <2>1. PICK names \in Lists.council, tier \in Tiers, synth \in Slots, denied \in Denials :
          LET r == Resolved(IF names = <<>> THEN TierMembers(tier, <<>>) ELSE names)
          IN IF Acceptable(synth) /\ r.recognized # <<>>
               THEN Convene(Elements(r.recognized), TurnedOff(Elements(r.recognized), denied), Len(r.unknown), FALSE, AsNamed(synth), {})
               ELSE Reject("council") /\ UNCHANGED councilVars
    BY <1>1 DEF AskCouncil
  <2> DEFINE r == Resolved(IF names = <<>> THEN TierMembers(tier, <<>>) ELSE names)
  <2>2. r.recognized \in Seq(Seats) /\ r.unknown \in Seq(Words)
    BY ListsAssumption
  <2>3. Elements(r.recognized) \in SUBSET Seats /\ Len(r.unknown) \in Nat
    BY <2>2, ElementsOfSeq
  <2>4. \/ Convene(Elements(r.recognized), TurnedOff(Elements(r.recognized), denied), Len(r.unknown), FALSE, AsNamed(synth), {})
        \/ Reject("council") /\ UNCHANGED councilVars
    BY <2>1
  <2> HIDE DEF r
  <2>6. CASE Convene(Elements(r.recognized), TurnedOff(Elements(r.recognized), denied), Len(r.unknown), FALSE, AsNamed(synth), {})
    <3>1. pc = "ask" /\ Elements(r.recognized) \in SUBSET Seats /\ Len(r.unknown) \in Nat
      BY <2>3, <1>1 DEF AskCouncil
    <3>2. Convening
      BY <2>6, <3>1, Zenon DEF Convening
    <3> QED
      BY <3>1, <3>2
  <2> QED
    BY <1>1, <2>4, <2>6 DEF AskCouncil
<1>2. CASE AskHostedCouncil
  <2>1. PICK names \in Lists.hosted, synth \in Slots, g \in Gateways, denied \in Denials :
          LET given == IF names # <<>> THEN names
                       ELSE IF g.configured # <<>> THEN g.configured ELSE g.featured
              selected == Selected(given)
              reachable == g.provider = "ollama" \/ g.key \/ Elements(selected) \subseteq Keyless
          IN IF selected # <<>> /\ reachable /\ Acceptable(Adjudicator(synth, g))
               THEN Convene(Elements(selected), TurnedOff(Elements(selected), denied), 0, FALSE, AsNamed(Adjudicator(synth, g)), {})
               ELSE Reject("council") /\ UNCHANGED councilVars
    BY <1>2 DEF AskHostedCouncil
  <2> DEFINE given == IF names # <<>> THEN names
                      ELSE IF g.configured # <<>> THEN g.configured ELSE g.featured
  <2>2. given \in Lists.hosted \cup {h.configured : h \in Gateways} \cup {h.featured : h \in Gateways}
    OBVIOUS
  <2>3. Selected(given) \in Seq(Seats)
    BY <2>2, ListsAssumption
  <2>4. Elements(Selected(given)) \in SUBSET Seats
    BY <2>3, ElementsOfSeq
  <2>5. \/ Convene(Elements(Selected(given)), TurnedOff(Elements(Selected(given)), denied), 0, FALSE, AsNamed(Adjudicator(synth, g)), {})
        \/ Reject("council") /\ UNCHANGED councilVars
    BY <2>1
  <2> HIDE DEF given
  <2>6. CASE Convene(Elements(Selected(given)), TurnedOff(Elements(Selected(given)), denied), 0, FALSE, AsNamed(Adjudicator(synth, g)), {})
    <3>1. pc = "ask" /\ Elements(Selected(given)) \in SUBSET Seats /\ 0 \in Nat
      BY <2>4, <1>2 DEF AskHostedCouncil
    <3>2. Convening
      BY <2>6, <3>1, Zenon DEF Convening
    <3> QED
      BY <3>1, <3>2
  <2> QED
    BY <1>2, <2>5, <2>6 DEF AskHostedCouncil
<1>3. CASE AskLocalCouncil
  <2>1. PICK names \in Lists.local, synth \in Slots, denied \in Denials, initial \in SUBSET Local :
          LET seats == Elements(IF names = <<>> THEN OnBox ELSE names) \ {Blank}
          IN IF seats # {} /\ Acceptable(synth)
               THEN Convene(seats, TurnedOff(seats, denied), 0, TRUE, AsNamed(synth), initial)
               ELSE Reject("council") /\ UNCHANGED councilVars
    BY <1>3 DEF AskLocalCouncil
  <2> DEFINE seats == Elements(IF names = <<>> THEN OnBox ELSE names) \ {Blank}
  <2>2. (IF names = <<>> THEN OnBox ELSE names) \in Seq(Seats \cup {Blank})
    BY ListsAssumption
  <2>3. seats \in SUBSET Seats
    BY <2>2, ElementsOfSeq
  <2>4. \/ Convene(seats, TurnedOff(seats, denied), 0, TRUE, AsNamed(synth), initial)
        \/ Reject("council") /\ UNCHANGED councilVars
    BY <2>1
  <2> HIDE DEF seats
  <2>6. CASE Convene(seats, TurnedOff(seats, denied), 0, TRUE, AsNamed(synth), initial)
    <3>1. pc = "ask" /\ seats \in SUBSET Seats /\ 0 \in Nat
      BY <2>3, <1>3 DEF AskLocalCouncil
    <3>2. Convening
      BY <2>6, <3>1, Zenon DEF Convening
    <3> QED
      BY <3>1, <3>2
  <2> QED
    BY <1>3, <2>4, <2>6 DEF AskLocalCouncil
<1> QED
  BY <1>1, <1>2, <1>3

\* The other ways in leave the council alone, and go on to their tool or refuse.
Elsewhere ==
  /\ pc = "ask" /\ pc' \in {"done", "chain", "debate", "blind"} /\ UNCHANGED councilVars
  /\ pc' # "done" => UNCHANGED <<payload, stored>>
  /\ pc' = "done" => payload'.status # "ok" /\ stored' = FALSE

LEMMA AdmissionEnds == AdmissionNext => Elsewhere \/ (pc = "ask" /\ Convening)
<1> SUFFICES ASSUME AdmissionNext PROVE Elsewhere \/ (pc = "ask" /\ Convening)
  OBVIOUS
<1>1. \A tool : Reject(tool) => pc' = "done" /\ payload'.status # "ok" /\ stored' = FALSE
  BY DEF Reject, Return
<1>2. CASE AskCouncil \/ AskHostedCouncil \/ AskLocalCouncil
  <2>1. pc = "ask" /\ ((Reject("council") /\ UNCHANGED councilVars) \/ Convening)
    BY <1>2, AskConvenes
  <2>2. CASE Reject("council") /\ UNCHANGED councilVars
    <3>1. Elsewhere
      BY <1>1, <2>1, <2>2 DEF Elsewhere
    <3> QED
      BY <3>1
  <2> QED
    BY <2>1, <2>2
<1>3. Unprepared \/ AskChain \/ LeaveConference => Elsewhere
  BY <1>1 DEF Unprepared, AskChain, LeaveConference, Goto, Return, Elsewhere
<1>4. AskDebate => Elsewhere
  BY <1>1 DEF AskDebate, Goto, Elsewhere
<1>5. AskConference => Elsewhere
  BY <1>1 DEF AskConference, Goto, Elsewhere
<1> QED
  BY <1>2, <1>3, <1>4, <1>5 DEF AdmissionNext

-----------------------------------------------------------------------------
(* The steps of the council keep its invariant. *)

LEMMA CouncilInvInit == Init => CouncilInv
<1> SUFFICES ASSUME Init PROVE CouncilInv
  OBVIOUS
<1>1. request.panel = {} /\ request.requested = 0 /\ DOMAIN answers = {} /\ turn = None /\ pc = "ask"
  BY DEF Init, CouncilInit
<1> QED
  BY <1>1, FS_EmptySet DEF CouncilInv

\* What leaves the council's state alone, away from its places.
LEMMA CouncilKept ==
  ASSUME CouncilInv, UNCHANGED <<request, answers, turn>>, pc # "asking",
         pc' = pc \/ pc' \notin CouncilPlaces \cup {"ask"}
  PROVE  CouncilInv'
<1>1. Ok(answers)' = Ok(answers)
  BY DEF Ok
<1> QED
  BY <1>1 DEF CouncilInv, CouncilPlaces

LEMMA ConvenedInv ==
  ASSUME CouncilInv, pc = "ask", Convening
  PROVE  CouncilInv'
<1>1. PICK seats \in SUBSET Seats, unknown \in Nat :
        \E denied, sequential, synth, initial : Convene(seats, denied, unknown, sequential, synth, initial)
  BY DEF Convening
<1>2. PICK denied, sequential, synth, initial : Convene(seats, denied, unknown, sequential, synth, initial)
  BY <1>1
<1>3. /\ IsFiniteSet(request'.panel) /\ request'.requested \in Nat
      /\ Cardinality(request'.panel) <= request'.requested
      /\ UNCHANGED <<answers, turn>> /\ pc' = "council"
  BY <1>2, Convened
<1> QED
  BY <1>3 DEF CouncilInv

\* One more seat of the panel answers.
LEMMA AnswerKeeps ==
  ASSUME CouncilInv, pc = "asking", NEW s \in Pending, NEW r \in Replies \cup Failures,
         answers' = With(s, r), UNCHANGED <<pc, request>>,
         turn' # None => request.sequential
  PROVE  CouncilInv'
<1>1. /\ DOMAIN answers' = DOMAIN answers \cup {s} /\ s \in request.panel /\ answers'[s] = r
      /\ \A x \in DOMAIN answers : x # s => answers'[x] = answers[x]
  BY DEF With, Pending
<1> QED
  BY <1>1 DEF CouncilInv

\* The answers are all in.
LEMMA WeighKeeps ==
  ASSUME CouncilInv, Weigh(answers'), DOMAIN answers' = request.panel, UNCHANGED request,
         \A s \in request.panel : answers'[s] \in Replies \cup Failures, turn' = None
  PROVE  CouncilInv'
<1>1. Ok(answers') \subseteq request.panel
  BY DEF Ok
<1>2. Cardinality(Ok(answers')) \in Nat
  BY <1>1, FS_Subset, FS_CardinalityType DEF CouncilInv
<1>3. pc' \in {"done", "synth"} /\ (pc' = "synth" => Cardinality(Ok(answers')) \notin {0, 1})
  BY WeighEnds
<1>4. pc' = "synth" => Cardinality(Ok(answers')) >= 2
  BY <1>2, <1>3
<1>5. Ok(answers)' = Ok(answers')
  BY DEF Ok
<1> QED
  BY <1>3, <1>4, <1>5 DEF CouncilInv

LEMMA FailureTyped == Failed("error") \in Replies \cup Failures /\ Failures \subseteq Replies \cup Failures
  BY DEF Failures

LEMMA ThreadsKeep ==
  ASSUME CouncilInv, Threads
  PROVE  CouncilInv' /\ UNCHANGED <<panelVars, request, merger, left>> /\ (pc # "asking" => UNCHANGED answers)
<1>1. PICK s \in Seats : Chats(s) \/ \E done \in BOOLEAN : Loads(s, done)
  BY DEF Threads
<1>2. UNCHANGED <<panelVars, request, turn, merger, left>>
  BY <1>1 DEF Chats, Loads
<1>3. \/ UNCHANGED answers
      \/ turn = s /\ s \in Pending /\ \E r \in Replies \cup Failures : answers' = With(s, r)
  BY <1>1, FailureTyped DEF Chats, Loads
<1>4. turn = s => pc = "asking" /\ request.sequential
  BY CouncilAssumption DEF CouncilInv
<1>5. CASE UNCHANGED answers
  <2>1. Ok(answers)' = Ok(answers)
    BY <1>5 DEF Ok
  <2>2. CouncilInv'
    BY <1>2, <1>5, <2>1 DEF CouncilInv, panelVars
  <2> QED
    BY <1>2, <1>5, <2>2
<1>6. CASE turn = s /\ s \in Pending /\ \E r \in Replies \cup Failures : answers' = With(s, r)
  BY <1>2, <1>4, <1>6, AnswerKeeps DEF panelVars
<1> QED
  BY <1>3, <1>5, <1>6

LEMMA FreeSeatKeeps ==
  ASSUME CouncilInv, NEW s \in Seats, FreeSeat(s)
  PROVE  CouncilInv'
<1>1. turn = s /\ turn' = None /\ UNCHANGED <<request, answers, merger>>
  BY DEF FreeSeat
<1>2. pc = "asking" /\ request.sequential
  BY <1>1, CouncilAssumption DEF CouncilInv
<1>3. CASE Pending = {}
  <2>1. Weigh(answers') /\ DOMAIN answers' = request.panel
    BY <1>1, <1>3 DEF FreeSeat, Pending, CouncilInv
  <2> QED
    BY <1>1, <2>1, WeighKeeps DEF CouncilInv
<1>4. CASE Pending # {}
  <2>1. UNCHANGED panelVars
    BY <1>4 DEF FreeSeat
  <2> QED
    BY <1>1, <1>2, <2>1 DEF CouncilInv, panelVars
<1> QED
  BY <1>3, <1>4

LEMMA CouncilNextKeeps == CouncilInv /\ CouncilNext => CouncilInv'
<1> SUFFICES ASSUME CouncilInv, CouncilNext PROVE CouncilInv'
  OBVIOUS
<1>1. CASE Open
  <2>1. pc = "council" /\ pc' \in {"done", "asking"} /\ UNCHANGED councilVars
    BY <1>1 DEF Open, Goto, Return
  <2>2. Ok(answers)' = Ok(answers) /\ UNCHANGED <<request, answers, turn>>
    BY <2>1 DEF Ok, councilVars, box
  <2> QED
    BY <2>1, <2>2 DEF CouncilInv
<1>2. CASE Harvest
  <2>1. /\ pc = "asking" /\ ~request.sequential /\ Weigh(answers') /\ UNCHANGED <<request, turn>>
        /\ answers' = [s \in request.panel |-> IF s \in Pending THEN Failed("error") ELSE answers[s]]
    BY <1>2 DEF Harvest, box
  <2>2. DOMAIN answers' = request.panel /\ \A s \in request.panel : answers'[s] \in Replies \cup Failures
    BY <2>1, FailureTyped DEF CouncilInv, Pending
  <2>3. turn' = None
    BY <2>1 DEF CouncilInv
  <2> QED
    BY <2>1, <2>2, <2>3, WeighKeeps
<1>3. CASE SynthFails \/ SynthAnswers \/ Conclude
  <2>1. pc \in {"synth", "conclude"} /\ pc' \in {"synth", "conclude", "done"} /\ UNCHANGED <<request, answers, turn>>
    BY <1>3 DEF SynthFails, SynthAnswers, Conclude, Goto, Return, panelVars
  <2>2. Ok(answers)' = Ok(answers)
    BY <2>1 DEF Ok
  <2> QED
    BY <2>1, <2>2 DEF CouncilInv
<1>4. ASSUME NEW s \in Seats, MemberEnds(s) PROVE CouncilInv'
  <2>1. /\ pc = "asking" /\ s \in Pending /\ UNCHANGED <<pc, request, turn>>
        /\ \E r \in Replies \cup Failures : answers' = With(s, r)
    BY <1>4 DEF MemberEnds, panelVars, box
  <2>2. turn' # None => request.sequential
    BY <2>1 DEF CouncilInv
  <2> QED
    BY <2>1, <2>2, AnswerKeeps
<1>5. ASSUME NEW s \in Seats, BeginTurn(s) PROVE CouncilInv'
  <2>1. pc = "asking" /\ request.sequential /\ s \in Pending /\ UNCHANGED <<pc, request>>
    BY <1>5 DEF BeginTurn, panelVars
  <2>2. CASE UNCHANGED answers
    BY <2>1, <2>2 DEF CouncilInv
  <2>3. CASE \E r \in Replies \cup Failures : answers' = With(s, r)
    BY <2>1, <2>3, AnswerKeeps
  <2> QED
    BY <1>5, <2>2, <2>3 DEF BeginTurn
<1>6. ASSUME NEW s \in Seats, TurnTimesOut(s) PROVE CouncilInv'
  <2>1. turn = s /\ s \in Pending /\ answers' = With(s, Failed("error")) /\ UNCHANGED <<pc, request, turn>>
    BY <1>6 DEF TurnTimesOut, panelVars, box
  <2>2. pc = "asking" /\ request.sequential
    BY <2>1, CouncilAssumption DEF CouncilInv
  <2> QED
    BY <2>1, <2>2, FailureTyped, AnswerKeeps
<1> QED
  BY <1>1, <1>2, <1>3, <1>4, <1>5, <1>6, ThreadsKeep, FreeSeatKeeps DEF CouncilNext, Threads

\* Of whatever is done, the council's part.
LEMMA CouncilInvNext == CouncilInv /\ [Next]_vars => CouncilInv'
<1> SUFFICES ASSUME CouncilInv, [Next]_vars PROVE CouncilInv'
  OBVIOUS
<1>1. CASE AdmissionNext
  BY <1>1, AdmissionEnds, ConvenedInv, CouncilKept DEF Elsewhere, councilVars, box, CouncilPlaces
<1>2. CASE CouncilNext
  BY <1>2, CouncilNextKeeps
<1>3. CASE ChainNext /\ UNCHANGED councilVars
  BY <1>3, ChainWithin, CouncilKept DEF Within, ChainPlaces, CouncilPlaces, councilVars, box
<1>4. CASE DebateNext /\ UNCHANGED councilVars
  BY <1>4, DebateWithin, CouncilKept DEF Within, DebatePlaces, Awaited, CouncilPlaces, councilVars, box
<1>5. CASE ConferenceNext /\ UNCHANGED councilVars
  BY <1>5, ConferenceWithin, CouncilKept DEF Within, ConferencePlaces, CouncilPlaces, councilVars, box
<1>6. CASE UNCHANGED vars
  <2>1. UNCHANGED <<pc, request, answers, turn>> /\ Ok(answers)' = Ok(answers)
    BY <1>6 DEF vars, panelVars, councilVars, box, Ok
  <2> QED
    BY <2>1 DEF CouncilInv
<1> QED
  BY <1>1, <1>2, <1>3, <1>4, <1>5, <1>6 DEF Next

-----------------------------------------------------------------------------
(* What is told is told at the end, and stands. *)

\* A seat's end is told by the panel's, or nothing is.
LEMMA SeatEnds ==
  ASSUME NEW s \in Seats, FreeSeat(s) \/ TurnTimesOut(s)
  PROVE  /\ turn = s /\ (pc' # "done" => UNCHANGED <<payload, stored>>)
         /\ pc' # pc => pc' \in {"done", "synth"} /\ (pc' = "done" => payload'.tool = "council" /\ stored' = FALSE)
<1>1. CASE FreeSeat(s)
  <2>1. turn = s /\ (Weigh(answers) \/ UNCHANGED panelVars)
    BY <1>1 DEF FreeSeat
  <2> QED
    BY <2>1, WeighEnds DEF panelVars
<1>2. CASE TurnTimesOut(s)
  BY <1>2 DEF TurnTimesOut, panelVars
<1> QED
  BY <1>1, <1>2

LEMMA AfterDone ==
  ASSUME CouncilInv, pc = "done", [Next]_vars
  PROVE  UNCHANGED <<panelVars, request, answers, merger, left, turns, steps, length, conferenceVars>>
<1>1. CASE AdmissionNext
  BY <1>1, AdmissionEnds DEF Elsewhere
<1>2. CASE CouncilNext /\ UNCHANGED <<chainVars, debateVars, conferenceVars>>
  <2>1. turn = None
    BY DEF CouncilInv
  <2>2. Threads
    BY <1>2, <2>1, CouncilWithin, SeatEnds, CouncilAssumption DEF Within, CouncilPlaces
  <2> QED
    BY <1>2, <2>2, ThreadsKeep DEF chainVars, debateVars
<1>3. CASE ChainNext
  BY <1>3, ChainWithin DEF Within, ChainPlaces
<1>4. CASE DebateNext
  BY <1>4, DebateWithin DEF Within, DebatePlaces, Awaited
<1>5. CASE ConferenceNext
  BY <1>5, ConferenceWithin DEF Within, ConferencePlaces
<1>6. CASE UNCHANGED vars
  BY <1>6 DEF vars, panelVars, councilVars, box, chainVars, debateVars, conferenceVars
<1> QED
  BY <1>1, <1>2, <1>3, <1>4, <1>5, <1>6 DEF Next

LEMMA OutInvNext == CouncilInv /\ OutInv /\ [Next]_vars => OutInv'
<1> SUFFICES ASSUME CouncilInv, OutInv, [Next]_vars PROVE OutInv'
  OBVIOUS
<1>1. pc = "done" => UNCHANGED panelVars
  BY AfterDone
<1>2. ASSUME pc # "done", pc' # "done" PROVE UNCHANGED <<payload, stored>>
  <2>1. CASE AdmissionNext
    <3>1. Convening => UNCHANGED <<payload, stored>>
      BY Convened DEF Convening
    <3> QED
      BY <1>2, <2>1, <3>1, AdmissionEnds DEF Elsewhere
  <2>2. CASE CouncilNext
    BY <1>2, <2>2, CouncilWithin, SeatEnds, ThreadsKeep DEF Within, panelVars
  <2>3. CASE ChainNext \/ DebateNext \/ ConferenceNext
    BY <1>2, <2>3, ChainWithin, DebateWithin, ConferenceWithin DEF Within
  <2>4. CASE UNCHANGED vars
    BY <2>4 DEF vars, panelVars
  <2> QED
    BY <2>1, <2>2, <2>3, <2>4 DEF Next
<1> QED
  BY <1>1, <1>2 DEF OutInv, panelVars

LEMMA PanelInvariant == Spec => [](CouncilInv /\ OutInv)
<1>1. Init => OutInv
  BY DEF Init, OutInv
<1> QED
  BY <1>1, CouncilInvInit, CouncilInvNext, OutInvNext, PTL DEF Spec

-----------------------------------------------------------------------------
(* The box is left as it was found. *)

\* A load under way is of the seat whose turn it is; the merger is the one asked for,
\* or Fable; and on the box is only what was there, what is known to be left, the
\* seat whose turn it is, and a merger.
BoxInv ==
  /\ DOMAIN thread = Seats
  /\ \A s \in Seats : thread[s] = "loading" => turn = s
  /\ pc \in {"council", "asking", "synth"} => merger.by \in {request.synth, "fable"}
  /\ request.sequential => \E slot \in Slots : request.synth = AsNamed(slot)
  /\ request.sequential =>
       resident \subseteq request.initial \cup left \cup ({turn} \cap Seats) \cup ({request.synth} \cap Local)

LEMMA BoxInvInit == Init => BoxInv
  BY CouncilAssumption DEF Init, CouncilInit, BoxInv

\* A council's box is as it is found.
LEMMA ConvenedBox ==
  ASSUME BoxInv, Convening, turn = None, \A s \in Seats : thread[s] # "loading"
  PROVE  BoxInv'
<1>1. PICK seats \in SUBSET Seats, unknown \in Nat :
        \E denied, sequential, synth, initial :
          /\ Convene(seats, denied, unknown, sequential, synth, initial)
          /\ sequential => \E slot \in Slots : synth = AsNamed(slot)
  BY DEF Convening
<1>2. PICK denied, sequential, synth, initial :
        /\ Convene(seats, denied, unknown, sequential, synth, initial)
        /\ sequential => \E slot \in Slots : synth = AsNamed(slot)
  BY <1>1
<1>3. /\ merger'.by = synth /\ request'.synth = synth /\ request'.initial = initial
      /\ request'.sequential = sequential
      /\ resident' = initial /\ UNCHANGED <<turn, thread>>
  BY <1>2 DEF Convene
<1>4. request'.sequential => \E slot \in Slots : request'.synth = AsNamed(slot)
  BY <1>2, <1>3
<1>5. resident' \subseteq request'.initial
  BY <1>3
<1> QED
  BY <1>3, <1>4, <1>5 DEF BoxInv

\* What leaves the box, the request and the merger alone.
LEMMA BoxKept ==
  ASSUME BoxInv, UNCHANGED <<request, box, merger>>,
         pc' = pc \/ pc' \notin {"council", "asking", "synth"} \/ pc \in {"council", "asking"}
  PROVE  BoxInv'
  BY DEF BoxInv, box

LEMMA WeighBox == ASSUME NEW all, Weigh(all) PROVE pc' \in {"done", "synth"}
  BY WeighEnds

LEMMA BoxNext ==
  ASSUME CouncilInv, BoxInv, CouncilNext
  PROVE  BoxInv'
<1>1. CASE Open
  BY <1>1, BoxKept DEF Open, councilVars
<1>2. CASE Harvest
  BY <1>2, BoxKept DEF Harvest
<1>3. CASE SynthFails
  <2>1. merger.by \in {request.synth, "fable"} /\ pc' \in {"synth", "conclude"}
    BY <1>3 DEF SynthFails, BoxInv, Goto, panelVars
  <2>2. pc' = "synth" => merger'.by = "fable"
    BY <1>3 DEF SynthFails, Goto
  <2>3. \E ran \in {FALSE, merger.by \in Local} : resident' = IF ran THEN resident \cup {merger.by} ELSE resident
    BY <1>3 DEF SynthFails
  <2>4. resident' \subseteq resident \cup ({request.synth} \cap Local)
    BY <2>1, <2>3, CouncilAssumption
  <2> QED
    BY <1>3, <2>1, <2>2, <2>4 DEF BoxInv, SynthFails
<1>4. CASE SynthAnswers
  <2>1. merger.by \in {request.synth, "fable"} /\ pc' = "conclude"
    BY <1>4 DEF SynthAnswers, BoxInv, Goto
  <2>2. resident' \subseteq resident \cup ({request.synth} \cap Local)
    BY <1>4, <2>1, CouncilAssumption DEF SynthAnswers
  <2> QED
    BY <1>4, <2>1, <2>2 DEF BoxInv, SynthAnswers
<1>5. CASE Conclude
  <2>1. resident' \subseteq resident /\ left \subseteq left'
    BY <1>5 DEF Conclude
  <2> QED
    BY <1>5, <2>1 DEF Conclude, Return, BoxInv
<1>6. ASSUME NEW s \in Seats, MemberEnds(s) \/ TurnTimesOut(s) PROVE BoxInv'
  BY <1>6, BoxKept DEF MemberEnds, TurnTimesOut, panelVars
<1>7. ASSUME NEW s \in Seats, BeginTurn(s) PROVE BoxInv'
  <2>1. turn = None /\ turn' = s /\ UNCHANGED <<panelVars, request, resident, left, merger>>
    BY <1>7 DEF BeginTurn
  <2>2. DOMAIN thread' = Seats /\ \A x \in Seats : x # s => thread'[x] = thread[x]
    BY <1>7 DEF BeginTurn, BoxInv
  <2>3. \A x \in Seats : thread'[x] = "loading" => turn' = x
    BY <2>1, <2>2, CouncilAssumption DEF BoxInv
  <2> QED
    BY <2>1, <2>2, <2>3, CouncilAssumption DEF BoxInv, panelVars
<1>8. ASSUME NEW s \in Seats, Chats(s) PROVE BoxInv'
  <2>1. UNCHANGED <<panelVars, request, turn, resident, left, merger>> /\ thread' = [thread EXCEPT ![s] = "idle"]
    BY <1>8 DEF Chats
  <2> QED
    BY <2>1 DEF BoxInv, panelVars
<1>9. ASSUME NEW s \in Seats, NEW done \in BOOLEAN, Loads(s, done) PROVE BoxInv'
  <2>1. /\ thread[s] = "loading" /\ UNCHANGED <<panelVars, request, turn, left, merger>>
        /\ resident' \subseteq resident \cup {s}
        /\ \E what \in {"chatting", "idle"} : thread' = [thread EXCEPT ![s] = what]
    BY <1>9 DEF Loads
  <2>2. turn = s
    BY <2>1 DEF BoxInv
  <2>3. DOMAIN thread' = Seats /\ \A x \in Seats : thread'[x] = "loading" => turn' = x
    BY <2>1 DEF BoxInv
  <2> QED
    BY <2>1, <2>2, <2>3 DEF BoxInv, panelVars
<1>10. ASSUME NEW s \in Seats, FreeSeat(s) PROVE BoxInv'
  <2>1. PICK refused \in {TRUE, thread[s] = "chatting"} :
          /\ resident' = IF MustFree(s) /\ ~refused THEN resident \ {s} ELSE resident
          /\ left' = IF MustFree(s) /\ refused THEN left \cup {s} ELSE left
    BY <1>10 DEF FreeSeat
  <2>2. /\ turn = s /\ turn' = None /\ UNCHANGED <<request, merger, thread>>
        /\ \A x \in Seats : thread[x] # "loading"
    BY <1>10 DEF FreeSeat
  <2>3. s \in request.initial \/ s \in left' \/ s \notin resident'
    BY <2>1 DEF MustFree
  <2>4. resident' \subseteq resident /\ left \subseteq left'
    BY <2>1
  <2>5. pc = "asking" /\ pc' \in {"asking", "done", "synth"}
    BY <1>10, <2>2, SeatEnds, CouncilAssumption DEF CouncilInv
  <2> QED
    BY <2>2, <2>3, <2>4, <2>5 DEF BoxInv
<1> QED
  BY <1>1, <1>2, <1>3, <1>4, <1>5, <1>6, <1>7, <1>8, <1>9, <1>10 DEF CouncilNext

LEMMA BoxInvNext == CouncilInv /\ BoxInv /\ [Next]_vars => BoxInv'
<1> SUFFICES ASSUME CouncilInv, BoxInv, [Next]_vars PROVE BoxInv'
  OBVIOUS
<1>1. CASE AdmissionNext
  <2>1. CASE Elsewhere
    BY <2>1, BoxKept DEF Elsewhere, councilVars
  <2>2. CASE pc = "ask" /\ Convening
    <3>1. turn = None /\ \A s \in Seats : thread[s] # "loading"
      BY <2>2, CouncilAssumption DEF CouncilInv, BoxInv
    <3> QED
      BY <2>2, <3>1, ConvenedBox
  <2> QED
    BY <1>1, <2>1, <2>2, AdmissionEnds
<1>2. CASE CouncilNext
  BY <1>2, BoxNext
<1>3. CASE ChainNext /\ UNCHANGED councilVars
  BY <1>3, ChainWithin, BoxKept DEF Within, ChainPlaces, councilVars
<1>4. CASE DebateNext /\ UNCHANGED councilVars
  BY <1>4, DebateWithin, BoxKept DEF Within, DebatePlaces, Awaited, councilVars
<1>5. CASE ConferenceNext /\ UNCHANGED councilVars
  BY <1>5, ConferenceWithin, BoxKept DEF Within, ConferencePlaces, councilVars
<1>6. CASE UNCHANGED vars
  BY <1>6, BoxKept DEF vars, panelVars, councilVars
<1> QED
  BY <1>1, <1>2, <1>3, <1>4, <1>5, <1>6 DEF Next

\* What a panel asked one at a time leaves on the box, whoever merges: nothing but
\* what was there, what the caller is told of, and the merger that was asked for,
\* which stays when it fails after its model was loaded.
BoxButTheMerger ==
  request.sequential /\ payload # None => resident \subseteq request.initial \cup left \cup ({request.synth} \cap Local)

LEMMA BoxEnds == CouncilInv /\ OutInv /\ BoxInv => BoxButTheMerger
  BY CouncilAssumption DEF CouncilInv, OutInv, BoxInv, BoxButTheMerger

THEOREM BoxButTheMergerHolds == Spec => []BoxButTheMerger
  BY PanelInvariant, BoxInvInit, BoxInvNext, BoxEnds, PTL DEF Spec

\* BoxLeftAsFound: where no slot names a model of the box for the merger, the box is
\* left as it was found, whatever the threads do that outlive their turns.
THEOREM BoxLeftAsFoundHolds ==
  ASSUME \A slot \in Slots : AsNamed(slot) \notin Local
  PROVE  Spec => []BoxLeftAsFound
<1>1. CouncilInv /\ OutInv /\ BoxInv => BoxLeftAsFound
  BY BoxEnds DEF BoxInv, BoxButTheMerger, BoxLeftAsFound
<1> QED
  BY <1>1, PanelInvariant, BoxInvInit, BoxInvNext, PTL DEF Spec

-----------------------------------------------------------------------------
(* A strong consensus is earned. *)

\* Everyone asked is of one mind, not all of them hedging, from two labs at least.
Earned ==
  /\ Cardinality(request.panel) = request.requested
  /\ \E rec \in Recs \ {"none"} : \A s \in request.panel : Answered(answers[s]) /\ answers[s].rec = rec
  /\ \E s \in request.panel : answers[s].conf # "low"
  /\ \E s, t \in request.panel : LabOf[s] # LabOf[t]

LEMMA RecsFinite == IsFiniteSet(Recs)
<1>1. IsFiniteSet({"apply"})
  BY FS_Singleton
<1>2. IsFiniteSet({"apply"} \cup {"reject"})
  BY <1>1, FS_AddElement
<1>3. IsFiniteSet({"apply"} \cup {"reject"} \cup {"investigate"})
  BY <1>2, FS_AddElement
<1>4. IsFiniteSet({"apply"} \cup {"reject"} \cup {"investigate"} \cup {"thin"})
  BY <1>3, FS_AddElement
<1>5. IsFiniteSet({"apply"} \cup {"reject"} \cup {"investigate"} \cup {"thin"} \cup {"none"})
  BY <1>4, FS_AddElement
<1>6. Recs = {"apply"} \cup {"reject"} \cup {"investigate"} \cup {"thin"} \cup {"none"}
  BY DEF Recs
<1> QED
  BY <1>5, <1>6

\* An answer that is one is a reply.
LEMMA AnsweredIsReply == ASSUME NEW r \in Replies \cup Failures, Answered(r) PROVE r \in Replies
  BY DEF Failures, Failed, Answered

\* Two labs at least are two seats of different ones.
LEMMA TwoLabs ==
  ASSUME NEW S, IsFiniteSet(S), Labs(S) >= 2
  PROVE  \E s, t \in S : LabOf[s] # LabOf[t]
<1> SUFFICES ASSUME \A s, t \in S : LabOf[s] = LabOf[t] PROVE FALSE
  OBVIOUS
<1> DEFINE labs == {LabOf[s] : s \in S}
<1>0. Labs(S) = Cardinality(labs)
  BY DEF Labs
<1>1. CASE S = {}
  <2>1. labs = {}
    BY <1>1
  <2> QED
    <3>1. Labs(S) = 0
      BY <1>0, <2>1, FS_EmptySet
    <3> QED
      BY <3>1
<1>2. CASE S # {}
  <2>1. PICK s \in S : TRUE
    BY <1>2
  <2>2. labs = {LabOf[s]}
    BY <2>1
  <2> QED
    <3>1. Labs(S) = 1
      BY <1>0, <2>2, FS_Singleton
    <3> QED
      BY <3>1
<1> QED
  BY <1>1, <1>2

LEMMA ConsensusIs == ASSUME NEW all PROVE Consensus(all) \in {"divergent", "unknown", "strong", "partial"}
  BY DEF Consensus

\* What _consensus calls strong.
LEMMA StrongIs ==
  ASSUME CouncilInv, DOMAIN answers = request.panel, Consensus(answers) = "strong"
  PROVE  Earned
<1> DEFINE voters == {s \in Ok(answers) : answers[s].rec # "none"}
           said == {answers[s].rec : s \in voters}
<1>1. /\ Cardinality(voters) >= 2 /\ Cardinality(said) = 1 /\ Cardinality(voters) = request.requested
      /\ ~\A s \in voters : answers[s].conf = "low"
      /\ Labs(Ok(answers)) >= 2
  BY DEF Consensus, Complete
<1>2. voters \subseteq Ok(answers) /\ Ok(answers) \subseteq request.panel
  BY DEF Ok
<1>3. IsFiniteSet(Ok(answers)) /\ Cardinality(voters) <= Cardinality(request.panel)
  BY <1>2, FS_Subset DEF CouncilInv
<1>4. Cardinality(request.panel) \in Nat /\ Cardinality(voters) \in Nat
  BY <1>2, FS_Subset, FS_CardinalityType DEF CouncilInv
<1>5. Cardinality(voters) = Cardinality(request.panel) /\ Cardinality(request.panel) = request.requested
  BY <1>1, <1>3, <1>4 DEF CouncilInv
<1>6. voters = request.panel
  BY <1>2, <1>5, FS_Subset DEF CouncilInv
<1>7. \A s \in voters : Answered(answers[s]) /\ answers[s].rec \in Recs \ {"none"}
  <2> SUFFICES ASSUME NEW s \in voters PROVE Answered(answers[s]) /\ answers[s].rec \in Recs \ {"none"}
    OBVIOUS
  <2>1. Answered(answers[s]) /\ answers[s].rec # "none" /\ answers[s] \in Replies \cup Failures
    BY <1>2 DEF Ok, CouncilInv
  <2>2. answers[s] \in Replies
    BY <2>1, AnsweredIsReply
  <2> QED
    BY <2>1, <2>2 DEF Replies
<1>8. said \subseteq Recs
  BY <1>7
<1>9. PICK rec : said = {rec}
  BY <1>1, <1>8, RecsFinite, FS_Subset, FS_Singleton
<1>10. rec \in Recs \ {"none"} /\ \A s \in voters : answers[s].rec = rec
  BY <1>7, <1>9
<1>11. \E s, t \in Ok(answers) : LabOf[s] # LabOf[t]
  BY <1>1, <1>3, TwoLabs
<1> HIDE DEF voters, said
<1> QED
  BY <1>1, <1>2, <1>5, <1>6, <1>7, <1>10, <1>11 DEF Earned

\* The envelope calls safe what is strong, merged and not cut off.
LEMMA VerdictIs ==
  ASSUME CouncilInv, pc = "conclude", NEW by, NEW cut \in BOOLEAN, NEW freed,
         NEW v, v = Verdict(answers, by, cut, freed)
  PROVE  /\ v.next = "safe" => v.consensus = "strong" /\ by # None /\ ~cut
         /\ v.consensus = "strong" => Earned
<1> DEFINE n == Cardinality(Ok(answers))
           agreed == IF n <= 1 THEN "unknown" ELSE Consensus(answers)
<1>1. v.consensus = agreed /\ v.next = NextAction(n, Labs(Ok(answers)), by # None, cut, agreed)
  BY DEF Verdict
<1>2. n \in Nat /\ n >= 2
  BY FS_Subset, FS_CardinalityType DEF CouncilInv, Ok
<1>3. ~(n <= 1)
  BY <1>2
<1>4. agreed = Consensus(answers) /\ DOMAIN answers = request.panel
  BY <1>3 DEF CouncilInv
<1> HIDE DEF n
<1>5. v.next = "safe" => agreed \notin {"divergent", "partial", "unknown"} /\ by # None /\ ~cut
  BY <1>1, <1>3, <1>4 DEF NextAction
<1> QED
  BY <1>1, <1>4, <1>5, ConsensusIs, StrongIs

\* StrongIsEarned's second half: what is safe is a whole merge of whole answers.
LEMMA ConcludeEarns ==
  ASSUME CouncilInv, Conclude
  PROVE  StrongIsEarned'
<1> DEFINE cut == ~merger.whole \/ \E s \in request.panel : CutOff(answers[s])
<1>1. /\ pc = "conclude" /\ payload' = Verdict(answers, merger.by, cut, left')
      /\ UNCHANGED <<request, answers, merger>>
  BY DEF Conclude, Return
<1>2. /\ payload'.next = "safe" => payload'.consensus = "strong" /\ merger.by # None /\ ~cut
      /\ payload'.consensus = "strong" => Earned
  BY <1>1, VerdictIs
<1>3. ASSUME payload'.next = "safe" PROVE \A s \in request.panel : answers[s].whole
  <2>1. Earned /\ ~cut /\ DOMAIN answers = request.panel
    BY <1>1, <1>2, <1>3 DEF CouncilInv
  <2>2. \A s \in request.panel : Answered(answers[s]) /\ answers[s] \in Replies
    BY <2>1, AnsweredIsReply DEF Earned, CouncilInv
  <2> QED
    BY <2>1, <2>2 DEF CutOff
<1> HIDE DEF cut
<1>4. /\ payload'.consensus = "strong" \/ payload'.next = "safe" => Earned
      /\ payload'.next = "safe" => merger.by # None /\ merger.whole
  BY <1>2 DEF cut
<1> QED
  BY <1>1, <1>3, <1>4 DEF StrongIsEarned, Earned, Answered

\* What one seat alone answered is neither.
LEMMA SingleEarns ==
  ASSUME NEW all, Weigh(all), Cardinality(Ok(all)) \in Nat
  PROVE  StrongIsEarned'
<1>1. CASE Cardinality(Ok(all)) = 1
  <2>1. payload' = Verdict(all, None, FALSE, {})
    BY <1>1, WeighEnds
  <2>2. payload'.consensus = "unknown" /\ payload'.next = "single"
    BY <1>1, <2>1 DEF Verdict, NextAction
  <2> QED
    BY <2>2 DEF StrongIsEarned
<1>2. CASE Cardinality(Ok(all)) = 0
  BY <1>2, WeighEnds DEF StrongIsEarned
<1>3. CASE Cardinality(Ok(all)) \notin {0, 1}
  BY <1>3, WeighEnds DEF StrongIsEarned
<1> QED
  BY <1>1, <1>2, <1>3

\* What keeps StrongIsEarned: nothing is told, or not of a council, or no answer is.
LEMMA StrongKept ==
  \/ pc' # "done" \/ payload'.tool # "council" \/ payload'.status # "ok"
  \/ StrongIsEarned /\ UNCHANGED <<pc, payload, request, answers, merger>>
  => StrongIsEarned'
  BY DEF StrongIsEarned

LEMMA StrongNext == CouncilInv /\ StrongIsEarned /\ [Next]_vars => StrongIsEarned'
<1> SUFFICES ASSUME CouncilInv, StrongIsEarned, [Next]_vars PROVE StrongIsEarned'
  OBVIOUS
<1>1. CASE pc = "done"
  BY <1>1, AfterDone, StrongKept DEF panelVars
<1> SUFFICES ASSUME pc # "done" PROVE StrongIsEarned'
  BY <1>1
<1>2. CASE AdmissionNext
  BY <1>2, AdmissionEnds, Convened, StrongKept DEF Elsewhere, Convening
<1>3. CASE CouncilNext
  <2>1. CASE Conclude
    BY <2>1, ConcludeEarns
  <2>2. CASE Harvest
    <3>1. Weigh(answers') /\ DOMAIN answers' = request.panel
      BY <2>2 DEF Harvest
    <3>2. Cardinality(Ok(answers')) \in Nat
      BY <3>1, FS_Subset, FS_CardinalityType DEF Ok, CouncilInv
    <3> QED
      BY <3>1, <3>2, SingleEarns
  <2>3. ASSUME NEW s \in Seats, FreeSeat(s) PROVE StrongIsEarned'
    <3>1. CASE Weigh(answers)
      <4>1. Cardinality(Ok(answers)) \in Nat
        BY FS_Subset, FS_CardinalityType DEF Ok, CouncilInv
      <4> QED
        BY <3>1, <4>1, SingleEarns
    <3>2. CASE UNCHANGED panelVars
      BY <3>2, StrongKept DEF panelVars
    <3> QED
      BY <2>3, <3>1, <3>2 DEF FreeSeat
  <2>4. CASE Open
    BY <2>4, StrongKept DEF Open, Return, Goto
  <2>5. CASE SynthFails \/ SynthAnswers
    BY <2>5, StrongKept DEF SynthFails, SynthAnswers, Goto, panelVars
  <2>6. ASSUME NEW s \in Seats, MemberEnds(s) \/ BeginTurn(s) \/ TurnTimesOut(s) \/ Chats(s)
                                 \/ \E done \in BOOLEAN : Loads(s, done)
        PROVE  StrongIsEarned'
    <3>1. UNCHANGED panelVars
      BY <2>6 DEF MemberEnds, BeginTurn, TurnTimesOut, Chats, Loads
    <3> QED
      BY <3>1, StrongKept DEF panelVars
  <2> QED
    BY <1>3, <2>1, <2>2, <2>3, <2>4, <2>5, <2>6 DEF CouncilNext
<1>4. CASE ChainNext
  BY <1>4, ChainWithin, StrongKept DEF Within
<1>5. CASE DebateNext
  BY <1>5, DebateWithin, StrongKept DEF Within
<1>6. CASE ConferenceNext
  BY <1>6, ConferenceWithin, StrongKept DEF Within
<1>7. CASE UNCHANGED vars
  BY <1>7, StrongKept DEF vars, panelVars
<1> QED
  BY <1>2, <1>3, <1>4, <1>5, <1>6, <1>7 DEF Next

\* StrongIsEarned: a council calls strong, or safe to act on, only what every seat
\* asked for, unknown names included, has recommended.
THEOREM StrongIsEarnedHolds == Spec => []StrongIsEarned
<1>1. Init => StrongIsEarned
  BY DEF Init, StrongIsEarned
<1> QED
  BY <1>1, CouncilInvInit, CouncilInvNext, StrongNext, PTL DEF Spec

-----------------------------------------------------------------------------
(* A debate's verdict is honest. *)

Turn == [role : Awaited, reply : Voices \cup Failures, ledger : Rebuttals]

\* Of the turns T: those of a role that answered, the ids their ledgers name, and
\* whether the opponent's rebuttal drops its contests.
Heard(T, role) == {i \in DOMAIN T : T[i].role = role /\ Answered(T[i].reply)}
Ids(T, role) == UNION {T[i].ledger.ids : i \in {j \in Heard(T, role) : T[j].ledger # None}}
Drops(T) == \E i \in Heard(T, "rebut") : T[i].ledger # None /\ T[i].ledger.ids = {}
Contested(T) == IF Drops(T) THEN {} ELSE Ids(T, "refute") \ Ids(T, "revise")
Rulings(T) == Heard(T, "adjudicate")
Standing(T) == IF Rulings(T) # {} THEN Rulings(T) ELSE Heard(T, "propose") \cup Heard(T, "revise")
AllHeard(T) == \A i \in DOMAIN T : T[i].role \in {"refute", "adjudicate"} => Answered(T[i].reply)

\* U is T and one more turn t: it is heard, or not; and its ledger read, or not.
OneMore(T, t, U) ==
  /\ U \in Seq(Turn) /\ Len(U) = Len(T) + 1 /\ U[Len(U)] = t
  /\ \A role \in Awaited :
       /\ t.role # role \/ ~Answered(t.reply) => Heard(U, role) = Heard(T, role)
       /\ t.role = role /\ Answered(t.reply) => Heard(U, role) = Heard(T, role) \cup {Len(U)}
       /\ t.role # role \/ t.ledger = None \/ ~Answered(t.reply) => Ids(U, role) = Ids(T, role)
       /\ t.role = role /\ t.ledger # None /\ Answered(t.reply) => Ids(U, role) = Ids(T, role) \cup t.ledger.ids
  /\ t.role # "rebut" \/ t.ledger = None \/ ~Answered(t.reply) \/ t.ledger.ids # {} => Drops(U) = Drops(T)
  /\ t.role = "rebut" /\ t.ledger # None /\ Answered(t.reply) /\ t.ledger.ids = {} => Drops(U)
  /\ t.role \notin {"refute", "adjudicate"} \/ Answered(t.reply) => (AllHeard(T) => AllHeard(U))

LEMMA AppendIsOneMore ==
  ASSUME NEW T \in Seq(Turn), NEW t \in Turn
  PROVE  OneMore(T, t, Append(T, t))
<1> DEFINE U == Append(T, t)
           n == Len(T) + 1
<1>1. /\ U \in Seq(Turn) /\ Len(U) = n /\ U[n] = t /\ \A i \in DOMAIN T : U[i] = T[i]
      /\ DOMAIN U = DOMAIN T \cup {n} /\ n \notin DOMAIN T
  OBVIOUS
<1> HIDE DEF U
<1>2. \A role : Heard(U, role) = Heard(T, role) \cup (IF t.role = role /\ Answered(t.reply) THEN {n} ELSE {})
  <2> HIDE DEF n
  <2> QED
    BY <1>1 DEF Heard
<1>3. \A role : \A i \in Heard(T, role) : i \in DOMAIN T /\ U[i] = T[i]
  BY <1>1 DEF Heard
<1> HIDE DEF n
<1>4. ASSUME NEW role, t.role # role \/ t.ledger = None \/ ~Answered(t.reply) PROVE Ids(U, role) = Ids(T, role)
  <2>1. {j \in Heard(U, role) : U[j].ledger # None} = {j \in Heard(T, role) : T[j].ledger # None}
    BY <1>1, <1>2, <1>3, <1>4
  <2> QED
    BY <1>3, <2>1 DEF Ids
<1>5. ASSUME NEW role, t.role = role, t.ledger # None, Answered(t.reply) PROVE Ids(U, role) = Ids(T, role) \cup t.ledger.ids
  <2>1. {j \in Heard(U, role) : U[j].ledger # None} = {j \in Heard(T, role) : T[j].ledger # None} \cup {n}
    BY <1>1, <1>2, <1>3, <1>5
  <2> QED
    BY <1>1, <1>3, <2>1 DEF Ids
<1>6. t.role # "rebut" \/ t.ledger = None \/ ~Answered(t.reply) \/ t.ledger.ids # {} => Drops(U) = Drops(T)
  BY <1>1, <1>2, <1>3 DEF Drops
<1>7. t.role = "rebut" /\ t.ledger # None /\ Answered(t.reply) /\ t.ledger.ids = {} => Drops(U)
  BY <1>1, <1>2 DEF Drops
<1>8. t.role \notin {"refute", "adjudicate"} \/ Answered(t.reply) => (AllHeard(T) => AllHeard(U))
  BY <1>1 DEF AllHeard
<1>9. /\ U \in Seq(Turn) /\ Len(U) = Len(T) + 1 /\ U[Len(U)] = t /\ n = Len(U)
  BY <1>1 DEF n
<1>10. OneMore(T, t, U)
  BY <1>2, <1>4, <1>5, <1>6, <1>7, <1>8, <1>9 DEF OneMore
<1> QED
  BY <1>10 DEF U

\* What has been said where the debate is: the proposal stands until the third turn
\* revises it, nobody has ruled, the opponent has not dropped its contests, and what
\* is open is what it contested and the proposer left open.
Argued(T, contests) ==
  /\ Len(T) >= 1 /\ Heard(T, "propose") = {1} /\ Rulings(T) = {} /\ Heard(T, "revise") \in {{}, {3}}
  /\ AllHeard(T) /\ ~Drops(T) /\ contests = Ids(T, "refute") \ Ids(T, "revise")

DebateInv ==
  /\ turns \in Seq(Turn)
  /\ pc \in {"ask", "debate", "propose"} => turns = <<>> /\ open = {}
  /\ pc \in Awaited \ {"propose"} => Argued(turns, open)
  /\ pc = "refute" => Len(turns) = 1 /\ Ids(turns, "refute") = {} /\ Heard(turns, "revise") = {}
  /\ pc = "revise" => Len(turns) = 2 /\ Ids(turns, "revise") = {} /\ Heard(turns, "revise") = {}
  /\ pc = "rebut" => Len(turns) = 3 /\ Heard(turns, "revise") = {3}
  /\ pc = "adjudicate" => /\ ruling \in {"adjudicated", "stalemate"}
                          /\ Len(turns) >= 2 /\ (Heard(turns, "revise") # {} => Len(turns) >= 3)

\* A turn is one more, read as it was taken.
LEMMA SpokeIs ==
  ASSUME turns \in Seq(Turn), NEW role \in Awaited, NEW ledgers \in SUBSET Rebuttals, Spoke(role, ledgers)
  PROVE  \E t \in Turn : /\ OneMore(turns, t, turns') /\ t.role = role /\ t.ledger \in ledgers /\ Latest = t
                         /\ (~Answered(t.reply) => t.ledger = None)
<1>1. PICK r \in Voices \cup Failures, l \in ledgers :
        (~Answered(r) => l = None) /\ turns' = Append(turns, [role |-> role, reply |-> r, ledger |-> l])
  BY DEF Spoke
<1> DEFINE t == [role |-> role, reply |-> r, ledger |-> l]
<1>2. t \in Turn
  BY DEF Turn
<1>3. OneMore(turns, t, turns')
  BY <1>1, <1>2, AppendIsOneMore
<1>4. Latest = t
  BY <1>3 DEF Latest, OneMore
<1>5. t.role = role /\ t.ledger \in ledgers /\ (~Answered(t.reply) => t.ledger = None)
  BY <1>1
<1> QED
  BY <1>2, <1>3, <1>4, <1>5

\* A ledger that can be read is of ids; and None is none of them.
LEMMA LedgerIs == Ledgers \subseteq Rebuttals /\ \A l \in Rebuttals \ {None} : l.ids \subseteq Claims
  BY DEF Rebuttals, Ledgers

LEMMA SpokenIsHeard == \A role : Spoken(role) = Heard(turns', role)
  BY DEF Spoken, Heard

\* What a verdict rests on, when it is told under a resolution.
Rests(T, at, resolution, contested) ==
  /\ contested = Contested(T) /\ at \in Standing(T) /\ \A i \in Standing(T) : i <= at
  /\ contested # {} => Material(resolution, contested) /\ (Unruled(resolution) \/ at \in Rulings(T))

LEMMA HonestIs ==
  (VerdictIsHonest <=>
    (Concluded => /\ payload.open = Contested(turns) /\ payload.at \in Standing(turns)
                  /\ \A i \in Standing(turns) : i <= payload.at
                  /\ Contested(turns) # {} => payload.material /\ (payload.conf = "high" => payload.at \in Rulings(turns))))
  /\ (VerdictIsHonest' <=>
    (Concluded' => /\ payload'.open = Contested(turns') /\ payload'.at \in Standing(turns')
                   /\ \A i \in Standing(turns') : i <= payload'.at
                   /\ Contested(turns') # {} => payload'.material /\ (payload'.conf = "high" => payload'.at \in Rulings(turns'))))
<1>1. /\ \A role : TurnsOf(role) = Heard(turns, role) /\ TurnsOf(role)' = Heard(turns', role)
      /\ \A role : Named(role) = Ids(turns, role) /\ Named(role)' = Ids(turns', role)
      /\ Dropped = Drops(turns) /\ Dropped' = Drops(turns')
  BY DEF TurnsOf, Named, Dropped, Heard, Ids, Drops
<1> QED
  BY <1>1 DEF VerdictIsHonest, Contested, Standing, Rulings

LEMMA SettleHonest ==
  ASSUME NEW at, NEW resolution, NEW contested, Settle(at, resolution, contested),
         Rests(turns', at, resolution, contested)
  PROVE  VerdictIsHonest'
<1> DEFINE reply == turns'[at].reply
           sure == IF reply.rec = "none" THEN None
                   ELSE IF Unruled(resolution) THEN Downgraded(reply.conf) ELSE reply.conf
<1>1. /\ payload'.at = at /\ payload'.open = contested /\ payload'.conf = sure
      /\ payload'.material = Material(resolution, contested)
  BY DEF Settle, Finish, Return
<1>2. Unruled(resolution) => sure \in {None, "medium", "low"}
  BY DEF Downgraded
<1>3. None # "high"
  BY VoicesAssumption
<1> HIDE DEF sure, reply
<1> QED
  BY <1>1, <1>2, <1>3, HonestIs DEF Rests

\* What of a debate the cache may keep is heard to the end, and whole.
DebateWhole ==
  stored /\ payload.tool = "debate" => AllHeard(turns) /\ \A i \in DOMAIN turns : ~CutOff(turns[i].reply)

Told == VerdictIsHonest /\ DebateWhole

\* While nothing is told, and when it is that there is no verdict.
LEMMA Untold ==
  \/ pc' # "done" /\ ~stored'
  \/ pc' = "done" /\ ~stored' /\ payload'.status # "ok"
  => Told'
  BY DEF Told, VerdictIsHonest, Concluded, DebateWhole

LEMMA SettleTells ==
  ASSUME NEW at, NEW resolution, NEW contested, Settle(at, resolution, contested),
         Rests(turns', at, resolution, contested), turns' \in Seq(Turn),
         \/ AllHeard(turns')
         \/ resolution \in {"degraded_single_critic", "degraded_timeout", "adjudicator_unavailable"}
  PROVE  DebateInv' /\ Told'
<1>1. VerdictIsHonest'
  BY SettleHonest
<1>2. /\ pc' = "done"
      /\ stored' => /\ resolution \notin {"degraded_single_critic", "degraded_timeout", "adjudicator_unavailable"}
                    /\ \A i \in DOMAIN turns' : ~CutOff(turns'[i].reply)
  BY DEF Settle, Finish, Return
<1>3. DebateWhole'
  BY <1>2 DEF DebateWhole, AllHeard
<1>4. DebateInv'
  BY <1>2 DEF DebateInv, Awaited
<1> QED
  BY <1>1, <1>3, <1>4 DEF Told

LEMMA NothingSaid ==
  /\ <<>> \in Seq(Turn) /\ Len(<<>>) = 0
  /\ \A role : Heard(<<>>, role) = {} /\ Ids(<<>>, role) = {}
  /\ ~Drops(<<>>) /\ AllHeard(<<>>)
<1>1. \A role : Heard(<<>>, role) = {}
  BY DEF Heard
<1> QED
  BY <1>1 DEF Ids, Drops, AllHeard

LEMMA ProposeTells ==
  ASSUME DebateInv, ~stored, Propose
  PROVE  DebateInv' /\ Told'
<1>1. turns = <<>> /\ open = {} /\ open' = {} /\ turns \in Seq(Turn)
  BY DEF Propose, DebateInv
<1>2. PICK t \in Turn : OneMore(turns, t, turns') /\ t.role = "propose" /\ Latest = t
  <2>1. Spoke("propose", {None}) /\ {None} \subseteq Rebuttals /\ "propose" \in Awaited
    BY DEF Propose, Rebuttals, Ledgers, Awaited
  <2> QED
    BY <1>1, <2>1, SpokeIs
<1>3. /\ turns' \in Seq(Turn) /\ Len(turns') = 1 /\ ~Drops(turns') /\ AllHeard(turns')
      /\ Answered(t.reply) => Heard(turns', "propose") = {1}
      /\ \A role \in {"refute", "revise", "adjudicate"} : Heard(turns', role) = {} /\ Ids(turns', role) = {}
  BY <1>1, <1>2, NothingSaid DEF OneMore, Awaited
<1>4. CASE Answered(t.reply)
  <2>1. pc' = "refute" /\ UNCHANGED <<payload, stored>>
    BY <1>2, <1>4 DEF Propose, Goto
  <2>2. Argued(turns', open')
    BY <1>1, <1>3, <1>4 DEF Argued, Rulings
  <2> QED
    BY <1>3, <2>1, <2>2, Untold DEF DebateInv, Awaited
<1>5. CASE ~Answered(t.reply)
  <2>1. pc' = "done" /\ payload'.status # "ok" /\ ~stored'
    BY <1>2, <1>5 DEF Propose, Return, Answered
  <2> QED
    BY <1>3, <2>1, Untold DEF DebateInv, Awaited
<1> QED
  BY <1>4, <1>5

LEMMA RefuteTells ==
  ASSUME DebateInv, ~stored, Refute
  PROVE  DebateInv' /\ Told'
<1>1. pc = "refute" /\ turns \in Seq(Turn) /\ Len(turns) = 1 /\ Argued(turns, open)
      /\ Ids(turns, "refute") = {} /\ Heard(turns, "revise") = {} /\ Ids(turns, "revise") = {}
  BY DEF Refute, DebateInv, Awaited, Ids
<1>2. PICK t \in Turn : /\ OneMore(turns, t, turns') /\ t.role = "refute" /\ Latest = t
                         /\ (~Answered(t.reply) => t.ledger = None)
  <2>1. Spoke("refute", Ledgers) /\ "refute" \in Awaited
    BY DEF Refute, Awaited
  <2> QED
    BY <1>1, <2>1, SpokeIs, LedgerIs
<1> DEFINE contested == IF t.ledger = None THEN {} ELSE t.ledger.ids
<1>3. /\ turns' \in Seq(Turn) /\ Len(turns') = 2 /\ ~Drops(turns') /\ (Answered(t.reply) => AllHeard(turns'))
      /\ Heard(turns', "propose") = {1} /\ Rulings(turns') = {}
      /\ Heard(turns', "revise") = {} /\ Ids(turns', "revise") = {}
      /\ Ids(turns', "refute") = contested
  <2>1. /\ turns' \in Seq(Turn) /\ Len(turns') = 2 /\ (Answered(t.reply) => AllHeard(turns'))
    BY <1>1, <1>2 DEF Argued, OneMore
  <2>2. ~Drops(turns') /\ Heard(turns', "propose") = {1} /\ Rulings(turns') = {}
    BY <1>1, <1>2 DEF Argued, Awaited, Rulings, OneMore
  <2>3. Heard(turns', "revise") = {} /\ Ids(turns', "revise") = {}
    BY <1>1, <1>2 DEF Awaited, OneMore
  <2>4. Ids(turns', "refute") = contested
    BY <1>1, <1>2 DEF Awaited, OneMore
  <2> QED
    BY <2>1, <2>2, <2>3, <2>4
<1>4. Standing(turns') = {1} /\ Contested(turns') = contested
  BY <1>3 DEF Standing, Contested
<1>5. CASE ~Answered(t.reply)
  <2>1. Settle(1, "degraded_single_critic", {})
    BY <1>2, <1>5 DEF Refute
  <2>2. Rests(turns', 1, "degraded_single_critic", {})
    BY <1>2, <1>4, <1>5 DEF Rests
  <2> QED
    BY <1>3, <2>1, <2>2, SettleTells
<1>6. CASE Answered(t.reply) /\ t.ledger = None
  <2>1. pc' = "adjudicate" /\ open' = {} /\ ruling' = "adjudicated" /\ UNCHANGED <<payload, stored>>
    BY <1>2, <1>6 DEF Refute, Adjudicate, Goto
  <2>2. Argued(turns', open')
    BY <1>3, <1>6, <2>1 DEF Argued
  <2>3. DebateInv'
    BY <1>3, <2>1, <2>2 DEF DebateInv, Awaited
  <2> QED
    BY <2>1, <2>3, Untold
<1>7. CASE Answered(t.reply) /\ t.ledger # None /\ t.ledger.ids = {}
  <2>1. Settle(1, "conceded", {})
    BY <1>2, <1>7 DEF Refute
  <2>2. Rests(turns', 1, "conceded", {})
    BY <1>4, <1>7 DEF Rests
  <2> QED
    BY <1>3, <1>7, <2>1, <2>2, SettleTells
<1>8. CASE Answered(t.reply) /\ t.ledger # None /\ t.ledger.ids # {}
  <2>1. pc' = "revise" /\ open' = t.ledger.ids /\ UNCHANGED <<payload, stored>>
    BY <1>2, <1>8 DEF Refute, Goto
  <2>2. Argued(turns', open')
    BY <1>3, <1>8, <2>1 DEF Argued
  <2>3. DebateInv'
    BY <1>3, <2>1, <2>2 DEF DebateInv, Awaited
  <2> QED
    BY <2>1, <2>3, Untold
<1> QED
  BY <1>5, <1>6, <1>7, <1>8

LEMMA ReviseTells ==
  ASSUME DebateInv, ~stored, Revise
  PROVE  DebateInv' /\ Told'
<1>1. /\ pc = "revise" /\ turns \in Seq(Turn) /\ Len(turns) = 2 /\ Argued(turns, open)
      /\ Ids(turns, "revise") = {} /\ Heard(turns, "revise") = {} /\ open = Ids(turns, "refute")
  BY DEF Revise, DebateInv, Awaited, Argued
<1>2. PICK t \in Turn : /\ OneMore(turns, t, turns') /\ t.role = "revise" /\ Latest = t
                         /\ (~Answered(t.reply) => t.ledger = None)
  <2>1. Spoke("revise", Ledgers) /\ "revise" \in Awaited
    BY DEF Revise, Awaited
  <2> QED
    BY <1>1, <2>1, SpokeIs, LedgerIs
<1> DEFINE closed == IF t.ledger = None THEN {} ELSE t.ledger.ids
           still == open \ closed
<1>3. /\ turns' \in Seq(Turn) /\ Len(turns') = 3 /\ ~Drops(turns') /\ AllHeard(turns')
      /\ Heard(turns', "propose") = {1} /\ Rulings(turns') = {}
      /\ Heard(turns', "revise") = (IF Answered(t.reply) THEN {3} ELSE {})
      /\ Ids(turns', "revise") = closed /\ Ids(turns', "refute") = open
  <2>1. turns' \in Seq(Turn) /\ Len(turns') = 3 /\ AllHeard(turns')
    BY <1>1, <1>2 DEF Argued, OneMore
  <2>2. ~Drops(turns') /\ Heard(turns', "propose") = {1} /\ Rulings(turns') = {}
    BY <1>1, <1>2 DEF Argued, Awaited, Rulings, OneMore
  <2>3. Heard(turns', "revise") = (IF Answered(t.reply) THEN {3} ELSE {})
    BY <1>1, <1>2, <2>1 DEF Awaited, OneMore
  <2>4. Ids(turns', "revise") = closed
    BY <1>1, <1>2 DEF Awaited, OneMore
  <2>5. Ids(turns', "refute") = open
    BY <1>1, <1>2 DEF Awaited, OneMore
  <2> QED
    BY <2>1, <2>2, <2>3, <2>4, <2>5
<1>4. Contested(turns') = still
  BY <1>3 DEF Contested
<1>5. Argued(turns', still)
  BY <1>3 DEF Argued
<1>6. ASSUME Adjudicate(still, "adjudicated") PROVE DebateInv' /\ Told'
  <2>1. pc' = "adjudicate" /\ open' = still /\ ruling' = "adjudicated" /\ UNCHANGED <<payload, stored>>
    BY <1>6 DEF Adjudicate, Goto
  <2>2. DebateInv'
    BY <1>3, <1>5, <2>1 DEF DebateInv, Awaited
  <2> QED
    BY <2>1, <2>2, Untold
<1>7. CASE t.ledger = None
  <2>1. Adjudicate(open, "adjudicated") /\ still = open
    BY <1>2, <1>7 DEF Revise
  <2> QED
    BY <1>6, <2>1
<1>8. CASE t.ledger # None
  <2>1. Answered(t.reply) /\ closed = t.ledger.ids
    BY <1>2, <1>8
  <2>2. \/ still = {} /\ Settle(3, "converged", {})
        \/ still # {} /\ Goto("rebut") /\ open' = still
        \/ Adjudicate(still, "adjudicated")
    BY <1>2, <1>8 DEF Revise
  <2>3. CASE still = {} /\ Settle(3, "converged", {})
    <3>1. Standing(turns') = {1, 3}
      BY <1>3, <2>1 DEF Standing
    <3>2. Rests(turns', 3, "converged", {})
      BY <1>4, <2>3, <3>1 DEF Rests
    <3> QED
      BY <1>3, <2>3, <3>2, SettleTells
  <2>4. CASE still # {} /\ Goto("rebut") /\ open' = still
    <3>1. pc' = "rebut" /\ open' = still /\ UNCHANGED <<payload, stored>>
      BY <2>4 DEF Goto
    <3>2. DebateInv'
      BY <1>3, <1>5, <2>1, <3>1 DEF DebateInv, Awaited
    <3> QED
      BY <3>1, <3>2, Untold
  <2> QED
    BY <1>6, <2>2, <2>3, <2>4
<1> QED
  BY <1>7, <1>8

LEMMA RebutTells ==
  ASSUME DebateInv, ~stored, Rebut
  PROVE  DebateInv' /\ Told'
<1>1. /\ pc = "rebut" /\ turns \in Seq(Turn) /\ Len(turns) = 3 /\ Argued(turns, open) /\ Heard(turns, "revise") = {3}
      /\ open = Ids(turns, "refute") \ Ids(turns, "revise")
  BY DEF Rebut, DebateInv, Awaited, Argued
<1>2. PICK t \in Turn : /\ OneMore(turns, t, turns') /\ t.role = "rebut" /\ Latest = t
                         /\ (~Answered(t.reply) => t.ledger = None)
  <2>1. Spoke("rebut", Rebuttals) /\ "rebut" \in Awaited
    BY DEF Rebut, Awaited
  <2> QED
    BY <1>1, <2>1, SpokeIs
<1>3. /\ turns' \in Seq(Turn) /\ Len(turns') = 4 /\ AllHeard(turns')
      /\ Heard(turns', "propose") = {1} /\ Rulings(turns') = {} /\ Heard(turns', "revise") = {3}
      /\ open = Ids(turns', "refute") \ Ids(turns', "revise")
  <2>1. turns' \in Seq(Turn) /\ Len(turns') = 4 /\ AllHeard(turns')
    BY <1>1, <1>2 DEF Argued, OneMore
  <2>2. Heard(turns', "propose") = {1} /\ Rulings(turns') = {} /\ Heard(turns', "revise") = {3}
    BY <1>1, <1>2 DEF Argued, Awaited, Rulings, OneMore
  <2>3. Ids(turns', "refute") = Ids(turns, "refute") /\ Ids(turns', "revise") = Ids(turns, "revise")
    BY <1>1, <1>2 DEF Awaited, OneMore
  <2> QED
    BY <1>1, <2>1, <2>2, <2>3
<1>4. CASE t.ledger # None /\ t.ledger.ids = {}
  <2>1. Settle(3, "converged", {})
    BY <1>2, <1>4 DEF Rebut
  <2>2. Drops(turns')
    BY <1>2, <1>4 DEF OneMore
  <2>3. Contested(turns') = {} /\ Standing(turns') = {1, 3}
    BY <1>3, <2>2 DEF Contested, Standing
  <2>4. Rests(turns', 3, "converged", {})
    BY <2>3 DEF Rests
  <2> QED
    BY <1>3, <2>1, <2>4, SettleTells
<1>5. CASE t.ledger = None \/ t.ledger.ids # {}
  <2>1. \E how \in {"adjudicated", "stalemate"} : Adjudicate(open, how)
    BY <1>2, <1>5 DEF Rebut
  <2>2. pc' = "adjudicate" /\ open' = open /\ ruling' \in {"adjudicated", "stalemate"} /\ UNCHANGED <<payload, stored>>
    BY <2>1 DEF Adjudicate, Goto
  <2>3. ~Drops(turns')
    BY <1>1, <1>2, <1>5 DEF OneMore, Argued
  <2>4. Argued(turns', open)
    BY <1>3, <2>3 DEF Argued
  <2>5. DebateInv'
    BY <1>3, <2>2, <2>4 DEF DebateInv, Awaited
  <2> QED
    BY <2>2, <2>5, Untold
<1> QED
  BY <1>4, <1>5

\* The proposer's latest position stands where nobody has ruled.
LEMMA PositionStands ==
  ASSUME Heard(turns', "propose") = {1}, Heard(turns', "revise") \in {{}, {3}}, Rulings(turns') = {}
  PROVE  Position \in Standing(turns') /\ \A i \in Standing(turns') : i <= Position
<1>1. Position = IF Heard(turns', "revise") # {} THEN 3 ELSE 1
  BY SpokenIsHeard DEF Position
<1>2. Standing(turns') = {1} \cup Heard(turns', "revise")
  BY DEF Standing
<1> QED
  BY <1>1, <1>2

LEMMA RuleTells ==
  ASSUME DebateInv, ~stored, Rule
  PROVE  DebateInv' /\ Told'
<1>1. /\ pc = "adjudicate" /\ turns \in Seq(Turn) /\ Len(turns) >= 2 /\ Argued(turns, open)
      /\ ruling \in {"adjudicated", "stalemate"}
      /\ open = Ids(turns, "refute") \ Ids(turns, "revise")
  BY DEF Rule, DebateInv, Awaited, Argued
<1>2. PICK t \in Turn : OneMore(turns, t, turns') /\ t.role = "adjudicate" /\ Latest = t
  <2>1. Spoke("adjudicate", {None}) /\ "adjudicate" \in Awaited /\ {None} \subseteq Rebuttals
    BY DEF Rule, Awaited, Rebuttals, Ledgers
  <2> QED
    BY <1>1, <2>1, SpokeIs
<1>3. /\ turns' \in Seq(Turn) /\ ~Drops(turns') /\ (Answered(t.reply) => AllHeard(turns'))
      /\ Heard(turns', "propose") = {1} /\ Heard(turns', "revise") \in {{}, {3}}
      /\ Rulings(turns') = (IF Answered(t.reply) THEN {Len(turns')} ELSE {})
      /\ Contested(turns') = open
  <2>1. turns' \in Seq(Turn) /\ (Answered(t.reply) => AllHeard(turns'))
    BY <1>1, <1>2 DEF Argued, OneMore
  <2>2. ~Drops(turns') /\ Heard(turns', "propose") = {1} /\ Heard(turns', "revise") \in {{}, {3}}
    BY <1>1, <1>2 DEF Argued, Awaited, OneMore
  <2>3. Rulings(turns') = (IF Answered(t.reply) THEN {Len(turns')} ELSE {})
    BY <1>1, <1>2 DEF Argued, Awaited, Rulings, OneMore
  <2>4. Ids(turns', "refute") = Ids(turns, "refute") /\ Ids(turns', "revise") = Ids(turns, "revise")
    BY <1>1, <1>2 DEF Awaited, OneMore
  <2>5. Contested(turns') = open
    BY <1>1, <2>2, <2>4 DEF Contested
  <2> QED
    BY <2>1, <2>2, <2>3, <2>5
<1>4. CASE Answered(t.reply)
  <2>1. Settle(Len(turns'), ruling, open)
    BY <1>2, <1>4 DEF Rule
  <2>2. Standing(turns') = {Len(turns')} /\ Len(turns') \in Nat
    BY <1>3, <1>4 DEF Standing
  <2>3. Rests(turns', Len(turns'), ruling, open)
    BY <1>1, <1>3, <1>4, <2>2 DEF Rests, Material
  <2> QED
    BY <1>3, <1>4, <2>1, <2>3, SettleTells
<1>5. CASE ~Answered(t.reply)
  <2>1. Settle(Position, "adjudicator_unavailable", open)
    BY <1>2, <1>5 DEF Rule
  <2>2. Rests(turns', Position, "adjudicator_unavailable", open)
    BY <1>3, <1>5, PositionStands DEF Rests, Material, Unruled
  <2> QED
    BY <1>3, <2>1, <2>2, SettleTells
<1> QED
  BY <1>4, <1>5

LEMMA TimeoutTells ==
  ASSUME DebateInv, ~stored, DebateTimesOut
  PROVE  DebateInv' /\ Told'
<1>1. turns' = turns /\ turns \in Seq(Turn) /\ pc \in Awaited
  BY DEF DebateTimesOut, DebateInv
<1>2. CASE turns = <<>>
  <2>1. pc' = "done" /\ payload'.status # "ok" /\ ~stored'
    BY <1>2 DEF DebateTimesOut, Return
  <2> QED
    BY <1>1, <2>1, Untold DEF DebateInv, Awaited
<1>3. CASE turns # <<>>
  <2>1. Settle(Position, "degraded_timeout", open) /\ Argued(turns', open)
    BY <1>1, <1>3 DEF DebateTimesOut, DebateInv
  <2>2. Contested(turns') = open
    BY <2>1 DEF Argued, Contested
  <2>3. Position \in Standing(turns') /\ \A i \in Standing(turns') : i <= Position
    BY <2>1, PositionStands DEF Argued
  <2>4. Rests(turns', Position, "degraded_timeout", open)
    BY <2>2, <2>3 DEF Rests, Material, Unruled
  <2> QED
    BY <1>1, <2>1, <2>4, SettleTells
<1> QED
  BY <1>2, <1>3

LEMMA DebateTells == DebateInv /\ ~stored /\ DebateNext => DebateInv' /\ Told'
<1> SUFFICES ASSUME DebateInv, ~stored, DebateNext PROVE DebateInv' /\ Told'
  OBVIOUS
<1>1. CASE DebateOpen
  <2>1. /\ pc = "debate" /\ UNCHANGED debateVars /\ pc' \in {"propose", "done"} /\ ~stored'
        /\ pc' = "done" => payload'.status # "ok"
    BY <1>1 DEF DebateOpen, Return, Goto
  <2> QED
    BY <2>1, Untold DEF DebateInv, Awaited, debateVars
<1> QED
  BY <1>1, ProposeTells, RefuteTells, ReviseTells, RebutTells, RuleTells, TimeoutTells DEF DebateNext

\* Before a verdict, what leaves the debate alone and does not end in it.
LEMMA DebateKept ==
  ASSUME DebateInv, UNCHANGED <<turns, open, ruling>>,
         \/ pc' = pc
         \/ pc' \notin {"ask", "debate"} \cup Awaited
         \/ pc = "ask" /\ pc' = "debate"
  PROVE  DebateInv'
  BY DEF DebateInv, Awaited

-----------------------------------------------------------------------------
(* What is kept in the cache is whole. *)

CouncilWhole ==
  /\ payload.tool = "council" /\ merger.by # None /\ merger.whole /\ Cardinality(Ok(answers)) >= 2
  /\ \A s \in DOMAIN answers : ~CutOff(answers[s])
ChainWhole == payload.tool = "chain" /\ Answered(steps[length]) /\ \A i \in DOMAIN steps : ~CutOff(steps[i])
Whole == stored => CouncilWhole \/ ChainWhole \/ (payload.tool = "debate" /\ DebateWhole)

LEMMA WholeIs == Whole => VerdictsCachedAreWhole
  BY DEF Whole, CouncilWhole, ChainWhole, DebateWhole, AllHeard, VerdictsCachedAreWhole, Said

LEMMA CouncilKeepsWhole ==
  ASSUME CouncilInv, ~stored, CouncilNext
  PROVE  Whole'
<1>1. CASE Conclude
  <2> DEFINE cut == ~merger.whole \/ \E s \in request.panel : CutOff(answers[s])
  <2>1. /\ pc = "conclude" /\ payload' = Verdict(answers, merger.by, cut, left')
        /\ stored' = MayKeep(merger.by, cut) /\ UNCHANGED <<answers, merger>>
    BY <1>1 DEF Conclude, Return
  <2>2. payload'.tool = "council"
    BY <2>1 DEF Verdict
  <2>3. DOMAIN answers = request.panel /\ Cardinality(Ok(answers)) >= 2
    BY <2>1 DEF CouncilInv
  <2>4. Ok(answers)' = Ok(answers) /\ (stored' => merger.by # None /\ ~cut)
    BY <2>1 DEF Ok, MayKeep
  <2> QED
    BY <2>1, <2>2, <2>3, <2>4 DEF Whole, CouncilWhole
<1>2. CASE ~Conclude
  <2>1. ~stored'
    <3>1. CASE Harvest \/ Open
      BY <3>1, WeighEnds DEF Harvest, Open, Return, Goto
    <3>2. CASE SynthFails \/ SynthAnswers
      BY <3>2 DEF SynthFails, SynthAnswers, Goto, panelVars
    <3>3. ASSUME NEW s \in Seats, MemberEnds(s) \/ BeginTurn(s) \/ Chats(s) \/ \E done \in BOOLEAN : Loads(s, done)
          PROVE  ~stored'
      BY <3>3 DEF MemberEnds, BeginTurn, Chats, Loads, panelVars
    <3>4. ASSUME NEW s \in Seats, FreeSeat(s) \/ TurnTimesOut(s) PROVE ~stored'
      <4>1. CASE FreeSeat(s)
        BY <4>1, WeighEnds DEF FreeSeat, panelVars
      <4>2. CASE TurnTimesOut(s)
        BY <4>2 DEF TurnTimesOut, panelVars
      <4> QED
        BY <3>4, <4>1, <4>2
    <3> QED
      BY <1>2, <3>1, <3>2, <3>3, <3>4 DEF CouncilNext
  <2> QED
    BY <2>1 DEF Whole
<1> QED
  BY <1>1, <1>2

LEMMA ChainKeepsWhole ==
  ASSUME ~stored, ChainNext
  PROVE  Whole'
<1>1. CASE Stage
  <2>1. /\ UNCHANGED length
        /\ \/ UNCHANGED panelVars
           \/ Answered(steps'[length]) /\ Delivered(steps', length, FALSE)
           \/ Goto("rescue")
           \/ \E p : Return(p, FALSE)
    BY <1>1 DEF Stage
  <2>2. CASE Answered(steps'[length]) /\ Delivered(steps', length, FALSE)
    BY <2>1, <2>2 DEF Delivered, Return, Whole, ChainWhole
  <2>3. CASE UNCHANGED panelVars \/ Goto("rescue") \/ \E p : Return(p, FALSE)
    BY <2>3 DEF panelVars, Goto, Return, Whole
  <2> QED
    BY <2>1, <2>2, <2>3
<1>2. CASE ChainOpen \/ ChainTimesOut
  BY <1>2 DEF ChainOpen, ChainTimesOut, Return, Goto, Whole
<1>3. CASE ChainRescue
  <2>1. \E at : Delivered(steps, at, TRUE)
    BY <1>3 DEF ChainRescue
  <2> QED
    BY <2>1 DEF Delivered, Return, Whole
<1> QED
  BY <1>1, <1>2, <1>3 DEF ChainNext

LEMMA ConferenceKeepsNothing ==
  ASSUME ~stored, ConferenceNext
  PROVE  ~stored'
<1>1. \A how : Reported(how) => ~stored'
  BY DEF Reported, Return
<1>2. ASSUME NEW at, Goto(at) PROVE ~stored'
  BY <1>2 DEF Goto
<1> QED
  BY <1>1, <1>2 DEF ConferenceNext, BlindRound, NamePremise, AttackPremise, OpenTurn, Map, AfterBlind, panelVars

\* What holds of every verdict.
VerdictInv == DebateInv /\ VerdictIsHonest /\ Whole

LEMMA VerdictNext == CouncilInv /\ OutInv /\ VerdictInv /\ [Next]_vars => VerdictInv'
<1> SUFFICES ASSUME CouncilInv, OutInv, VerdictInv, [Next]_vars PROVE VerdictInv'
  OBVIOUS
<1>1. CASE pc = "done"
  <2>1. UNCHANGED <<panelVars, answers, merger, turns, steps, length>>
    BY <1>1, AfterDone
  <2>2. Ok(answers)' = Ok(answers)
    BY <2>1 DEF Ok
  <2>3. DebateInv'
    BY <1>1, <2>1 DEF VerdictInv, DebateInv, Awaited, panelVars
  <2>4. VerdictIsHonest'
    BY <2>1, HonestIs DEF VerdictInv, Concluded, panelVars
  <2>5. Whole'
    BY <2>1, <2>2 DEF VerdictInv, Whole, CouncilWhole, ChainWhole, DebateWhole, panelVars
  <2> QED
    BY <2>3, <2>4, <2>5 DEF VerdictInv
<1> SUFFICES ASSUME pc # "done" PROVE VerdictInv'
  BY <1>1
<1>2. stored = FALSE
  BY DEF OutInv
<1>3. CASE AdmissionNext
  <2>1. UNCHANGED <<turns, open, ruling>>
    BY <1>3 DEF AdmissionNext, Unprepared, AskCouncil, AskHostedCouncil, AskLocalCouncil, AskChain, AskDebate,
                AskConference, LeaveConference, debateVars
  <2>2. /\ pc = "ask" /\ pc' \in {"done", "chain", "debate", "blind", "council"} /\ ~stored'
        /\ pc' = "done" => payload'.status # "ok"
    <3>1. Convening => pc' = "council" /\ UNCHANGED stored
      BY Convened DEF Convening
    <3> QED
      BY <1>2, <1>3, <3>1, AdmissionEnds DEF Elsewhere
  <2>3. DebateInv'
    BY <2>1, <2>2, DebateKept DEF VerdictInv, Awaited
  <2> QED
    BY <2>2, <2>3 DEF VerdictInv, VerdictIsHonest, Concluded, Whole
<1>4. CASE CouncilNext /\ UNCHANGED <<chainVars, debateVars, conferenceVars>>
  <2>1. pc' = pc \/ (pc' \in CouncilPlaces \cup {"done"} /\ (pc' = "done" => payload'.tool = "council"))
    BY <1>4, CouncilWithin, ThreadsKeep, SeatEnds DEF Within, CouncilPlaces, panelVars
  <2>2. DebateInv'
    BY <1>4, <2>1, DebateKept DEF VerdictInv, CouncilPlaces, Awaited, debateVars
  <2>3. Whole'
    BY <1>2, <1>4, CouncilKeepsWhole
  <2> QED
    BY <2>1, <2>2, <2>3 DEF VerdictInv, VerdictIsHonest, Concluded
<1>5. CASE ChainNext /\ UNCHANGED <<councilVars, debateVars, conferenceVars>>
  <2>1. pc' \in ChainPlaces \cup {"done"} /\ (pc' = "done" => payload'.tool = "chain")
    BY <1>5, ChainWithin DEF Within
  <2>2. DebateInv'
    BY <1>5, <2>1, DebateKept DEF VerdictInv, ChainPlaces, Awaited, debateVars
  <2> QED
    BY <1>2, <1>5, <2>1, <2>2, ChainKeepsWhole DEF VerdictInv, VerdictIsHonest, Concluded
<1>6. CASE DebateNext
  <2>1. DebateInv' /\ Told'
    BY <1>2, <1>6, DebateTells DEF VerdictInv
  <2>2. Whole'
    BY <1>2, <1>6, <2>1, DebateWithin DEF Within, Told, Whole
  <2> QED
    BY <2>1, <2>2 DEF VerdictInv, Told
<1>7. CASE ConferenceNext /\ UNCHANGED <<councilVars, chainVars, debateVars>>
  <2>1. pc' \in ConferencePlaces \cup {"done"} /\ (pc' = "done" => payload'.tool = "conference") /\ ~stored'
    BY <1>2, <1>7, ConferenceWithin, ConferenceKeepsNothing DEF Within
  <2>2. DebateInv'
    BY <1>7, <2>1, DebateKept DEF VerdictInv, ConferencePlaces, Awaited, debateVars
  <2> QED
    BY <2>1, <2>2 DEF VerdictInv, VerdictIsHonest, Concluded, Whole
<1>8. CASE UNCHANGED vars
  <2>1. UNCHANGED <<pc, stored, turns, open, ruling>>
    BY <1>8 DEF vars, panelVars, debateVars
  <2>2. DebateInv'
    BY <2>1, DebateKept DEF VerdictInv
  <2> QED
    BY <1>2, <2>1, <2>2 DEF VerdictInv, VerdictIsHonest, Concluded, Whole
<1> QED
  BY <1>3, <1>4, <1>5, <1>6, <1>7, <1>8 DEF Next

\* VerdictsHoldUp: a debate's verdict reports what is contested, whoever cut it short,
\* and no panel leaves in the cache what a re-run would better.
THEOREM VerdictsHoldUpHolds == Spec => []VerdictsHoldUp
<1>1. Init => VerdictInv
  <2> SUFFICES ASSUME Init PROVE VerdictInv
    OBVIOUS
  <2>1. turns = <<>> /\ open = {} /\ pc = "ask" /\ stored = FALSE
    BY DEF Init, DebateInit
  <2> QED
    BY <2>1, NothingSaid DEF VerdictInv, DebateInv, Awaited, VerdictIsHonest, Concluded, Whole
<1>2. VerdictInv => VerdictsHoldUp
  BY WholeIs DEF VerdictInv, VerdictsHoldUp
<1> QED
  BY <1>1, <1>2, PanelInvariant, VerdictNext, PTL DEF Spec

-----------------------------------------------------------------------------
(* The loops over names: what each has gathered after so many of the list.            *)

\* No two of a list name one model.
Distinct(s) == \A i, j \in DOMAIN s : Id(s[i]) = Id(s[j]) => i = j

LEMMA LeastOf ==
  ASSUME NEW T \in SUBSET Nat, T # {}
  PROVE  \E i \in T : \A j \in T : i <= j
<1>1. IsWellFoundedOn(OpToRel(<, Nat), Nat)
  BY NatLessThanWellFounded
<1>2. PICK i \in T : \A j \in T : ~(<<j, i>> \in OpToRel(<, Nat))
  BY <1>1, WFMin
<1>3. \A j \in T : ~(j < i)
  BY <1>2 DEF OpToRel
<1> QED BY <1>3

\* What holds before a loop, and after each of its turns, holds at its end: the first
\* turn after which it did not would have begun where it did.
LEMMA EachTurn ==
  ASSUME NEW N \in Nat, NEW P, 0 \in P, \A i \in 1 .. N : i - 1 \in P => i \in P
  PROVE  \A i \in 0 .. N : i \in P
<1> DEFINE T == {i \in 0 .. N : i \notin P}
<1> SUFFICES ASSUME T # {} PROVE FALSE
  OBVIOUS
<1>1. PICK i \in T : \A j \in T : i <= j
  <2>1. T \in SUBSET Nat
    OBVIOUS
  <2> QED BY <2>1, LeastOf
<1>2. i \in 1 .. N /\ i \notin P
  OBVIOUS
<1>3. i - 1 \in T
  BY <1>2
<1> QED BY <1>1, <1>2, <1>3

\* A loop as a function of the turn: what it has made of start, where G says what a
\* turn makes of what there is.
Loop(f, N, D, start, G) ==
  f \in [0 .. N -> D] /\ \A i \in 0 .. N : f[i] = IF i = 0 THEN start ELSE G[f[i - 1]][i]
Stays(G, N, D) == \A d \in D, i \in 1 .. N : G[d][i] \in D

LEMMA LoopExists ==
  ASSUME NEW N \in Nat, NEW D, NEW start \in D, NEW G, Stays(G, N, D)
  PROVE  \E f : Loop(f, N, D, start, G)
<1> USE DEF Loop, Stays
<1> DEFINE Upto(n) == \E f : Loop(f, n, D, start, G)
           P == {n \in 0 .. N : Upto(n)}
<1>1. 0 \in P
  <2> DEFINE f == [i \in 0 .. 0 |-> start]
  <2>1. f \in [0 .. 0 -> D] /\ \A i \in 0 .. 0 : i = 0 /\ f[i] = start
    OBVIOUS
  <2> HIDE DEF f
  <2>2. Upto(0)
    BY <2>1
  <2> QED BY <2>2
<1>2. ASSUME NEW n \in 1 .. N, n - 1 \in P PROVE n \in P
  <2>1. PICK f : Loop(f, n - 1, D, start, G)
    BY <1>2
  <2> DEFINE g == [i \in 0 .. n |-> IF i = n THEN G[f[n - 1]][n] ELSE f[i]]
  <2>2. n - 1 \in 0 .. n - 1 /\ f[n - 1] \in D
    BY <2>1
  <2>3. G[f[n - 1]][n] \in D
    BY <2>2
  <2>4. g \in [0 .. n -> D] /\ g[n] = G[f[n - 1]][n] /\ \A i \in 0 .. n - 1 : g[i] = f[i]
    BY <2>1, <2>3
  <2> HIDE DEF g
  <2>5. ASSUME NEW i \in 0 .. n PROVE g[i] = IF i = 0 THEN start ELSE G[g[i - 1]][i]
    <3>1. CASE i = n
      BY <2>2, <2>4, <3>1
    <3>2. CASE i # n
      <4>1. i \in 0 .. n - 1 /\ (i # 0 => i - 1 \in 0 .. n - 1)
        BY <3>2
      <4> QED BY <2>1, <2>4, <4>1
    <3> QED BY <3>1, <3>2
  <2>6. Upto(n)
    BY <2>4, <2>5
  <2> QED BY <2>6
<1> HIDE DEF P
<1>3. \A i \in 0 .. N : i \in P
  BY <1>1, <1>2, EachTurn
<1>4. N \in P
  BY <1>3
<1> QED BY <1>4 DEF P

\* Two lists that name no model both.
Apart(q, r) == \A x \in Elements(q), y \in Elements(r) : Id(x) # Id(y)

LEMMA Concatenated ==
  ASSUME NEW X, NEW q \in Seq(X), NEW r \in Seq(X)
  PROVE  /\ q \o r \in Seq(X) /\ Elements(q \o r) = Elements(q) \cup Elements(r)
         /\ Distinct(q) /\ Distinct(r) /\ Apart(q, r) => Distinct(q \o r)
<1>1. /\ q \o r \in Seq(X) /\ Len(q) \in Nat /\ Len(r) \in Nat /\ Len(q \o r) = Len(q) + Len(r)
      /\ \A i \in 1 .. Len(q) + Len(r) : (q \o r)[i] = IF i <= Len(q) THEN q[i] ELSE r[i - Len(q)]
      /\ DOMAIN q = 1 .. Len(q) /\ DOMAIN r = 1 .. Len(r) /\ DOMAIN (q \o r) = 1 .. Len(q) + Len(r)
  BY ConcatProperties, LenProperties
<1> DEFINE qr == q \o r
<1> HIDE DEF qr
<1>2. \A i \in DOMAIN q : i \in DOMAIN qr /\ qr[i] = q[i]
  BY <1>1 DEF qr
<1>3. \A i \in DOMAIN r : i + Len(q) \in DOMAIN qr /\ qr[i + Len(q)] = r[i]
  BY <1>1 DEF qr
<1>4. \A i \in DOMAIN qr : \/ i \in DOMAIN q /\ qr[i] = q[i]
                           \/ i \notin DOMAIN q /\ i - Len(q) \in DOMAIN r /\ qr[i] = r[i - Len(q)]
  BY <1>1 DEF qr
<1>5. Elements(qr) = Elements(q) \cup Elements(r)
  BY <1>2, <1>3, <1>4 DEF Elements
<1>6. ASSUME Distinct(q), Distinct(r), Apart(q, r)
      PROVE  Distinct(qr)
  <2> SUFFICES ASSUME NEW i \in DOMAIN qr, NEW j \in DOMAIN qr, Id(qr[i]) = Id(qr[j]) PROVE i = j
    BY DEF Distinct
  <2>0. i \in Nat /\ j \in Nat /\ Len(q) \in Nat
    BY <1>1 DEF qr
  <2>1. CASE i \in DOMAIN q /\ j \in DOMAIN q
    BY <1>4, <1>6, <2>1 DEF Distinct
  <2>2. CASE i \notin DOMAIN q /\ j \notin DOMAIN q
    <3>1. i - Len(q) = j - Len(q)
      BY <1>4, <1>6, <2>2 DEF Distinct
    <3> QED BY <2>0, <3>1
  <2>3. CASE i \in DOMAIN q /\ j \notin DOMAIN q
    BY <1>4, <1>6, <2>3 DEF Elements, Apart
  <2>4. CASE i \notin DOMAIN q /\ j \in DOMAIN q
    BY <1>4, <1>6, <2>4 DEF Elements, Apart
  <2> QED BY <2>1, <2>2, <2>3, <2>4
<1> QED BY <1>1, <1>5, <1>6 DEF qr

LEMMA OneOrNone ==
  /\ \A X, x : x \in X => <<x>> \in Seq(X) /\ <<>> \in Seq(X)
  /\ \A x : Elements(<<x>>) = {x} /\ Distinct(<<x>>)
  /\ Elements(<<>>) = {} /\ Distinct(<<>>)
<1>1. \A x : DOMAIN <<x>> = {1} /\ <<x>>[1] = x
  OBVIOUS
<1>2. DOMAIN <<>> = {}
  OBVIOUS
<1> QED BY <1>1, <1>2 DEF Elements, Distinct

\* A loop that adds to a list, what M says it adds.
Gathers(f, N, X, M) ==
  /\ f \in [0 .. N -> Seq(X)]
  /\ \A i \in 0 .. N : IF i = 0 THEN f[i] = <<>>
                      ELSE f[i - 1] \in Seq(X) /\ f[i] = f[i - 1] \o M[f[i - 1]][i]

LEMMA GathersExists ==
  ASSUME NEW N \in Nat, NEW X, NEW M, \A d \in Seq(X), i \in 1 .. N : M[d][i] \in Seq(X)
  PROVE  \E f : Gathers(f, N, X, M)
<1> DEFINE D == Seq(X)
           start == <<>>
           G == [d \in D |-> [i \in 1 .. N |-> d \o M[d][i]]]
<1>1. \A d \in D, i \in 1 .. N : d \o M[d][i] \in D
  BY Concatenated
<1>2. start \in D
  OBVIOUS
<1> HIDE DEF D, start
<1>3. \A d \in D, i \in 1 .. N : G[d][i] = d \o M[d][i] /\ G[d][i] \in D
  BY <1>1
<1> HIDE DEF G
<1>4. PICK f : Loop(f, N, D, start, G)
  <2>1. Stays(G, N, D)
    BY <1>3 DEF Stays
  <2> QED BY <1>2, <2>1, LoopExists, Zenon
<1>5. f \in [0 .. N -> D] /\ \A i \in 0 .. N : f[i] = IF i = 0 THEN start ELSE G[f[i - 1]][i]
  BY <1>4 DEF Loop
<1>6. ASSUME NEW i \in 0 .. N
      PROVE  IF i = 0 THEN f[i] = start ELSE f[i - 1] \in D /\ f[i] = f[i - 1] \o M[f[i - 1]][i]
  <2>1. CASE i = 0
    BY <1>5, <2>1
  <2>2. CASE i # 0
    <3>1. i - 1 \in 0 .. N /\ i \in 1 .. N
      BY <2>2
    <3>2. f[i - 1] \in D
      BY <1>5, <3>1
    <3>3. f[i] = G[f[i - 1]][i]
      BY <1>5, <2>2
    <3>4. G[f[i - 1]][i] = f[i - 1] \o M[f[i - 1]][i]
      BY <3>1, <3>2, <1>3
    <3> QED BY <2>2, <3>2, <3>3, <3>4
  <2> QED BY <2>1, <2>2
<1> QED BY <1>5, <1>6 DEF Gathers, D, start

LEMMA KeptIs ==
  ASSUME NEW X, NEW s \in Seq(X), NEW S
  PROVE  /\ Kept(s, S) \in Seq(X) /\ Elements(Kept(s, S)) = Elements(s) \cap S
         /\ Distinct(s) => Distinct(Kept(s, S))
<1> DEFINE N == Len(s)
           more(i) == IF s[i] \in S THEN <<s[i]>> ELSE <<>>
           Runs(f) == f = [i \in 0 .. N |-> IF i = 0 THEN <<>> ELSE f[i - 1] \o more(i)]
           upTo == CHOOSE f : Runs(f)
           P == {i \in 0 .. N : /\ upTo[i] \in Seq(X)
                                /\ \A x : x \in Elements(upTo[i]) <=> \E j \in 1 .. i : s[j] = x /\ x \in S
                                /\ Distinct(s) => Distinct(upTo[i])}
<1>1. N \in Nat /\ DOMAIN s = 1 .. N /\ \A i \in 1 .. N : s[i] \in X
  BY LenProperties, ElementOfSeq
<1>2. \A i \in 1 .. N : more(i) \in Seq(X) /\ Elements(more(i)) = {s[i]} \cap S /\ Distinct(more(i))
  BY <1>1, OneOrNone, Zenon
<1> HIDE DEF more, N
<1>3. \E f : Runs(f)
  <2> DEFINE M == [d \in Seq(X) |-> [i \in 1 .. N |-> more(i)]]
  <2>1. \A d \in Seq(X), i \in 1 .. N : M[d][i] = more(i) /\ M[d][i] \in Seq(X)
    BY <1>2
  <2> HIDE DEF M
  <2>2. PICK f : Gathers(f, N, X, M)
    BY <1>1, <2>1, GathersExists, Zenon
  <2>3. ASSUME NEW i \in 0 .. N PROVE f[i] = IF i = 0 THEN <<>> ELSE f[i - 1] \o more(i)
    <3>1. IF i = 0 THEN f[i] = <<>> ELSE f[i - 1] \in Seq(X) /\ f[i] = f[i - 1] \o M[f[i - 1]][i]
      BY <2>2, Zenon DEF Gathers
    <3>2. i # 0 => i \in 1 .. N
      BY <1>1
    <3> QED BY <3>1, <3>2, <2>1, Zenon
  <2>4. f = [i \in 0 .. N |-> IF i = 0 THEN <<>> ELSE f[i - 1] \o more(i)]
    BY <2>2, <2>3 DEF Gathers
  <2> QED BY <2>4
<1>4. Runs(upTo) /\ Kept(s, S) = upTo[N]
  <2>1. Runs(upTo)
    BY <1>3
  <2> QED BY <2>1 DEF Kept, more, N
<1>5. upTo[0] = <<>> /\ \A i \in 1 .. N : upTo[i] = upTo[i - 1] \o more(i)
  <2> HIDE DEF upTo
  <2>1. upTo = [i \in 0 .. N |-> IF i = 0 THEN <<>> ELSE upTo[i - 1] \o more(i)]
    BY <1>4
  <2>2. 0 \in 0 .. N /\ \A i \in 1 .. N : i \in 0 .. N /\ i # 0
    BY <1>1
  <2> QED BY <2>1, <2>2, Zenon
<1> HIDE DEF upTo
<1>6. 0 \in P
  <2>1. upTo[0] \in Seq(X) /\ Elements(upTo[0]) = {} /\ Distinct(upTo[0])
    <3>1. <<>> \in Seq(X)
      OBVIOUS
    <3> QED BY <3>1, <1>5, OneOrNone, Zenon
  <2>2. 0 \in 0 .. N /\ \A j \in 1 .. 0 : FALSE
    BY <1>1
  <2> QED BY <2>1, <2>2
<1>7. ASSUME NEW i \in 1 .. N, i - 1 \in P PROVE i \in P
  <2>1. /\ upTo[i - 1] \in Seq(X) /\ (Distinct(s) => Distinct(upTo[i - 1]))
        /\ \A x : x \in Elements(upTo[i - 1]) <=> \E j \in 1 .. i - 1 : s[j] = x /\ x \in S
    BY <1>7
  <2>2. upTo[i] \in Seq(X) /\ Elements(upTo[i]) = Elements(upTo[i - 1]) \cup ({s[i]} \cap S)
    <3>1. PICK q : q = upTo[i - 1]
      OBVIOUS
    <3>2. PICK r : r = more(i)
      OBVIOUS
    <3>3. q \in Seq(X) /\ r \in Seq(X) /\ Elements(r) = {s[i]} \cap S
      BY <1>2, <2>1, <3>1, <3>2
    <3>4. q \o r \in Seq(X) /\ Elements(q \o r) = Elements(q) \cup Elements(r)
      BY <3>3, Concatenated, Zenon
    <3>5. upTo[i] = q \o r
      BY <1>5, <3>1, <3>2
    <3> QED BY <3>1, <3>3, <3>4, <3>5, Zenon
  <2>3. \A j \in 1 .. i : j = i \/ j \in 1 .. i - 1
    BY <1>1
  <2>4. ASSUME NEW x PROVE x \in Elements(upTo[i]) <=> \E j \in 1 .. i : s[j] = x /\ x \in S
    <3>1. \A j \in 1 .. i - 1 : j \in 1 .. i
      BY <1>1
    <3>2. i \in 1 .. i
      BY <1>1
    <3> QED BY <2>1, <2>2, <2>3, <3>1, <3>2, Zenon
  <2>5. ASSUME Distinct(s) PROVE Distinct(upTo[i])
    <3>1. \A x \in Elements(upTo[i - 1]) : \E j \in 1 .. i - 1 : s[j] = x
      BY <2>1
    <3>2. \A j \in 1 .. i - 1 : j \in DOMAIN s /\ i \in DOMAIN s /\ j # i
      BY <1>1
    <3>3. Apart(upTo[i - 1], more(i))
      BY <3>1, <3>2, <1>2, <2>5 DEF Distinct, Apart
    <3>4. upTo[i - 1] \in Seq(X) /\ Distinct(upTo[i - 1]) /\ more(i) \in Seq(X) /\ Distinct(more(i))
      BY <1>2, <2>1, <2>5
    <3>5. Distinct(upTo[i - 1] \o more(i))
      BY <3>3, <3>4, Concatenated, Zenon
    <3> QED BY <3>5, <1>5
  <2> QED BY <2>2, <2>4, <2>5
<1> HIDE DEF P
<1>8. N \in P
  <2>1. \A i \in 0 .. N : i \in P
    BY <1>1, <1>6, <1>7, EachTurn
  <2> QED BY <2>1, <1>1
<1>9. Elements(s) = {s[j] : j \in 1 .. N}
  BY <1>1 DEF Elements
<1>10. /\ upTo[N] \in Seq(X) /\ (Distinct(s) => Distinct(upTo[N]))
       /\ \A x : x \in Elements(upTo[N]) <=> \E j \in 1 .. N : s[j] = x /\ x \in S
  BY <1>8 DEF P
<1>11. Elements(upTo[N]) = Elements(s) \cap S
  BY <1>9, <1>10
<1> QED BY <1>4, <1>10, <1>11

LEMMA FirstSeenIs ==
  ASSUME NEW X, NEW s \in Seq(X)
  PROVE  /\ FirstSeen(s) \in Seq(X) /\ Elements(FirstSeen(s)) \subseteq Elements(s)
         /\ \A x \in Elements(s) : \E y \in Elements(FirstSeen(s)) : Id(y) = Id(x)
         /\ Distinct(FirstSeen(s))
<1> DEFINE N == Len(s)
           more(seen, i) == IF \E y \in Elements(seen) : Id(y) = Id(s[i]) THEN <<>> ELSE <<s[i]>>
           Runs(f) == f = [i \in 0 .. N |-> IF i = 0 THEN <<>> ELSE f[i - 1] \o more(f[i - 1], i)]
           upTo == CHOOSE f : Runs(f)
           P == {i \in 0 .. N : /\ upTo[i] \in Seq(X)
                                /\ \A x \in Elements(upTo[i]) : \E j \in 1 .. i : s[j] = x
                                /\ \A j \in 1 .. i : \E y \in Elements(upTo[i]) : Id(y) = Id(s[j])
                                /\ Distinct(upTo[i])}
<1>1. N \in Nat /\ DOMAIN s = 1 .. N /\ \A i \in 1 .. N : s[i] \in X
  BY LenProperties, ElementOfSeq
<1>2. ASSUME NEW seen, NEW i \in 1 .. N
      PROVE  /\ more(seen, i) \in Seq(X) /\ Distinct(more(seen, i))
             /\ Elements(more(seen, i)) = IF \E y \in Elements(seen) : Id(y) = Id(s[i]) THEN {} ELSE {s[i]}
  BY <1>1, OneOrNone, Zenon
<1> HIDE DEF more, N
<1>3. \E f : Runs(f)
  <2> DEFINE M == [d \in Seq(X) |-> [i \in 1 .. N |-> more(d, i)]]
  <2>1. \A d \in Seq(X), i \in 1 .. N : M[d][i] = more(d, i) /\ M[d][i] \in Seq(X)
    BY <1>2
  <2> HIDE DEF M
  <2>2. PICK f : Gathers(f, N, X, M)
    BY <1>1, <2>1, GathersExists, Zenon
  <2>3. ASSUME NEW i \in 0 .. N PROVE f[i] = IF i = 0 THEN <<>> ELSE f[i - 1] \o more(f[i - 1], i)
    <3>1. IF i = 0 THEN f[i] = <<>> ELSE f[i - 1] \in Seq(X) /\ f[i] = f[i - 1] \o M[f[i - 1]][i]
      BY <2>2, Zenon DEF Gathers
    <3>2. i # 0 => i \in 1 .. N
      BY <1>1
    <3> QED BY <3>1, <3>2, <2>1, Zenon
  <2>4. f = [i \in 0 .. N |-> IF i = 0 THEN <<>> ELSE f[i - 1] \o more(f[i - 1], i)]
    BY <2>2, <2>3 DEF Gathers
  <2> QED BY <2>4
<1>4. Runs(upTo) /\ FirstSeen(s) = upTo[N]
  <2>1. Runs(upTo)
    BY <1>3
  <2> QED BY <2>1 DEF FirstSeen, more, N
<1>5. upTo[0] = <<>> /\ \A i \in 1 .. N : upTo[i] = upTo[i - 1] \o more(upTo[i - 1], i)
  <2> HIDE DEF upTo
  <2>1. upTo = [i \in 0 .. N |-> IF i = 0 THEN <<>> ELSE upTo[i - 1] \o more(upTo[i - 1], i)]
    BY <1>4
  <2>2. 0 \in 0 .. N /\ \A i \in 1 .. N : i \in 0 .. N /\ i # 0
    BY <1>1
  <2> QED BY <2>1, <2>2, Zenon
<1> HIDE DEF upTo
<1>6. 0 \in P
  <2>1. upTo[0] \in Seq(X) /\ Elements(upTo[0]) = {} /\ Distinct(upTo[0])
    <3>1. <<>> \in Seq(X)
      OBVIOUS
    <3> QED BY <3>1, <1>5, OneOrNone, Zenon
  <2>2. 0 \in 0 .. N /\ \A j \in 1 .. 0 : FALSE
    BY <1>1
  <2> QED BY <2>1, <2>2
<1>7. ASSUME NEW i \in 1 .. N, i - 1 \in P PROVE i \in P
  <2>1. PICK q : q = upTo[i - 1]
    OBVIOUS
  <2>2. PICK r : r = more(q, i)
    OBVIOUS
  <2>3. /\ q \in Seq(X) /\ Distinct(q) /\ \A x \in Elements(q) : \E j \in 1 .. i - 1 : s[j] = x
        /\ \A j \in 1 .. i - 1 : \E y \in Elements(q) : Id(y) = Id(s[j])
    BY <1>7, <2>1
  <2>4. /\ r \in Seq(X) /\ Distinct(r)
        /\ Elements(r) = IF \E y \in Elements(q) : Id(y) = Id(s[i]) THEN {} ELSE {s[i]}
    BY <1>2, <2>2
  <2>5. Apart(q, r)
    BY <2>4 DEF Apart
  <2>6. q \o r \in Seq(X) /\ Elements(q \o r) = Elements(q) \cup Elements(r) /\ Distinct(q \o r)
    <3>1. q \in Seq(X) /\ r \in Seq(X) /\ Distinct(q) /\ Distinct(r)
      BY <2>3, <2>4
    <3> QED BY <2>5, <3>1, Concatenated, Zenon
  <2>7. upTo[i] = q \o r
    BY <1>5, <2>1, <2>2
  <2>8. /\ i \in 0 .. N /\ i \in 1 .. i /\ \A j \in 1 .. i : j = i \/ j \in 1 .. i - 1
        /\ \A j \in 1 .. i - 1 : j \in 1 .. i
    BY <1>1
  <2>9. \A x \in Elements(upTo[i]) : \E j \in 1 .. i : s[j] = x
    BY <2>3, <2>4, <2>6, <2>7, <2>8, Zenon
  <2>10. ASSUME NEW j \in 1 .. i PROVE \E y \in Elements(upTo[i]) : Id(y) = Id(s[j])
    BY <2>3, <2>4, <2>6, <2>7, <2>8, Zenon
  <2> QED BY <2>6, <2>7, <2>8, <2>9, <2>10
<1> HIDE DEF P
<1>8. N \in P
  <2>1. \A i \in 0 .. N : i \in P
    BY <1>1, <1>6, <1>7, EachTurn
  <2> QED BY <2>1, <1>1
<1>9. Elements(s) = {s[j] : j \in 1 .. N}
  BY <1>1 DEF Elements
<1>10. /\ upTo[N] \in Seq(X) /\ Distinct(upTo[N]) /\ \A x \in Elements(upTo[N]) : \E j \in 1 .. N : s[j] = x
       /\ \A j \in 1 .. N : \E y \in Elements(upTo[N]) : Id(y) = Id(s[j])
  BY <1>8 DEF P
<1>11. Elements(upTo[N]) \subseteq Elements(s) /\ \A x \in Elements(s) : \E y \in Elements(upTo[N]) : Id(y) = Id(x)
  BY <1>9, <1>10
<1> QED BY <1>4, <1>10, <1>11, Zenon

\* What a name stands for, in the list of those that are typed.
Typed(n) == IF n \in DOMAIN GroupOf THEN GroupOf[n] ELSE <<n>>

LEMMA ExpandedIs ==
  ASSUME NEW Y, NEW names \in Seq(Y)
  PROVE  /\ \E X : Expanded(names) \in Seq(X)
         /\ Elements(Expanded(names)) = UNION {Elements(Typed(n)) : n \in Elements(names)}
<1> DEFINE N == Len(names)
           X == UNION {Elements(Typed(n)) : n \in Elements(names)}
           more(i) == Typed(names[i])
           Runs(f) == f = [i \in 0 .. N |-> IF i = 0 THEN <<>> ELSE f[i - 1] \o more(i)]
           upTo == CHOOSE f : Runs(f)
           P == {i \in 0 .. N : /\ upTo[i] \in Seq(X)
                                /\ \A x : x \in Elements(upTo[i]) <=> \E j \in 1 .. i : x \in Elements(Typed(names[j]))}
<1>1. N \in Nat /\ DOMAIN names = 1 .. N /\ Elements(names) = {names[i] : i \in 1 .. N}
  BY LenProperties DEF Elements
<1>2. ASSUME NEW i \in 1 .. N PROVE more(i) \in Seq(X)
  <2>1. Typed(names[i]) \in Seq(Elements(Typed(names[i])))
    <3>1. CASE names[i] \in DOMAIN GroupOf
      BY <3>1, NamesAssumption DEF Typed
    <3>2. CASE names[i] \notin DOMAIN GroupOf
      BY <3>2, OneOrNone DEF Typed
    <3> QED BY <3>1, <3>2
  <2>2. Elements(Typed(names[i])) \subseteq X
    BY <1>1
  <2> HIDE DEF X
  <2> QED BY <2>1, <2>2
<1> HIDE DEF more, N, X
<1>3. \E f : Runs(f)
  <2> DEFINE M == [d \in Seq(X) |-> [i \in 1 .. N |-> more(i)]]
  <2>1. \A d \in Seq(X), i \in 1 .. N : M[d][i] = more(i) /\ M[d][i] \in Seq(X)
    BY <1>2
  <2> HIDE DEF M
  <2>2. PICK f : Gathers(f, N, X, M)
    BY <1>1, <2>1, GathersExists, Zenon
  <2>3. ASSUME NEW i \in 0 .. N PROVE f[i] = IF i = 0 THEN <<>> ELSE f[i - 1] \o more(i)
    <3>1. IF i = 0 THEN f[i] = <<>> ELSE f[i - 1] \in Seq(X) /\ f[i] = f[i - 1] \o M[f[i - 1]][i]
      BY <2>2, Zenon DEF Gathers
    <3>2. i # 0 => i \in 1 .. N
      BY <1>1
    <3> QED BY <3>1, <3>2, <2>1, Zenon
  <2>4. f = [i \in 0 .. N |-> IF i = 0 THEN <<>> ELSE f[i - 1] \o more(i)]
    BY <2>2, <2>3 DEF Gathers
  <2> QED BY <2>4
<1>4. Runs(upTo) /\ Expanded(names) = upTo[N]
  <2>1. Runs(upTo)
    BY <1>3
  <2> QED BY <2>1 DEF Expanded, more, N, Typed
<1>5. upTo[0] = <<>> /\ \A i \in 1 .. N : upTo[i] = upTo[i - 1] \o more(i)
  <2> HIDE DEF upTo
  <2>1. upTo = [i \in 0 .. N |-> IF i = 0 THEN <<>> ELSE upTo[i - 1] \o more(i)]
    BY <1>4
  <2>2. 0 \in 0 .. N /\ \A i \in 1 .. N : i \in 0 .. N /\ i # 0
    BY <1>1
  <2> QED BY <2>1, <2>2, Zenon
<1> HIDE DEF upTo
<1>6. 0 \in P
  <2>1. upTo[0] \in Seq(X) /\ Elements(upTo[0]) = {}
    <3>1. <<>> \in Seq(X)
      OBVIOUS
    <3> QED BY <3>1, <1>5, OneOrNone, Zenon
  <2>2. 0 \in 0 .. N /\ \A j \in 1 .. 0 : FALSE
    BY <1>1
  <2> QED BY <2>1, <2>2
<1>7. ASSUME NEW i \in 1 .. N, i - 1 \in P PROVE i \in P
  <2>1. PICK q : q = upTo[i - 1]
    OBVIOUS
  <2>2. PICK r : r = more(i)
    OBVIOUS
  <2>3. q \in Seq(X) /\ \A x : x \in Elements(q) <=> \E j \in 1 .. i - 1 : x \in Elements(Typed(names[j]))
    BY <1>7, <2>1
  <2>4. r \in Seq(X) /\ Elements(r) = Elements(Typed(names[i]))
    BY <1>2, <2>2 DEF more
  <2>5. q \o r \in Seq(X) /\ Elements(q \o r) = Elements(q) \cup Elements(r)
    <3>1. q \in Seq(X) /\ r \in Seq(X)
      BY <2>3, <2>4
    <3> QED BY <3>1, Concatenated, Zenon
  <2>6. upTo[i] = q \o r
    BY <1>5, <2>1, <2>2
  <2>7. /\ i \in 0 .. N /\ i \in 1 .. i /\ \A j \in 1 .. i : j = i \/ j \in 1 .. i - 1
        /\ \A j \in 1 .. i - 1 : j \in 1 .. i
    BY <1>1
  <2>8. ASSUME NEW x PROVE x \in Elements(upTo[i]) <=> \E j \in 1 .. i : x \in Elements(Typed(names[j]))
    BY <2>3, <2>4, <2>5, <2>6, <2>7, Zenon
  <2> QED BY <2>5, <2>6, <2>7, <2>8
<1> HIDE DEF P
<1>8. N \in P
  <2>1. \A i \in 0 .. N : i \in P
    BY <1>1, <1>6, <1>7, EachTurn
  <2> QED BY <2>1, <1>1
<1>9. upTo[N] \in Seq(X) /\ \A x : x \in Elements(upTo[N]) <=> \E j \in 1 .. N : x \in Elements(Typed(names[j]))
  BY <1>8 DEF P
<1>10. Elements(upTo[N]) = X
  BY <1>1, <1>9 DEF X
<1> QED BY <1>4, <1>9, <1>10 DEF X

LEMMA RequestedIs ==
  ASSUME NEW Y, NEW names \in Seq(Y)
  PROVE  /\ \E X : Requested(names) \in Seq(X)
         /\ Elements(Requested(names)) = UNION {Meant(n) : n \in Elements(names)}
<1>1. PICK X : Expanded(names) \in Seq(X)
  BY ExpandedIs
<1> DEFINE all == Expanded(names)
           typed == Kept(all, Elements(all) \ {Blank})
<1>2. Elements(all) = UNION {Elements(Typed(n)) : n \in Elements(names)}
  BY ExpandedIs
<1>3. all \in Seq(X)
  BY <1>1
<1> HIDE DEF all
<1>4. typed \in Seq(X) /\ Elements(typed) = Elements(all) \ {Blank}
  BY <1>3, KeptIs
<1>5. Requested(names) = [i \in DOMAIN typed |-> Canonical(typed[i])]
  BY DEF Requested, all
<1> HIDE DEF typed
<1>6. Len(typed) \in Nat /\ DOMAIN typed = 1 .. Len(typed)
  BY <1>4, LenProperties
<1>7. Requested(names) \in Seq({Canonical(x) : x \in Elements(typed)})
  BY <1>5, <1>6 DEF Elements
<1>8. Elements(Requested(names)) = {Canonical(x) : x \in Elements(all) \ {Blank}}
  <2>1. Elements(Requested(names)) = {Canonical(x) : x \in Elements(typed)}
    BY <1>5 DEF Elements
  <2> QED BY <2>1, <1>4
<1>9. ASSUME NEW n \in Elements(names)
      PROVE  Meant(n) = {Canonical(x) : x \in Elements(Typed(n)) \ {Blank}}
  <2>0. Canonical(Blank) = Blank /\ ~IsOracle(Blank)
    BY NamesAssumption DEF Canonical, IsOracle, Elements
  <2>1. CASE n \in DOMAIN GroupOf
    <3>1. \A m \in Elements(GroupOf[n]) : m # Blank
      BY <2>0, <2>1, NamesAssumption
    <3> QED BY <2>1, <3>1 DEF Meant, Typed
  <2>2. CASE n \notin DOMAIN GroupOf
    <3>1. Elements(Typed(n)) = {n} /\ Meant(n) = {Canonical(n)} \ {Blank}
      BY <2>2, OneOrNone DEF Typed, Meant
    <3>2. n # Blank => Canonical(n) # Blank
      BY NamesAssumption DEF Canonical
    <3> QED BY <2>0, <3>1, <3>2
  <2> QED BY <2>1, <2>2
<1>10. ASSUME NEW x PROVE x \in Elements(Requested(names)) <=> \E n \in Elements(names) : x \in Meant(n)
  BY <1>2, <1>8, <1>9
<1> QED BY <1>7, <1>10

LEMMA OraclesDistinct ==
  /\ Oracles \in Seq(Elements(Oracles)) /\ Distinct(Oracles)
  /\ \A k \in Elements(Oracles) : Id(k) = k /\ k \notin Hosted
  /\ \A t \in Hosted : Id(t) \in Hosted
  /\ \A k : IsOracle(k) <=> k \in Elements(Oracles)
<1>1. \A k \in Elements(Oracles) : Id(k) = k /\ k \notin Hosted
  BY NamesAssumption DEF Id
<1>2. \A i \in DOMAIN Oracles : Oracles[i] \in Elements(Oracles)
  BY DEF Elements
<1> QED BY <1>1, <1>2, NamesAssumption DEF Distinct, Id, IsOracle, Elements

\* What names come to: each model once, and every name that is meant is of one of those
\* recognized or of one that is not.
LEMMA ResolvedIs ==
  ASSUME NEW Y, NEW names \in Seq(Y)
  PROVE  LET r == Resolved(names)
             ids == {Id(m) : m \in UNION {Meant(n) : n \in Elements(names)}}
         IN /\ \E X : r.recognized \in Seq(X) /\ r.unknown \in Seq(X)
            /\ Distinct(r.recognized)
            /\ ids = {Id(k) : k \in Elements(r.recognized)} \cup {Id(u) : u \in Elements(r.unknown)}
            /\ \A k \in Elements(r.recognized) : Recognized(k)
            /\ \A u \in Elements(r.unknown) : ~Recognized(u)
<1> DEFINE req == Requested(names)
           known == {n \in Elements(req) : Recognized(n)}
           inOrder == Kept(req, known)
           oracles == Kept(Oracles, Elements(inOrder))
           tokens == Kept(inOrder, Hosted)
           hosted == FirstSeen(tokens)
           others == Kept(req, Elements(req) \ known)
           unknown == FirstSeen(others)
<1>1. Resolved(names) = [recognized |-> oracles \o hosted, unknown |-> unknown]
  BY DEF Resolved, InOrder
<1>2. PICK X : req \in Seq(X)
  BY RequestedIs
<1>3. Elements(req) = UNION {Meant(n) : n \in Elements(names)}
  BY RequestedIs
<1> HIDE DEF req
<1>4. inOrder \in Seq(X) /\ Elements(inOrder) = known
  BY <1>2, KeptIs
<1>5. others \in Seq(X) /\ Elements(others) = Elements(req) \ known
  BY <1>2, KeptIs
<1> HIDE DEF inOrder, others
<1>6. tokens \in Seq(X) /\ Elements(tokens) = known \cap Hosted
  BY <1>4, KeptIs
<1>7. /\ oracles \in Seq(Elements(Oracles)) /\ Distinct(oracles)
      /\ Elements(oracles) = Elements(Oracles) \cap known
  BY <1>4, KeptIs, OraclesDistinct
<1> HIDE DEF tokens, oracles
<1>8. /\ hosted \in Seq(X) /\ Elements(hosted) \subseteq known \cap Hosted /\ Distinct(hosted)
      /\ \A x \in known \cap Hosted : \E y \in Elements(hosted) : Id(y) = Id(x)
  BY <1>6, FirstSeenIs
<1>9. /\ unknown \in Seq(X) /\ Elements(unknown) \subseteq Elements(req) \ known
      /\ \A x \in Elements(req) \ known : \E y \in Elements(unknown) : Id(y) = Id(x)
  BY <1>5, FirstSeenIs
<1> HIDE DEF hosted, unknown
<1> DEFINE Z == X \cup Elements(Oracles)
<1>10. oracles \in Seq(Z) /\ hosted \in Seq(Z) /\ unknown \in Seq(Z)
  BY <1>7, <1>8, <1>9
<1> HIDE DEF Z
<1>11. Apart(oracles, hosted)
  BY <1>7, <1>8, OraclesDistinct DEF Apart
<1>12. /\ oracles \o hosted \in Seq(Z) /\ Elements(oracles \o hosted) = Elements(oracles) \cup Elements(hosted)
       /\ Distinct(oracles \o hosted)
  <2>1. oracles \in Seq(Z) /\ hosted \in Seq(Z) /\ Distinct(oracles) /\ Distinct(hosted)
    BY <1>7, <1>8, <1>10
  <2> QED BY <2>1, <1>11, Concatenated, Zenon
<1> DEFINE recognized == oracles \o hosted
<1> HIDE DEF recognized
<1>13. /\ recognized \in Seq(Z) /\ Elements(recognized) = Elements(oracles) \cup Elements(hosted)
       /\ Distinct(recognized)
  BY <1>12 DEF recognized
<1>14. \A x \in known : \E y \in Elements(recognized) : Id(y) = Id(x)
  BY <1>7, <1>8, <1>13, OraclesDistinct DEF Recognized
<1>15. Elements(recognized) \subseteq known /\ \A k \in known : Recognized(k) /\ k \in Elements(req)
  BY <1>7, <1>8, <1>13
<1>16. \A x \in Elements(req) \ known : ~Recognized(x)
  OBVIOUS
<1> HIDE DEF known
<1>17. {Id(m) : m \in Elements(req)} = {Id(k) : k \in Elements(recognized)} \cup {Id(u) : u \in Elements(unknown)}
  BY <1>9, <1>14, <1>15
<1>18. Resolved(names).recognized = recognized /\ Resolved(names).unknown = unknown
  BY <1>1 DEF recognized
<1>19. /\ \A k \in Elements(recognized) : Recognized(k)
       /\ \A u \in Elements(unknown) : ~Recognized(u)
  BY <1>9, <1>15, <1>16
<1> QED BY <1>3, <1>10, <1>13, <1>17, <1>18, <1>19

\* No two of a list are the same.
Once(s) == \A i, j \in DOMAIN s : s[i] = s[j] => i = j

LEMMA OwnElements == ASSUME NEW X, NEW s \in Seq(X) PROVE s \in Seq(Elements(s)) /\ (s = <<>> <=> Elements(s) = {})
<1>1. Len(s) \in Nat /\ DOMAIN s = 1 .. Len(s)
  BY LenProperties
<1>2. \A i \in 1 .. Len(s) : s[i] \in Elements(s)
  BY <1>1 DEF Elements
<1>3. s # <<>> => 1 \in 1 .. Len(s)
  BY <1>1, EmptySeq
<1>4. s = <<>> => Elements(s) = {}
  BY OneOrNone
<1> QED BY <1>1, <1>2, <1>3, <1>4 

\* As many as there are places, where no two are the same.
\* f counts S from 1 to N.
Numbers(S, N, f) ==
  DOMAIN f = 1 .. N /\ S = {f[i] : i \in 1 .. N} /\ \A i, j \in 1 .. N : f[i] = f[j] => i = j

LEMMA AsManyAsPlaces ==
  ASSUME NEW N \in Nat, NEW f, NEW S, Numbers(S, N, f)
  PROVE  IsFiniteSet(S) /\ Cardinality(S) = N
<1> DEFINE g == [i \in 1 .. N |-> f[i]]
<1>1. g \in Bijection(1 .. N, S)
  BY DEF Numbers, Bijection, Injection, Surjection, IsInjective
<1>2. ExistsBijection(1 .. N, S)
  BY <1>1 DEF ExistsBijection
<1> QED BY <1>2, FS_NatBijection, FS_CountingElements

LEMMA SpeakingIs ==
  ASSUME NEW X, NEW q \in Seq(X), Once(q), NEW k \in X
  PROVE  Speaking(q, k) \in Seq(X) /\ Once(Speaking(q, k)) /\ Elements(Speaking(q, k)) = Elements(q) \cup {k}
<1>1. CASE \E i \in DOMAIN q : q[i] = k
  BY <1>1 DEF Speaking, Elements
<1>2. CASE ~\E i \in DOMAIN q : q[i] = k
  <2> DEFINE r == Append(q, k)
  <2>1. Speaking(q, k) = r
    BY <1>2 DEF Speaking
  <2>2. /\ r \in Seq(X) /\ Len(q) \in Nat /\ DOMAIN q = 1 .. Len(q) /\ DOMAIN r = 1 .. Len(q) + 1
        /\ r[Len(q) + 1] = k /\ \A i \in 1 .. Len(q) : r[i] = q[i]
    BY AppendProperties, LenProperties
  <2> HIDE DEF r
  <2>3. \A i \in DOMAIN r : i = Len(q) + 1 \/ i \in DOMAIN q
    BY <2>2
  <2>4. \A i \in DOMAIN q : i \in DOMAIN r /\ r[i] = q[i]
    BY <2>2
  <2>5. Len(q) + 1 \in DOMAIN r
    BY <2>2
  <2>6. Elements(r) = Elements(q) \cup {k}
    BY <2>2, <2>3, <2>4, <2>5 DEF Elements
  <2>7. Once(r)
    BY <1>2, <2>2, <2>3, <2>4 DEF Once
  <2> QED BY <2>1, <2>2, <2>6, <2>7
<1> QED BY <1>1, <1>2

LEMMA AllSpeakingIs ==
  ASSUME NEW X, NEW s \in Seq(X)
  PROVE  AllSpeaking(s) \in Seq(X) /\ Once(AllSpeaking(s)) /\ Elements(AllSpeaking(s)) = Elements(s)
<1> DEFINE N == Len(s)
           D == {q \in Seq(X) : Once(q)}
           start == <<>>
           Runs(f) == f = [i \in 0 .. N |-> IF i = 0 THEN <<>> ELSE Speaking(f[i - 1], s[i])]
           upTo == CHOOSE f : Runs(f)
           P == {i \in 0 .. N : upTo[i] \in D /\ \A x : x \in Elements(upTo[i]) <=> \E j \in 1 .. i : s[j] = x}
<1>1. N \in Nat /\ DOMAIN s = 1 .. N /\ \A i \in 1 .. N : s[i] \in X
  BY LenProperties, ElementOfSeq
<1>2. start \in D
  <2>1. <<>> \in Seq(X) /\ DOMAIN <<>> = {}
    OBVIOUS
  <2> QED BY <2>1 DEF Once
<1>3. \A d \in D, i \in 1 .. N : Speaking(d, s[i]) \in D /\ Elements(Speaking(d, s[i])) = Elements(d) \cup {s[i]}
  BY <1>1, SpeakingIs
<1> HIDE DEF N, D
<1>4. \E f : Runs(f)
  <2> DEFINE G == [d \in D |-> [i \in 1 .. N |-> Speaking(d, s[i])]]
  <2>1. \A d \in D, i \in 1 .. N : G[d][i] = Speaking(d, s[i]) /\ G[d][i] \in D
    BY <1>3
  <2> HIDE DEF G
  <2> HIDE DEF start
  <2>2. PICK f : Loop(f, N, D, start, G)
    <3>1. Stays(G, N, D)
      BY <2>1 DEF Stays
    <3> QED BY <1>1, <1>2, <3>1, LoopExists, Zenon
  <2>3. f \in [0 .. N -> D] /\ \A i \in 0 .. N : f[i] = IF i = 0 THEN start ELSE G[f[i - 1]][i]
    BY <2>2 DEF Loop
  <2>4. ASSUME NEW i \in 0 .. N PROVE f[i] = IF i = 0 THEN start ELSE Speaking(f[i - 1], s[i])
    <3>1. i # 0 => i \in 1 .. N /\ i - 1 \in 0 .. N
      BY <1>1
    <3>2. i # 0 => f[i - 1] \in D
      BY <2>3, <3>1
    <3> QED BY <2>1, <2>3, <3>1, <3>2, Zenon
  <2>5. f = [i \in 0 .. N |-> IF i = 0 THEN <<>> ELSE Speaking(f[i - 1], s[i])]
    BY <2>3, <2>4 DEF start
  <2> QED BY <2>5
<1>5. Runs(upTo) /\ AllSpeaking(s) = upTo[N]
  <2>1. Runs(upTo)
    BY <1>4
  <2> QED BY <2>1 DEF AllSpeaking, N
<1>6. upTo[0] = <<>> /\ \A i \in 1 .. N : upTo[i] = Speaking(upTo[i - 1], s[i])
  <2> HIDE DEF upTo
  <2>1. upTo = [i \in 0 .. N |-> IF i = 0 THEN <<>> ELSE Speaking(upTo[i - 1], s[i])]
    BY <1>5
  <2>2. 0 \in 0 .. N /\ \A i \in 1 .. N : i \in 0 .. N /\ i # 0
    BY <1>1
  <2> QED BY <2>1, <2>2, Zenon
<1> HIDE DEF upTo
<1>7. 0 \in P
  <2>1. upTo[0] \in D /\ Elements(upTo[0]) = {}
    BY <1>2, <1>6, OneOrNone
  <2>2. 0 \in 0 .. N /\ \A j \in 1 .. 0 : FALSE
    BY <1>1
  <2> QED BY <2>1, <2>2
<1>8. ASSUME NEW i \in 1 .. N, i - 1 \in P PROVE i \in P
  <2>1. PICK q : q = upTo[i - 1]
    OBVIOUS
  <2>2. q \in D /\ \A x : x \in Elements(q) <=> \E j \in 1 .. i - 1 : s[j] = x
    BY <1>8, <2>1
  <2>3. upTo[i] \in D /\ Elements(upTo[i]) = Elements(q) \cup {s[i]}
    BY <1>3, <1>6, <2>1, <2>2
  <2>4. /\ i \in 0 .. N /\ i \in 1 .. i /\ \A j \in 1 .. i : j = i \/ j \in 1 .. i - 1
        /\ \A j \in 1 .. i - 1 : j \in 1 .. i
    BY <1>1
  <2>5. ASSUME NEW x PROVE x \in Elements(upTo[i]) <=> \E j \in 1 .. i : s[j] = x
    BY <2>2, <2>3, <2>4, Zenon
  <2> QED BY <2>3, <2>4, <2>5
<1> HIDE DEF P
<1>9. N \in P
  <2>1. \A i \in 0 .. N : i \in P
    BY <1>1, <1>7, <1>8, EachTurn
  <2> QED BY <2>1, <1>1
<1>10. upTo[N] \in D /\ \A x : x \in Elements(upTo[N]) <=> \E j \in 1 .. N : s[j] = x
  BY <1>9 DEF P
<1>11. Elements(upTo[N]) = Elements(s)
  BY <1>1, <1>10 DEF Elements
<1> QED BY <1>5, <1>10, <1>11 DEF D

-----------------------------------------------------------------------------
(* Who is heard of those asked.                                                       *)

IdsOf(s) == {Id(x) : x \in Elements(s)}

\* What the caller's names mean, but for what is turned off.
Asked == {Id(m) : m \in UNION {Meant(n) : n \in Elements(named)}} \ off

\* The bench names no model twice, and only of those asked for; seats are missing just
\* where it does not name all of them.
BenchInv ==
  /\ bench \in Seq(Elements(bench)) /\ Len(bench) >= 2 /\ Distinct(bench)
  /\ DOMAIN plan = DOMAIN NoPlan /\ plan.missing \in Nat
  /\ IdsOf(bench) \subseteq Asked /\ (plan.missing = 0 <=> Asked \subseteq IdsOf(bench))

Turns(seats) == [by : seats, round : Nat, shown : SUBSET Nat]

\* The speakers are those on the transcript, each once, and of the bench.
ScriptInv ==
  /\ script \in Seq(Turns(Elements(bench)))
  /\ speakers \in Seq(Elements(bench)) /\ Once(speakers)
  /\ Elements(speakers) = {script[i].by : i \in DOMAIN script}

\* The turns of the blind round are the first, and no open round is called the first.
FloorInv ==
  /\ plan.blind \in Nat /\ \A i \in DOMAIN script : script[i].round = 1 => i <= plan.blind
  /\ plan.floor \in (Nat \ {0, 1}) \X (Nat \ {0})

ConferenceInv ==
  /\ pc \in ConferencePlaces => BenchInv
  /\ pc \in ConferencePlaces \ {"blind"} => ScriptInv /\ FloorInv
  /\ pc = "premise" => speakers # <<>>
  /\ pc = "attack" => premise.attacker \in Elements(bench)
  /\ HeardAsAsked

\* An id on the denylist is of a model that has a name.
LEMMA TurnedOffIs ==
  ASSUME NEW denied \in Denials
  PROVE  /\ \A k : Disabled(k, denied) <=> Id(k) \in {Id(d) : d \in denied}
         /\ \A u : ~Recognized(u) => Id(u) \notin {Id(d) : d \in denied}
         /\ \A u, k : ~Recognized(u) /\ Recognized(k) => Id(u) # Id(k)
<1>1. \A k : Recognized(k) => Recognized(Id(k))
  BY OraclesDistinct DEF Recognized
<1>2. \A u : ~Recognized(u) => Id(u) = u
  BY DEF Recognized, Id
<1>3. \A d \in denied : Recognized(d)
  BY DenialsAssumption
<1> QED BY <1>1, <1>2, <1>3 DEF Disabled

\* A conference is convened over those of the models named that can be asked.
LEMMA ConferenceConvened ==
  ASSUME AskConference, pc' # "done"
  PROVE  pc' = "blind" /\ BenchInv'
<1>1. PICK names \in Lists.conference, down \in SUBSET Elements(Oracles), denied \in Denials,
           n \in 0..(MaxOpen + 1), attack \in BOOLEAN, synth \in Slots :
       LET up(s) == Kept(s, Elements(s) \ (down \cup TurnedOff(Elements(s), denied)))
           asked == IF names = <<>> THEN up(Candidates) ELSE names
           r == Resolved(asked)
           seats == up(r.recognized)
           missing == {k \in Elements(r.recognized) : k \in down /\ ~Disabled(k, denied)}
       IN IF Len(seats) < 2 \/ ~Acceptable(synth)
            THEN Reject("conference") /\ UNCHANGED conferenceVars
            ELSE /\ Goto("blind")
                 /\ named' = asked /\ off' = {Id(k) : k \in denied} /\ bench' = seats
                 /\ plan' = [NoPlan EXCEPT !.rounds = IF n = 0 THEN 3 ELSE IF n > MaxOpen THEN MaxOpen ELSE n,
                                           !.attack = attack,
                                           !.missing = Len(r.unknown) + Cardinality(missing)]
                 /\ UNCHANGED <<script, speakers, premise, mapped>>
  BY Zenon DEF AskConference
<1> DEFINE up(s) == Kept(s, Elements(s) \ (down \cup TurnedOff(Elements(s), denied)))
           asked == IF names = <<>> THEN up(Candidates) ELSE names
           r == Resolved(asked)
           rec == r.recognized
           seats == up(rec)
           missing == {k \in Elements(rec) : k \in down /\ ~Disabled(k, denied)}
           ids == {Id(m) : m \in UNION {Meant(x) : x \in Elements(asked)}}
           offIds == {Id(k) : k \in denied}
<1>2. ~Reject("conference")
  BY DEF Reject, Return
<1>3. /\ pc' = "blind" /\ named' = asked /\ off' = offIds /\ bench' = seats /\ ~(Len(seats) < 2)
      /\ \E rounds0, attack0 : plan' = [NoPlan EXCEPT !.rounds = rounds0, !.attack = attack0,
                                          !.missing = Len(r.unknown) + Cardinality(missing)]
  BY <1>1, <1>2 DEF Goto
<1>4. PICK Y : asked \in Seq(Y)
  <2>1. names \in Seq(Elements(names)) /\ Candidates \in Seq(Elements(Candidates))
    BY ListsAssumption
  <2>2. up(Candidates) \in Seq(Elements(Candidates))
    BY <2>1, KeptIs
  <2> HIDE DEF up
  <2> QED BY <2>1, <2>2
<1> HIDE DEF asked
<1>5. /\ \E X : rec \in Seq(X) /\ r.unknown \in Seq(X)
      /\ Distinct(rec)
      /\ ids = {Id(k) : k \in Elements(rec)} \cup {Id(u) : u \in Elements(r.unknown)}
      /\ \A k \in Elements(rec) : Recognized(k)
      /\ \A u \in Elements(r.unknown) : ~Recognized(u)
  BY <1>4, ResolvedIs
<1>6. PICK X : rec \in Seq(X) /\ r.unknown \in Seq(X)
  BY <1>5
<1> HIDE DEF r
<1>7. /\ seats \in Seq(X) /\ Distinct(seats)
      /\ Elements(seats) = Elements(rec) \cap (Elements(rec) \ (down \cup TurnedOff(Elements(rec), denied)))
  BY <1>5, <1>6, KeptIs
<1> DEFINE unknown == r.unknown
<1> HIDE DEF up, rec, seats, unknown
<1>8. \A k : k \in Elements(seats) <=> k \in Elements(rec) /\ k \notin down /\ Id(k) \notin offIds
  BY <1>7, TurnedOffIs DEF TurnedOff
<1>9. \A k : k \in missing <=> k \in Elements(rec) /\ k \in down /\ Id(k) \notin offIds
  BY TurnedOffIs
<1>10. Cardinality(missing) \in Nat /\ (Cardinality(missing) = 0 <=> missing = {})
  <2>1. IsFiniteSet(Elements(rec))
    <3>1. rec \in Seq(X)
      BY <1>6 DEF rec
    <3>2. Len(rec) \in Nat /\ DOMAIN rec = 1 .. Len(rec)
      BY <3>1, LenProperties
    <3>3. IsFiniteSet(1 .. Len(rec))
      BY <3>2, FS_Interval
    <3> DEFINE S == {rec[i] : i \in 1 .. Len(rec)}
    <3>4. [i \in 1 .. Len(rec) |-> rec[i]] \in Surjection(1 .. Len(rec), S)
      BY DEF Surjection
    <3>5. IsFiniteSet(S)
      BY <3>3, <3>4, FS_Surjection
    <3> QED BY <3>2, <3>5 DEF Elements
  <2>2. IsFiniteSet(missing)
    BY <2>1, FS_Subset
  <2> HIDE DEF missing
  <2> QED BY <2>2, FS_CardinalityType, FS_EmptySet
<1>11. Len(unknown) \in Nat /\ (Len(unknown) = 0 <=> Elements(unknown) = {})
  <2>1. unknown \in Seq(X)
    BY <1>6 DEF unknown
  <2>2. Len(unknown) = 0 <=> unknown = <<>>
    BY <2>1, EmptySeq
  <2> QED BY <2>1, <2>2, OwnElements, LenProperties
<1> HIDE DEF missing
<1>12. DOMAIN plan' = DOMAIN NoPlan /\ plan'.missing = Len(unknown) + Cardinality(missing)
  BY <1>3 DEF NoPlan, unknown
<1>13. plan'.missing \in Nat /\ (plan'.missing = 0 <=> Elements(unknown) = {} /\ missing = {})
  BY <1>10, <1>11, <1>12
<1>14. Asked' = ids \ offIds
  BY <1>3 DEF Asked
<1>15. /\ ids = {Id(k) : k \in Elements(rec)} \cup {Id(u) : u \in Elements(unknown)} /\ Distinct(rec)
       /\ \A k \in Elements(rec) : Recognized(k)
       /\ \A u \in Elements(unknown) : ~Recognized(u)
  BY <1>5 DEF rec, unknown
<1> HIDE DEF ids
<1>16. {Id(k) : k \in Elements(seats)} \subseteq ids \ offIds
  BY <1>8, <1>15
<1>17. ASSUME Elements(unknown) = {}, missing = {} PROVE ids \ offIds \subseteq {Id(k) : k \in Elements(seats)}
  BY <1>8, <1>9, <1>15, <1>17
<1>18. ASSUME ids \ offIds \subseteq {Id(k) : k \in Elements(seats)}
       PROVE  Elements(unknown) = {} /\ missing = {}
  <2>1. ASSUME NEW u \in Elements(unknown) PROVE FALSE
    <3>1. ~Recognized(u) /\ Id(u) \notin offIds /\ Id(u) \in ids
      BY <1>15, TurnedOffIs
    <3>2. PICK k \in Elements(seats) : Id(k) = Id(u)
      BY <3>1, <1>18
    <3>3. Recognized(k)
      BY <1>8, <1>15
    <3> QED BY <3>1, <3>2, <3>3, TurnedOffIs
  <2>2. ASSUME NEW m \in missing PROVE FALSE
    <3>1. m \in Elements(rec) /\ m \in down /\ Id(m) \in ids \ offIds
      BY <1>9, <1>15
    <3>2. PICK k \in Elements(seats) : Id(k) = Id(m)
      BY <3>1, <1>18
    <3>3. k \in Elements(rec) /\ k \notin down
      BY <1>8
    <3>4. k = m
      BY <1>15, <3>1, <3>2, <3>3 DEF Elements, Distinct
    <3> QED BY <3>1, <3>3, <3>4
  <2> QED BY <2>1, <2>2
<1>19. IdsOf(bench)' = {Id(k) : k \in Elements(seats)}
  BY <1>3 DEF IdsOf
<1>20. bench' \in Seq(Elements(bench')) /\ Len(bench') >= 2 /\ Distinct(bench')
  <2>1. Len(seats) \in Nat /\ seats \in Seq(Elements(seats))
    BY <1>7, OwnElements, LenProperties
  <2> QED BY <2>1, <1>3, <1>7
<1>21. Elements(bench)' = Elements(bench') /\ Distinct(bench)' = Distinct(bench')
  BY DEF Elements, Distinct, Id, Hosted
<1> QED BY <1>3, <1>12, <1>13, <1>14, <1>16, <1>17, <1>18, <1>19, <1>20, <1>21 DEF BenchInv

LEMMA BenchKept ==
  ASSUME BenchInv, UNCHANGED <<bench, named, off>>, DOMAIN plan' = DOMAIN plan, plan'.missing = plan.missing
  PROVE  BenchInv'
<1>1. UNCHANGED <<Asked, IdsOf(bench), Elements(bench), Distinct(bench)>>
  BY DEF Asked, IdsOf, Elements, Distinct, Id, Hosted
<1> QED BY <1>1 DEF BenchInv

LEMMA NotDone == pc' # "done" => HeardAsAsked'
  BY DEF HeardAsAsked

\* A turn that is taken goes to the end of the transcript.
LEMMA TakeKeeps ==
  ASSUME ScriptInv, NEW key \in Elements(bench), NEW round \in Nat, NEW shown \in SUBSET Nat, NEW says,
         Take(key, round, shown, says), UNCHANGED bench
  PROVE  /\ ScriptInv' /\ Len(script) \in Nat /\ Len(script') \in Nat /\ DOMAIN script' = 1 .. Len(script')
         /\ DOMAIN script = 1 .. Len(script)
         /\ \A i \in DOMAIN script' : \/ i \in DOMAIN script /\ script'[i] = script[i]
                                      \/ script'[i].round = round
<1>1. Len(script) \in Nat /\ DOMAIN script = 1 .. Len(script)
  BY LenProperties DEF ScriptInv
<1>2. Elements(bench)' = Elements(bench)
  BY DEF Elements
<1>3. CASE ~says
  <2>1. UNCHANGED <<script, speakers>>
    BY <1>3 DEF Take
  <2>2. UNCHANGED <<Elements(speakers), Once(speakers), Turns(Elements(bench))>>
    BY <1>2, <2>1 DEF Elements, Once, Turns
  <2>3. ScriptInv'
    BY <1>2, <2>1, <2>2 DEF ScriptInv
  <2> QED BY <1>1, <2>1, <2>3
<1>4. CASE says
  <2> DEFINE t == [by |-> key, round |-> round, shown |-> shown]
             longer == Append(script, t)
             E == Elements(bench)
  <2>1. script' = longer /\ speakers' = Speaking(speakers, key)
    BY <1>4 DEF Take
  <2>2. t \in Turns(E) /\ t.by = key /\ t.round = round
    BY DEF Turns
  <2> HIDE DEF t
  <2>3. /\ longer \in Seq(Turns(E)) /\ DOMAIN longer = 1 .. Len(script) + 1 /\ Len(longer) = Len(script) + 1
        /\ longer[Len(script) + 1] = t /\ \A i \in 1 .. Len(script) : longer[i] = script[i]
    BY <1>1, <2>2, AppendProperties, LenProperties DEF ScriptInv
  <2>4. speakers' \in Seq(E) /\ Once(speakers') /\ Elements(speakers') = Elements(speakers) \cup {key}
    <3>1. key \in E /\ speakers \in Seq(E) /\ Once(speakers)
      BY DEF ScriptInv
    <3> HIDE DEF E
    <3> QED BY <2>1, <3>1, SpeakingIs
  <2> HIDE DEF longer
  <2>5. /\ \A i \in DOMAIN longer : i \in DOMAIN script \/ i = Len(script) + 1
        /\ \A i \in DOMAIN script : i \in DOMAIN longer /\ longer[i] = script[i]
        /\ Len(script) + 1 \in DOMAIN longer /\ longer[Len(script) + 1].by = key
        /\ longer[Len(script) + 1].round = round
    BY <1>1, <2>2, <2>3
  <2>6. {longer[i].by : i \in DOMAIN longer} = {script[i].by : i \in DOMAIN script} \cup {key}
    BY <2>5
  <2>7. Elements(speakers)' = Elements(speakers') /\ Once(speakers)' = Once(speakers')
        /\ Turns(Elements(bench))' = Turns(E)
    BY <1>2 DEF Elements, Once, Turns
  <2>8. ScriptInv'
    <3>1. script' \in Seq(Turns(E)) /\ speakers' \in Seq(E) /\ Once(speakers')
      BY <2>1, <2>3, <2>4
    <3>2. Elements(speakers') = {script'[i].by : i \in DOMAIN script'}
      BY <2>1, <2>4, <2>6 DEF ScriptInv
    <3> QED BY <1>2, <2>7, <3>1, <3>2 DEF ScriptInv
  <2>9. \A i \in DOMAIN longer : (i \in DOMAIN script /\ longer[i] = script[i]) \/ longer[i].round = round
    BY <2>5
  <2> QED BY <1>1, <2>1, <2>3, <2>8, <2>9
<1> QED BY <1>3, <1>4

LEMMA BlindKeeps == ConferenceInv /\ BlindRound => ConferenceInv'
<1> SUFFICES ASSUME ConferenceInv, BlindRound PROVE ConferenceInv'
  OBVIOUS
<1>1. BenchInv
  BY DEF ConferenceInv, BlindRound, ConferencePlaces
<1>2. PICK say \in SUBSET Elements(bench) :
       LET spoke == Kept(bench, say)
       IN /\ speakers' = AllSpeaking(spoke)
          /\ script' = [i \in DOMAIN spoke |-> [by |-> spoke[i], round |-> 1, shown |-> {}]]
          /\ plan' = [plan EXCEPT !.blind = Len(spoke), !.floor = <<2, 1>>]
          /\ Goto(IF plan.attack /\ plan.rounds >= 2 /\ Len(spoke) >= 3 THEN "premise" ELSE AfterBlind)
  BY DEF BlindRound
<1> DEFINE spoke == Kept(bench, say)
           E == Elements(bench)
<1>3. spoke \in Seq(E) /\ Elements(spoke) = Elements(bench) \cap say
  BY <1>1, KeptIs DEF BenchInv
<1> HIDE DEF spoke
<1>4. /\ speakers' = AllSpeaking(spoke)
      /\ script' = [i \in DOMAIN spoke |-> [by |-> spoke[i], round |-> 1, shown |-> {}]]
      /\ plan' = [plan EXCEPT !.blind = Len(spoke), !.floor = <<2, 1>>]
      /\ pc' = IF plan.attack /\ plan.rounds >= 2 /\ Len(spoke) >= 3 THEN "premise" ELSE AfterBlind
  BY <1>2 DEF spoke, Goto
<1>5. UNCHANGED <<bench, named, off>> /\ E' = E
  BY DEF BlindRound, Elements
<1>6. Len(spoke) \in Nat /\ DOMAIN spoke = 1 .. Len(spoke) /\ \A i \in 1 .. Len(spoke) : spoke[i] \in E
  BY <1>3, LenProperties, ElementOfSeq
<1>7. speakers' \in Seq(E) /\ Once(speakers') /\ Elements(speakers') = Elements(spoke)
  <2> HIDE DEF E
  <2> QED BY <1>3, <1>4, AllSpeakingIs
<1>8. /\ DOMAIN plan' = DOMAIN plan /\ plan'.missing = plan.missing
      /\ plan'.blind = Len(spoke) /\ plan'.floor = <<2, 1>>
  BY <1>1, <1>4 DEF BenchInv, NoPlan
<1>9. BenchInv'
  BY <1>1, <1>5, <1>8, BenchKept
<1> DEFINE S == [i \in 1 .. Len(spoke) |-> [by |-> spoke[i], round |-> 1, shown |-> {}]]
<1>10. script' = S
  BY <1>4, <1>6
<1>11. /\ S \in Seq(Turns(E)) /\ DOMAIN S = 1 .. Len(spoke)
       /\ \A i \in DOMAIN S : S[i].by = spoke[i] /\ S[i].round = 1
  <2>1. \A i \in 1 .. Len(spoke) : [by |-> spoke[i], round |-> 1, shown |-> {}] \in Turns(E)
    BY <1>6 DEF Turns
  <2> QED BY <1>6, <2>1
<1> HIDE DEF S
<1>12. {S[i].by : i \in DOMAIN S} = Elements(spoke)
  BY <1>6, <1>11 DEF Elements
<1>13. /\ Elements(speakers)' = Elements(speakers') /\ Once(speakers)' = Once(speakers')
       /\ Turns(Elements(bench))' = Turns(E)
  BY <1>5 DEF Elements, Once, Turns
<1>14. ScriptInv'
  BY <1>5, <1>7, <1>10, <1>11, <1>12, <1>13 DEF ScriptInv
<1>15. FloorInv'
  BY <1>6, <1>8, <1>10, <1>11 DEF FloorInv
<1>16. pc' \in {"premise", "open", "map"} /\ (pc' = "premise" => Len(spoke) >= 3)
  BY <1>4 DEF AfterBlind
<1>17. pc' = "premise" => speakers' # <<>>
  <2> SUFFICES ASSUME pc' = "premise", speakers' = <<>> PROVE FALSE
    OBVIOUS
  <2>1. 1 \in DOMAIN spoke
    BY <1>6, <1>16
  <2>2. Elements(spoke) # {}
    BY <2>1 DEF Elements
  <2> QED BY <2>2, <1>7, OneOrNone
<1> QED BY <1>9, <1>14, <1>15, <1>16, <1>17, NotDone DEF ConferenceInv

LEMMA AttackerIs ==
  ASSUME ScriptInv, speakers # <<>>, NEW asserted
  PROVE  Attacker(asserted) \in Elements(bench)
<1> DEFINE others == {i \in DOMAIN speakers : LabelOf[speakers[i]] \notin asserted}
           at == IF asserted = {} \/ others = {} THEN Len(speakers) ELSE CHOOSE i \in others : \A j \in others : i <= j
<1>1. /\ Len(speakers) \in Nat /\ DOMAIN speakers = 1 .. Len(speakers) /\ Len(speakers) # 0
      /\ \A i \in 1 .. Len(speakers) : speakers[i] \in Elements(bench)
  BY LenProperties, EmptySeq, ElementOfSeq DEF ScriptInv
<1>2. others # {} => (CHOOSE i \in others : \A j \in others : i <= j) \in others
  <2>1. others \in SUBSET Nat
    BY <1>1
  <2> HIDE DEF others
  <2> QED BY <2>1, LeastOf
<1>3. at \in 1 .. Len(speakers)
  <2>1. others \subseteq 1 .. Len(speakers) /\ Len(speakers) \in 1 .. Len(speakers)
    BY <1>1
  <2> HIDE DEF others
  <2> QED BY <1>2, <2>1
<1>4. Attacker(asserted) = speakers[at]
  BY DEF Attacker
<1> HIDE DEF at
<1> QED BY <1>1, <1>3, <1>4

LEMMA ScriptStands ==
  ASSUME ScriptInv, FloorInv, UNCHANGED <<bench, script, speakers, plan>>
  PROVE  ScriptInv' /\ FloorInv'
<1>1. UNCHANGED <<Elements(bench), Elements(speakers), Once(speakers), Turns(Elements(bench))>>
  BY DEF Elements, Once, Turns
<1> QED BY <1>1 DEF ScriptInv, FloorInv

LEMMA PremiseKeeps == ConferenceInv /\ NamePremise => ConferenceInv'
<1> SUFFICES ASSUME ConferenceInv, NamePremise PROVE ConferenceInv'
  OBVIOUS
<1>1. BenchInv /\ ScriptInv /\ FloorInv /\ speakers # <<>>
  BY DEF ConferenceInv, NamePremise, ConferencePlaces
<1>2. UNCHANGED <<named, off, bench, plan, script, speakers>>
  BY DEF NamePremise
<1>3. BenchInv' /\ ScriptInv' /\ FloorInv'
  BY <1>1, <1>2, BenchKept, ScriptStands
<1>4. pc' = "open" \/ (pc' = "attack" /\ \E asserted : premise'.attacker = Attacker(asserted))
  <2>1. CASE Goto("open")
    BY <2>1 DEF Goto
  <2>2. ASSUME NEW some \in SUBSET Elements(speakers), Goto("attack"),
               premise' = [attacker |-> Attacker({LabelOf[k] : k \in some}), asserted |-> some]
        PROVE  pc' = "attack" /\ \E asserted : premise'.attacker = Attacker(asserted)
    BY <2>2 DEF Goto
  <2> QED BY <2>1, <2>2 DEF NamePremise
<1>5. pc' = "attack" => premise'.attacker \in Elements(bench)
  BY <1>1, <1>4, AttackerIs
<1>6. Elements(bench)' = Elements(bench)
  BY <1>2 DEF Elements
<1> QED BY <1>3, <1>4, <1>5, <1>6, NotDone DEF ConferenceInv

LEMMA AttackKeeps == ConferenceInv /\ AttackPremise => ConferenceInv'
<1> SUFFICES ASSUME ConferenceInv, AttackPremise PROVE ConferenceInv'
  OBVIOUS
<1>1. BenchInv /\ ScriptInv /\ FloorInv /\ premise.attacker \in Elements(bench)
  BY DEF ConferenceInv, AttackPremise, ConferencePlaces
<1>2. /\ UNCHANGED <<named, off, bench>> /\ plan' = [plan EXCEPT !.blind = Len(script')]
      /\ pc' = "open"
  BY DEF AttackPremise, Goto
<1>3. PICK says \in BOOLEAN : Take(premise.attacker, 1, {}, says)
  BY DEF AttackPremise
<1>4. /\ ScriptInv' /\ Len(script') \in Nat /\ DOMAIN script' = 1 .. Len(script')
  BY <1>1, <1>2, <1>3, TakeKeeps
<1>5. /\ DOMAIN plan' = DOMAIN plan /\ plan'.missing = plan.missing
      /\ plan'.blind = Len(script') /\ plan'.floor = plan.floor
  BY <1>1, <1>2 DEF BenchInv, NoPlan
<1>6. BenchInv'
  BY <1>1, <1>2, <1>5, BenchKept
<1>7. FloorInv'
  BY <1>1, <1>4, <1>5 DEF FloorInv
<1> QED BY <1>2, <1>4, <1>6, <1>7, NotDone DEF ConferenceInv

LEMMA SpeakerIs ==
  ASSUME BenchInv, NEW round \in Nat \ {0, 1}, NEW turn0 \in Nat \ {0}
  PROVE  Speaker(round, turn0) \in Elements(bench)
<1>1. Len(bench) \in Nat \ {0} /\ DOMAIN bench = 1 .. Len(bench)
  BY LenProperties DEF BenchInv
<1>2. turn0 + round - 2 \in Nat
  OBVIOUS
<1>3. ((turn0 + round - 2) % Len(bench)) + 1 \in 1 .. Len(bench)
  BY <1>1, <1>2
<1> QED BY <1>1, <1>3 DEF Speaker, Elements

LEMMA TurnKeeps == ConferenceInv /\ OpenTurn /\ pc' # "done" => ConferenceInv'
<1> SUFFICES ASSUME ConferenceInv, OpenTurn PROVE ConferenceInv'
  OBVIOUS
<1>1. BenchInv /\ ScriptInv /\ FloorInv
  BY DEF ConferenceInv, OpenTurn, ConferencePlaces
<1> DEFINE round == plan.floor[1]
           place == plan.floor[2]
           last == place = Len(bench)
<1>2. round \in Nat \ {0, 1} /\ place \in Nat \ {0}
  BY <1>1 DEF FloorInv
<1>3. /\ \E says \in BOOLEAN : Take(Speaker(round, place), round, Shown(script), says)
      /\ plan' = [plan EXCEPT !.floor = IF last THEN <<round + 1, 1>> ELSE <<round, place + 1>>]
      /\ pc' \in {"map", "open"} /\ UNCHANGED <<named, off, bench>>
  BY DEF OpenTurn, Goto, panelVars
<1>4. Speaker(round, place) \in Elements(bench)
  BY <1>1, <1>2, SpeakerIs
<1>5. Shown(script) \in SUBSET Nat
  <2>1. DOMAIN script \subseteq Nat
    BY <1>1, LenProperties DEF ScriptInv
  <2> QED BY <2>1 DEF Shown
<1> HIDE DEF round, place
<1>6. /\ ScriptInv' /\ Len(script) \in Nat
      /\ \A i \in DOMAIN script' : \/ i \in DOMAIN script /\ script'[i] = script[i]
                                   \/ script'[i].round = round
  <2>1. PICK says \in BOOLEAN : Take(Speaker(round, place), round, Shown(script), says)
    BY <1>3
  <2> QED BY <2>1, <1>1, <1>2, <1>3, <1>4, <1>5, TakeKeeps
<1>7. /\ DOMAIN plan' = DOMAIN plan /\ plan'.missing = plan.missing /\ plan'.blind = plan.blind
      /\ plan'.floor = IF last THEN <<round + 1, 1>> ELSE <<round, place + 1>>
  BY <1>1, <1>3 DEF BenchInv, NoPlan
<1>8. BenchInv'
  BY <1>1, <1>3, <1>7, BenchKept
<1>9. FloorInv'
  <2>1. plan'.floor \in (Nat \ {0, 1}) \X (Nat \ {0})
    BY <1>2, <1>7
  <2>2. \A i \in DOMAIN script' : script'[i].round = 1 => i <= plan'.blind
    BY <1>1, <1>2, <1>6, <1>7 DEF FloorInv
  <2> QED BY <1>1, <1>7, <2>1, <2>2 DEF FloorInv
<1> QED BY <1>3, <1>6, <1>8, <1>9, NotDone DEF ConferenceInv

\* All seats have been heard where as many are as were asked for, of those on the bench.
LEMMA HeardIs ==
  ASSUME BenchInv, ScriptInv
  PROVE  LET heard == {Id(script[i].by) : i \in DOMAIN script}
         IN /\ Len(speakers) \in Nat /\ Len(bench) \in Nat
            /\ Len(speakers) < Len(bench) + plan.missing <=> ~(Asked \subseteq heard)
            /\ Cardinality(heard) = Len(speakers)
            /\ script # <<>> => Len(speakers) # 0
<1> DEFINE heard == {Id(script[i].by) : i \in DOMAIN script}
           N == Len(speakers)
           B == Len(bench)
           S == Elements(speakers)
           E == Elements(bench)
<1>1. /\ N \in Nat /\ DOMAIN speakers = 1 .. N /\ \A i \in 1 .. N : speakers[i] \in E
      /\ B \in Nat /\ DOMAIN bench = 1 .. B
  BY LenProperties, ElementOfSeq DEF BenchInv, ScriptInv
<1>2. S \subseteq E
  BY <1>1 DEF Elements
<1>3. \A x, y \in E : Id(x) = Id(y) => x = y
  BY DEF BenchInv, Distinct, Elements
<1>4. heard = {Id(x) : x \in S}
  <2>1. S = {script[i].by : i \in DOMAIN script}
    BY DEF ScriptInv
  <2> HIDE DEF S
  <2> QED BY <2>1
<1>5. IsFiniteSet(S) /\ Cardinality(S) = N
  <2>1. S = {speakers[i] : i \in 1 .. N}
    BY <1>1 DEF Elements
  <2>2. \A i, j \in 1 .. N : speakers[i] = speakers[j] => i = j
    BY <1>1 DEF ScriptInv, Once
  <2>3. N \in Nat /\ Numbers(S, N, speakers)
    BY <1>1, <2>1, <2>2 DEF Numbers
  <2> HIDE DEF N, S
  <2> QED BY <2>3, AsManyAsPlaces
<1>6. IsFiniteSet(E) /\ Cardinality(E) = B
  <2>1. E = {bench[i] : i \in 1 .. B}
    BY <1>1 DEF Elements
  <2>2. \A i, j \in 1 .. B : bench[i] = bench[j] => i = j
    BY <1>1 DEF BenchInv, Distinct
  <2>3. B \in Nat /\ Numbers(E, B, bench)
    BY <1>1, <2>1, <2>2 DEF Numbers
  <2> HIDE DEF B, E
  <2> QED BY <2>3, AsManyAsPlaces
<1>7. Cardinality(heard) = N
  <2> DEFINE f == [i \in 1 .. N |-> Id(speakers[i])]
  <2>1. DOMAIN f = 1 .. N /\ \A i, j \in 1 .. N : f[i] = f[j] => i = j
    BY <1>1, <1>3 DEF ScriptInv, Once
  <2>2. heard = {f[i] : i \in 1 .. N}
    BY <1>1, <1>4 DEF Elements
  <2> HIDE DEF f, heard
  <2>3. N \in Nat /\ Numbers(heard, N, f)
    BY <1>1, <2>1, <2>2 DEF Numbers
  <2> HIDE DEF N
  <2> QED BY <2>3, AsManyAsPlaces
<1>8. IdsOf(bench) = {Id(x) : x \in E}
  BY DEF IdsOf
<1> HIDE DEF heard, N, B, S, E
<1>9. N <= B /\ (N = B => S = E)
  BY <1>2, <1>5, <1>6, FS_Subset
<1>10. plan.missing \in Nat /\ IdsOf(bench) \subseteq Asked /\ (plan.missing = 0 <=> Asked \subseteq IdsOf(bench))
  BY DEF BenchInv
<1>11. ASSUME Asked \subseteq heard PROVE ~(N < B + plan.missing)
  <2>1. E \subseteq S
    BY <1>2, <1>3, <1>4, <1>8, <1>10, <1>11
  <2>2. N = B
    BY <1>2, <1>5, <1>6, <2>1
  <2>3. heard \subseteq IdsOf(bench)
    BY <1>2, <1>4, <1>8
  <2>4. plan.missing = 0
    BY <1>10, <1>11, <2>3
  <2> QED BY <1>1, <2>2, <2>4
<1>12. ASSUME ~(N < B + plan.missing) PROVE Asked \subseteq heard
  <2>1. N = B /\ plan.missing = 0
    BY <1>1, <1>9, <1>10, <1>12
  <2> QED BY <1>4, <1>8, <1>9, <1>10, <2>1
<1>13. script # <<>> => N # 0
  <2> SUFFICES ASSUME script # <<>>, N = 0 PROVE FALSE
    OBVIOUS
  <2>1. S = {script[i].by : i \in DOMAIN script}
    BY DEF ScriptInv, S
  <2>2. S = {}
    BY <1>5, FS_EmptySet
  <2>3. Elements(script) = {}
    BY <2>1, <2>2 DEF Elements
  <2> QED BY <2>3, OwnElements DEF ScriptInv
<1> QED BY <1>1, <1>7, <1>11, <1>12, <1>13 DEF heard, N, B

LEMMA MapTells == ConferenceInv /\ Map => ConferenceInv'
<1> SUFFICES ASSUME ConferenceInv, Map PROVE ConferenceInv'
  OBVIOUS
<1>1. BenchInv /\ ScriptInv /\ FloorInv
  BY DEF ConferenceInv, Map, ConferencePlaces
<1>2. /\ mapped' \in IF Len(script) < 2 THEN {"none"} ELSE {"failed", IF Elided THEN "elided" ELSE "whole"}
      /\ Reported(mapped') /\ UNCHANGED <<named, off, bench, plan, script, speakers>>
  BY DEF Map
<1>3. pc' = "done"
  BY <1>2 DEF Reported, Return
<1> DEFINE heard == {Id(script[i].by) : i \in DOMAIN script}
           read == Shown(script)
           asked == {Id(m) : m \in UNION {Meant(n) : n \in Elements(named)}} \ off
<1>4. CASE script = <<>>
  <2>1. payload'.status # "ok"
    BY <1>2, <1>4 DEF Reported, Return
  <2> QED BY <1>3, <2>1 DEF ConferenceInv, HeardAsAsked, ConferencePlaces
<1>5. CASE script # <<>>
  <2>1. /\ payload'.degraded = (Len(speakers) < Len(bench) + plan.missing)
        /\ payload'.monologue = (Len(speakers) < 2)
        /\ payload'.map = (mapped' \in {"whole", "elided"}) /\ payload'.elided = (mapped' = "elided")
    BY <1>2, <1>5 DEF Reported, Return
  <2>2. /\ Len(speakers) \in Nat /\ Len(bench) \in Nat /\ Len(speakers) # 0
        /\ Len(speakers) < Len(bench) + plan.missing <=> ~(asked \subseteq heard)
        /\ Cardinality(heard) = Len(speakers)
    BY <1>1, <1>5, HeardIs DEF Asked
  <2>3. {i \in DOMAIN script : script[i].round = 1} \subseteq read
    BY <1>1 DEF FloorInv, Shown
  <2>4. mapped' \in {"whole", "elided"} => (mapped' = "elided" <=> read # DOMAIN script)
    BY <1>2 DEF Elided
  <2>5. UNCHANGED <<heard, read, asked>>
    BY <1>2 DEF Id, Hosted, Shown, Meant, Elements, Canonical
  <2> HIDE DEF heard, read, asked
  <2>6. payload'.degraded <=> ~(asked \subseteq heard)
    BY <2>1, <2>2
  <2>7. payload'.monologue <=> Cardinality(heard) = 1
    <3>1. Len(speakers) < 2 <=> Len(speakers) = 1
      BY <2>2
    <3> QED BY <2>1, <2>2, <3>1, Zenon
  <2>8. payload'.map => (payload'.elided <=> read # DOMAIN script)
    BY <2>1, <2>4
  <2>9. HeardAsAsked'
    BY <1>2, <2>3, <2>5, <2>6, <2>7, <2>8 DEF HeardAsAsked, heard, read, asked
  <2> QED BY <1>3, <2>9 DEF ConferenceInv, ConferencePlaces
<1> QED BY <1>4, <1>5

\* What leaves a conference alone, away from its places.
LEMMA ConferenceKept ==
  ASSUME ConferenceInv, UNCHANGED conferenceVars,
         \/ UNCHANGED <<pc, payload>>
         \/ pc' \notin ConferencePlaces /\ (pc' = "done" => payload'.tool # "conference" \/ payload'.status # "ok")
  PROVE  ConferenceInv'
<1>1. UNCHANGED <<named, off, bench, plan, script, speakers, premise>>
  BY DEF conferenceVars
<1>2. CASE UNCHANGED <<pc, payload>>
  <2>1. BenchInv => BenchInv'
    BY <1>1, BenchKept
  <2>2. ScriptInv /\ FloorInv => ScriptInv' /\ FloorInv'
    BY <1>1, ScriptStands
  <2>3. Elements(bench)' = Elements(bench)
    BY <1>1 DEF Elements
  <2>4. HeardAsAsked'
    BY <1>1, <1>2 DEF ConferenceInv, HeardAsAsked, Shown, Elements, Meant, Canonical, Id, Hosted
  <2> QED BY <1>1, <1>2, <2>1, <2>2, <2>3, <2>4 DEF ConferenceInv
<1>3. CASE pc' \notin ConferencePlaces /\ (pc' = "done" => payload'.tool # "conference" \/ payload'.status # "ok")
  BY <1>3 DEF ConferenceInv, HeardAsAsked, ConferencePlaces
<1> QED BY <1>2, <1>3

LEMMA ConferenceInvNext == CouncilInv /\ ConferenceInv /\ [Next]_vars => ConferenceInv'
<1> SUFFICES ASSUME CouncilInv, ConferenceInv, [Next]_vars PROVE ConferenceInv'
  OBVIOUS
<1>1. CASE pc = "done"
  <2>1. UNCHANGED <<panelVars, conferenceVars>>
    BY <1>1, AfterDone
  <2> QED BY <2>1, ConferenceKept DEF panelVars
<1> SUFFICES ASSUME pc # "done" PROVE ConferenceInv'
  BY <1>1
<1>2. CASE AdmissionNext
  <2>1. CASE AskConference /\ pc' # "done"
    <3>1. pc' = "blind" /\ BenchInv'
      BY <2>1, ConferenceConvened
    <3> QED BY <3>1, NotDone DEF ConferenceInv
  <2>2. CASE AskConference /\ pc' = "done"
    <3>1. payload'.status # "ok"
      BY <1>2, <2>2, AdmissionEnds, Convened DEF Elsewhere, Convening
    <3> QED BY <2>2, <3>1 DEF ConferenceInv, HeardAsAsked, ConferencePlaces
  <2>3. CASE ~AskConference
    <3>1. UNCHANGED conferenceVars
      BY <1>2, <2>3 DEF AdmissionNext, Unprepared, AskCouncil, AskHostedCouncil, AskLocalCouncil, AskChain,
                        AskDebate, LeaveConference
    <3>2. pc' # "blind"
      BY <1>2, <2>3 DEF AdmissionNext, Unprepared, AskCouncil, AskHostedCouncil, AskLocalCouncil, AskChain,
                        AskDebate, LeaveConference, Goto, Reject, Return, Convene
    <3>3. Convening => pc' = "council"
      BY Convened DEF Convening
    <3>4. pc' \notin ConferencePlaces /\ (pc' = "done" => payload'.status # "ok")
      BY <1>2, <3>2, <3>3, AdmissionEnds DEF Elsewhere, ConferencePlaces
    <3> QED BY <3>1, <3>4, ConferenceKept
  <2> QED BY <2>1, <2>2, <2>3
<1>3. CASE CouncilNext /\ UNCHANGED <<chainVars, debateVars, conferenceVars>>
  <2>1. UNCHANGED <<pc, payload>> \/ (pc' \in CouncilPlaces \cup {"done"} /\ (pc' = "done" => payload'.tool = "council"))
    BY <1>3, CouncilWithin, ThreadsKeep, SeatEnds DEF Within, CouncilPlaces, panelVars
  <2> QED BY <1>3, <2>1, ConferenceKept DEF CouncilPlaces, ConferencePlaces
<1>4. CASE ChainNext /\ UNCHANGED <<councilVars, debateVars, conferenceVars>>
  <2>1. pc' \in ChainPlaces \cup {"done"} /\ (pc' = "done" => payload'.tool = "chain")
    BY <1>4, ChainWithin DEF Within
  <2> QED BY <1>4, <2>1, ConferenceKept DEF ChainPlaces, ConferencePlaces
<1>5. CASE DebateNext /\ UNCHANGED <<councilVars, chainVars, conferenceVars>>
  <2>1. pc' \in DebatePlaces \cup {"done"} /\ (pc' = "done" => payload'.tool = "debate")
    BY <1>5, DebateWithin DEF Within
  <2> QED BY <1>5, <2>1, ConferenceKept DEF DebatePlaces, Awaited, ConferencePlaces
<1>6. CASE ConferenceNext
  <2>1. OpenTurn => pc' # "done"
    BY DEF OpenTurn, Goto, panelVars
  <2> QED BY <1>6, <2>1, BlindKeeps, PremiseKeeps, AttackKeeps, TurnKeeps, MapTells DEF ConferenceNext
<1>7. CASE UNCHANGED vars
  BY <1>7, ConferenceKept DEF vars, panelVars
<1> QED BY <1>2, <1>3, <1>4, <1>5, <1>6, <1>7 DEF Next

\* HeardAsAsked: a conference that did not hear every model asked for, by whatever name,
\* and not turned off, says so; so does one that heard only one, and a map that was made
\* without some turn, which is never one of the blind round.
THEOREM HeardAsAskedHolds == Spec => []HeardAsAsked
<1>1. Init => ConferenceInv
  BY DEF Init, ConferenceInv, ConferencePlaces, HeardAsAsked
<1>2. ConferenceInv => HeardAsAsked
  BY DEF ConferenceInv
<1> QED BY <1>1, <1>2, ConferenceInvNext, PanelInvariant, PTL DEF Spec
===============================================================================
