------------------------------- MODULE Council -------------------------------
(* _council of server.py: a panel asked in parallel under one deadline, or     *)
(* one seat at a time over an LM Studio box, whose answers a synthesizer       *)
(* merges.  A seat on LM Studio is a worker thread that loads its model and    *)
(* a chat; both go on when the panel stops waiting for them.                   *)
EXTENDS Panel

CONSTANTS
  Seats,         \* the models a caller may name
  LabOf,         \* the lab of each
  Local          \* the models served by LM Studio

ASSUME CouncilAssumption == IsFiniteSet(Seats) /\ None \notin Seats /\ "fable" \notin Local

VARIABLES
  request,   \* what was asked for: panel, requested, sequential, synth, initial
  answers,   \* of the seats that have ended
  turn,      \* the seat being asked, when one at a time
  thread,    \* what LM Studio's worker threads do for each seat
  resident,  \* the models LM Studio has loaded
  left,      \* cleanup_failed
  merger     \* the model that synthesizes, and whether its answer is whole

box == <<turn, thread, resident, left>>
councilVars == <<request, answers, box, merger>>

Pending == request.panel \ DOMAIN answers
With(s, r) == [x \in DOMAIN answers \cup {s} |-> IF x = s THEN r ELSE answers[x]]

CouncilInit ==
  /\ request = [panel |-> {}, requested |-> 0, sequential |-> FALSE, synth |-> "fable", initial |-> {}]
  /\ answers = [s \in {} |-> None]
  /\ turn = None /\ thread = [s \in Seats |-> "idle"]
  /\ resident = {} /\ left = {}
  /\ merger = [by |-> "fable", whole |-> TRUE]

\* _council is called.  The denylist drops a seat before anything counts it; an
\* unknown model counts as asked for.  The box is as initial finds it.
Convene(seats, denied, unknown, sequential, synth, initial) ==
  LET panel == seats \ denied
  IN /\ Goto("council")
     /\ request' = [panel |-> panel, requested |-> Cardinality(panel) + unknown,
                    sequential |-> sequential, synth |-> synth, initial |-> initial]
     /\ resident' = initial /\ merger' = [by |-> synth, whole |-> TRUE]
     /\ UNCHANGED <<answers, turn, thread, left>>

-----------------------------------------------------------------------------
(* What the answers amount to. *)

Ok(all) == {s \in DOMAIN all : Answered(all[s])}
Labs(seats) == Cardinality({LabOf[s] : s \in seats})

\* Mutant of Complete: those who have answered are the whole panel.
CompleteOfAnswered(voters) == Cardinality(voters) = Cardinality(Ok(answers))

\* Every seat the caller asked for has voted.
Complete(voters) == Cardinality(voters) = request.requested

\* _consensus over the usable recommendations, and the gate of independent labs.
Consensus(all) ==
  LET voters == {s \in Ok(all) : all[s].rec # "none"}
      said == {all[s].rec : s \in voters}
      united == Cardinality(said) = 1 /\ Complete(voters)
      hedged == \A s \in voters : all[s].conf = "low"
  IN IF "apply" \in said /\ said \cap {"reject", "investigate"} # {} THEN "divergent"
     ELSE IF voters = {} THEN "unknown"
     ELSE IF Cardinality(voters) >= 2 /\ united /\ ~hedged /\ Labs(Ok(all)) >= 2 THEN "strong"
     ELSE "partial"

\* _council_envelope: how much the answer is worth, and what to do with it.
Confidence(n, labs, merged, cut) ==
  LET base == IF n >= 2 /\ ~merged THEN "low"
              ELSE IF n >= 3 THEN (IF labs < 2 THEN "medium" ELSE "high")
              ELSE IF n = 2 THEN "medium" ELSE "low"
  IN IF cut THEN Downgraded(base) ELSE base

NextAction(n, labs, merged, cut, consensus) ==
  IF n <= 1 THEN "single"
  ELSE IF consensus = "divergent" THEN "disagreement"
  ELSE IF cut THEN "cut off"
  ELSE IF labs < 2 THEN "one lab"
  ELSE IF ~merged THEN "unsynthesized"
  ELSE IF n < request.requested THEN "degraded"
  ELSE IF consensus \in {"partial", "unknown"} THEN consensus
  ELSE "safe"

Verdict(all, synth, cut, freed) ==
  LET n == Cardinality(Ok(all))
      agreed == IF n <= 1 THEN "unknown" ELSE Consensus(all)
  IN [tool |-> "council", status |-> "ok", quorum |-> n, synth |-> synth, consensus |-> agreed,
      confidence |-> Confidence(n, Labs(Ok(all)), synth # None, cut),
      next |-> NextAction(n, Labs(Ok(all)), synth # None, cut, agreed),
      cleanup |-> freed]

\* None answered: refused if any was; one answered: that one; else on to the
\* synthesis.
Weigh(all) ==
  LET n == Cardinality(Ok(all))
      Refused == \E s \in DOMAIN all : all[s] = Failed("refused")
  IN IF n = 0
       THEN Return([tool |-> "council", status |-> IF Refused THEN "refused" ELSE "error",
                    cleanup |-> {}], FALSE)
     ELSE IF n = 1 THEN Return(Verdict(all, None, FALSE, {}), FALSE)
     ELSE Goto("synth")

-----------------------------------------------------------------------------
(* The panel in parallel. *)

\* Every seat is disabled, or the guard denies the question, or seats are asked.
Open ==
  /\ pc = "council"
  /\ IF request.panel = {}
       THEN Return([tool |-> "council", status |-> "error", cleanup |-> {}], FALSE)
       ELSE \/ Return([tool |-> "council", status |-> "refused", cleanup |-> {}], FALSE)
            \/ Goto("asking")
  /\ UNCHANGED councilVars

\* A seat's run ends, in an answer, a failure, or an exception taken for one.
MemberEnds(s) ==
  /\ pc = "asking" /\ ~request.sequential /\ s \in Pending
  /\ \E r \in Replies \cup Failures : answers' = With(s, r)
  /\ UNCHANGED <<panelVars, request, box, merger>>

\* All are in, or the deadline cancels those that are not.
Harvest ==
  /\ pc = "asking" /\ ~request.sequential
  /\ answers' = [s \in request.panel |-> IF s \in Pending THEN Failed("error") ELSE answers[s]]
  /\ Weigh(answers')
  /\ UNCHANGED <<request, box, merger>>

-----------------------------------------------------------------------------
(* The panel one at a time. *)

\* The answer is in the cache, or a gate sheds the call; else a thread sees to the
\* model.
BeginTurn(s) ==
  /\ pc = "asking" /\ request.sequential /\ turn = None /\ s \in Pending
  /\ turn' = s
  /\ \/ \E r \in Replies \cup Failures : answers' = With(s, r) /\ UNCHANGED thread
     \/ /\ thread' = [thread EXCEPT ![s] = IF s \in resident THEN "chatting" ELSE "loading"]
        /\ UNCHANGED answers
  /\ UNCHANGED <<panelVars, request, resident, left, merger>>

\* The load ends.  Its coroutine goes on with a chat, if it is still there.
Loads(s, done) ==
  /\ thread[s] = "loading"
  /\ thread' = [thread EXCEPT ![s] = IF done /\ turn = s /\ s \in Pending THEN "chatting" ELSE "idle"]
  /\ resident' = IF done THEN resident \cup {s} ELSE resident
  /\ answers' = IF ~done /\ turn = s /\ s \in Pending THEN With(s, Failed("error")) ELSE answers
  /\ UNCHANGED <<panelVars, request, turn, left, merger>>

Chats(s) ==
  /\ thread[s] = "chatting"
  /\ thread' = [thread EXCEPT ![s] = "idle"]
  /\ IF turn = s /\ s \in Pending
       THEN \E r \in Replies \cup Failures : answers' = With(s, r)
       ELSE UNCHANGED answers
  /\ UNCHANGED <<panelVars, request, turn, resident, left, merger>>

\* wait_for gives up on the seat; a thread that has begun does not stop.
TurnTimesOut(s) ==
  /\ turn = s /\ s \in Pending
  /\ answers' = With(s, Failed("error"))
  /\ UNCHANGED <<panelVars, request, box, merger>>

\* Mutant of MustFree: a seat that was cut off by the deadline is not freed.
MustFreeAnswered(s) == s \notin request.initial /\ Answered(answers[s])

\* Who is ours to free: a model that was not loaded before the panel.
MustFree(s) == s \notin request.initial

\* The unload takes the lock a load would hold.  A model that is chatting is not
\* unloaded, and an unload may fail.
FreeSeat(s) ==
  /\ turn = s /\ s \notin Pending /\ \A x \in Seats : thread[x] # "loading"
  /\ turn' = None
  /\ \E refused \in {TRUE, thread[s] = "chatting"} :
       /\ resident' = IF MustFree(s) /\ ~refused THEN resident \ {s} ELSE resident
       /\ left' = IF MustFree(s) /\ refused THEN left \cup {s} ELSE left
  /\ IF Pending = {} THEN Weigh(answers) ELSE UNCHANGED panelVars
  /\ UNCHANGED <<request, answers, thread, merger>>

-----------------------------------------------------------------------------
(* The synthesis. *)

\* The synthesizer is not available, is disabled, or fails, after its model was
\* loaded or before.  Fable is asked next, and nobody after Fable.
SynthFails ==
  /\ pc = "synth"
  /\ IF merger.by = "fable"
       THEN merger' = [by |-> None, whole |-> TRUE] /\ Goto("conclude")
       ELSE merger' = [by |-> "fable", whole |-> TRUE] /\ UNCHANGED panelVars
  /\ \E ran \in {FALSE, merger.by \in Local} :
       resident' = IF ran THEN resident \cup {merger.by} ELSE resident
  /\ UNCHANGED <<request, answers, turn, thread, left>>

SynthAnswers ==
  /\ pc = "synth"
  /\ \E whole \in BOOLEAN : merger' = [merger EXCEPT !.whole = whole]
  /\ resident' = resident \cup ({merger.by} \cap Local)
  /\ Goto("conclude")
  /\ UNCHANGED <<request, answers, turn, thread, left>>

\* Mutant of MayKeep: a merge of half answers is kept as well.
MayKeepAnyMerge(by, cut) == by # None

\* What the answer cache may keep: a merge, and one without a cut-off answer.
MayKeep(by, cut) == by # None /\ ~cut

\* The synthesizer that answered, if any, is freed like a seat; with none the
\* first seat's answer is returned.
Conclude ==
  /\ pc = "conclude"
  /\ \E refused \in BOOLEAN :
       LET ours == request.sequential /\ merger.by \in Local \ request.initial
       IN /\ resident' = IF ours /\ ~refused THEN resident \ {merger.by} ELSE resident
          /\ left' = IF ours /\ refused THEN left \cup {merger.by} ELSE left
  /\ LET cut == ~merger.whole \/ \E s \in request.panel : CutOff(answers[s])
     IN Return(Verdict(answers, merger.by, cut, left'), MayKeep(merger.by, cut))
  /\ UNCHANGED <<request, answers, turn, thread, merger>>

CouncilNext ==
  \/ Open \/ Harvest \/ SynthFails \/ SynthAnswers \/ Conclude
  \/ \E s \in Seats :
       \/ MemberEnds(s) \/ BeginTurn(s) \/ Chats(s) \/ TurnTimesOut(s) \/ FreeSeat(s)
       \/ \E done \in BOOLEAN : Loads(s, done)

-----------------------------------------------------------------------------
(* What the council promises. *)

\* "strong off a degraded panel was a false-confidence bug" (_consensus), and the
\* envelope "never claims safe to act" otherwise: every seat the caller asked for,
\* unknown ones included, has answered with one and the same recommendation, not
\* all of them hedging, from two labs at least; to be safe the answer is also a
\* whole merge of whole answers.
StrongIsEarned ==
  pc = "done" /\ payload.tool = "council" /\ payload.status = "ok" =>
    /\ payload.consensus = "strong" \/ payload.next = "safe" =>
         /\ Cardinality(request.panel) = request.requested
         /\ \E rec \in Recs \ {"none"} : \A s \in request.panel :
              Answered(answers[s]) /\ answers[s].rec = rec
         /\ \E s \in request.panel : answers[s].conf # "low"
         /\ \E s, t \in request.panel : LabOf[s] # LabOf[t]
    /\ payload.next = "safe" =>
         /\ merger.by # None /\ merger.whole
         /\ \A s \in request.panel : answers[s].whole

\* _handle_lms_council: "each member we loaded is freed after its turn", cut off by
\* the deadline or not, or is known not to be: whatever the threads did that
\* outlived their turns.
BoxLeftAsFound ==
  request.sequential /\ payload # None => resident \subseteq request.initial \cup left

\* The same, as the caller is told: "reported on the payload rather than swallowed".
BoxReported ==
  request.sequential /\ payload # None => resident \subseteq request.initial \cup payload.cleanup
=============================================================================
