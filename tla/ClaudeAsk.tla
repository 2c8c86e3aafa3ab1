----------------------------- MODULE ClaudeAsk -----------------------------
(***************************************************************************)
(* Multi-turn asks of an Anthropic family (ask, ask_opus5): the session    *)
(* store of src/ask_fable/sessions.py, the per-session lock and the ask    *)
(* pipeline of server._handle_claude_ask, and the bridge fable.run with    *)
(* its transport plan and its model ladder, which all asks of the process  *)
(* share.                                                                  *)
(*                                                                         *)
(* The server is one event loop: between two awaits a handler runs alone.  *)
(* An ask awaits its session's lock, then each dispatch of its bridge; one *)
(* action below is what runs from one await to the next.                   *)
(*                                                                         *)
(* A conversation lives at the provider.  It is named by the ask that      *)
(* opened it, and remembers the model and the asks it was sent, those too  *)
(* that were refused, timed out or cancelled and that no transcript has.   *)
(***************************************************************************)
EXTENDS Naturals, Sequences, FiniteSets

CONSTANTS
  Sessions,     \* namespaced session keys
  Asks,         \* requests; each runs once
  Candidates,   \* the ladder's model ids, newest first; the last is the floor
  Transports,   \* the transports a plan may name
  Plans,        \* the plans an operator may have selected: sequences of transports
  Served,       \* for each possible installation, the <<transport, model>> it accepts
  Pins,         \* the models the ladder may be pinned to
  NoPin, NoConv, HttpMark, NoAsk,
  MaxNeeds,     \* ASK_FABLE_MAX_NEEDS_CONTEXT
  Unnamed,      \* the transports whose answer may lack a session id
  DumpMayFail   \* whether writing a transcript may fail

Models == {Candidates[i] : i \in DOMAIN Candidates} \cup Pins

ASSUME LadderAssumption == Candidates \in Seq(Models) /\ Candidates # <<>>
ASSUME PlanAssumption == Plans \subseteq Seq(Transports) \ {<<>>}
ASSUME ServedAssumption == Served \subseteq SUBSET (Transports \X Models)
ASSUME MarkAssumption == NoPin \notin Models /\ {NoConv, HttpMark, NoAsk} \cap Asks = {} /\ NoConv # HttpMark
ASSUME CapAssumption == MaxNeeds \in Nat /\ DumpMayFail \in BOOLEAN /\ Unnamed \subseteq Transports

VARIABLES
  store,        \* SessionStore._sessions; a missing session is Fresh
  lock,         \* holder of each session's lock, or NoAsk
  unavailable,  \* fable._unavailable
  ask,          \* the state of each request
  plan, pin, serves, \* the environment: settings of the operator, and the installation
  conv,         \* conversations at the provider
  dumped,       \* asks whose turns were written to a transcript file
  discarded     \* asks whose turns a caller chose to drop unsaved

environment == <<plan, pin, serves>>
vars == <<store, lock, unavailable, ask, plan, pin, serves, conv, dumped, discarded>>

Fresh == [resume |-> NoConv, turns |-> <<>>, blocked |-> 0]
Idle == [phase |-> "new", session |-> NoAsk, job |-> "ask", attempt |-> 1, model |-> NoPin,
         resume |-> NoConv, retried |-> FALSE, end |-> "none"]

Ends == {"none", "ok", "exhausted", "denied", "error", "unavailable", "absent",
         "incapable", "resume_lost", "cancelled", "cleared"}

TypeOK ==
  /\ store \in [Sessions -> [resume : Asks \cup {NoConv, HttpMark},
                             turns : Seq([by : Asks, needs : BOOLEAN]),
                             blocked : Nat]]
  /\ lock \in [Sessions -> Asks \cup {NoAsk}]
  /\ unavailable \subseteq Transports \X Models
  /\ ask \in [Asks -> [phase : {"new", "waiting", "bridge", "done"},
                       session : Sessions \cup {NoAsk}, job : {"ask", "fresh", "save", "drop"},
                       attempt : Nat, model : Models \cup {NoPin},
                       resume : Asks \cup {NoConv, HttpMark}, retried : BOOLEAN, end : Ends]]
  /\ plan \in Plans /\ pin \in Pins \cup {NoPin} /\ serves \in Served
  /\ conv \in [Asks -> [model : Models \cup {NoPin}, alive : BOOLEAN, turns : Seq(Asks)]]
  /\ dumped \subseteq Asks /\ discarded \subseteq Asks

Init ==
  /\ store = [s \in Sessions |-> Fresh]
  /\ lock = [s \in Sessions |-> NoAsk]
  /\ unavailable = {}
  /\ ask = [a \in Asks |-> Idle]
  /\ plan \in Plans /\ pin \in Pins \cup {NoPin} /\ serves \in Served
  /\ conv = [a \in Asks |-> [model |-> NoPin, alive |-> FALSE, turns |-> <<>>]]
  /\ dumped = {} /\ discarded = {}

-----------------------------------------------------------------------------
(* The ladder. *)

\* The newest candidate outside a set of rejected ids; the floor if there is none.
Newest(rejected) ==
  LET usable == {i \in DOMAIN Candidates : Candidates[i] \notin rejected}
      first == CHOOSE i \in usable : \A j \in usable : i <= j
  IN Candidates[IF usable = {} THEN Len(Candidates) ELSE first]

RejectedOn(t) == {m \in Models : <<t, m>> \in unavailable}

\* The model an attempt on a transport asks for.
LadderModel(t) == IF pin # NoPin THEN pin ELSE Newest(RejectedOn(t))

Laddered == pin = NoPin

-----------------------------------------------------------------------------
(* The session store. *)

Spoken(s) == {store[s].turns[i].by : i \in DOMAIN store[s].turns}

\* Mutant of Reset: a transcript of one turn is taken for an empty one.
ResetSkipsShort(s, save) ==
  /\ store' = [store EXCEPT ![s] = Fresh]
  /\ IF save /\ Len(store[s].turns) > 1
       THEN dumped' = dumped \cup Spoken(s) /\ UNCHANGED discarded
       ELSE UNCHANGED <<dumped, discarded>>

\* reset: the session is dropped; its transcript is written if asked for.
Reset(s, save) ==
  /\ store' = [store EXCEPT ![s] = Fresh]
  /\ \/ save /\ dumped' = dumped \cup Spoken(s) /\ UNCHANGED discarded
     \/ save /\ DumpMayFail /\ UNCHANGED <<dumped, discarded>>
     \/ ~save /\ discarded' = discarded \cup Spoken(s) /\ UNCHANGED dumped

\* bump_blocked and record_turn of an answered ask.
Recorded(s, a, needs, session) ==
  [resume |-> session,
   turns |-> Append(store[s].turns, [by |-> a, needs |-> needs]),
   blocked |-> IF needs THEN store[s].blocked + 1 ELSE 0]

-----------------------------------------------------------------------------
(* Requests. *)

\* A tool call arrives: an ask, an ask with reset, or reset_session.
Arrive(a) ==
  /\ ask[a].phase = "new"
  /\ \E s \in Sessions, job \in {"ask", "fresh", "save", "drop"} :
       ask' = [ask EXCEPT ![a] = [Idle EXCEPT !.phase = "waiting", !.session = s, !.job = job]]
  /\ UNCHANGED <<store, lock, unavailable, environment, conv, dumped, discarded>>

Finish(a, end) == ask' = [ask EXCEPT ![a].phase = "done", ![a].end = end]

Free(a) == lock' = [s \in Sessions |-> IF lock[s] = a THEN NoAsk ELSE lock[s]]

Waits(a) == ask[a].phase = "waiting" /\ lock[ask[a].session] = NoAsk

\* Mutant of ResetSession: it does not wait for the lock.
ResetSessionUnlocked(a) ==
  /\ ask[a].phase = "waiting" /\ ask[a].job \in {"save", "drop"}
  /\ Reset(ask[a].session, ask[a].job = "save")
  /\ Finish(a, "cleared")
  /\ UNCHANGED <<lock, unavailable, environment, conv>>

\* reset_session, under the session's lock, without an await.
ResetSession(a) ==
  /\ Waits(a) /\ ask[a].job \in {"save", "drop"}
  /\ Reset(ask[a].session, ask[a].job = "save")
  /\ Finish(a, "cleared")
  /\ UNCHANGED <<lock, unavailable, environment, conv>>

\* An ask takes the lock, clears the session if asked to, and is then denied by
\* the guard, or goes to its bridge.
Enter(a) ==
  LET s == ask[a].session
      t == plan[1]
  IN /\ Waits(a) /\ ask[a].job \in {"ask", "fresh"}
     /\ IF ask[a].job = "fresh" THEN Reset(s, TRUE) ELSE UNCHANGED <<store, dumped, discarded>>
     /\ \/ Finish(a, "denied") /\ UNCHANGED lock
        \/ /\ lock' = [lock EXCEPT ![s] = a]
           /\ ask' = [ask EXCEPT ![a].phase = "bridge", ![a].model = LadderModel(t),
                                 ![a].resume = store'[s].resume]
     /\ UNCHANGED <<unavailable, environment, conv>>

InBridge(a) == ask[a].phase = "bridge"
On(a) == plan[ask[a].attempt]

\* A stored http marker is refused by every transport, a conversation by http.
CannotResume(a) ==
  ask[a].resume = HttpMark \/ (On(a) = "http" /\ ask[a].resume # NoConv)

Incapable(a) ==
  /\ InBridge(a) /\ CannotResume(a)
  /\ Finish(a, "incapable") /\ Free(a)
  /\ UNCHANGED <<store, unavailable, environment, conv, dumped, discarded>>

Dispatched(a) == InBridge(a) /\ ~CannotResume(a)

\* The transport rejects the model: a laddered call notes it and is retried once,
\* one rung down and in a fresh thread.
Rejected(a) ==
  LET t == On(a)
      m == ask[a].model
      noted == RejectedOn(t) \cup {m}
      left == {i \in DOMAIN Candidates : Candidates[i] \notin noted}
  IN /\ Dispatched(a) /\ <<t, m>> \notin serves
     /\ unavailable' = IF Laddered /\ ~ask[a].retried THEN unavailable \cup {<<t, m>>} ELSE unavailable
     /\ IF Laddered /\ ~ask[a].retried /\ left # {}
          THEN /\ ask' = [ask EXCEPT ![a].model = Newest(noted), ![a].resume = NoConv,
                                     ![a].retried = TRUE]
               /\ UNCHANGED lock
          ELSE Finish(a, "unavailable") /\ Free(a)
     /\ UNCHANGED <<store, environment, conv, dumped, discarded>>

\* The transport is not installed: the plan's next one is tried, from its own rung
\* and with the session's conversation; the last one's absence is the answer.
Absent(a) ==
  LET next == ask[a].attempt + 1
  IN /\ Dispatched(a) /\ On(a) # "http"
     /\ IF next <= Len(plan)
          THEN /\ ask' = [ask EXCEPT ![a].attempt = next, ![a].model = LadderModel(plan[next]),
                                     ![a].resume = store[ask[a].session].resume,
                                     ![a].retried = FALSE]
               /\ UNCHANGED lock
          ELSE Finish(a, "absent") /\ Free(a)
     /\ UNCHANGED <<store, unavailable, environment, conv, dumped, discarded>>

\* The session id of an answer: http's mark, or the conversation that was resumed
\* or opened; record_turn keeps the old id when the answer has none.
SessionIds(a) ==
  LET kept == store[ask[a].session].resume
  IN IF On(a) = "http" THEN {HttpMark}
     ELSE {IF ask[a].resume = NoConv THEN a ELSE ask[a].resume}
            \cup (IF On(a) \in Unnamed THEN {kept} ELSE {})

\* The query reaches the model, in the conversation that is resumed or in a new one.
Sent(a) ==
  LET c == ask[a].resume
  IN /\ Dispatched(a) /\ <<On(a), ask[a].model>> \in serves
     /\ c # NoConv => conv[c].alive
     /\ conv' = IF c = NoConv
                  THEN [conv EXCEPT ![a] = [model |-> ask[a].model, alive |-> TRUE, turns |-> <<a>>]]
                  ELSE [conv EXCEPT ![c].turns = Append(@, a)]

\* The model answers, and the turn is recorded.
Answered(a) ==
  LET s == ask[a].session
  IN /\ Sent(a)
     /\ \E needs \in BOOLEAN, session \in SessionIds(a) :
          /\ store' = [store EXCEPT ![s] = Recorded(s, a, needs, session)]
          /\ Finish(a, IF needs /\ store'[s].blocked > MaxNeeds THEN "exhausted" ELSE "ok")
     /\ Free(a)
     /\ UNCHANGED <<unavailable, environment, dumped, discarded>>

\* The resumed conversation is gone: its id is forgotten.
ResumeLost(a) ==
  /\ Dispatched(a) /\ ask[a].resume # NoConv /\ ~conv[ask[a].resume].alive
  /\ store' = [store EXCEPT ![ask[a].session].resume = NoConv]
  /\ Finish(a, "resume_lost") /\ Free(a)
  /\ UNCHANGED <<unavailable, environment, conv, dumped, discarded>>

\* A refusal, a timeout, or any other error, before the query was sent or after it:
\* nothing is recorded, and the session keeps the conversation it had.
Fails(a) ==
  /\ Dispatched(a)
  /\ Sent(a) \/ UNCHANGED conv
  /\ Finish(a, "error") /\ Free(a)
  /\ UNCHANGED <<store, unavailable, environment, dumped, discarded>>

\* The client goes away while the ask awaits its lock, or its bridge, which may have
\* sent the query.
Cancel(a) ==
  /\ ask[a].phase \in {"waiting", "bridge"}
  /\ Sent(a) \/ UNCHANGED conv
  /\ Finish(a, "cancelled") /\ Free(a)
  /\ UNCHANGED <<store, unavailable, environment, dumped, discarded>>

\* The provider drops a conversation.
Expire(c) ==
  /\ conv[c].alive
  /\ conv' = [conv EXCEPT ![c].alive = FALSE]
  /\ UNCHANGED <<store, lock, unavailable, ask, environment, dumped, discarded>>

\* The operator pins the ladder, or unpins it, between two bridge calls.
Repin ==
  /\ \A a \in Asks : ~InBridge(a)
  /\ pin' \in (Pins \cup {NoPin}) \ {pin}
  /\ UNCHANGED <<store, lock, unavailable, ask, plan, serves, conv, dumped, discarded>>

Bridge(a) ==
  Incapable(a) \/ Rejected(a) \/ Absent(a) \/ Answered(a) \/ ResumeLost(a) \/ Fails(a)

Next ==
  \/ \E a \in Asks : Arrive(a) \/ ResetSession(a) \/ Enter(a) \/ Bridge(a) \/ Cancel(a)
  \/ \E c \in Asks : Expire(c)
  \/ Repin

Spec == Init /\ [][Next]_vars

-----------------------------------------------------------------------------
(* What sessions and the ladder promise. *)

Voices(s) == [i \in DOMAIN store[s].turns |-> store[s].turns[i].by]

\* The asks of a session that ended without an answer, sent or not.
Unanswered(s) ==
  {a \in Asks : ask[a].session = s /\ ask[a].phase = "done" /\ ask[a].end \in {"error", "cancelled"}}

\* The asks that opened a conversation.
Openers == {a \in Asks : conv[a].turns # <<>>}

Members(turns) == {turns[i] : i \in DOMAIN turns}

\* What both hold comes once in the first, and in the order of the second.
InOrder(turns, voices) ==
  \A i, j \in DOMAIN turns, k, l \in DOMAIN voices :
    i < j /\ turns[i] = voices[k] /\ turns[j] = voices[l] => k < l

\* Every voice since the one that opened the conversation is in it, or in a set.
KeepsUp(turns, voices, elsewhere) ==
  \A k, l \in DOMAIN voices :
    k < l /\ voices[k] = turns[1] => voices[l] \in Members(turns) \cup elsewhere

\* A conversation against a transcript.  A turn of the transcript opened it; what else
\* is in it was said, once and in the transcript's order, or asked without an answer;
\* no turn said since is missing, unless it opened a thread of its own.
Follows(turns, voices, unanswered, elsewhere) ==
  /\ turns # <<>> /\ turns[1] \in Members(voices)
  /\ Members(turns) \subseteq Members(voices) \cup unanswered
  /\ InOrder(turns, voices)
  /\ KeepsUp(turns, voices, elsewhere)

\* _session_lock and _handle_reset: the conversation a session would resume is its own.
\* Nothing in it is another session's, or from before a reset; concurrent turns do not
\* fork it; what it holds beyond the transcript are this session's own asks that were
\* refused, timed out or cancelled after they were sent.
ConversationIsItsOwn ==
  \A s \in Sessions : store[s].resume \in Asks =>
    Follows(conv[store[s].resume].turns, Voices(s), Unanswered(s), Openers)

Suffix(short, long) ==
  /\ Len(short) <= Len(long)
  /\ SubSeq(long, Len(long) - Len(short) + 1, Len(long)) = short

\* sessions.py keeps the resumable id "plus a lightweight text transcript": the
\* conversation is the transcript's tail.  It need not be (README).
ConversationIsTranscript ==
  \A s \in Sessions : store[s].resume \in Asks => Suffix(conv[store[s].resume].turns, Voices(s))

\* "a save=True dump captures that final turn instead of silently dropping it":
\* an answered turn is in a transcript or a file, or the caller dropped it.
NothingLost ==
  {a \in Asks : ask[a].end \in {"ok", "exhausted"}}
    \subseteq (UNION {Spoken(s) : s \in Sessions}) \cup dumped \cup discarded

\* "an SDK session id is bound to the model that created it": a conversation is
\* resumed with its own model.
ResumeMatchesModel ==
  \A a \in Asks : InBridge(a) /\ ask[a].resume \in Asks
    => ask[a].model = conv[ask[a].resume].model

=============================================================================
