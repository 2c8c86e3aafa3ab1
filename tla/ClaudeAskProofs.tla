--------------------------- MODULE ClaudeAskProofs ---------------------------
(* What sessions promise for any number of sessions, asks, models and transports,   *)
(* on any installation: types; that the conversation a session would resume is its   *)
(* own; and that no answered turn is lost.                                           *)
EXTENDS ClaudeAsk, WellFoundedInduction, TLAPS

Turn == [by : Asks, needs : BOOLEAN]
Session == [resume : Asks \cup {NoConv, HttpMark}, turns : Seq(Turn), blocked : Nat]
Conv == [model : Models \cup {NoPin}, alive : BOOLEAN, turns : Seq(Asks)]
AskRec == [phase : {"new", "waiting", "bridge", "done"},
           session : Sessions \cup {NoAsk}, job : {"ask", "fresh", "save", "drop"},
           attempt : Nat, model : Models \cup {NoPin},
           resume : Asks \cup {NoConv, HttpMark}, retried : BOOLEAN, end : Ends]

\* An ask at its bridge holds its session's lock, and has a transport and a model.
AtBridge(a) ==
  /\ lock[ask[a].session] = a
  /\ ask[a].attempt \in DOMAIN plan
  /\ ask[a].model \in Models

LockInv ==
  /\ TypeOK
  /\ \A a \in Asks : ask[a].phase # "new" => ask[a].session \in Sessions
  /\ \A a \in Asks : ask[a].phase = "waiting" => ask[a].attempt = 1
  /\ \A a \in Asks : InBridge(a) => AtBridge(a)

-----------------------------------------------------------------------------
(* The ladder. *)

\* A set of rungs that is not empty has a first one.
LEMMA FirstRung ==
  ASSUME NEW T \in SUBSET Nat, T # {}
  PROVE  \E i \in T : \A j \in T : i <= j
<1>1. IsWellFoundedOn(OpToRel(<, Nat), Nat)
  BY NatLessThanWellFounded
<1>2. PICK i \in T : \A j \in T : ~(<<j, i>> \in OpToRel(<, Nat))
  BY <1>1, WFMin
<1>3. \A j \in T : ~(j < i)
  BY <1>2 DEF OpToRel
<1>4. QED BY <1>3

\* Whatever was rejected, there is a model to ask for (_ladder_model).
LEMMA NewestIsModel ==
  ASSUME NEW rejected
  PROVE  Newest(rejected) \in Models
<1> DEFINE usable == {i \in DOMAIN Candidates : Candidates[i] \notin rejected}
           first == CHOOSE i \in usable : \A j \in usable : i <= j
<1>1. Candidates \in Seq(Models) /\ Candidates # <<>>
  BY LadderAssumption
<1>2. DOMAIN Candidates = 1..Len(Candidates) /\ Len(Candidates) \in DOMAIN Candidates
  BY <1>1
<1>3. usable # {} => first \in usable
  <2>1. usable \in SUBSET Nat
    BY <1>2
  <2> HIDE DEF usable
  <2>2. usable # {} => \E i \in usable : \A j \in usable : i <= j
    BY <2>1, FirstRung
  <2>3. QED BY <2>2
<1>4. Newest(rejected) = Candidates[IF usable = {} THEN Len(Candidates) ELSE first]
  BY DEF Newest
<1>5. (IF usable = {} THEN Len(Candidates) ELSE first) \in DOMAIN Candidates
  <2> HIDE DEF first
  <2>1. QED BY <1>2, <1>3
<1> HIDE DEF usable, first
<1>6. QED BY <1>1, <1>4, <1>5

LEMMA LadderModelIsModel ==
  ASSUME TypeOK, NEW t
  PROVE  LadderModel(t) \in Models
<1>1. pin # NoPin => pin \in Models
  BY DEF TypeOK, Models
<1>2. QED BY <1>1, NewestIsModel DEF LadderModel

-----------------------------------------------------------------------------
(* The parts of a step. *)

\* An ask ends.
LEMMA FinishFacts ==
  ASSUME TypeOK, NEW a \in Asks, NEW end \in Ends, Finish(a, end)
  PROVE  /\ ask' \in [Asks -> AskRec]
         /\ ask'[a].phase = "done" /\ ask'[a].session = ask[a].session /\ ask'[a].end = end
         /\ \A b \in Asks \ {a} : ask'[b] = ask[b]
<1> DEFINE over == [ask[a] EXCEPT !.phase = "done", !.end = end]
<1>1. ask \in [Asks -> AskRec] /\ ask[a] \in AskRec
  BY DEF TypeOK, AskRec
<1>2. over \in AskRec /\ over.phase = "done" /\ over.session = ask[a].session /\ over.end = end
  BY <1>1 DEF AskRec
<1>3. ask' = [ask EXCEPT ![a] = over]
  BY <1>1 DEF Finish
<1> HIDE DEF over
<1>4. QED BY <1>1, <1>2, <1>3

\* It gives its lock back.
LEMMA FreeFacts ==
  ASSUME TypeOK, NEW a \in Asks, Free(a)
  PROVE  /\ lock' \in [Sessions -> Asks \cup {NoAsk}]
         /\ \A s \in Sessions : lock[s] # a => lock'[s] = lock[s]
BY DEF Free, TypeOK

LEMMA SpokenIsAsks ==
  ASSUME TypeOK, NEW s \in Sessions
  PROVE  Spoken(s) \subseteq Asks
<1>1. store[s].turns \in Seq(Turn)
  BY DEF TypeOK, Turn
<1>2. \A i \in DOMAIN store[s].turns : store[s].turns[i] \in Turn
  BY <1>1
<1>3. QED BY <1>2 DEF Spoken, Turn

\* A session is cleared.
LEMMA ResetFacts ==
  ASSUME TypeOK, NEW s \in Sessions, NEW save \in BOOLEAN, Reset(s, save)
  PROVE  /\ store' \in [Sessions -> Session]
         /\ store'[s] = Fresh
         /\ \A r \in Sessions \ {s} : store'[r] = store[r]
         /\ dumped' \subseteq Asks /\ discarded' \subseteq Asks
<1>1. Fresh \in Session
  BY DEF Fresh, Session
<1>2. store \in [Sessions -> Session] /\ store' = [store EXCEPT ![s] = Fresh]
  BY DEF Reset, TypeOK, Session, Turn
<1>3. dumped' \subseteq Asks /\ discarded' \subseteq Asks
  BY SpokenIsAsks DEF Reset, TypeOK
<1>4. QED BY <1>1, <1>2, <1>3

\* The types, by the names they have here.
Typed ==
  /\ store \in [Sessions -> Session]
  /\ lock \in [Sessions -> Asks \cup {NoAsk}]
  /\ unavailable \subseteq Transports \X Models
  /\ ask \in [Asks -> AskRec]
  /\ plan \in Plans /\ pin \in Pins \cup {NoPin} /\ serves \in Served
  /\ conv \in [Asks -> Conv]
  /\ dumped \subseteq Asks /\ discarded \subseteq Asks

LEMMA Types == (TypeOK <=> Typed) /\ (TypeOK' <=> Typed')
BY DEF TypeOK, Typed, Session, Turn, AskRec, Conv

-----------------------------------------------------------------------------
(* Types, and who is at a bridge. *)

\* What else a step leaves typed.
OthersTyped ==
  /\ store' \in [Sessions -> Session]
  /\ unavailable' \subseteq Transports \X Models
  /\ plan' = plan /\ serves' = serves /\ pin' \in Pins \cup {NoPin}
  /\ conv' \in [Asks -> Conv]
  /\ dumped' \subseteq Asks /\ discarded' \subseteq Asks

LEMMA LockInit == Init => LockInv
<1> SUFFICES ASSUME Init PROVE LockInv
  OBVIOUS
<1>1. Fresh \in Session /\ Idle \in AskRec /\ [model |-> NoPin, alive |-> FALSE, turns |-> <<>>] \in Conv
  BY DEF Fresh, Session, Idle, AskRec, Ends, Conv
<1>2. TypeOK
  BY <1>1, Types DEF Init, Typed
<1>3. \A a \in Asks : ask[a].phase = "new"
  BY DEF Init, Idle
<1>4. QED BY <1>2, <1>3 DEF LockInv, InBridge

\* An ask that ends is at no bridge, and takes no lock but its own from anybody.
LEMMA EndKeepsLock ==
  ASSUME LockInv, NEW a \in Asks, ask[a].phase # "new", NEW end \in Ends, Finish(a, end),
         Free(a) \/ lock' = lock, OthersTyped
  PROVE  LockInv'
<1>1. TypeOK
  BY DEF LockInv
<1>2. /\ ask' \in [Asks -> AskRec]
      /\ ask'[a].phase = "done" /\ ask'[a].session = ask[a].session
      /\ \A b \in Asks \ {a} : ask'[b] = ask[b]
  BY <1>1, FinishFacts
<1>3. /\ lock' \in [Sessions -> Asks \cup {NoAsk}]
      /\ \A s \in Sessions : lock[s] # a => lock'[s] = lock[s]
  BY <1>1, FreeFacts DEF TypeOK
<1>4. TypeOK'
  BY <1>1, <1>2, <1>3, Types DEF OthersTyped, Typed
<1>5. /\ \A b \in Asks : ask'[b].phase # "new" => ask'[b].session \in Sessions
      /\ \A b \in Asks : ask'[b].phase = "waiting" => ask'[b].attempt = 1
  BY <1>2 DEF LockInv
<1>6. ASSUME NEW b \in Asks, InBridge(b)' PROVE AtBridge(b)'
  <2>1. b # a /\ ask'[b] = ask[b] /\ InBridge(b) /\ AtBridge(b) /\ ask[b].session \in Sessions
    BY <1>2, <1>6 DEF InBridge, LockInv
  <2>2. QED BY <1>3, <2>1 DEF AtBridge, OthersTyped
<1>7. QED BY <1>4, <1>5, <1>6 DEF LockInv

\* An ask that goes on to another attempt.
LEMMA MoveKeepsLock ==
  ASSUME LockInv, NEW a \in Asks, NEW over \in AskRec, ask' = [ask EXCEPT ![a] = over],
         ask[a].phase # "new", over.phase = "bridge", over.session = ask[a].session,
         over.attempt \in DOMAIN plan, over.model \in Models,
         lock' = [lock EXCEPT ![over.session] = a],
         lock[over.session] \in {NoAsk, a},
         OthersTyped
  PROVE  LockInv'
<1>1. TypeOK /\ ask \in [Asks -> AskRec] /\ over.session \in Sessions
  BY DEF LockInv, TypeOK, AskRec
<1>2. ask' \in [Asks -> AskRec] /\ ask'[a] = over /\ \A b \in Asks \ {a} : ask'[b] = ask[b]
  BY <1>1
<1>3. /\ lock' \in [Sessions -> Asks \cup {NoAsk}] /\ lock'[over.session] = a
      /\ \A s \in Sessions \ {over.session} : lock'[s] = lock[s]
  BY <1>1 DEF TypeOK
<1>4. TypeOK'
  BY <1>1, <1>2, <1>3, Types DEF OthersTyped, Typed
<1>5. /\ \A b \in Asks : ask'[b].phase # "new" => ask'[b].session \in Sessions
      /\ \A b \in Asks : ask'[b].phase = "waiting" => ask'[b].attempt = 1
  BY <1>1, <1>2 DEF LockInv
<1>6. ASSUME NEW b \in Asks, InBridge(b)' PROVE AtBridge(b)'
  <2>1. CASE b = a
    BY <1>2, <1>3, <2>1 DEF AtBridge, OthersTyped
  <2>2. CASE b # a
    <3>1. ask'[b] = ask[b] /\ InBridge(b) /\ AtBridge(b) /\ ask[b].session \in Sessions
      BY <1>2, <1>6, <2>2 DEF InBridge, LockInv
    <3>2. lock[ask[b].session] = b /\ NoAsk \notin Asks
      BY <3>1, MarkAssumption DEF AtBridge
    <3>3. ask[b].session # over.session
      BY <2>2, <3>2
    <3>4. QED BY <1>3, <3>1, <3>3 DEF AtBridge, OthersTyped
  <2>3. QED BY <2>1, <2>2
<1>7. QED BY <1>4, <1>5, <1>6 DEF LockInv

LEMMA ArriveKeepsLock ==
  ASSUME LockInv, NEW a \in Asks, Arrive(a)
  PROVE  LockInv'
<1>1. TypeOK /\ ask \in [Asks -> AskRec]
  BY DEF LockInv, TypeOK, AskRec
<1>2. PICK s \in Sessions, job \in {"ask", "fresh", "save", "drop"} :
        ask' = [ask EXCEPT ![a] = [Idle EXCEPT !.phase = "waiting", !.session = s, !.job = job]]
  BY DEF Arrive
<1> DEFINE over == [Idle EXCEPT !.phase = "waiting", !.session = s, !.job = job]
<1>3. over \in AskRec /\ over.phase = "waiting" /\ over.session = s /\ over.attempt = 1
  BY DEF Idle, AskRec, Ends
<1> HIDE DEF over
<1>4. ask' \in [Asks -> AskRec] /\ ask'[a] = over /\ \A b \in Asks \ {a} : ask'[b] = ask[b]
  BY <1>1, <1>2, <1>3 DEF over
<1>5. UNCHANGED <<store, lock, unavailable, environment, conv, dumped, discarded>>
  BY DEF Arrive
<1>6. TypeOK'
  BY <1>1, <1>4, <1>5, Types DEF Typed, environment
<1>7. QED BY <1>3, <1>4, <1>5, <1>6 DEF LockInv, InBridge, AtBridge, environment

\* Steps that leave more than the ask and its lock alone.
LEMMA OthersUnchanged ==
  ASSUME TypeOK, UNCHANGED <<store, environment, conv, dumped, discarded>>,
         unavailable' \subseteq Transports \X Models
  PROVE  OthersTyped
BY Types DEF Typed, OthersTyped, environment

LEMMA EnterKeepsLock ==
  ASSUME LockInv, NEW a \in Asks, Enter(a)
  PROVE  LockInv'
<1> DEFINE s == ask[a].session
<1>1. TypeOK /\ ask[a].phase = "waiting" /\ s \in Sessions /\ ask[a] \in AskRec /\ ask[a].attempt = 1
  BY DEF LockInv, Enter, Waits, TypeOK, AskRec
<1>2. /\ store' \in [Sessions -> Session] /\ dumped' \subseteq Asks /\ discarded' \subseteq Asks
      /\ store'[s].resume \in Asks \cup {NoConv, HttpMark}
  <2>1. Reset(s, TRUE) \/ UNCHANGED <<store, dumped, discarded>>
    BY DEF Enter
  <2>2. store' \in [Sessions -> Session] /\ dumped' \subseteq Asks /\ discarded' \subseteq Asks
    BY <1>1, <2>1, ResetFacts, Types DEF Typed
  <2>3. QED BY <1>1, <2>2 DEF Session
<1>3. OthersTyped
  BY <1>1, <1>2, Types DEF Enter, OthersTyped, Typed, environment
<1>4. CASE Finish(a, "denied") /\ UNCHANGED lock
  BY <1>1, <1>3, <1>4, EndKeepsLock DEF Ends
<1>5. CASE /\ lock' = [lock EXCEPT ![s] = a]
           /\ ask' = [ask EXCEPT ![a].phase = "bridge", ![a].model = LadderModel(plan[1]),
                                 ![a].resume = store'[s].resume]
  <2> DEFINE over == [ask[a] EXCEPT !.phase = "bridge", !.model = LadderModel(plan[1]),
                                    !.resume = store'[s].resume]
  <2>1. plan \in Seq(Transports) \ {<<>>}
    BY <1>1, PlanAssumption DEF TypeOK
  <2>2. 1 \in DOMAIN plan
    BY <2>1
  <2>3. LadderModel(plan[1]) \in Models
    BY <1>1, LadderModelIsModel
  <2>4. /\ over \in AskRec /\ over.phase = "bridge" /\ over.session = s
        /\ over.attempt \in DOMAIN plan /\ over.model \in Models
    BY <1>1, <1>2, <2>2, <2>3 DEF AskRec
  <2>5. ask' = [ask EXCEPT ![a] = over]
    BY <1>1, <1>5
  <2>6. lock[s] = NoAsk
    BY DEF Enter, Waits
  <2> HIDE DEF over
  <2>7. lock' = [lock EXCEPT ![over.session] = a]
    BY <1>5, <2>4
  <2>8. QED BY <1>1, <1>3, <2>4, <2>5, <2>6, <2>7, MoveKeepsLock
<1>6. QED BY <1>4, <1>5 DEF Enter

\* What is known of an ask at its bridge.
LEMMA BridgeFacts ==
  ASSUME LockInv, NEW a \in Asks, InBridge(a)
  PROVE  /\ TypeOK /\ ask[a] \in AskRec /\ ask[a].phase # "new" /\ ask[a].session \in Sessions
         /\ lock[ask[a].session] = a /\ ask[a].attempt \in DOMAIN plan
         /\ On(a) \in Transports /\ ask[a].model \in Models
         /\ plan \in Seq(Transports) /\ Len(plan) \in Nat /\ DOMAIN plan = 1..Len(plan)
<1>1. plan \in Seq(Transports)
  BY PlanAssumption DEF LockInv, TypeOK
<1>2. AtBridge(a) /\ ask[a].phase # "new" /\ ask[a].session \in Sessions
  BY DEF LockInv, InBridge
<1>3. ask[a] \in AskRec
  BY DEF LockInv, TypeOK, AskRec
<1>4. On(a) \in Transports
  BY <1>1, <1>2 DEF On, AtBridge
<1>5. QED BY <1>1, <1>2, <1>3, <1>4 DEF LockInv, AtBridge

\* The next attempt of an ask keeps its lock.
LEMMA RetryKeepsLock ==
  ASSUME LockInv, NEW a \in Asks, InBridge(a), NEW attempt \in DOMAIN plan, NEW model \in Models,
         NEW resume \in Asks \cup {NoConv, HttpMark}, NEW retried \in BOOLEAN,
         ask' = [ask EXCEPT ![a].attempt = attempt, ![a].model = model, ![a].resume = resume,
                            ![a].retried = retried],
         UNCHANGED lock, OthersTyped
  PROVE  LockInv'
<1> DEFINE over == [ask[a] EXCEPT !.attempt = attempt, !.model = model, !.resume = resume,
                                  !.retried = retried]
<1>1. /\ TypeOK /\ ask[a] \in AskRec /\ ask[a].phase = "bridge" /\ ask[a].session \in Sessions
      /\ lock[ask[a].session] = a /\ attempt \in Nat
  BY BridgeFacts DEF InBridge
<1>2. ask' = [ask EXCEPT ![a] = over]
  BY <1>1 DEF TypeOK
<1>3. /\ over \in AskRec /\ over.phase = "bridge" /\ over.session = ask[a].session
      /\ over.attempt = attempt /\ over.model = model
  BY <1>1 DEF AskRec
<1> HIDE DEF over
<1>4. lock' = [lock EXCEPT ![over.session] = a] /\ lock[over.session] = a
  BY <1>1, <1>3 DEF TypeOK
<1>5. QED BY <1>1, <1>2, <1>3, <1>4, MoveKeepsLock

LEMMA RejectedKeepsLock ==
  ASSUME LockInv, NEW a \in Asks, Rejected(a)
  PROVE  LockInv'
<1> DEFINE noted == RejectedOn(On(a)) \cup {ask[a].model}
<1>1. InBridge(a)
  BY DEF Rejected, Dispatched
<1>2. /\ TypeOK /\ ask[a] \in AskRec /\ ask[a].phase # "new" /\ ask[a].attempt \in DOMAIN plan
      /\ On(a) \in Transports /\ ask[a].model \in Models
  BY <1>1, BridgeFacts
<1>3. unavailable' \subseteq Transports \X Models
  BY <1>2 DEF Rejected, TypeOK
<1>4. OthersTyped
  BY <1>2, <1>3, OthersUnchanged DEF Rejected
<1>5. CASE /\ ask' = [ask EXCEPT ![a].model = Newest(noted), ![a].resume = NoConv, ![a].retried = TRUE]
           /\ UNCHANGED lock
  <2>1. Newest(noted) \in Models
    BY NewestIsModel
  <2>2. ask' = [ask EXCEPT ![a].attempt = ask[a].attempt, ![a].model = Newest(noted),
                           ![a].resume = NoConv, ![a].retried = TRUE]
    BY <1>2, <1>5 DEF TypeOK, AskRec
  <2> DEFINE model == Newest(noted)
  <2>3. model \in Models /\ NoConv \in Asks \cup {NoConv, HttpMark} /\ TRUE \in BOOLEAN
    BY <2>1
  <2> HIDE DEF model
  <2>4. ask' = [ask EXCEPT ![a].attempt = ask[a].attempt, ![a].model = model,
                           ![a].resume = NoConv, ![a].retried = TRUE]
    BY <2>2 DEF model
  <2>5. UNCHANGED lock
    BY <1>5
  <2>6. QED BY <1>1, <1>2, <1>4, <2>3, <2>4, <2>5, RetryKeepsLock
<1>6. CASE Finish(a, "unavailable") /\ Free(a)
  BY <1>2, <1>4, <1>6, EndKeepsLock DEF Ends
<1>7. QED BY <1>5, <1>6 DEF Rejected

LEMMA AbsentKeepsLock ==
  ASSUME LockInv, NEW a \in Asks, Absent(a)
  PROVE  LockInv'
<1> DEFINE next == ask[a].attempt + 1
           resume == store[ask[a].session].resume
<1>1. InBridge(a)
  BY DEF Absent, Dispatched
<1>2. /\ TypeOK /\ ask[a].phase # "new" /\ ask[a].attempt \in 1..Len(plan) /\ Len(plan) \in Nat
      /\ DOMAIN plan = 1..Len(plan) /\ ask[a].session \in Sessions
  BY <1>1, BridgeFacts
<1>3. OthersTyped
  BY <1>2, OthersUnchanged, Types DEF Absent, Typed
<1>4. CASE /\ next <= Len(plan)
           /\ ask' = [ask EXCEPT ![a].attempt = next, ![a].model = LadderModel(plan[next]),
                                 ![a].resume = resume, ![a].retried = FALSE]
           /\ UNCHANGED lock
  <2>1. next \in DOMAIN plan
    BY <1>2, <1>4
  <2>2. LadderModel(plan[next]) \in Models
    BY <1>2, LadderModelIsModel
  <2>3. resume \in Asks \cup {NoConv, HttpMark}
    BY <1>2 DEF TypeOK
  <2> HIDE DEF next, resume
  <2>4. QED BY <1>1, <1>3, <1>4, <2>1, <2>2, <2>3, RetryKeepsLock
<1>5. CASE Finish(a, "absent") /\ Free(a)
  BY <1>2, <1>3, <1>5, EndKeepsLock DEF Ends
<1>6. QED BY <1>4, <1>5 DEF Absent

\* What an answer adds to its session.
LEMMA RecordedFacts ==
  ASSUME TypeOK, NEW s \in Sessions, NEW a \in Asks, NEW needs \in BOOLEAN,
         NEW id \in Asks \cup {NoConv, HttpMark}
  PROVE  /\ Recorded(s, a, needs, id) \in Session
         /\ Recorded(s, a, needs, id).resume = id
         /\ Recorded(s, a, needs, id).turns = Append(store[s].turns, [by |-> a, needs |-> needs])
<1>1. store[s].turns \in Seq(Turn) /\ store[s].blocked \in Nat /\ [by |-> a, needs |-> needs] \in Turn
  BY DEF TypeOK, Turn
<1>2. Append(store[s].turns, [by |-> a, needs |-> needs]) \in Seq(Turn)
  BY <1>1
<1>3. QED BY <1>1, <1>2 DEF Recorded, Session

\* The conversation an answered ask resumes is the provider's.
LEMMA ResumesFacts ==
  ASSUME LockInv, NEW a \in Asks, Dispatched(a), ask[a].resume # NoConv
  PROVE  ask[a].resume \in Asks /\ On(a) # "http"
<1>1. ask[a].resume \in Asks \cup {NoConv, HttpMark}
  BY DEF LockInv, TypeOK
<1>2. QED BY <1>1 DEF Dispatched, CannotResume

LEMMA IdsTyped ==
  ASSUME LockInv, NEW a \in Asks, Dispatched(a)
  PROVE  SessionIds(a) \subseteq Asks \cup {NoConv, HttpMark}
<1>1. ask[a].session \in Sessions /\ TypeOK
  BY BridgeFacts DEF Dispatched
<1>2. store[ask[a].session].resume \in Asks \cup {NoConv, HttpMark} /\ ask[a].resume \in Asks \cup {NoConv, HttpMark}
  BY <1>1 DEF TypeOK
<1>3. QED BY <1>2 DEF SessionIds

\* What the provider keeps of a query.
LEMMA ConvTyped ==
  ASSUME LockInv, NEW a \in Asks, Sent(a)
  PROVE  conv' \in [Asks -> Conv]
<1>1. /\ TypeOK /\ conv \in [Asks -> Conv] /\ ask[a].model \in Models /\ Dispatched(a)
  BY BridgeFacts, Types DEF Sent, Dispatched, Typed
<1>2. CASE ask[a].resume = NoConv
  <2>1. <<a>> \in Seq(Asks)
    OBVIOUS
  <2>2. [model |-> ask[a].model, alive |-> TRUE, turns |-> <<a>>] \in Conv
    BY <1>1, <2>1 DEF Conv
  <2>3. conv' = [conv EXCEPT ![a] = [model |-> ask[a].model, alive |-> TRUE, turns |-> <<a>>]]
    BY <1>2 DEF Sent
  <2>4. QED BY <1>1, <2>2, <2>3
<1>3. CASE ask[a].resume # NoConv
  <2> DEFINE c == ask[a].resume
             longer == [conv[c] EXCEPT !.turns = Append(conv[c].turns, a)]
  <2>1. c \in Asks
    BY <1>1, <1>3, ResumesFacts
  <2>2. conv[c] \in Conv /\ conv[c].turns \in Seq(Asks)
    BY <1>1, <2>1 DEF Conv
  <2>3. Append(conv[c].turns, a) \in Seq(Asks)
    BY <2>2
  <2>4. longer \in Conv
    BY <2>2, <2>3 DEF Conv
  <2>5. conv' = [conv EXCEPT ![c] = longer]
    BY <1>1, <1>3, <2>1 DEF Sent
  <2> HIDE DEF c, longer
  <2>6. QED BY <1>1, <2>1, <2>4, <2>5
<1>4. QED BY <1>2, <1>3

LEMMA AnsweredKeepsLock ==
  ASSUME LockInv, NEW a \in Asks, Answered(a)
  PROVE  LockInv'
<1> DEFINE s == ask[a].session
<1>1. Dispatched(a) /\ TypeOK /\ ask[a].phase # "new" /\ s \in Sessions /\ Sent(a)
  BY BridgeFacts DEF Answered, Sent, Dispatched
<1>2. PICK needs \in BOOLEAN, id \in SessionIds(a) :
        /\ store' = [store EXCEPT ![s] = Recorded(s, a, needs, id)]
        /\ Finish(a, IF needs /\ store'[s].blocked > MaxNeeds THEN "exhausted" ELSE "ok")
  BY DEF Answered
<1>3. Recorded(s, a, needs, id) \in Session
  BY <1>1, IdsTyped, RecordedFacts
<1>4. store' \in [Sessions -> Session]
  BY <1>1, <1>2, <1>3, Types DEF Typed
<1>5. OthersTyped
  BY <1>1, <1>4, ConvTyped, Types DEF Answered, OthersTyped, Typed, environment
<1>6. Free(a)
  BY DEF Answered
<1>7. QED BY <1>1, <1>2, <1>5, <1>6, EndKeepsLock DEF Ends

LEMMA LockNext == LockInv /\ [Next]_vars => LockInv'
<1> SUFFICES ASSUME LockInv, [Next]_vars PROVE LockInv'
  OBVIOUS
<1>1. TypeOK /\ Typed
  BY Types DEF LockInv
<1>2. ASSUME NEW a \in Asks, ResetSession(a) PROVE LockInv'
  <2> DEFINE s == ask[a].session
             save == ask[a].job = "save"
  <2>1. ask[a].phase = "waiting" /\ s \in Sessions /\ save \in BOOLEAN
    BY <1>2 DEF ResetSession, Waits, LockInv
  <2>2. Reset(s, save)
    BY <1>2 DEF ResetSession
  <2> HIDE DEF save
  <2>3. store' \in [Sessions -> Session] /\ dumped' \subseteq Asks /\ discarded' \subseteq Asks
    BY <1>1, <2>1, <2>2, ResetFacts
  <2>4. OthersTyped
    BY <1>1, <1>2, <2>3 DEF ResetSession, OthersTyped, Typed, environment
  <2>5. QED BY <1>2, <2>1, <2>4, EndKeepsLock DEF ResetSession, Ends
<1>3. ASSUME NEW a \in Asks, Incapable(a) \/ Fails(a) \/ Cancel(a) PROVE LockInv'
  <2>1. OthersTyped
    <3>1. Sent(a) \/ UNCHANGED conv
      BY <1>3 DEF Incapable, Fails, Cancel
    <3>2. conv' \in [Asks -> Conv]
      BY <1>1, <3>1, ConvTyped DEF Typed
    <3>3. QED BY <1>1, <1>3, <3>2 DEF Incapable, Fails, Cancel, Typed, OthersTyped, environment
  <2>2. ask[a].phase # "new"
    BY <1>3 DEF Incapable, Fails, Cancel, Dispatched, InBridge
  <2>3. PICK end \in Ends : Finish(a, end)
    BY <1>3 DEF Incapable, Fails, Cancel, Ends
  <2>4. Free(a)
    BY <1>3 DEF Incapable, Fails, Cancel
  <2>5. QED BY <2>1, <2>2, <2>3, <2>4, EndKeepsLock
<1>4. ASSUME NEW a \in Asks, ResumeLost(a) PROVE LockInv'
  <2> DEFINE s == ask[a].session
             over == [store[s] EXCEPT !.resume = NoConv]
  <2>1. ask[a].phase # "new" /\ s \in Sessions /\ store[s] \in Session
    BY <1>1, <1>4, BridgeFacts DEF ResumeLost, Dispatched, Typed
  <2>2. over \in Session /\ store' = [store EXCEPT ![s] = over]
    BY <1>1, <1>4, <2>1 DEF ResumeLost, Session, Typed
  <2> HIDE DEF over
  <2>3. store' \in [Sessions -> Session]
    BY <1>1, <2>1, <2>2 DEF Typed
  <2>4. OthersTyped
    BY <1>1, <1>4, <2>3 DEF ResumeLost, OthersTyped, Typed, environment
  <2>5. QED BY <1>4, <2>1, <2>4, EndKeepsLock DEF ResumeLost, Ends
<1>5. ASSUME NEW a \in Asks, Bridge(a) PROVE LockInv'
  BY <1>3, <1>4, <1>5, RejectedKeepsLock, AbsentKeepsLock, AnsweredKeepsLock DEF Bridge
<1>6. ASSUME NEW c \in Asks, Expire(c) PROVE LockInv'
  <2>1. [conv[c] EXCEPT !.alive = FALSE] \in Conv /\ conv' = [conv EXCEPT ![c] = [conv[c] EXCEPT !.alive = FALSE]]
    BY <1>1, <1>6 DEF Expire, Typed, Conv
  <2>2. conv' \in [Asks -> Conv]
    BY <1>1, <2>1 DEF Typed
  <2>3. UNCHANGED <<store, lock, unavailable, ask, environment, dumped, discarded>>
    BY <1>6 DEF Expire
  <2>4. TypeOK'
    BY <1>1, <2>2, <2>3, Types DEF Typed, environment
  <2>5. QED BY <2>3, <2>4 DEF LockInv, InBridge, AtBridge, environment
<1>7. CASE Repin
  <2>1. TypeOK'
    BY <1>1, <1>7, Types DEF Repin, Typed
  <2>2. QED BY <1>7, <2>1 DEF Repin, LockInv, InBridge, AtBridge
<1>8. CASE UNCHANGED vars
  <2>1. TypeOK'
    BY <1>1, <1>8, Types DEF vars, Typed
  <2>2. QED BY <1>8, <2>1 DEF vars, LockInv, InBridge, AtBridge
<1>9. QED BY <1>2, <1>3, <1>5, <1>6, <1>7, <1>8, ArriveKeepsLock, EnterKeepsLock DEF Next

LEMMA LockInvHolds == Spec => []LockInv
BY LockInit, LockNext, PTL DEF Spec

\* Type correctness of the store, the ladder and the requests.
THEOREM ClaudeAskTypeCorrect == Spec => []TypeOK
<1>1. LockInv => TypeOK
  BY DEF LockInv
<1>2. QED BY <1>1, LockInvHolds, PTL

-----------------------------------------------------------------------------
(* No answered turn is lost, where transcripts can be written. *)

Safe == (UNION {Spoken(s) : s \in Sessions}) \cup dumped \cup discarded
Heard == {a \in Asks : ask[a].end \in {"ok", "exhausted"}}

\* What a session has said goes to a file, or is dropped by its caller.
LEMMA ResetLosesNothing ==
  ASSUME ~DumpMayFail, TypeOK, NEW s \in Sessions, NEW save \in BOOLEAN, Reset(s, save)
  PROVE  Safe \subseteq Safe'
<1>1. store' = [store EXCEPT ![s] = Fresh]
  BY DEF Reset
<1>2. ASSUME NEW r \in Sessions \ {s} PROVE Spoken(r)' = Spoken(r)
  BY <1>1, <1>2 DEF Spoken, TypeOK
<1>3. dumped \cup discarded \cup Spoken(s) \subseteq dumped' \cup discarded'
  BY DEF Reset
<1>4. QED BY <1>2, <1>3 DEF Safe

\* A turn appended follows the others.
LEMMA AppendFacts ==
  ASSUME NEW T, NEW turns \in Seq(T), NEW last \in T
  PROVE  /\ DOMAIN turns \subseteq DOMAIN Append(turns, last)
         /\ \A i \in DOMAIN turns : Append(turns, last)[i] = turns[i]
         /\ Len(turns) + 1 \in DOMAIN Append(turns, last)
         /\ Append(turns, last)[Len(turns) + 1] = last
OBVIOUS

\* An answer is said, and unsays nothing.
LEMMA AnsweredIsSaid ==
  ASSUME LockInv, NEW a \in Asks, Answered(a)
  PROVE  Safe \cup {a} \subseteq Safe'
<1>1. PICK s \in Sessions : s = ask[a].session /\ Dispatched(a) /\ TypeOK
  BY BridgeFacts DEF Answered, Sent, Dispatched
<1>2. PICK needs \in BOOLEAN, id \in SessionIds(a) :
        store' = [store EXCEPT ![s] = Recorded(s, a, needs, id)]
  BY <1>1 DEF Answered
<1> DEFINE turn == [by |-> a, needs |-> needs]
<1>3. store'[s].turns = Append(store[s].turns, turn) /\ store[s].turns \in Seq(Turn)
      /\ \A r \in Sessions \ {s} : store'[r] = store[r]
  BY <1>1, <1>2, IdsTyped, RecordedFacts, Types DEF Typed, Session
<1>4. Spoken(s) \cup {a} \subseteq Spoken(s)'
  <2> DEFINE old == store[s].turns
             new == store'[s].turns
  <2>1. /\ DOMAIN old \subseteq DOMAIN new /\ \A i \in DOMAIN old : new[i] = old[i]
        /\ Len(old) + 1 \in DOMAIN new /\ new[Len(old) + 1] = turn
    <3>1. turn \in Turn
      BY DEF Turn
    <3> HIDE DEF turn
    <3>2. QED BY <1>3, <3>1, AppendFacts
  <2>2. turn.by = a
    OBVIOUS
  <2> HIDE DEF turn
  <2>3. QED BY <2>1, <2>2 DEF Spoken
<1>5. \A r \in Sessions \ {s} : Spoken(r)' = Spoken(r)
  BY <1>3 DEF Spoken
<1>6. UNCHANGED <<dumped, discarded>>
  BY DEF Answered
<1>7. QED BY <1>1, <1>4, <1>5, <1>6 DEF Safe

\* Who is heard: only an answer adds to them.
LEMMA OnlyAnswersHeard ==
  ASSUME LockInv, NEW a \in Asks, NEW end \in Ends \ {"ok", "exhausted"}, Finish(a, end)
  PROVE  Heard' \subseteq Heard
BY FinishFacts DEF LockInv, Heard

LEMMA LostNext ==
  ASSUME ~DumpMayFail, LockInv, NothingLost, [Next]_vars
  PROVE  NothingLost'
<1>1. /\ NothingLost <=> Heard \subseteq Safe
      /\ NothingLost' <=> Heard' \subseteq Safe'
      /\ TypeOK
  BY DEF NothingLost, Heard, Safe, LockInv
<1>2. ASSUME NEW a \in Asks, ResetSession(a) PROVE NothingLost'
  <2> DEFINE save == ask[a].job = "save"
  <2>1. Reset(ask[a].session, save) /\ ask[a].session \in Sessions /\ save \in BOOLEAN /\ Finish(a, "cleared")
    BY <1>2 DEF ResetSession, Waits, LockInv
  <2> HIDE DEF save
  <2>2. Safe \subseteq Safe'
    BY <1>1, <2>1, ResetLosesNothing
  <2>3. Heard' \subseteq Heard
    BY <2>1, OnlyAnswersHeard DEF Ends
  <2>4. QED BY <1>1, <2>2, <2>3
<1>3. ASSUME NEW a \in Asks, Enter(a) PROVE NothingLost'
  <2>1. Safe \subseteq Safe'
    <3>1. CASE Reset(ask[a].session, TRUE)
      <4>1. ask[a].session \in Sessions
        BY <1>3 DEF Enter, Waits, LockInv
      <4>2. QED BY <1>1, <3>1, <4>1, ResetLosesNothing
    <3>2. CASE UNCHANGED <<store, dumped, discarded>>
      BY <3>2 DEF Safe, Spoken
    <3>3. QED BY <1>3, <3>1, <3>2 DEF Enter
  <2>2. Heard' \subseteq Heard
    <3>1. CASE Finish(a, "denied")
      BY <3>1, OnlyAnswersHeard DEF Ends
    <3>2. CASE ask' = [ask EXCEPT ![a].phase = "bridge", ![a].model = LadderModel(plan[1]),
                                  ![a].resume = store'[ask[a].session].resume]
      BY <1>1, <3>2, Types DEF Heard, Typed, AskRec
    <3>3. QED BY <1>3, <3>1, <3>2 DEF Enter
  <2>3. QED BY <1>1, <2>1, <2>2
<1>4. ASSUME NEW a \in Asks, Answered(a) PROVE NothingLost'
  <2>1. PICK end \in Ends : Finish(a, end)
    BY <1>4 DEF Answered, Ends
  <2>2. Heard' \subseteq Heard \cup {a}
    BY <1>1, <2>1, FinishFacts DEF Heard
  <2>3. QED BY <1>1, <1>4, <2>2, AnsweredIsSaid
<1>5. ASSUME NEW a \in Asks,
             Arrive(a) \/ Incapable(a) \/ Rejected(a) \/ Absent(a) \/ ResumeLost(a) \/ Fails(a) \/ Cancel(a)
      PROVE  NothingLost'
  <2>1. UNCHANGED <<dumped, discarded>> /\ \A s \in Sessions : store'[s].turns = store[s].turns
    <3>1. CASE ResumeLost(a)
      BY <1>1, <3>1, Types DEF ResumeLost, Typed, Session
    <3>2. CASE UNCHANGED <<store, dumped, discarded>>
      BY <3>2
    <3>3. QED BY <1>5, <3>1, <3>2 DEF Arrive, Incapable, Rejected, Absent, Fails, Cancel
  <2>2. Safe' = Safe
    BY <2>1 DEF Safe, Spoken
  <2>3. Heard' \subseteq Heard
    <3>1. ASSUME NEW end \in Ends \ {"ok", "exhausted"}, Finish(a, end) PROVE Heard' \subseteq Heard
      BY <3>1, OnlyAnswersHeard
    <3>2. CASE Arrive(a)
      BY <1>1, <3>2, Types DEF Arrive, Idle, Heard, Typed, AskRec
    <3>3. CASE Rejected(a) \/ Absent(a)
      <4>1. CASE \E end \in {"unavailable", "absent"} : Finish(a, end)
        BY <3>1, <4>1 DEF Ends
      <4>2. CASE \A b \in Asks : ask'[b].end = ask[b].end
        BY <4>2 DEF Heard
      <4>3. QED BY <1>1, <3>3, <4>1, <4>2, Types DEF Rejected, Absent, Typed, AskRec
    <3>4. CASE Incapable(a) \/ ResumeLost(a) \/ Fails(a) \/ Cancel(a)
      BY <3>1, <3>4 DEF Incapable, ResumeLost, Fails, Cancel, Ends
    <3>5. QED BY <1>5, <3>2, <3>3, <3>4
  <2>4. QED BY <1>1, <2>2, <2>3
<1>6. ASSUME UNCHANGED <<store, ask, dumped, discarded>> PROVE NothingLost'
  BY <1>6 DEF NothingLost, Spoken
<1>7. CASE (\E c \in Asks : Expire(c)) \/ Repin \/ UNCHANGED vars
  BY <1>6, <1>7 DEF Expire, Repin, vars
<1>8. QED BY <1>2, <1>3, <1>4, <1>5, <1>7 DEF Next, Bridge

\* "a save=True dump captures that final turn instead of silently dropping it"
\* (_handle_reset), on a disk that takes what is written: whoever waits for, holds or
\* gives up a session's lock meanwhile, a turn that was answered is in the session, in
\* a transcript file, or was dropped by a caller who asked for no file.
THEOREM NothingLostHolds ==
  ASSUME ~DumpMayFail PROVE Spec => []NothingLost
<1>1. Init => NothingLost
  BY DEF Init, Idle, NothingLost
<1>2. NothingLost /\ LockInv /\ [Next]_vars => NothingLost'
  BY LostNext
<1>3. QED BY <1>1, <1>2, LockInvHolds, PTL DEF Spec

-----------------------------------------------------------------------------
(* A session's conversation is its own. *)

\* An ask resumes what its session would, or nothing.
Resumes == \A a \in Asks : InBridge(a) => ask[a].resume \in {NoConv, store[ask[a].session].resume}

\* A session's conversation was opened by an ask of its own, which is over.
Owned ==
  \A s \in Sessions, c \in Asks : store[s].resume = c => ask[c].phase = "done" /\ ask[c].session = s

\* Whoever is in a conversation or a transcript is over.
Past ==
  /\ \A c \in Asks : \A b \in Members(conv[c].turns) : ask[b].phase = "done"
  /\ \A s \in Sessions : \A b \in Spoken(s) : ask[b].phase = "done"

ConvInv == LockInv /\ Resumes /\ Owned /\ Past /\ ConversationIsItsOwn

\* What the property says of one session.
Own(s) ==
  store[s].resume \in Asks =>
    Follows(conv[store[s].resume].turns, Voices(s), Unanswered(s), Openers)

\* One more at the end.
LEMMA AppendPlaces ==
  ASSUME NEW T, NEW turns \in Seq(T), NEW e \in T
  PROVE  /\ Append(turns, e) \in Seq(T) /\ Append(turns, e) # <<>>
         /\ Len(turns) \in Nat /\ DOMAIN turns = 1..Len(turns)
         /\ DOMAIN Append(turns, e) = 1..(Len(turns) + 1)
         /\ Append(turns, e)[Len(turns) + 1] = e
         /\ \A i \in 1..Len(turns) : Append(turns, e)[i] = turns[i]
OBVIOUS

LEMMA MembersGrow ==
  ASSUME NEW T, NEW turns \in Seq(T), NEW e \in T
  PROVE  Members(Append(turns, e)) = Members(turns) \cup {e}
<1> DEFINE n == Len(turns)
           more == Append(turns, e)
<1>1. /\ n \in Nat /\ DOMAIN turns = 1..n /\ DOMAIN more = 1..(n + 1)
      /\ more[n + 1] = e /\ \A i \in 1..n : more[i] = turns[i]
  BY AppendPlaces
<1> HIDE DEF n, more
<1>2. \A i \in 1..(n + 1) : i \in 1..n \/ i = n + 1
  BY <1>1
<1>3. 1..n \subseteq 1..(n + 1) /\ n + 1 \in 1..(n + 1)
  BY <1>1
<1>4. Members(more) = Members(turns) \cup {e}
  BY <1>1, <1>2, <1>3 DEF Members
<1>5. QED BY <1>4 DEF more

\* A newcomer may be added to the transcript, and to the conversation.
LEMMA OrderGrows ==
  ASSUME NEW T, NEW turns \in Seq(T), NEW voices \in Seq(T), NEW e \in T,
         e \notin Members(turns), e \notin Members(voices), InOrder(turns, voices)
  PROVE  /\ InOrder(Append(turns, e), Append(voices, e))
         /\ InOrder(Append(turns, e), voices)
         /\ InOrder(turns, Append(voices, e))
<1> DEFINE n == Len(turns)
           m == Len(voices)
           more == Append(turns, e)
           said == Append(voices, e)
<1>1. /\ n \in Nat /\ DOMAIN turns = 1..n /\ DOMAIN more = 1..(n + 1)
      /\ more[n + 1] = e /\ \A i \in 1..n : more[i] = turns[i]
  BY AppendPlaces
<1>2. /\ m \in Nat /\ DOMAIN voices = 1..m /\ DOMAIN said = 1..(m + 1)
      /\ said[m + 1] = e /\ \A i \in 1..m : said[i] = voices[i]
  BY AppendPlaces
<1> HIDE DEF n, m, more, said
<1>3. /\ \A i \in 1..n : turns[i] # e
      /\ \A k \in 1..m : voices[k] # e
  BY <1>1, <1>2 DEF Members
<1>4. \A i, j \in 1..n, k, l \in 1..m :
        i < j /\ turns[i] = voices[k] /\ turns[j] = voices[l] => k < l
  BY <1>1, <1>2 DEF InOrder
<1>5. ASSUME NEW i \in 1..(n + 1), NEW j \in 1..(n + 1), NEW k \in 1..(m + 1), NEW l \in 1..(m + 1),
             i < j, more[i] = said[k], more[j] = said[l]
      PROVE  k < l
  <2>1. i \in 1..n
    BY <1>1, <1>5
  <2>2. more[i] = turns[i] /\ turns[i] # e
    BY <1>1, <1>3, <2>1
  <2>3. k \in 1..m
    <3>1. k # m + 1
      BY <1>2, <1>5, <2>2
    <3>2. QED BY <1>2, <3>1
  <2>4. CASE j = n + 1
    <3>1. l = m + 1
      <4>1. said[l] = e
        BY <1>1, <1>5, <2>4
      <4>2. ~(l \in 1..m)
        BY <1>2, <1>3, <4>1
      <4>3. QED BY <1>2, <4>2
    <3>2. QED BY <1>2, <2>3, <3>1
  <2>5. CASE j # n + 1
    <3>1. j \in 1..n
      BY <1>1, <2>5
    <3>2. l \in 1..m
      <4>1. more[j] # e
        BY <1>1, <1>3, <3>1
      <4>2. l # m + 1
        BY <1>2, <1>5, <4>1
      <4>3. QED BY <1>2, <4>2
    <3>3. turns[i] = voices[k] /\ turns[j] = voices[l]
      BY <1>1, <1>2, <1>5, <2>1, <2>3, <3>1, <3>2
    <3>4. QED BY <1>4, <1>5, <2>1, <2>3, <3>1, <3>2, <3>3
  <2>6. QED BY <2>4, <2>5
<1>6. InOrder(more, said)
  BY <1>1, <1>2, <1>5 DEF InOrder
<1>7. InOrder(more, voices)
  <2>1. 1..m \subseteq 1..(m + 1) /\ \A k \in 1..m : voices[k] = said[k]
    BY <1>2
  <2>2. QED BY <1>1, <1>2, <1>5, <2>1 DEF InOrder
<1>8. InOrder(turns, said)
  <2>1. 1..n \subseteq 1..(n + 1) /\ \A i \in 1..n : turns[i] = more[i]
    BY <1>1
  <2>2. QED BY <1>1, <1>2, <1>5, <2>1 DEF InOrder
<1>9. QED BY <1>6, <1>7, <1>8 DEF more, said

\* A newcomer to the transcript is in the conversation, or elsewhere.
LEMMA KeepsUpGrows ==
  ASSUME NEW T, NEW turns \in Seq(T), NEW voices \in Seq(T), NEW e \in T, NEW elsewhere, NEW there,
         turns # <<>>, e \notin Members(turns), KeepsUp(turns, voices, elsewhere),
         elsewhere \subseteq there
  PROVE  /\ KeepsUp(Append(turns, e), Append(voices, e), there)
         /\ KeepsUp(Append(turns, e), voices, there)
         /\ e \in there => KeepsUp(turns, Append(voices, e), there)
<1> DEFINE n == Len(turns)
           m == Len(voices)
           more == Append(turns, e)
           said == Append(voices, e)
<1>1. n \in Nat \ {0} /\ more[1] = turns[1] /\ turns[1] \in Members(turns)
  <2>1. n \in Nat /\ n # 0 /\ DOMAIN turns = 1..n
    OBVIOUS
  <2>2. 1 \in 1..n /\ \A i \in 1..n : more[i] = turns[i]
    BY <2>1, AppendPlaces
  <2>3. QED BY <2>1, <2>2 DEF Members
<1>2. /\ m \in Nat /\ DOMAIN voices = 1..m /\ DOMAIN said = 1..(m + 1)
      /\ said[m + 1] = e /\ \A i \in 1..m : said[i] = voices[i]
  BY AppendPlaces
<1>3. Members(more) = Members(turns) \cup {e}
  BY MembersGrow
<1> HIDE DEF n, m, more, said
<1>4. turns[1] # e
  BY <1>1
<1>5. \A k, l \in 1..m : k < l /\ voices[k] = turns[1] => voices[l] \in Members(turns) \cup elsewhere
  BY <1>2 DEF KeepsUp
<1>6. ASSUME NEW k \in 1..(m + 1), NEW l \in 1..(m + 1), k < l, said[k] = turns[1]
      PROVE  said[l] \in Members(turns) \cup elsewhere \cup {e}
  <2>1. k \in 1..m
    BY <1>2, <1>6
  <2>2. CASE l = m + 1
    BY <1>2, <2>2
  <2>3. CASE l # m + 1
    <3>1. l \in 1..m
      BY <1>2, <2>3
    <3>2. QED BY <1>2, <1>5, <1>6, <2>1, <3>1
  <2>4. QED BY <2>2, <2>3
<1>7. KeepsUp(more, said, there)
  BY <1>1, <1>2, <1>3, <1>6 DEF KeepsUp
<1>8. KeepsUp(more, voices, there)
  BY <1>1, <1>2, <1>3, <1>5 DEF KeepsUp
<1>9. e \in there => KeepsUp(turns, said, there)
  BY <1>2, <1>6 DEF KeepsUp
<1>10. QED BY <1>7, <1>8, <1>9 DEF more, said

\* A newcomer that is answered in the conversation, or elsewhere, or not at all.
LEMMA FollowsGrows ==
  ASSUME NEW T, NEW turns \in Seq(T), NEW voices \in Seq(T), NEW e \in T,
         NEW unanswered, NEW elsewhere, NEW silent, NEW there,
         e \notin Members(turns), e \notin Members(voices), Follows(turns, voices, unanswered, elsewhere),
         unanswered \subseteq silent, elsewhere \subseteq there
  PROVE  /\ Follows(turns, voices, silent, there)
         /\ Follows(Append(turns, e), Append(voices, e), silent, there)
         /\ e \in silent => Follows(Append(turns, e), voices, silent, there)
         /\ e \in there => Follows(turns, Append(voices, e), silent, there)
<1> DEFINE more == Append(turns, e)
           said == Append(voices, e)
<1>1. /\ turns # <<>> /\ turns[1] \in Members(voices)
      /\ Members(turns) \subseteq Members(voices) \cup unanswered
      /\ InOrder(turns, voices) /\ KeepsUp(turns, voices, elsewhere)
  BY DEF Follows
<1>2. /\ Members(more) = Members(turns) \cup {e} /\ Members(said) = Members(voices) \cup {e}
      /\ more # <<>>
  BY MembersGrow, AppendPlaces
<1>3. more[1] = turns[1]
  <2>1. 1 \in 1..Len(turns)
    BY <1>1
  <2>2. QED BY <2>1, AppendPlaces
<1>4. InOrder(more, said) /\ InOrder(more, voices) /\ InOrder(turns, said)
  BY <1>1, OrderGrows
<1>5. /\ KeepsUp(more, said, there) /\ KeepsUp(more, voices, there)
      /\ e \in there => KeepsUp(turns, said, there)
  BY <1>1, KeepsUpGrows
<1>6. KeepsUp(turns, voices, there)
  BY <1>1 DEF KeepsUp
<1> HIDE DEF more, said
<1>7. /\ Follows(turns, voices, silent, there) /\ Follows(more, said, silent, there)
      /\ e \in silent => Follows(more, voices, silent, there)
      /\ e \in there => Follows(turns, said, silent, there)
  BY <1>1, <1>2, <1>3, <1>4, <1>5, <1>6 DEF Follows
<1>8. QED BY <1>7 DEF more, said

\* A newcomer opens a conversation.
LEMMA FollowsOpens ==
  ASSUME NEW T, NEW voices \in Seq(T), NEW e \in T, NEW silent, NEW there, e \notin Members(voices)
  PROVE  Follows(<<e>>, Append(voices, e), silent, there)
<1> DEFINE m == Len(voices)
           said == Append(voices, e)
           one == <<e>>
<1>1. /\ m \in Nat /\ DOMAIN voices = 1..m /\ DOMAIN said = 1..(m + 1)
      /\ said[m + 1] = e /\ \A i \in 1..m : said[i] = voices[i]
  BY AppendPlaces
<1>2. Members(said) = Members(voices) \cup {e}
  BY MembersGrow
<1>3. DOMAIN one = {1} /\ one # <<>> /\ one[1] = e
  OBVIOUS
<1> HIDE DEF m, said, one
<1>4. Members(one) = {e}
  BY <1>3 DEF Members
<1>5. InOrder(one, said)
  BY <1>3 DEF InOrder
<1>6. \A k \in 1..m : said[k] # e
  BY <1>1 DEF Members
<1>7. ~ \E k, l \in 1..(m + 1) : k < l /\ said[k] = e
  <2>1. SUFFICES ASSUME NEW k \in 1..(m + 1), NEW l \in 1..(m + 1), k < l, said[k] = e PROVE FALSE
    OBVIOUS
  <2>2. k \in 1..m
    BY <1>1, <2>1
  <2>3. QED BY <1>6, <2>1, <2>2
<1>8. KeepsUp(one, said, there)
  BY <1>1, <1>3, <1>7 DEF KeepsUp
<1>9. Follows(one, said, silent, there)
  BY <1>2, <1>3, <1>4, <1>5, <1>8 DEF Follows
<1>10. QED BY <1>9 DEF one, said

\* Who spoke in a session.
LEMMA VoicesFacts ==
  ASSUME TypeOK, NEW s \in Sessions
  PROVE  /\ Voices(s) \in Seq(Asks) /\ Len(Voices(s)) = Len(store[s].turns)
         /\ \A i \in 1..Len(store[s].turns) : Voices(s)[i] = store[s].turns[i].by
<1> DEFINE turns == store[s].turns
<1>1. turns \in Seq(Turn) /\ Len(turns) \in Nat /\ DOMAIN turns = 1..Len(turns)
  BY Types DEF Typed, Session
<1>2. \A i \in 1..Len(turns) : turns[i].by \in Asks
  <2> HIDE DEF turns
  <2>1. \A i \in 1..Len(turns) : turns[i] \in Turn
    BY <1>1
  <2>2. QED BY <2>1 DEF Turn
<1>3. Voices(s) = [i \in 1..Len(turns) |-> turns[i].by]
  BY <1>1 DEF Voices
<1> HIDE DEF turns
<1>4. QED BY <1>1, <1>2, <1>3 DEF turns

\* One more turn is one more voice.
LEMMA VoicesGrow ==
  ASSUME TypeOK, TypeOK', NEW s \in Sessions, NEW a \in Asks, NEW needs \in BOOLEAN,
         store'[s].turns = Append(store[s].turns, [by |-> a, needs |-> needs])
  PROVE  Voices(s)' = Append(Voices(s), a)
<1> DEFINE old == store[s].turns
           turn == [by |-> a, needs |-> needs]
           new == Append(old, turn)
           n == Len(old)
<1>1. old \in Seq(Turn) /\ turn \in Turn /\ turn.by = a
  BY Types DEF Typed, Session, Turn
<1>2. n \in Nat /\ DOMAIN new = 1..(n + 1) /\ new[n + 1] = turn /\ \A i \in 1..n : new[i] = old[i]
  <2> HIDE DEF old, turn
  <2>1. QED BY <1>1
<1>3. Voices(s)' = [i \in 1..(n + 1) |-> new[i].by]
  BY <1>2 DEF Voices
<1>4. Voices(s) \in Seq(Asks) /\ Len(Voices(s)) = n /\ \A i \in 1..n : Voices(s)[i] = old[i].by
  BY VoicesFacts
<1> DEFINE v == Voices(s)
<1> HIDE DEF old, turn, new, n, v
<1>5. Append(v, a) = [i \in 1..(n + 1) |-> IF i = n + 1 THEN a ELSE v[i]]
  <2>1. v \in Seq(Asks) /\ Len(v) = n
    BY <1>4 DEF v
  <2>2. /\ Append(v, a) \in Seq(Asks) /\ Len(Append(v, a)) = n + 1
        /\ \A i \in 1..(n + 1) : Append(v, a)[i] = IF i = n + 1 THEN a ELSE v[i]
    BY <2>1
  <2> DEFINE w == Append(v, a)
  <2>3. /\ w \in Seq(Asks) /\ Len(w) = n + 1
        /\ \A i \in 1..(n + 1) : w[i] = IF i = n + 1 THEN a ELSE v[i]
    BY <2>2
  <2> HIDE DEF w
  <2>4. w \in [1..(n + 1) -> Asks]
    BY <2>3
  <2>5. w = [i \in 1..(n + 1) |-> IF i = n + 1 THEN a ELSE v[i]]
    BY <2>3, <2>4
  <2>6. QED BY <2>5 DEF w
<1>6. \A i \in 1..(n + 1) : new[i].by = IF i = n + 1 THEN a ELSE v[i]
  BY <1>1, <1>2, <1>4 DEF v
<1>7. QED BY <1>3, <1>5, <1>6 DEF v

\* Who is in the transcript.
LEMMA SpokenFacts ==
  ASSUME TypeOK, NEW s \in Sessions
  PROVE  Spoken(s) = Members(Voices(s))
<1>1. DOMAIN Voices(s) = DOMAIN store[s].turns /\ \A i \in DOMAIN store[s].turns : Voices(s)[i] = store[s].turns[i].by
  BY DEF Voices
<1>2. QED BY <1>1 DEF Spoken, Members

\* Conversations and transcripts hold asks.
LEMMA SpeakersTyped ==
  ASSUME TypeOK
  PROVE  /\ \A c \in Asks : Members(conv[c].turns) \subseteq Asks
         /\ \A s \in Sessions : Spoken(s) \subseteq Asks
<1>1. ASSUME NEW c \in Asks PROVE Members(conv[c].turns) \subseteq Asks
  <2>1. conv[c].turns \in Seq(Asks)
    BY Types DEF Typed, Conv
  <2>2. QED BY <2>1 DEF Members
<1>2. ASSUME NEW s \in Sessions PROVE Spoken(s) \subseteq Asks
  <2>1. store[s].turns \in Seq(Turn)
    BY Types DEF Typed, Session
  <2>2. \A i \in DOMAIN store[s].turns : store[s].turns[i] \in Turn
    BY <2>1
  <2>3. QED BY <2>2 DEF Spoken, Turn
<1>3. QED BY <1>1, <1>2

\* A session is left alone, or loses its conversation while nobody else is at its bridge.
Forgets(a) ==
  \A s \in Sessions :
    \/ store'[s] = store[s]
    \/ /\ store'[s].resume = NoConv /\ Spoken(s)' \subseteq Spoken(s)
       /\ \A b \in Asks \ {a} : InBridge(b) => ask[b].session # s

\* What was asked in vain stays so.
LEMMA UnansweredStay ==
  ASSUME NEW a \in Asks, ask[a].phase # "done", \A b \in Asks \ {a} : ask'[b] = ask[b], NEW s \in Sessions
  PROVE  Unanswered(s) \subseteq Unanswered(s)'
BY DEF Unanswered

\* A step in which nothing is sent.
LEMMA NobodySpeaks ==
  ASSUME ConvInv, LockInv', NEW a \in Asks, ask[a].phase # "done",
         \A b \in Asks \ {a} : ask'[b] = ask[b],
         InBridge(a)' => ask'[a].resume \in {NoConv, store'[ask'[a].session].resume},
         Forgets(a), conv' = conv
  PROVE  ConvInv'
<1>1. NoConv \notin Asks
  BY MarkAssumption
<1>2. Resumes'
  <2>1. ASSUME NEW b \in Asks \ {a}, InBridge(b)'
        PROVE  ask'[b].resume \in {NoConv, store'[ask'[b].session].resume}
    <3>1. ask'[b] = ask[b] /\ InBridge(b) /\ ask[b].session \in Sessions
      BY <2>1 DEF InBridge, ConvInv, LockInv
    <3>2. store'[ask[b].session] = store[ask[b].session]
      BY <2>1, <3>1 DEF Forgets
    <3>3. QED BY <3>1, <3>2 DEF ConvInv, Resumes
  <2>2. QED BY <2>1 DEF Resumes
<1>3. Owned'
  <2>1. ASSUME NEW s \in Sessions, NEW c \in Asks, store'[s].resume = c
        PROVE  ask'[c].phase = "done" /\ ask'[c].session = s
    <3>1. store[s].resume = c
      BY <1>1, <2>1 DEF Forgets
    <3>2. ask[c].phase = "done" /\ ask[c].session = s
      BY <3>1 DEF ConvInv, Owned
    <3>3. QED BY <3>2
  <2>2. QED BY <2>1 DEF Owned
<1>4. Past'
  <2>1. \A s \in Sessions : Spoken(s)' \subseteq Spoken(s)
    BY DEF Forgets, Spoken
  <2>2. \A b \in Asks : ask[b].phase = "done" => ask'[b].phase = "done"
    OBVIOUS
  <2>3. /\ \A c \in Asks : Members(conv[c].turns) \subseteq Asks
        /\ \A s \in Sessions : Spoken(s) \subseteq Asks
    <3>1. TypeOK
      BY DEF ConvInv, LockInv
    <3>2. QED BY <3>1, SpeakersTyped
  <2>4. QED BY <2>1, <2>2, <2>3 DEF ConvInv, Past
<1>5. ConversationIsItsOwn'
  <2>1. ASSUME NEW s \in Sessions, store'[s].resume \in Asks
        PROVE  Follows(conv'[store'[s].resume].turns, Voices(s)', Unanswered(s)', Openers')
    <3>1. store'[s] = store[s]
      BY <1>1, <2>1 DEF Forgets
    <3>2. Follows(conv[store[s].resume].turns, Voices(s), Unanswered(s), Openers)
      BY <2>1, <3>1 DEF ConvInv, ConversationIsItsOwn
    <3>3. Voices(s)' = Voices(s) /\ Openers' = Openers
      BY <3>1 DEF Voices, Openers
    <3>4. Unanswered(s) \subseteq Unanswered(s)'
      BY UnansweredStay
    <3>5. QED BY <3>1, <3>2, <3>3, <3>4 DEF Follows
  <2>2. QED BY <2>1 DEF ConversationIsItsOwn
<1>6. QED BY <1>2, <1>3, <1>4, <1>5 DEF ConvInv

\* Where a query goes.
Where(a) == IF ask[a].resume = NoConv THEN a ELSE ask[a].resume

\* The one conversation a query changes is new, or its session's; the ask is new to it.
LEMMA SentFacts ==
  ASSUME ConvInv, NEW a \in Asks, Sent(a)
  PROVE  /\ TypeOK /\ InBridge(a) /\ ask[a].session \in Sessions /\ lock[ask[a].session] = a
         /\ conv \in [Asks -> Conv]
         /\ \A d \in Asks : d # Where(a) => conv'[d] = conv[d]
         /\ ask[a].resume = NoConv => conv'[a].turns = <<a>>
         /\ ask[a].resume # NoConv =>
              /\ ask[a].resume \in Asks /\ ask[a].resume = store[ask[a].session].resume
              /\ On(a) # "http" /\ ask[a].resume # a
              /\ ask[ask[a].resume].phase = "done" /\ ask[ask[a].resume].session = ask[a].session
              /\ conv'[ask[a].resume].turns = Append(conv[ask[a].resume].turns, a)
         /\ \A d \in Asks : a \notin Members(conv[d].turns)
         /\ \A s \in Sessions : a \notin Spoken(s)
         /\ Openers \subseteq Openers'
<1> DEFINE c == ask[a].resume
<1>1. /\ TypeOK /\ InBridge(a) /\ Dispatched(a) /\ LockInv /\ ask[a].session \in Sessions
      /\ lock[ask[a].session] = a /\ ask[a].phase = "bridge" /\ conv \in [Asks -> Conv]
  BY BridgeFacts, Types DEF Sent, Dispatched, InBridge, ConvInv, LockInv, Typed
<1>2. c # NoConv =>
        /\ c \in Asks /\ c = store[ask[a].session].resume /\ On(a) # "http"
        /\ ask[c].phase = "done" /\ ask[c].session = ask[a].session
  BY <1>1, ResumesFacts DEF ConvInv, Resumes, Owned
<1>3. c # NoConv => c # a
  BY <1>1, <1>2
<1>4. /\ \A d \in Asks : d # Where(a) => conv'[d] = conv[d]
      /\ c = NoConv => conv'[a].turns = <<a>>
      /\ c # NoConv => conv'[c].turns = Append(conv[c].turns, a)
  <2>1. CASE c = NoConv
    BY <1>1, <2>1 DEF Sent, Where
  <2>2. CASE c # NoConv
    <3>1. c \in Asks /\ conv' = [conv EXCEPT ![c].turns = Append(conv[c].turns, a)]
      BY <1>2, <2>2 DEF Sent
    <3>2. QED BY <1>1, <2>2, <3>1 DEF Conv, Where
  <2>3. QED BY <2>1, <2>2
<1>5. /\ \A d \in Asks : a \notin Members(conv[d].turns)
      /\ \A s \in Sessions : a \notin Spoken(s)
  BY <1>1 DEF ConvInv, Past
<1>6. Openers \subseteq Openers'
  <2>1. ASSUME NEW d \in Asks, conv[d].turns # <<>> PROVE conv'[d].turns # <<>>
    <3>1. CASE d # Where(a)
      BY <1>4, <2>1, <3>1
    <3>2. CASE d = Where(a) /\ c = NoConv
      BY <1>4, <3>2 DEF Where
    <3>3. CASE d = Where(a) /\ c # NoConv
      <4>1. conv[d].turns \in Seq(Asks)
        BY <1>1 DEF Conv
      <4>2. Append(conv[d].turns, a) # <<>>
        BY <4>1, AppendPlaces
      <4>3. QED BY <1>4, <3>3, <4>2 DEF Where
    <3>4. QED BY <3>1, <3>2, <3>3
  <2>2. QED BY <2>1 DEF Openers
<1>7. QED BY <1>1, <1>2, <1>3, <1>4, <1>5, <1>6

\* Somebody else's session notices nothing of it.
LEMMA OthersKeepTheirs ==
  ASSUME ConvInv, NEW a \in Asks, Sent(a), \A b \in Asks \ {a} : ask'[b] = ask[b],
         NEW r \in Sessions, r # ask[a].session, store'[r] = store[r], store'[r].resume \in Asks
  PROVE  Follows(conv'[store'[r].resume].turns, Voices(r)', Unanswered(r)', Openers')
<1> DEFINE d == store[r].resume
<1>1. ask[d].phase = "done" /\ ask[d].session = r /\ d \in Asks
  BY DEF ConvInv, Owned
<1>2. d # Where(a) /\ ask[a].phase # "done"
  BY <1>1, SentFacts DEF InBridge, Where
<1>3. conv'[d] = conv[d] /\ Openers \subseteq Openers'
  BY <1>1, <1>2, SentFacts
<1>4. Voices(r)' = Voices(r)
  BY DEF Voices
<1>5. Follows(conv[d].turns, Voices(r), Unanswered(r), Openers)
  BY <1>1 DEF ConvInv, ConversationIsItsOwn
<1>6. Unanswered(r) \subseteq Unanswered(r)'
  BY <1>2, UnansweredStay
<1>7. KeepsUp(conv[d].turns, Voices(r), Openers')
  BY <1>3, <1>5 DEF Follows, KeepsUp
<1>8. QED BY <1>3, <1>4, <1>5, <1>6, <1>7 DEF Follows

\* Whoever was over, or just ended, is in the conversations and transcripts.
LEMMA SentKeepsPast ==
  ASSUME ConvInv, NEW a \in Asks, Sent(a), \A b \in Asks \ {a} : ask'[b] = ask[b],
         ask'[a].phase = "done", \A s \in Sessions : Spoken(s)' \subseteq Spoken(s) \cup {a}
  PROVE  Past'
<1>1. TypeOK /\ conv \in [Asks -> Conv]
  BY SentFacts
<1>2. \A b \in Asks : ask[b].phase = "done" => ask'[b].phase = "done"
  OBVIOUS
<1>3. ASSUME NEW c \in Asks PROVE Members(conv'[c].turns) \subseteq Members(conv[c].turns) \cup {a}
  <2>1. CASE c # Where(a)
    BY <2>1, SentFacts
  <2>2. CASE c = Where(a) /\ ask[a].resume = NoConv
    <3>1. conv'[c].turns = <<a>>
      BY <2>2, SentFacts DEF Where
    <3>2. QED BY <3>1 DEF Members
  <2>3. CASE c = Where(a) /\ ask[a].resume # NoConv
    <3>1. conv'[c].turns = Append(conv[c].turns, a) /\ conv[c].turns \in Seq(Asks)
      BY <1>1, <2>3, SentFacts DEF Where, Conv
    <3>2. QED BY <3>1, MembersGrow
  <2>4. QED BY <2>1, <2>2, <2>3
<1>4. /\ \A c \in Asks : Members(conv[c].turns) \subseteq Asks
      /\ \A s \in Sessions : Spoken(s) \subseteq Asks
  BY <1>1, SpeakersTyped
<1>5. \A c \in Asks : \A b \in Members(conv'[c].turns) : ask'[b].phase = "done"
  BY <1>2, <1>3, <1>4 DEF ConvInv, Past
<1>6. \A s \in Sessions : \A b \in Spoken(s)' : ask'[b].phase = "done"
  BY <1>2, <1>4 DEF ConvInv, Past
<1>7. QED BY <1>5, <1>6 DEF Past

\* A query that was sent and not answered is in its session's conversation, or in one
\* that nobody resumes.
LEMMA VainKeepsConv ==
  ASSUME ConvInv, LockInv', NEW a \in Asks, Sent(a), NEW end \in {"error", "cancelled"}, Finish(a, end),
         store' = store
  PROVE  ConvInv'
<1> DEFINE c == ask[a].resume
<1>1. PICK s \in Sessions :
        /\ s = ask[a].session /\ TypeOK /\ conv \in [Asks -> Conv] /\ ask[a].phase = "bridge"
        /\ Openers \subseteq Openers'
  BY SentFacts DEF InBridge
<1>2. /\ ask'[a].phase = "done" /\ ask'[a].session = s /\ ask'[a].end = end
      /\ \A b \in Asks \ {a} : ask'[b] = ask[b]
  BY <1>1, FinishFacts DEF Ends
<1>3. Resumes'
  BY <1>2 DEF ConvInv, Resumes, InBridge
<1>4. Owned'
  BY <1>1, <1>2 DEF ConvInv, Owned
<1>5. Past'
  <2>1. \A r \in Sessions : Spoken(r)' \subseteq Spoken(r) \cup {a}
    BY DEF Spoken
  <2>2. QED BY <1>2, <2>1, SentKeepsPast
<1>6. ConversationIsItsOwn'
  <2>1. ASSUME NEW r \in Sessions \ {s}, store'[r].resume \in Asks
        PROVE  Own(r)'
    <3>1. r # ask[a].session /\ store'[r] = store[r]
      BY <1>1, <2>1
    <3>2. QED BY <1>2, <2>1, <3>1, OthersKeepTheirs DEF Own
  <2>2. ASSUME store'[s].resume \in Asks
        PROVE  Own(s)'
    <3> DEFINE d == store[s].resume
    <3>1. d \in Asks /\ conv[d].turns \in Seq(Asks) /\ Voices(s)' = Voices(s) /\ Voices(s) \in Seq(Asks)
      <4>1. d \in Asks /\ Voices(s)' = Voices(s)
        BY <2>2 DEF Voices
      <4>2. conv[d] \in Conv
        BY <1>1, <4>1
      <4>3. Voices(s) \in Seq(Asks)
        BY <1>1, VoicesFacts
      <4>4. QED BY <4>1, <4>2, <4>3 DEF Conv
    <3>2. Follows(conv[d].turns, Voices(s), Unanswered(s), Openers)
      BY <1>1, <3>1 DEF ConvInv, ConversationIsItsOwn
    <3>3. a \notin Members(conv[d].turns) /\ a \notin Members(Voices(s))
      BY <1>1, <3>1, SentFacts, SpokenFacts
    <3>4. Unanswered(s) \subseteq Unanswered(s)'
      BY <1>1, <1>2, UnansweredStay
    <3>5. a \in Unanswered(s)'
      BY <1>2 DEF Unanswered
    <3> HIDE DEF d
    <3>6. /\ Follows(conv[d].turns, Voices(s), Unanswered(s)', Openers')
          /\ Follows(Append(conv[d].turns, a), Voices(s), Unanswered(s)', Openers')
      BY <1>1, <3>1, <3>2, <3>3, <3>4, <3>5, FollowsGrows
    <3>7. conv'[d].turns \in {conv[d].turns, Append(conv[d].turns, a)}
      <4>1. CASE d # Where(a)
        BY <3>1, <4>1, SentFacts
      <4>2. CASE d = Where(a)
        <5>1. ask[d].phase = "done"
          BY <1>1, <3>1 DEF ConvInv, Owned, d
        <5>2. d # a
          BY <1>1, <5>1
        <5>3. c # NoConv /\ d = c
          BY <4>2, <5>2 DEF Where
        <5>4. QED BY <5>3, SentFacts
      <4>3. QED BY <4>1, <4>2
    <3>8. Follows(conv'[d].turns, Voices(s)', Unanswered(s)', Openers')
      BY <3>1, <3>6, <3>7
    <3>9. QED BY <3>8 DEF d, Own
  <2>3. \A r \in Sessions : Own(r)'
    BY <2>1, <2>2 DEF Own
  <2>4. QED BY <2>3 DEF ConversationIsItsOwn, Own
<1>7. QED BY <1>3, <1>4, <1>5, <1>6 DEF ConvInv

\* An answer continues its session's conversation, or opens one, which the session
\* resumes if it is told of it.
LEMMA AnsweredKeepsConv ==
  ASSUME ConvInv, LockInv', NEW a \in Asks, Answered(a)
  PROVE  ConvInv'
<1> DEFINE c == ask[a].resume
<1>1. PICK s \in Sessions :
        /\ s = ask[a].session /\ Dispatched(a) /\ Sent(a) /\ TypeOK /\ TypeOK' /\ LockInv
        /\ conv \in [Asks -> Conv] /\ lock[s] = a /\ ask[a].phase = "bridge" /\ Openers \subseteq Openers'
  <2>1. Sent(a)
    BY DEF Answered
  <2>2. Dispatched(a)
    BY <2>1 DEF Sent
  <2>3. LockInv /\ TypeOK' /\ ask[a].phase = "bridge"
    BY <2>2 DEF ConvInv, LockInv, Dispatched, InBridge
  <2>4. QED BY <2>1, <2>2, <2>3, SentFacts
<1>2. PICK needs \in BOOLEAN, id \in SessionIds(a), end \in {"ok", "exhausted"} :
        store' = [store EXCEPT ![s] = Recorded(s, a, needs, id)] /\ Finish(a, end)
  BY <1>1 DEF Answered
<1>3. /\ store'[s].resume = id
      /\ store'[s].turns = Append(store[s].turns, [by |-> a, needs |-> needs])
      /\ \A r \in Sessions \ {s} : store'[r] = store[r]
  BY <1>1, <1>2, IdsTyped, RecordedFacts, Types DEF Typed
<1>4. /\ ask'[a].phase = "done" /\ ask'[a].session = s
      /\ \A b \in Asks \ {a} : ask'[b] = ask[b]
  BY <1>1, <1>2, FinishFacts DEF Ends
<1>5. NoConv \notin Asks /\ HttpMark \notin Asks
  BY MarkAssumption
<1>6. c # NoConv => c \in Asks /\ c = store[s].resume
  BY <1>1, SentFacts
<1>7. id \in Asks => id = (IF c = NoConv THEN a ELSE c) \/ id = store[s].resume
  BY <1>1, <1>2, <1>5 DEF SessionIds
<1>8. \A d \in Asks : store[s].resume = d => ask[d].phase = "done" /\ ask[d].session = s /\ d # a
  BY <1>1 DEF ConvInv, Owned
<1>9. Voices(s)' = Append(Voices(s), a) /\ Voices(s) \in Seq(Asks) /\ a \notin Members(Voices(s))
  <2>1. Voices(s)' = Append(Voices(s), a)
    BY <1>1, <1>3, VoicesGrow
  <2>2. Voices(s) \in Seq(Asks)
    BY <1>1, VoicesFacts
  <2>3. Spoken(s) = Members(Voices(s)) /\ a \notin Spoken(s)
    BY <1>1, SpokenFacts, SentFacts
  <2>4. QED BY <2>1, <2>2, <2>3
<1> HIDE DEF c
<1>10. Resumes'
  <2>1. ASSUME NEW b \in Asks, InBridge(b)'
        PROVE  ask'[b].resume \in {NoConv, store'[ask'[b].session].resume}
    <3>1. b # a /\ ask'[b] = ask[b] /\ InBridge(b) /\ ask[b].session \in Sessions /\ lock[ask[b].session] = b
      BY <1>1, <1>4, <2>1 DEF InBridge, LockInv, AtBridge
    <3>2. store'[ask[b].session] = store[ask[b].session]
      BY <1>1, <1>3, <3>1
    <3>3. QED BY <3>1, <3>2 DEF ConvInv, Resumes
  <2>2. QED BY <2>1 DEF Resumes
<1>11. Owned'
  <2>1. ASSUME NEW r \in Sessions, NEW d \in Asks, store'[r].resume = d
        PROVE  ask'[d].phase = "done" /\ ask'[d].session = r
    <3>1. CASE r = s
      <4>1. d = a \/ store[s].resume = d
        BY <1>3, <1>6, <1>7, <2>1, <3>1
      <4>2. QED BY <1>4, <1>8, <3>1, <4>1
    <3>2. CASE r # s
      <4>1. ask[d].phase = "done" /\ ask[d].session = r
        BY <1>3, <2>1, <3>2 DEF ConvInv, Owned
      <4>2. QED BY <1>1, <1>4, <4>1
    <3>3. QED BY <3>1, <3>2
  <2>2. QED BY <2>1 DEF Owned
<1>12. Past'
  <2>1. Spoken(s)' = Spoken(s) \cup {a}
    <3>1. Spoken(s) = Members(Voices(s))
      BY <1>1, SpokenFacts
    <3>2. Spoken(s)' = Members(Voices(s)')
      <4> DEFINE v == Voices(s)'
      <4>1. /\ DOMAIN v = DOMAIN store'[s].turns
            /\ \A i \in DOMAIN store'[s].turns : v[i] = store'[s].turns[i].by
        BY DEF Voices
      <4> HIDE DEF v
      <4>2. Members(v) = {store'[s].turns[i].by : i \in DOMAIN store'[s].turns}
        BY <4>1 DEF Members
      <4>3. QED BY <4>2 DEF Spoken, v
    <3>3. QED BY <1>9, <3>1, <3>2, MembersGrow
  <2>2. \A r \in Sessions \ {s} : Spoken(r)' = Spoken(r)
    BY <1>3 DEF Spoken
  <2>3. \A r \in Sessions : Spoken(r)' \subseteq Spoken(r) \cup {a}
    BY <2>1, <2>2
  <2>4. QED BY <1>1, <1>4, <2>3, SentKeepsPast
<1>13. ConversationIsItsOwn'
  <2>1. ASSUME NEW r \in Sessions \ {s}, store'[r].resume \in Asks
        PROVE  Own(r)'
    <3>1. r # ask[a].session /\ store'[r] = store[r]
      BY <1>1, <1>3, <2>1
    <3>2. QED BY <1>1, <1>4, <2>1, <3>1, OthersKeepTheirs DEF Own
  <2>2. ASSUME store'[s].resume \in Asks
        PROVE  Own(s)'
    <3>1. CASE id = a
      <4>1. c = NoConv
        BY <1>1, <1>2, <1>5, <1>6, <1>8, <3>1 DEF SessionIds, c
      <4>2. conv'[id].turns = <<a>>
        BY <1>1, <3>1, <4>1, SentFacts DEF c
      <4>3. Follows(<<a>>, Append(Voices(s), a), Unanswered(s)', Openers')
        BY <1>9, FollowsOpens
      <4>4. QED BY <1>3, <1>9, <4>2, <4>3 DEF Own
    <3>2. CASE id # a
      <4>1. store[s].resume = id /\ id \in Asks
        BY <1>3, <1>6, <1>7, <2>2, <3>2
      <4>2. conv[id].turns \in Seq(Asks) /\ a \notin Members(conv[id].turns)
        BY <1>1, <4>1, SentFacts DEF Conv
      <4>3. Follows(conv[id].turns, Voices(s), Unanswered(s), Openers)
        BY <4>1 DEF ConvInv, ConversationIsItsOwn
      <4>4. Unanswered(s) \subseteq Unanswered(s)'
        BY <1>1, <1>4, UnansweredStay
      <4>5. /\ Follows(Append(conv[id].turns, a), Append(Voices(s), a), Unanswered(s)', Openers')
            /\ a \in Openers' =>
                 Follows(conv[id].turns, Append(Voices(s), a), Unanswered(s)', Openers')
        BY <1>1, <1>9, <4>2, <4>3, <4>4, FollowsGrows
      <4>6. CASE c = NoConv
        <5>1. conv'[id] = conv[id] /\ conv'[a].turns = <<a>>
          <6>1. Where(a) = a /\ ask[a].resume = NoConv
            BY <4>6 DEF Where, c
          <6>2. QED BY <1>1, <3>2, <4>1, <6>1, SentFacts
        <5>2. a \in Openers'
          <6>1. <<a>> # <<>>
            OBVIOUS
          <6>2. QED BY <5>1, <6>1 DEF Openers
        <5>3. QED BY <1>3, <1>9, <4>5, <5>1, <5>2 DEF Own
      <4>7. CASE c # NoConv
        <5>1. conv'[id].turns = Append(conv[id].turns, a)
          BY <1>1, <1>6, <4>1, <4>7, SentFacts DEF c
        <5>2. QED BY <1>3, <1>9, <4>5, <5>1 DEF Own
      <4>8. QED BY <4>6, <4>7
    <3>3. QED BY <3>1, <3>2
  <2>3. \A r \in Sessions : Own(r)'
    BY <2>1, <2>2 DEF Own
  <2>4. QED BY <2>3 DEF ConversationIsItsOwn, Own
<1>14. QED BY <1>10, <1>11, <1>12, <1>13 DEF ConvInv

LEMMA ConvNext ==
  ASSUME ConvInv, [Next]_vars
  PROVE  ConvInv'
<1>1. LockInv /\ LockInv' /\ TypeOK /\ NoAsk \notin Asks /\ NoConv \notin Asks
  BY LockNext, MarkAssumption DEF ConvInv, LockInv
<1>2. ASSUME NEW a \in Asks, NEW end \in Ends, Finish(a, end), ask[a].phase # "done",
             Forgets(a),
             conv' = conv
      PROVE  ConvInv'
  <2>1. ~InBridge(a)' /\ \A b \in Asks \ {a} : ask'[b] = ask[b]
    BY <1>1, <1>2, FinishFacts DEF InBridge
  <2>2. QED BY <1>1, <1>2, <2>1, NobodySpeaks
<1>3. ASSUME NEW a \in Asks, Waits(a), NEW save \in BOOLEAN, Reset(ask[a].session, save)
      PROVE  Forgets(a)
  <2>1. ask[a].session \in Sessions /\ lock[ask[a].session] = NoAsk
    BY <1>1, <1>3 DEF Waits, LockInv
  <2>2. /\ store'[ask[a].session] = Fresh
        /\ \A s \in Sessions \ {ask[a].session} : store'[s] = store[s]
    BY <1>1, <1>3, <2>1, ResetFacts
  <2>3. \A b \in Asks : InBridge(b) => ask[b].session # ask[a].session
    BY <1>1, <2>1 DEF LockInv, AtBridge
  <2>4. \A s \in Sessions : store'[s] = Fresh => Spoken(s)' = {}
    BY DEF Fresh, Spoken
  <2>5. QED BY <2>2, <2>3, <2>4 DEF Forgets, Fresh
<1>4. ASSUME NEW a \in Asks, Arrive(a) PROVE ConvInv'
  <2>1. /\ ask[a].phase # "done" /\ ~InBridge(a)' /\ \A b \in Asks \ {a} : ask'[b] = ask[b]
        /\ store' = store /\ conv' = conv
    BY <1>1, <1>4, Types DEF Arrive, Idle, InBridge, Typed
  <2>2. Forgets(a)
    BY <2>1 DEF Forgets
  <2>3. QED BY <1>1, <2>1, <2>2, NobodySpeaks
<1>5. ASSUME NEW a \in Asks, ResetSession(a) PROVE ConvInv'
  <2> DEFINE save == ask[a].job = "save"
  <2>1. Waits(a) /\ Reset(ask[a].session, save) /\ save \in BOOLEAN /\ Finish(a, "cleared") /\ conv' = conv
        /\ ask[a].phase # "done"
    BY <1>5 DEF ResetSession, Waits
  <2> HIDE DEF save
  <2>2. QED BY <1>2, <1>3, <2>1 DEF Ends
<1>6. ASSUME NEW a \in Asks, Enter(a) PROVE ConvInv'
  <2>1. Waits(a) /\ conv' = conv /\ ask[a].phase # "done" /\ ask[a] \in AskRec
    BY <1>1, <1>6, Types DEF Enter, Waits, Typed
  <2>2. Forgets(a)
    <3>1. CASE Reset(ask[a].session, TRUE)
      BY <1>3, <2>1, <3>1
    <3>2. CASE UNCHANGED store
      BY <3>2 DEF Forgets
    <3>3. QED BY <1>6, <3>1, <3>2 DEF Enter
  <2>3. CASE Finish(a, "denied")
    BY <1>2, <2>1, <2>2, <2>3 DEF Ends
  <2>4. CASE ask' = [ask EXCEPT ![a].phase = "bridge", ![a].model = LadderModel(plan[1]),
                                ![a].resume = store'[ask[a].session].resume]
    <3>1. /\ ask'[a].session = ask[a].session /\ ask'[a].resume = store'[ask[a].session].resume
          /\ \A b \in Asks \ {a} : ask'[b] = ask[b]
      BY <1>1, <2>1, <2>4, Types DEF Typed, AskRec
    <3>2. QED BY <1>1, <2>1, <2>2, <3>1, NobodySpeaks
  <2>5. QED BY <1>6, <2>3, <2>4 DEF Enter
<1>7. ASSUME NEW a \in Asks, Rejected(a) \/ Absent(a) PROVE ConvInv'
  <2>1. store' = store /\ conv' = conv /\ ask[a].phase # "done" /\ ask[a] \in AskRec
    BY <1>1, <1>7, Types DEF Rejected, Absent, Dispatched, InBridge, Typed
  <2>2. CASE \E end \in {"unavailable", "absent"} : Finish(a, end)
    BY <1>2, <2>1, <2>2 DEF Ends, Forgets
  <2>3. CASE ~ \E end \in {"unavailable", "absent"} : Finish(a, end)
    <3>1. /\ \A b \in Asks \ {a} : ask'[b] = ask[b]
          /\ ask'[a].session = ask[a].session
          /\ ask'[a].resume \in {NoConv, store[ask[a].session].resume}
      BY <1>1, <1>7, <2>1, <2>3, Types DEF Rejected, Absent, Typed, AskRec
    <3>2. Forgets(a)
      BY <2>1 DEF Forgets
    <3>3. QED BY <1>1, <2>1, <3>1, <3>2, NobodySpeaks
  <2>4. QED BY <2>2, <2>3
<1>8. ASSUME NEW a \in Asks, Incapable(a) \/ Fails(a) \/ Cancel(a) PROVE ConvInv'
  <2>1. store' = store /\ ask[a].phase # "done"
    BY <1>8 DEF Incapable, Fails, Cancel, Dispatched, InBridge
  <2>2. CASE Sent(a) /\ (Fails(a) \/ Cancel(a))
    <3>1. PICK end \in {"error", "cancelled"} : Finish(a, end)
      BY <2>2 DEF Fails, Cancel
    <3>2. QED BY <1>1, <2>1, <2>2, <3>1, VainKeepsConv
  <2>3. CASE conv' = conv
    <3>1. PICK end \in Ends : Finish(a, end)
      BY <1>8 DEF Incapable, Fails, Cancel, Ends
    <3>2. QED BY <1>2, <2>1, <2>3, <3>1 DEF Forgets
  <2>4. QED BY <1>8, <2>2, <2>3 DEF Incapable, Fails, Cancel
<1>9. ASSUME NEW a \in Asks, ResumeLost(a) PROVE ConvInv'
  <2>1. /\ Finish(a, "resume_lost") /\ conv' = conv /\ InBridge(a) /\ ask[a].phase # "done"
        /\ store' = [store EXCEPT ![ask[a].session].resume = NoConv]
    BY <1>9 DEF ResumeLost, Dispatched, InBridge
  <2>2. PICK s \in Sessions : s = ask[a].session /\ lock[s] = a
    BY <1>1, <2>1, BridgeFacts
  <2>3. /\ store'[s].resume = NoConv /\ store'[s].turns = store[s].turns
        /\ \A r \in Sessions \ {s} : store'[r] = store[r]
    BY <1>1, <2>1, <2>2, Types DEF Typed, Session
  <2>4. \A b \in Asks \ {a} : InBridge(b) => ask[b].session # s
    BY <1>1, <2>2 DEF LockInv, AtBridge
  <2>5. Spoken(s)' = Spoken(s)
    BY <2>3 DEF Spoken
  <2>6. QED BY <1>2, <2>1, <2>3, <2>4, <2>5 DEF Ends, Forgets
<1>10. ASSUME UNCHANGED <<store, ask>>, \A c \in Asks : conv'[c].turns = conv[c].turns PROVE ConvInv'
  <2>1. Resumes' /\ Owned' /\ Past'
    BY <1>10 DEF ConvInv, Resumes, Owned, Past, InBridge, Spoken
  <2>2. ASSUME NEW s \in Sessions, store'[s].resume \in Asks PROVE Own(s)'
    <3>1. Voices(s)' = Voices(s) /\ Unanswered(s)' = Unanswered(s) /\ Openers' = Openers
      BY <1>10 DEF Voices, Unanswered, Openers
    <3>2. QED BY <1>10, <2>2, <3>1 DEF ConvInv, ConversationIsItsOwn, Own
  <2>3. \A s \in Sessions : Own(s)'
    BY <2>2 DEF Own
  <2>4. ConversationIsItsOwn'
    BY <2>3 DEF ConversationIsItsOwn, Own
  <2>5. QED BY <1>1, <2>1, <2>4 DEF ConvInv
<1>11. CASE (\E c \in Asks : Expire(c)) \/ Repin \/ UNCHANGED vars
  <2>1. \A c \in Asks : conv'[c].turns = conv[c].turns
    <3>1. conv \in [Asks -> Conv]
      BY <1>1, Types DEF Typed
    <3>2. ASSUME NEW d \in Asks, Expire(d) PROVE \A c \in Asks : conv'[c].turns = conv[c].turns
      <4>1. conv' = [conv EXCEPT ![d].alive = FALSE]
        BY <3>2 DEF Expire
      <4>2. QED BY <3>1, <4>1 DEF Conv
    <3>3. CASE conv' = conv
      BY <3>3
    <3>4. QED BY <1>11, <3>2, <3>3 DEF Repin, vars
  <2>2. UNCHANGED <<store, ask>>
    BY <1>11 DEF Expire, Repin, vars
  <2>3. QED BY <1>10, <2>1, <2>2
<1>12. QED BY <1>1, <1>4, <1>5, <1>6, <1>7, <1>8, <1>9, <1>11, AnsweredKeepsConv DEF Next, Bridge

\* _session_lock and _handle_reset: whatever asks of all sessions wait, fail over from
\* transport to transport, are refused, time out, are cancelled or are reset meanwhile,
\* whether or not answers name their session id: what a session would resume was opened
\* by a turn of its transcript, its turns do not fork it, another session's turns are not
\* in it, and a session that was reset is not resurrected; what else is in it are asks of
\* this session that were sent and not answered.
THEOREM ConversationIsItsOwnHolds == Spec => []ConversationIsItsOwn
<1>1. Init => ConvInv
  <2> SUFFICES ASSUME Init PROVE ConvInv
    OBVIOUS
  <2>1. \A s \in Sessions : store[s] = Fresh
    BY DEF Init
  <2>2. \A a \in Asks : ~InBridge(a) /\ conv[a].turns = <<>>
    BY DEF Init, Idle, InBridge
  <2>3. Past
    BY <2>1, <2>2 DEF Past, Members, Spoken, Fresh
  <2>4. QED BY <2>1, <2>2, <2>3, LockInit, MarkAssumption
            DEF ConvInv, Resumes, Owned, ConversationIsItsOwn, Fresh
<1>2. ConvInv /\ [Next]_vars => ConvInv'
  BY ConvNext
<1>3. ConvInv => ConversationIsItsOwn
  BY DEF ConvInv
<1>4. QED BY <1>1, <1>2, <1>3, PTL DEF Spec
==============================================================================
