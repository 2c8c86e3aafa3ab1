----------------------------- MODULE OracleRun -----------------------------
(***************************************************************************)
(* Calls of one oracle through src/ask_fable/oracles.py: run_bounded's     *)
(* semaphore, run's denylist and telemetry, and _run's answer cache over   *)
(* the circuit breaker of module Breaker, which this module extends with   *)
(* what surrounds a call.                                                  *)
(*                                                                         *)
(* The server is one event loop, so a call runs alone between its awaits:  *)
(* the semaphore, and the backend.  What the cache stores is abstracted to *)
(* which model answered and whether the answer is whole; a key is the      *)
(* question and the name of the model that was to answer it.               *)
(***************************************************************************)
EXTENDS Breaker

CONSTANTS
  Questions,  \* question, context and effort together
  Names,      \* model names label() may resolve to, in the ladder's order
  Reports,    \* whether the bridge always reports the model that answered
  Slots,      \* ASK_FABLE_MAX_PARALLEL
  NoEntry

\* "unreported" stands for no name.
ASSUME NamesAssumption ==
  /\ Names \in Seq(STRING) /\ Names # <<>> /\ Slots \in Nat \ {0}
  /\ \A i \in DOMAIN Names : Names[i] # "unreported"

Ids == {Names[i] : i \in DOMAIN Names}

VARIABLES
  phase,    \* new, queued on the semaphore, calling the backend, or done
  bounded,  \* the call came through run_bounded
  asked,    \* its question
  named,    \* the model name its cache key holds
  end,      \* how it ended
  got,      \* the cached answer it was given
  events,   \* transports of its provider.completed events
  touched,  \* the backend was called
  slots,    \* free slots of the semaphore
  cache,    \* the answers table
  rung,     \* where the ladder stands
  denied    \* the oracle is on the operator's denylist

callVars == <<phase, bounded, asked, named, end, got, events, touched>>
runVars == <<callVars, slots, cache, rung, denied>>
allVars == <<vars, runVars>>

Entry == [by : Ids \cup {"unreported"}, whole : BOOLEAN, stale : BOOLEAN]
EndKinds == {"none", "hit", "shed", "disabled", "ok", "refused", "error", "raised", "cancelled"}

RunTypeOK ==
  /\ phase \in [Calls -> {"new", "queued", "backend", "done"}]
  /\ bounded \in [Calls -> BOOLEAN] /\ touched \in [Calls -> BOOLEAN]
  /\ asked \in [Calls -> Questions] /\ named \in [Calls -> Ids]
  /\ end \in [Calls -> EndKinds]
  /\ got \in [Calls -> Entry \cup {NoEntry}]
  /\ events \in [Calls -> Seq({"cache", "skipped", "bridge"})]
  /\ slots \in 0..Slots
  /\ cache \in [Questions \X Ids -> Entry \cup {NoEntry}]
  /\ rung \in DOMAIN Names /\ denied \in BOOLEAN

RunInit ==
  /\ Init
  /\ phase = [c \in Calls |-> "new"] /\ bounded = [c \in Calls |-> FALSE]
  /\ asked \in [Calls -> Questions] /\ named = [c \in Calls |-> Names[1]]
  /\ end = [c \in Calls |-> "none"] /\ got = [c \in Calls |-> NoEntry]
  /\ events = [c \in Calls |-> <<>>] /\ touched = [c \in Calls |-> FALSE]
  /\ slots = Slots /\ cache = [k \in Questions \X Ids |-> NoEntry]
  /\ rung = 1 /\ denied = FALSE

-----------------------------------------------------------------------------
(* run_bounded and run, up to the backend. *)

\* A fan-out creates the member's task, which waits for a slot.
Queue(c) ==
  /\ phase[c] = "new"
  /\ phase' = [phase EXCEPT ![c] = "queued"]
  /\ bounded' = [bounded EXCEPT ![c] = TRUE]
  /\ UNCHANGED <<vars, asked, named, end, got, events, touched, slots, cache, rung, denied>>

\* The call may run: called directly, or a slot is free.
MayRun(c) == phase[c] = "new" \/ (phase[c] = "queued" /\ slots > 0)

Key(c) == <<asked[c], Names[rung]>>
Fresh(k) == cache[k] # NoEntry /\ ~cache[k].stale

\* It ends where it starts: nothing is awaited, and the slot is free again.
EndsAtOnce(c, how, event) ==
  /\ phase' = [phase EXCEPT ![c] = "done"]
  /\ end' = [end EXCEPT ![c] = how]
  /\ named' = [named EXCEPT ![c] = Names[rung]]
  /\ events' = [events EXCEPT ![c] = @ \o event]
  /\ UNCHANGED <<vars, bounded, asked, touched, slots, rung, denied>>

Disabled(c) ==
  /\ MayRun(c) /\ denied
  /\ EndsAtOnce(c, "disabled", <<>>)
  /\ UNCHANGED <<got, cache>>

Hit(c) ==
  /\ MayRun(c) /\ ~denied /\ Fresh(Key(c))
  /\ EndsAtOnce(c, "hit", <<"cache">>)
  /\ got' = [got EXCEPT ![c] = cache[Key(c)]]
  /\ UNCHANGED cache

\* A stale row is deleted by the lookup that finds it.
Looked(c) == IF cache[Key(c)] = NoEntry THEN cache ELSE [cache EXCEPT ![Key(c)] = NoEntry]

Miss(c) == MayRun(c) /\ ~denied /\ ~Fresh(Key(c)) /\ cache' = Looked(c)

\* The breaker sheds the call.
Shed(c) ==
  /\ Miss(c) /\ ShouldSkip
  /\ EndsAtOnce(c, "shed", <<"skipped">>)
  /\ UNCHANGED got

\* The call goes to the backend.
CallBackend(c) ==
  /\ Miss(c) /\ Admit(c)
  /\ phase' = [phase EXCEPT ![c] = "backend"]
  /\ named' = [named EXCEPT ![c] = Names[rung]]
  /\ touched' = [touched EXCEPT ![c] = TRUE]
  /\ slots' = IF bounded[c] THEN slots - 1 ELSE slots
  /\ UNCHANGED <<bounded, asked, end, got, events, rung, denied>>

Begin(c) == Disabled(c) \/ Hit(c) \/ Shed(c) \/ CallBackend(c)

-----------------------------------------------------------------------------
(* The backend answers. *)

Ends(c, how, event) ==
  /\ phase' = [phase EXCEPT ![c] = "done"]
  /\ end' = [end EXCEPT ![c] = how]
  /\ events' = [events EXCEPT ![c] = @ \o event]
  /\ slots' = IF bounded[c] /\ phase[c] = "backend" THEN slots + 1 ELSE slots
  /\ UNCHANGED <<bounded, asked, named, got, touched, rung, denied>>

ServedAsNamed(c, by) == by \in {named[c], "unreported"}

StoredUnderLabel(c, by, whole) ==
  IF whole
    THEN [cache EXCEPT ![<<asked[c], Names[rung]>>] = [by |-> by, whole |-> whole, stale |-> FALSE]]
    ELSE cache

\* The answer as the cache stores it, under the key of the lookup.
Stored(c, by, whole) ==
  IF whole /\ ServedAsNamed(c, by)
    THEN [cache EXCEPT ![<<asked[c], named[c]>>] = [by |-> by, whole |-> whole, stale |-> FALSE]]
    ELSE cache

\* ok: the breaker hears it, the cache may keep it.  The ladder may have moved
\* under the call, so the model that answered is any of its ids.
Answer(c) ==
  /\ phase[c] = "backend" /\ RecordSuccess(c)
  /\ \E by \in Ids \cup (IF Reports THEN {} ELSE {"unreported"}), whole \in BOOLEAN :
       cache' = Stored(c, by, whole)
  /\ Ends(c, "ok", <<"bridge">>)

Refuse(c) ==
  /\ phase[c] = "backend" /\ RecordSuccess(c)
  /\ Ends(c, "refused", <<"bridge">>) /\ UNCHANGED cache

\* An error result, of the backend's health, of its quota, or of neither.
Fail(c) ==
  /\ phase[c] = "backend" /\ (RecordError(c) \/ RecordRateLimit(c) \/ Unrecorded(c))
  /\ Ends(c, "error", <<"bridge">>) /\ UNCHANGED cache

\* The bridge raises, against its contract.
Raise(c) ==
  /\ phase[c] = "backend" /\ Unrecorded(c)
  /\ Ends(c, "raised", <<"bridge">>) /\ UNCHANGED cache

\* Mutants of the cancellations: a queued member leaves no event; the slot stays
\* taken; the backend is charged with the call.
CancelQueuedSilently(c) ==
  /\ phase[c] = "queued"
  /\ Ends(c, "cancelled", <<>>) /\ UNCHANGED <<vars, cache>>

CancelKeepsSlot(c) ==
  /\ phase[c] = "backend" /\ Unrecorded(c)
  /\ phase' = [phase EXCEPT ![c] = "done"]
  /\ end' = [end EXCEPT ![c] = "cancelled"]
  /\ events' = [events EXCEPT ![c] = @ \o <<"bridge">>]
  /\ UNCHANGED <<bounded, asked, named, got, touched, slots, rung, denied, cache>>

CancelInFlightCharged(c) ==
  /\ phase[c] = "backend" /\ RecordError(c)
  /\ Ends(c, "cancelled", <<"bridge">>) /\ UNCHANGED cache

\* The orchestrator's cap, or the client's disconnection, cancels the call.
CancelQueued(c) ==
  /\ phase[c] = "queued"
  /\ Ends(c, "cancelled", <<"skipped">>) /\ UNCHANGED <<vars, cache>>

CancelInFlight(c) ==
  /\ phase[c] = "backend" /\ Unrecorded(c)
  /\ Ends(c, "cancelled", <<"bridge">>) /\ UNCHANGED cache

Return(c) == Answer(c) \/ Refuse(c) \/ Fail(c) \/ Raise(c)

-----------------------------------------------------------------------------
(* The rest of the process. *)

\* An answer outlives its TTL.
Age(k) ==
  /\ Fresh(k) /\ cache' = [cache EXCEPT ![k].stale = TRUE]
  /\ UNCHANGED <<vars, callVars, slots, rung, denied>>

\* The ladder is demoted, by this call or another.
Demote ==
  /\ rung < Len(Names) /\ rung' = rung + 1
  /\ UNCHANGED <<vars, callVars, slots, cache, denied>>

\* configure_disabled.
Deny ==
  /\ denied' = ~denied
  /\ UNCHANGED <<vars, callVars, slots, cache, rung>>

RunTick == Tick /\ UNCHANGED runVars

\* The breaker's settings are changed between two calls, or under one.
RunConfigure == Configure /\ UNCHANGED runVars

RunNext ==
  \/ \E c \in Calls : Queue(c) \/ Begin(c) \/ Return(c) \/ CancelQueued(c) \/ CancelInFlight(c)
  \/ \E k \in Questions \X Ids : Age(k)
  \/ Demote \/ Deny \/ RunTick \/ RunConfigure

RunSpec == RunInit /\ [][RunNext]_allVars

\* A task that may run does, and a backend call ends: every bridge has a timeout.
RunFairness ==
  /\ WF_allVars(RunTick)
  /\ \A c \in Calls : WF_allVars(phase[c] = "queued" /\ Begin(c)) /\ WF_allVars(Return(c))

RunFairSpec == RunSpec /\ RunFairness

-----------------------------------------------------------------------------
(* What run promises. *)

\* "every attempted oracle leaves a provider.completed": exactly one, and one that
\* charges the backend with the call only if the call reached it.
EveryAttemptRecordedOnce ==
  \A c \in Calls :
    events[c] = IF phase[c] # "done" \/ end[c] = "disabled" THEN <<>>
                ELSE IF touched[c] THEN <<"bridge">>
                ELSE IF end[c] = "hit" THEN <<"cache">> ELSE <<"skipped">>

\* "a cached truncated answer is a permanent lie", and so is one pinned under a
\* label another model answered for: whatever the ladder did meanwhile, a call served
\* from the cache gets a whole answer of the model its key names.
CacheTellsTheTruth ==
  \A c \in Calls : end[c] = "hit" =>
    got[c].whole /\ got[c].by \in {named[c]} \cup (IF Reports THEN {} ELSE {"unreported"})

\* A call's outcome: an error, or an answer.
Reads(c, error) == IF error THEN end[c] = "error" ELSE end[c] \in {"ok", "refused"}

\* "our impatience is not evidence of backend ill-health": each outcome in the breaker's
\* window is that of one call, which came back from the backend with it, and no breaker
\* opens and no hold starts before one came back with an error.  A call that is cancelled,
\* shed, denied, served from the cache, or whose bridge raised, is in no window.
OnlyAnswersJudge ==
  /\ \E of \in [DOMAIN outcomes -> Calls] :
       /\ \A i, j \in DOMAIN outcomes : of[i] = of[j] => i = j
       /\ \A i \in DOMAIN outcomes : Reads(of[i], outcomes[i])
  /\ opened \/ held > 0 => \E c \in Calls : end[c] = "error"

\* A queued member of a fan-out is answered or cancelled in the end.
EveryQueuedCallEnds == \A c \in Calls : phase[c] = "queued" ~> phase[c] = "done"
=============================================================================
