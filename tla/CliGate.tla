------------------------------ MODULE CliGate ------------------------------
(***************************************************************************)
(* The local-CLI gate of src/ask_fable/cli_gate.py.                        *)
(*                                                                         *)
(* Every CLI bridge (claude, mmx, agy, codex, grok, kimi) and the run:     *)
(* sandbox reach their subprocess through run_cli_async.  A call is two    *)
(* actors: the async CALLER, which may be cancelled at any await, and the  *)
(* WORKER, a pool thread running run_cli, which nobody can cancel.  They   *)
(* share an Event (cancelled) and a _ProcHandle (handle).  Workers of one  *)
(* binary share a counting semaphore (sem).  Below the worker there is the *)
(* child: its leader process, and possibly a descendant that inherited the *)
(* output pipes, either still in the leader's process group or gone to a   *)
(* session of its own, where killpg does not reach it.                     *)
(*                                                                         *)
(* Time is a count of Ticks.  A tick passes only between the blocking      *)
(* primitives (acquire, communicate, wait, join): the code between two of  *)
(* them takes no time, and a primitive that can return, because what it    *)
(* waits for is there or its timeout is used up, returns before time moves *)
(* on.  Every interleaving within one instant remains.                     *)
(***************************************************************************)
EXTENDS Integers, FiniteSets

CONSTANTS
  Calls,      \* one run_cli_async call each
  Gates,      \* CLI binaries
  GateOf,     \* the gate a call names
  Limit,      \* ASK_FABLE_CLI_MAX_PARALLEL; zero or negative disables the gate
  Timeout,    \* the call's total budget, in ticks
  Drain,      \* the 5s allowed to each post-kill drain, in ticks
  PoolSize,   \* threads of the executor asyncio.to_thread uses
  Capped      \* the calls that pass max_output_bytes (the run: sandbox)

ASSUME CallsAssumption == IsFiniteSet(Calls) /\ GateOf \in [Calls -> Gates]
ASSUME LimitAssumption == Limit \in Int
ASSUME TimeAssumption == Timeout \in Nat /\ Drain \in Nat
ASSUME PoolAssumption == PoolSize \in Nat \ {0}
ASSUME CappedAssumption == Capped \subseteq Calls

VARIABLES
  phase,    \* where the worker of a call is
  caller,   \* where the coroutine awaiting it is
  handle,   \* the _ProcHandle: empty, recorded (a _proc) or killed
  leader,   \* the process Popen started
  pipe,     \* who else holds the child's output pipes open
  timer,    \* what is left of the blocking primitive's timeout
  age,      \* ticks since run_cli was entered
  sem       \* free slots of each gate

vars == <<phase, caller, handle, leader, pipe, timer, age, sem>>

(***************************************************************************)
(* Phases of a worker.  Blocked phases sit in a primitive with a timeout;  *)
(* slotted, checked and spawned are the points of run_cli between two      *)
(* effects another actor can see or disturb.                               *)
(***************************************************************************)
Blocked == {"queued", "running", "draining", "joinOut", "joinErr"}
Between == {"slotted", "checked", "spawned"}
Active == Blocked \cup Between
Settled == {"done", "dropped"}
Phases == {"pooled"} \cup Active \cup Settled

\* The phases in which the worker is inside `with hold(gate)`.
Holding == Active \ {"queued"}

Gated == Limit > 0
Holders(g) == {c \in Calls : GateOf[c] = g /\ phase[c] \in Holding}
Cancelled(c) == caller[c] \in {"cancelling", "cancelled"}

TypeOK ==
  /\ phase \in [Calls -> Phases]
  /\ caller \in [Calls -> {"awaiting", "cancelling", "cancelled", "returned"}]
  /\ handle \in [Calls -> {"empty", "recorded", "killed"}]
  /\ leader \in [Calls -> {"none", "alive", "zombie", "reaped"}]
  /\ pipe \in [Calls -> {"none", "group", "escaped"}]
  /\ timer \in [Calls -> Nat]
  /\ age \in [Calls -> Nat]
  /\ sem \in [Gates -> Int]

Init ==
  /\ phase = [c \in Calls |-> "pooled"]
  /\ caller = [c \in Calls |-> "awaiting"]
  /\ handle = [c \in Calls |-> "empty"]
  /\ leader = [c \in Calls |-> "none"]
  /\ pipe = [c \in Calls |-> "none"]
  /\ timer = [c \in Calls |-> 0]
  /\ age = [c \in Calls |-> 0]
  /\ sem = [g \in Gates |-> Limit]

-----------------------------------------------------------------------------
(* Process primitives. *)

\* _kill_group on c: it finds the group while the leader is not yet reaped.
KillGroup(c) ==
  LET found == leader[c] \in {"alive", "zombie"} IN
  /\ leader' = [leader EXCEPT ![c] = IF found THEN "zombie" ELSE @]
  /\ pipe' = [pipe EXCEPT ![c] = IF found /\ @ = "group" THEN "none" ELSE @]

\* communicate() is at its end: the leader is gone and the pipes read to EOF.
AtEOF(c) == leader[c] # "alive" /\ pipe[c] = "none"

\* Entering a blocking primitive with t ticks to spend.
Block(c, p, t) ==
  /\ phase' = [phase EXCEPT ![c] = p]
  /\ timer' = [timer EXCEPT ![c] = t]

Goto(c, p) == Block(c, p, 0)

\* The `finally` of hold: every way out of the with-block gives the slot back.
Release(c) ==
  sem' = IF Gated THEN [sem EXCEPT ![GateOf[c]] = @ + 1] ELSE sem

\* run_cli returns.
Leave(c) == Goto(c, "done") /\ Release(c)

-----------------------------------------------------------------------------
(* The worker: run_cli, from the pool thread that picks it up. *)

\* A pool thread takes the job: the deadline starts, then the acquire.
Start(c) ==
  /\ phase[c] = "pooled"
  /\ Cardinality({d \in Calls : phase[d] \in Active}) < PoolSize
  /\ Block(c, "queued", Timeout)
  /\ UNCHANGED <<caller, handle, leader, pipe, age, sem>>

\* sem.acquire(timeout=...) succeeds, or there is no gate to pass.
Acquire(c) ==
  /\ phase[c] = "queued"
  /\ Gated => sem[GateOf[c]] > 0
  /\ Goto(c, "slotted")
  /\ sem' = IF Gated THEN [sem EXCEPT ![GateOf[c]] = @ - 1] ELSE sem
  /\ UNCHANGED <<caller, handle, leader, pipe, age>>

\* Mutant of GateBusy: the result of acquire is not looked at.
GateBusyIgnored(c) ==
  /\ phase[c] = "queued" /\ Gated
  /\ timer[c] = 0
  /\ Goto(c, "slotted")
  /\ UNCHANGED <<caller, handle, leader, pipe, age, sem>>

\* sem.acquire ran out of time: GateBusy, queue_timed_out, no slot was taken.
GateBusy(c) ==
  /\ phase[c] = "queued" /\ Gated
  /\ timer[c] = 0
  /\ Goto(c, "done")
  /\ UNCHANGED <<caller, handle, leader, pipe, age, sem>>

\* `cancelled` is looked at once, with the slot held and nothing spawned yet.
CheckCancelled(c) ==
  /\ phase[c] = "slotted"
  /\ IF Cancelled(c) THEN Leave(c)
                     ELSE Goto(c, "checked") /\ UNCHANGED sem
  /\ UNCHANGED <<caller, handle, leader, pipe, age>>

\* Popen: a child exists that no other actor knows of yet.
Spawn(c) ==
  /\ phase[c] = "checked"
  /\ Goto(c, "spawned")
  /\ leader' = [leader EXCEPT ![c] = "alive"]
  /\ UNCHANGED <<caller, handle, pipe, age, sem>>

\* Mutant of SpawnFails: the early return is outside the with-block.
SpawnFailsKeepsSlot(c) ==
  /\ phase[c] = "checked"
  /\ Goto(c, "done")
  /\ UNCHANGED <<caller, handle, leader, pipe, age, sem>>

\* Popen raised OSError or ValueError: a failed run, no child.
SpawnFails(c) ==
  /\ phase[c] = "checked"
  /\ Leave(c)
  /\ UNCHANGED <<caller, handle, leader, pipe, age>>

\* Mutant of Publish: set() records the child without looking at _killed.
PublishUnchecked(c) ==
  /\ phase[c] = "spawned"
  /\ handle' = [handle EXCEPT ![c] = "recorded"]
  /\ Block(c, "running", IF age[c] < Timeout THEN Timeout - age[c] ELSE 0)
  /\ UNCHANGED <<caller, leader, pipe, age, sem>>

\* Mutant of Publish: communicate(timeout=timeout), the wait not subtracted.
PublishFullBudget(c) ==
  /\ phase[c] = "spawned" /\ handle[c] # "killed"
  /\ handle' = [handle EXCEPT ![c] = "recorded"]
  /\ Block(c, "running", Timeout)
  /\ UNCHANGED <<caller, leader, pipe, age, sem>>

\* proc_handle.set(proc) under the handle's lock, before any kill().  The
\* child may run for what the queue left of the budget.
Publish(c) ==
  /\ phase[c] = "spawned" /\ handle[c] # "killed"
  /\ handle' = [handle EXCEPT ![c] = "recorded"]
  /\ Block(c, "running", IF age[c] < Timeout THEN Timeout - age[c] ELSE 0)
  /\ UNCHANGED <<caller, leader, pipe, age, sem>>

\* set() after kill(): the child is killed here, then reaped for up to Drain.
PublishRefused(c) ==
  /\ phase[c] = "spawned" /\ handle[c] = "killed"
  /\ KillGroup(c)
  /\ Block(c, "draining", Drain)
  /\ UNCHANGED <<caller, handle, age, sem>>

\* communicate() returned: the child is reaped and the run is over.
Complete(c) ==
  /\ phase[c] \in {"running", "draining"}
  /\ phase[c] = "running" => c \notin Capped
  /\ AtEOF(c)
  /\ leader' = [leader EXCEPT ![c] = "reaped"]
  /\ Leave(c)
  /\ UNCHANGED <<caller, handle, pipe, age>>

\* communicate(timeout=remaining) ran out: kill the group, drain for Drain.
RunTimeout(c) ==
  /\ phase[c] = "running" /\ c \notin Capped
  /\ timer[c] = 0
  /\ KillGroup(c)
  /\ Block(c, "draining", Drain)
  /\ UNCHANGED <<caller, handle, age, sem>>

\* The drain ran out too: somebody outside the group still holds the pipes.
DrainTimeout(c) ==
  /\ phase[c] = "draining"
  /\ timer[c] = 0
  /\ Leave(c)
  /\ UNCHANGED <<caller, handle, leader, pipe, age>>

\* Any other failure mid-run: kill the group and reap the leader, whose death
\* proc.wait returns at once; the pipes are not read again.
RunFails(c) ==
  /\ phase[c] = "running"
  /\ leader' = [leader EXCEPT ![c] = "reaped"]
  /\ pipe' = [pipe EXCEPT ![c] = IF @ = "group" THEN "none" ELSE @]
  /\ Leave(c)
  /\ UNCHANGED <<caller, handle, age>>

(* _communicate_capped: wait for the leader, then join the two readers. *)

\* proc.wait returned, or its timeout killed the group and reaped the leader.
CappedWaitEnds(c) ==
  /\ phase[c] = "running" /\ c \in Capped
  /\ \/ leader[c] = "zombie" /\ UNCHANGED pipe
     \/ timer[c] = 0 /\ pipe' = [pipe EXCEPT ![c] = IF @ = "group" THEN "none" ELSE @]
  /\ leader' = [leader EXCEPT ![c] = "reaped"]
  /\ Block(c, "joinOut", Drain)
  /\ UNCHANGED <<caller, handle, age, sem>>

\* t_out.join(timeout=5): the reader saw EOF, or the join gives up on it.
JoinOut(c) ==
  /\ phase[c] = "joinOut"
  /\ AtEOF(c) \/ timer[c] = 0
  /\ Block(c, "joinErr", Drain)
  /\ UNCHANGED <<caller, handle, leader, pipe, age, sem>>

\* t_err.join(timeout=5), then the result.
JoinErr(c) ==
  /\ phase[c] = "joinErr"
  /\ AtEOF(c) \/ timer[c] = 0
  /\ Leave(c)
  /\ UNCHANGED <<caller, handle, leader, pipe, age>>

Worker(c) ==
  \/ Acquire(c) \/ GateBusy(c) \/ CheckCancelled(c)
  \/ Spawn(c) \/ SpawnFails(c) \/ Publish(c) \/ PublishRefused(c)
  \/ Complete(c) \/ RunTimeout(c) \/ DrainTimeout(c)
  \/ CappedWaitEnds(c) \/ JoinOut(c) \/ JoinErr(c)

-----------------------------------------------------------------------------
(* The caller: run_cli_async. *)

\* The worker's result resolves the awaited future.
Deliver(c) ==
  /\ caller[c] = "awaiting" /\ phase[c] = "done"
  /\ caller' = [caller EXCEPT ![c] = "returned"]
  /\ UNCHANGED <<phase, handle, leader, pipe, timer, age, sem>>

\* CancelledError at the await, then cancelled.set().  A job no thread has
\* picked up is withdrawn by the cancelled future itself.
Cancel(c) ==
  /\ caller[c] = "awaiting"
  /\ caller' = [caller EXCEPT ![c] = "cancelling"]
  /\ phase' = [phase EXCEPT ![c] = IF @ = "pooled" THEN "dropped" ELSE @]
  /\ UNCHANGED <<handle, leader, pipe, timer, age, sem>>

\* handle.kill(): a recorded child is killed with its group, a later set()
\* will be refused; then the CancelledError goes on.
KillHandle(c) ==
  /\ caller[c] = "cancelling"
  /\ caller' = [caller EXCEPT ![c] = "cancelled"]
  /\ handle' = [handle EXCEPT ![c] = "killed"]
  /\ IF handle[c] = "recorded" THEN KillGroup(c) ELSE UNCHANGED <<leader, pipe>>
  /\ UNCHANGED <<phase, timer, age, sem>>

-----------------------------------------------------------------------------
(* The child and the clock. *)

\* The leader ends on its own.
LeaderExits(c) ==
  /\ leader[c] = "alive"
  /\ leader' = [leader EXCEPT ![c] = "zombie"]
  /\ UNCHANGED <<phase, caller, handle, pipe, timer, age, sem>>

\* The leader leaves a descendant holding its pipes, in its group or out of it.
Fork(c) ==
  /\ leader[c] = "alive" /\ pipe[c] = "none"
  /\ \E where \in {"group", "escaped"} : pipe' = [pipe EXCEPT ![c] = where]
  /\ UNCHANGED <<phase, caller, handle, leader, timer, age, sem>>

\* That descendant ends, or closes the pipes.
DescendantExits(c) ==
  /\ pipe[c] # "none"
  /\ pipe' = [pipe EXCEPT ![c] = "none"]
  /\ UNCHANGED <<phase, caller, handle, leader, timer, age, sem>>

\* The primitive worker c sits in has nothing left to wait for.
Ready(c) ==
  \/ timer[c] = 0
  \/ phase[c] = "queued" /\ (Gated => sem[GateOf[c]] > 0)
  \/ phase[c] = "running" /\ c \in Capped /\ leader[c] = "zombie"
  \/ phase[c] = "running" /\ c \notin Capped /\ AtEOF(c)
  \/ phase[c] \in {"draining", "joinOut", "joinErr"} /\ AtEOF(c)

Tick ==
  /\ \E c \in Calls : phase[c] \in Blocked
  /\ \A c \in Calls : /\ phase[c] \notin Between
                      /\ phase[c] \in Blocked => ~Ready(c)
                      /\ caller[c] # "cancelling"
  /\ timer' = [c \in Calls |-> IF phase[c] \in Blocked THEN timer[c] - 1 ELSE timer[c]]
  /\ age' = [c \in Calls |-> IF phase[c] \in Blocked THEN age[c] + 1 ELSE age[c]]
  /\ UNCHANGED <<phase, caller, handle, leader, pipe, sem>>

\* Every call was answered and the machine is quiet.
AllSettled ==
  /\ \A c \in Calls : phase[c] \in Settled /\ caller[c] \in {"returned", "cancelled"}
  /\ UNCHANGED vars

Next ==
  \/ \E c \in Calls :
       \/ Start(c) \/ Worker(c) \/ RunFails(c)
       \/ Deliver(c) \/ Cancel(c) \/ KillHandle(c)
       \/ LeaderExits(c) \/ Fork(c) \/ DescendantExits(c)
  \/ Tick
  \/ AllSettled

Spec == Init /\ [][Next]_vars

(***************************************************************************)
(* Fairness: pool threads and the event loop are scheduled, and time       *)
(* passes.  Nothing is assumed of the child: it may run, and hold its      *)
(* pipes, for ever.                                                        *)
(***************************************************************************)
Fairness ==
  /\ \A c \in Calls : /\ WF_vars(Start(c)) /\ WF_vars(Worker(c))
                      /\ WF_vars(Deliver(c)) /\ WF_vars(KillHandle(c))
  /\ WF_vars(Tick)

FairSpec == Spec /\ Fairness

-----------------------------------------------------------------------------
(* What the gate promises. *)

\* CONFIGURATION.md: "maximum concurrent local CLI processes per binary".  At
\* no moment do more leaders of one gate run than the limit, however calls
\* are queued, cancelled, refused at set() or timed out.
GateBound ==
  Gated => \A g \in Gates :
             Cardinality({c \in Calls : GateOf[c] = g /\ leader[c] = "alive"}) <= Limit

\* A slot is either free or held by a worker inside `with hold`: none is lost
\* on an early return, a failed spawn or a kill, and none is given back twice.
SlotsConserved ==
  Gated => \A g \in Gates : sem[g] + Cardinality(Holders(g)) = Limit

\* run_cli's "never orphan": once it has returned, on whatever path, the child
\* it started is not running.
NoOrphan == \A c \in Calls : phase[c] \in Settled => leader[c] # "alive"

\* _ProcHandle: "a kill racing the spawn either kills the just-spawned child or
\* the recorded one -- never neither".  After kill() a child lives only in the
\* gap before its own worker reaches set(), which kills it.
KillMissesNobody ==
  \A c \in Calls : caller[c] = "cancelled" /\ leader[c] = "alive" => phase[c] = "spawned"

\* No child outlives its call, nor its caller's kill.
NoStray == NoOrphan /\ KillMissesNobody

\* run_cli: "time spent queued on the gate is subtracted from the time the
\* subprocess may run".  The wait for a slot, the run and the drain together
\* stay within the budget and one drain; the capped reader joins two readers
\* one after the other and so may take two.
WallTime ==
  \A c \in Calls : age[c] <= Timeout + (IF c \in Capped THEN 2 * Drain ELSE Drain)

\* run_cli's docstring: "a call's wall time is bounded by ~timeout + the 5s
\* drain regardless of queue depth", for every call, capped ones included.
WallTimeAsDocumented == \A c \in Calls : age[c] <= Timeout + Drain

(***************************************************************************)
(* The gate as a pool of slots: a worker is inside from acquire to release.*)
(***************************************************************************)
Pool == INSTANCE SlotPool WITH
  inside <- {c \in Calls : phase[c] \in Holding},
  over <- {c \in Calls : phase[c] \in Settled}

\* The gate implements the pool: entry only where there is room, one stay per
\* call, and everyone inside leaves.
ImplementsSlotPool == Pool!FairSpec
=============================================================================
