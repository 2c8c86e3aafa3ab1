------------------------------ MODULE LmStudio ------------------------------
(***************************************************************************)
(* The LM Studio bridge (lmstudio.py): ask_lms calls and unload_lms_model  *)
(* calls of several ask_fable processes sharing one LM Studio server.      *)
(*                                                                         *)
(* A call runs in two halves.  A worker thread decides what to load: the   *)
(* lock-free fast path, then, under the process's _LOAD_LOCK and the file  *)
(* lock of all processes, the catalog re-check, the load with its fallbacks*)
(* (a smaller window, the floor probe, the swap of residents one at a time *)
(* with its restore).  The coroutine then counts itself in flight, checks  *)
(* the catalog once more and sends the chat from another thread.  The      *)
(* coroutine can be cancelled, or its wait can time out, at every await;   *)
(* a thread that has started cannot.                                       *)
(*                                                                         *)
(* A refcount by model is represented by the set of the calls that hold    *)
(* it, and a claim by the worker that made it.  Contexts are small         *)
(* numbers; memory is counted in the same unit.  Left out: model matching, *)
(* per-model and per-host ceilings, builds that do not report a window,    *)
(* and the control page's room check, which only refuses earlier.          *)
(***************************************************************************)
EXTENDS Naturals, Sequences, FiniteSets, FiniteSetsExt

CONSTANTS
  Calls,        \* ask_lms calls
  Removers,     \* unload_lms_model calls
  Procs,        \* ask_fable server processes
  ProcOf,       \* the process of each of them
  Models,       \* models LM Studio has on disk
  ModelOf,      \* the model each of them names
  Need,         \* _needed_context of each call's prompt
  Want,         \* context_default, no smaller than any Need
  Floor,        \* _FLOOR_CONTEXT
  Jit,          \* LM Studio's own window for a model it loads by itself
  Size,         \* memory of each model's weights
  Capacity,     \* memory of the server
  Broken,       \* models whose file cannot be loaded
  Residents,    \* the instances at the start
  MaySwap,         \* the calls that find lmstudio_swap = auto
  FileLocks,    \* the state directory can be locked
  Impatient,    \* calls whose client may stop waiting
  Faults,       \* what may go wrong: "catalog", "recheck", "unload", "appear", "load", "chat"
  None

Workers == Calls \cup Removers

ASSUME WorkersAssumption ==
  /\ Calls \cap Removers = {}
  /\ ProcOf \in [Workers -> Procs] /\ ModelOf \in [Workers -> Models]
  /\ None \notin Workers /\ None \notin Models /\ None \notin {"ok", "gave_up"}
ASSUME WindowAssumption ==
  /\ Need \in [Calls -> Nat] /\ Want \in Nat /\ Floor \in Nat /\ Jit \in Nat
  /\ \A c \in Calls : Need[c] <= Want
ASSUME ServerAssumption ==
  /\ Size \in [Models -> Nat] /\ Capacity \in Nat /\ Broken \subseteq Models
  /\ MaySwap \subseteq Calls /\ FileLocks \in BOOLEAN /\ Impatient \subseteq Calls

VARIABLES
  instances,    \* what LM Studio has loaded
  leaving,      \* the instances it was told to unload and has not dropped yet
  on,           \* the instance that answers each call's chat
  pc,           \* where each worker is
  caller,       \* whether the coroutine of a call still waits
  err,          \* the last load error of each worker
  queue,        \* residents the swap may still unload
  vacated,      \* residents this worker unloaded, oldest first
  pending,      \* the instance whose unload a worker waits for
  claim,        \* the model a worker has in _UNLOADING
  believed,     \* the window the load half reported
  result,       \* what each worker returned
  retried,      \* calls whose chat was retried
  loadLock,     \* holder of _LOAD_LOCK, by process
  fileLock,     \* holder of the flock
  inflight,     \* _INFLIGHT: the calls counted in it
  generating    \* _GENERATING: the calls counted in it

server == <<instances, leaving, on>>
thread == <<err, queue, vacated, pending, believed>>
counts == <<inflight, generating>>
locks == <<loadLock, fileLock>>
vars == <<server, thread, counts, locks, claim, pc, caller, result, retried>>

----------------------------------------------------------------------------
(* The LM Studio server. *)

Of(m) == {i \in instances : i.model = m}
Loaded(m) == Of(m) # {}

\* catalog: a model's entry shows the first of its instances.
First(m) == CHOOSE i \in Of(m) : \A j \in Of(m) : i.id <= j.id
Window(m) == IF Loaded(m) THEN First(m).ctx ELSE 0

\* At the floor window the weights spill to the CPU: such an instance always fits.
Cost(m, ctx) == IF ctx <= Floor THEN 0 ELSE Size[m] + ctx
Used(is) == MapThenSumSet(LAMBDA i : Cost(i.model, i.ctx), is)
Fits(m, ctx) == Used(instances) + Cost(m, ctx) <= Capacity

Fresh(m) == CHOOSE n \in 1..(Cardinality(instances) + 1) :
              /\ \A i \in Of(m) : i.id # n
              /\ \A k \in 1..(n - 1) : \E i \in Of(m) : i.id = k
Instance(m, ctx, jit) == [model |-> m, id |-> Fresh(m), ctx |-> ctx, jit |-> jit]

\* What a load can end with: a memory failure is worded as one or surfaces as a
\* crash of the engine, which is also what a broken file looks like.
LoadErrors(m, ctx) ==
  IF m \in Broken THEN {"crash", "other"}
  ELSE IF Fits(m, ctx) THEN {"none"} \cup (IF "load" \in Faults THEN {"other"} ELSE {})
  ELSE {"memory", "crash"}

\* _load_instance ends with e.
Adding(m, ctx, e) ==
  /\ e \in LoadErrors(m, ctx)
  /\ instances' = IF e = "none" THEN instances \cup {Instance(m, ctx, FALSE)} ELSE instances

\* The server drops an instance it was told to unload.
Leave(i) ==
  /\ i \in leaving
  /\ instances' = instances \ {i} /\ leaving' = leaving \ {i}
  /\ UNCHANGED <<on, thread, counts, locks, claim, pc, caller, result, retried>>

\* An instance LM Studio loaded by itself is dropped when it has been idle.
Expire(i) ==
  /\ i \in instances /\ i.jit
  /\ \A c \in Calls : ~(pc[c] = "generating" /\ on[c] = i)
  /\ instances' = instances \ {i} /\ leaving' = leaving \ {i}
  /\ UNCHANGED <<on, thread, counts, locks, claim, pc, caller, result, retried>>

----------------------------------------------------------------------------
(* Locks, claims and outcomes. *)

Busy(p, m) == \E c \in inflight \cup generating : ProcOf[c] = p /\ ModelOf[c] = m
Unloading(p, m) == \E w \in Workers : ProcOf[w] = p /\ claim[w] = m

Go(w, l) == pc' = [pc EXCEPT ![w] = l]

\* Mutant of Release: the thread lock is kept.
ReleaseFile(w) ==
  /\ UNCHANGED loadLock
  /\ fileLock' = IF fileLock = w THEN None ELSE fileLock

\* The with-block of the two locks ends.
Release(w) ==
  /\ loadLock' = [p \in Procs |-> IF loadLock[p] = w THEN None ELSE loadLock[p]]
  /\ fileLock' = IF fileLock = w THEN None ELSE fileLock

\* A worker is done: the load half gave up, or a remover ends.
End(w, kind) ==
  /\ Go(w, "ended") /\ Release(w)
  /\ result' = [result EXCEPT ![w] = IF @ = None THEN kind ELSE @]

\* The load half reports the model loaded at ctx.
Succeed(c, ctx) ==
  /\ Go(c, IF caller[c] = "waiting" THEN "admit" ELSE "ended") /\ Release(c)
  /\ believed' = [believed EXCEPT ![c] = ctx]
  /\ UNCHANGED result

\* Inside the block of the two locks.
Stay == UNCHANGED <<locks, result>>

\* _unload_claim granted, and the unload request the block starts with.
StartUnload(w, i, next) ==
  /\ ~Busy(ProcOf[w], i.model)
  /\ i \in instances
  /\ claim' = [claim EXCEPT ![w] = i.model]
  /\ leaving' = leaving \cup {i}
  /\ pending' = [pending EXCEPT ![w] = i]
  /\ Go(w, next) /\ Stay

\* The request fails, whether or not the server carries it out: the block ends at once.
UnloadFails(w, i) ==
  /\ ~Busy(ProcOf[w], i.model)
  /\ i \notin instances \/ "unload" \in Faults
  /\ leaving' \in {leaving, leaving \cup ({i} \cap instances)}
  /\ UNCHANGED <<claim, pending>>

\* _unload_and_wait returns: the catalog does not show the instance any more ...
Dropped(w) ==
  /\ ~\E m \in Models : Loaded(m) /\ First(m) = pending[w]
  /\ claim' = [claim EXCEPT ![w] = None]

\* ... or unload_wait has passed and it still does.
StillThere(w) ==
  /\ "unload" \in Faults
  /\ \E m \in Models : Loaded(m) /\ First(m) = pending[w]
  /\ claim' = [claim EXCEPT ![w] = None]

----------------------------------------------------------------------------
(* The load half of a call (_ensure_loaded_blocking). *)

model(c) == ModelOf[c]
Serves(c) == Loaded(model(c)) /\ Window(model(c)) >= Need[c]
Chats == <<on, caller, retried, counts>>

\* The catalog cannot be read, by the fast path or under the locks.
Unreadable(w) ==
  /\ pc[w] \in {"quick", "decide"} /\ "catalog" \in Faults
  /\ End(w, "network_error")
  /\ UNCHANGED <<instances, leaving, thread, claim, Chats>>

\* _quick_loaded, and the same test repeated under the locks.
AlreadyLoaded(c) ==
  /\ pc[c] \in {"quick", "decide"} /\ Serves(c)
  /\ Succeed(c, Window(model(c)))
  /\ UNCHANGED <<instances, leaving, err, queue, vacated, pending, claim, Chats>>

MustLoad(c) ==
  /\ pc[c] = "quick" /\ ~Serves(c)
  /\ Go(c, "lock")
  /\ Stay /\ UNCHANGED <<instances, leaving, thread, claim, Chats>>

TakeLoadLock(w) ==
  /\ pc[w] = "lock" /\ loadLock[ProcOf[w]] = None
  /\ loadLock' = [loadLock EXCEPT ![ProcOf[w]] = w]
  /\ Go(w, "file")
  /\ UNCHANGED <<instances, leaving, thread, claim, fileLock, result, Chats>>

\* _file_lock: best effort, a directory that cannot be locked lets everyone in.
TakeFileLock(w) ==
  /\ pc[w] = "file"
  /\ IF FileLocks THEN fileLock = None /\ fileLock' = w ELSE UNCHANGED fileLock
  /\ Go(w, "decide")
  /\ UNCHANGED <<instances, leaving, thread, claim, loadLock, result, Chats>>

\* Loaded in a window too small: the operator is asked, or the model is reloaded.
TooSmall(c) == pc[c] = "decide" /\ Loaded(model(c)) /\ ~Serves(c)

OfferUnload(c) ==
  /\ TooSmall(c) /\ c \notin MaySwap
  /\ End(c, "context_too_small")
  /\ UNCHANGED <<instances, leaving, thread, claim, Chats>>

Reload(c) ==
  /\ TooSmall(c) /\ c \in MaySwap
  /\ LET i == First(model(c)) IN
       \/ /\ Busy(ProcOf[c], model(c)) /\ End(c, "busy")
          /\ UNCHANGED <<leaving, claim, pending>>
       \/ StartUnload(c, i, "reload_gone")
       \/ UnloadFails(c, i) /\ End(c, "unload_failed")
  /\ UNCHANGED <<instances, err, queue, vacated, believed, Chats>>

ReloadGone(c) ==
  /\ pc[c] = "reload_gone"
  /\ \/ /\ Dropped(c) /\ Go(c, "reload") /\ Stay
        /\ vacated' = [vacated EXCEPT ![c] = {pending[c]}]
     \/ StillThere(c) /\ End(c, "unload_failed") /\ UNCHANGED vacated
  /\ UNCHANGED <<instances, leaving, err, queue, pending, believed, Chats>>

\* Mutant of Abandon: what was unloaded is not put back.
AbandonUnrestored(c, kind) == End(c, kind) /\ UNCHANGED <<err, queue>>

\* _restore of what was unloaded, then the outcome that names it.
Abandon(c, kind) ==
  IF vacated[c] = {} THEN End(c, kind) /\ UNCHANGED <<err, queue>>
  ELSE /\ Go(c, "restore") /\ Stay
       /\ err' = [err EXCEPT ![c] = kind]
       /\ queue' = [queue EXCEPT ![c] = vacated[c]]

ReloadAt(c) ==
  /\ pc[c] = "reload"
  /\ \E e \in LoadErrors(model(c), Want) :
       /\ Adding(model(c), Want, e)
       /\ IF e = "none" THEN Go(c, "appear") /\ Stay /\ UNCHANGED <<err, queue>>
          ELSE Abandon(c, "load_failed")
  /\ UNCHANGED <<leaving, vacated, pending, believed, claim, Chats>>

Snapshot == {First(m) : m \in {n \in Models : Loaded(n)}}

\* Not loaded: an explicit load adds it to what is resident.
Absent(c) ==
  /\ pc[c] = "decide" /\ ~Loaded(model(c))
  /\ queue' = [queue EXCEPT ![c] = Snapshot]
  /\ Go(c, "load") /\ Stay
  /\ UNCHANGED <<instances, leaving, err, vacated, pending, believed, claim, Chats>>

\* The failure is known to be one of memory: residents are in the way, if any.
Proven(c) == IF c \in MaySwap /\ queue[c] # {} THEN Go(c, "vacate") /\ Stay ELSE End(c, "load_failed")

\* What a load that failed at the window tried is evidence of.
Assess(c, e, tried) ==
  IF e = "memory" THEN Proven(c)
  ELSE IF e = "crash" /\ tried > Floor THEN Go(c, "probe") /\ Stay
  ELSE End(c, "load_failed")

\* The load at the default window.
LoadWanted(c) ==
  /\ pc[c] = "load"
  /\ \E e \in LoadErrors(model(c), Want) :
       /\ Adding(model(c), Want, e)
       /\ err' = [err EXCEPT ![c] = e]
       /\ IF e = "none" THEN Go(c, "appear") /\ Stay
          ELSE IF e # "other" /\ Need[c] < Want THEN Go(c, "smaller") /\ Stay
          ELSE Assess(c, e, Want)
  /\ UNCHANGED <<leaving, queue, vacated, pending, believed, claim, Chats>>

\* The load at the window the prompt needs.
LoadSmaller(c) ==
  /\ pc[c] = "smaller"
  /\ \E e \in LoadErrors(model(c), Need[c]) :
       /\ Adding(model(c), Need[c], e)
       /\ err' = [err EXCEPT ![c] = e]
       /\ IF e = "none" THEN Go(c, "appear") /\ Stay ELSE Assess(c, e, Need[c])
  /\ UNCHANGED <<leaving, queue, vacated, pending, believed, claim, Chats>>

\* _probe_crash_memory: only a file that loads at the floor proves the crash was memory.
Probe(c) ==
  /\ pc[c] = "probe"
  /\ \E e \in LoadErrors(model(c), Floor) :
       /\ Adding(model(c), Floor, e)
       /\ IF e = "none" THEN Go(c, "probed") /\ Stay ELSE End(c, "load_failed")
  /\ UNCHANGED <<leaving, err, queue, vacated, pending, believed, claim, Chats>>

FreeProbe(c) ==
  /\ pc[c] = "probed"
  /\ IF ~Loaded(model(c)) THEN End(c, "load_failed") /\ UNCHANGED <<leaving, claim, pending>>
     ELSE LET i == First(model(c)) IN
       \/ /\ Busy(ProcOf[c], model(c)) /\ End(c, "load_failed")
          /\ UNCHANGED <<leaving, claim, pending>>
       \/ StartUnload(c, i, "probe_gone")
       \/ UnloadFails(c, i) /\ End(c, "load_failed")
  /\ UNCHANGED <<instances, err, queue, vacated, believed, Chats>>

\* After a crash the residents are read again.
ProbeGone(c) ==
  /\ pc[c] = "probe_gone"
  /\ \/ /\ Dropped(c) /\ Proven(c)
        /\ \E q \in {Snapshot} \cup {queue[c] : f \in Faults \cap {"catalog"}} :
             queue' = [queue EXCEPT ![c] = q]
     \/ StillThere(c) /\ End(c, "load_failed") /\ UNCHANGED queue
  /\ UNCHANGED <<instances, leaving, err, vacated, pending, believed, Chats>>

\* The swap: one resident at a time, never one with a chat in flight.
Vacate(c) ==
  /\ pc[c] = "vacate" /\ queue[c] # {}
  /\ \E r \in queue[c] :
       \/ /\ Busy(ProcOf[c], r.model) /\ Abandon(c, "busy")
          /\ UNCHANGED <<leaving, claim, pending>>
       \/ /\ StartUnload(c, r, "vacate_gone")
          /\ queue' = [queue EXCEPT ![c] = @ \ {r}] /\ UNCHANGED err
       \/ UnloadFails(c, r) /\ Abandon(c, "unload_failed")
  /\ UNCHANGED <<instances, vacated, believed, Chats>>

\* The residents had gone by the time they were read again.
NobodyToVacate(c) ==
  /\ pc[c] = "vacate" /\ queue[c] = {}
  /\ End(c, "load_failed")
  /\ UNCHANGED <<instances, leaving, thread, claim, Chats>>

VacateGone(c) ==
  /\ pc[c] = "vacate_gone"
  /\ \/ /\ Dropped(c) /\ Go(c, "retry") /\ Stay
        /\ vacated' = [vacated EXCEPT ![c] = @ \cup {pending[c]}]
        /\ UNCHANGED <<err, queue>>
     \/ StillThere(c) /\ Abandon(c, "unload_failed") /\ UNCHANGED vacated
  /\ UNCHANGED <<instances, leaving, pending, believed, Chats>>

LoadAgain(c) ==
  /\ pc[c] = "retry"
  /\ \E e \in LoadErrors(model(c), Want) :
       /\ Adding(model(c), Want, e)
       /\ IF e = "none" THEN Go(c, "appear") /\ Stay /\ UNCHANGED <<err, queue>>
          ELSE IF e # "other" /\ queue[c] # {}
          THEN Go(c, "vacate") /\ Stay /\ err' = [err EXCEPT ![c] = e] /\ UNCHANGED queue
          ELSE Abandon(c, "load_failed")
  /\ UNCHANGED <<leaving, vacated, pending, believed, claim, Chats>>

\* _restore, one resident, at the window it had; a failure is not retried.
Restore(c) ==
  /\ pc[c] = "restore"
  /\ \E r \in queue[c] :
       /\ \E e \in LoadErrors(r.model, r.ctx) : Adding(r.model, r.ctx, e)
       /\ queue' = [queue EXCEPT ![c] = @ \ {r}]
       /\ IF queue[c] = {r} THEN End(c, err[c]) ELSE UNCHANGED <<pc, locks, result>>
  /\ UNCHANGED <<leaving, err, vacated, pending, believed, claim, Chats>>

\* _wait_loaded and the re-read of the window (_confirmed_context).
Appear(c) ==
  /\ pc[c] = "appear"
  /\ \/ Loaded(model(c)) /\ Succeed(c, Window(model(c)))
     \/ /\ ~Loaded(model(c)) \/ "appear" \in Faults
        /\ End(c, "load_failed") /\ UNCHANGED believed
  /\ UNCHANGED <<instances, leaving, err, queue, vacated, pending, claim, Chats>>

\* unload, the tool.
Remove(w) ==
  /\ w \in Removers /\ pc[w] = "decide"
  /\ IF ~Loaded(model(w)) THEN End(w, "ok") /\ UNCHANGED <<leaving, claim, pending>>
     ELSE LET i == First(model(w)) IN
       \/ /\ Busy(ProcOf[w], model(w)) /\ End(w, "busy")
          /\ UNCHANGED <<leaving, claim, pending>>
       \/ StartUnload(w, i, "remove_gone")
       \/ UnloadFails(w, i) /\ End(w, "unload_failed")
  /\ UNCHANGED <<instances, err, queue, vacated, believed, Chats>>

Removed(w) ==
  /\ pc[w] = "remove_gone"
  /\ \/ Dropped(w) /\ End(w, "ok")
     \/ StillThere(w) /\ End(w, "unload_failed")
  /\ UNCHANGED <<instances, leaving, thread, Chats>>

LoadHalf(c) ==
  \/ AlreadyLoaded(c) \/ MustLoad(c) \/ OfferUnload(c) \/ Reload(c) \/ ReloadGone(c)
  \/ ReloadAt(c) \/ Absent(c) \/ LoadWanted(c) \/ LoadSmaller(c) \/ Probe(c) \/ FreeProbe(c)
  \/ ProbeGone(c) \/ Vacate(c) \/ NobodyToVacate(c) \/ VacateGone(c) \/ LoadAgain(c) \/ Restore(c) \/ Appear(c)

----------------------------------------------------------------------------
(* The chat half of a call (run from _inflight_add on, and _chat). *)

Threads == <<err, queue, vacated, pending, believed, claim, locks>>

\* The coroutine returns.
Return(c, kind) ==
  /\ Go(c, "ended")
  /\ result' = [result EXCEPT ![c] = IF @ = None THEN kind ELSE @]
  /\ caller' = [caller EXCEPT ![c] = "ended"]
  /\ inflight' = inflight \ {c}

\* Mutant of Admit: the claim of an unload is not looked at.
AdmitAnyway(c) ==
  /\ pc[c] = "admit"
  /\ IF believed[c] < Need[c] THEN Return(c, "context_too_small")
     ELSE /\ Go(c, "recheck") /\ inflight' = inflight \cup {c}
          /\ UNCHANGED <<caller, result>>
  /\ UNCHANGED <<server, Threads, generating, retried>>

\* _inflight_add.
Admit(c) ==
  /\ pc[c] = "admit"
  /\ IF believed[c] < Need[c] THEN Return(c, "context_too_small")
     ELSE IF Unloading(ProcOf[c], model(c)) THEN Return(c, "model_unavailable")
     ELSE /\ Go(c, "recheck") /\ inflight' = inflight \cup {c}
          /\ UNCHANGED <<caller, result>>
  /\ UNCHANGED <<server, Threads, generating, retried>>

\* Mutant of Recheck: the catalog is not read again.
RecheckNothing(c) ==
  /\ pc[c] = "recheck"
  /\ Go(c, "send") /\ UNCHANGED <<caller, result, inflight>>
  /\ UNCHANGED <<server, Threads, generating, retried>>

\* The catalog, once more, right before the send; one that cannot be read is no obstacle.
Recheck(c) ==
  /\ pc[c] = "recheck"
  /\ \/ /\ Serves(c) \/ "recheck" \in Faults
        /\ Go(c, "send") /\ UNCHANGED <<caller, result, inflight>>
     \/ ~Loaded(model(c)) /\ Return(c, "model_unavailable")
     \/ Loaded(model(c)) /\ ~Serves(c) /\ Return(c, "context_too_small")
  /\ UNCHANGED <<server, Threads, generating, retried>>

\* The thread of the chat reaches _generating and opens the request.
StartPost(c) ==
  /\ pc[c] = "send"
  /\ Go(c, "posting") /\ generating' = generating \cup {c}
  /\ UNCHANGED <<server, Threads, inflight, caller, result, retried>>

\* LM Studio takes the request.  A model that is not loaded it loads by itself, at its
\* own window, evicting what it had loaded by itself before.
Reach(c) ==
  /\ pc[c] = "posting"
  /\ Go(c, "generating")
  /\ IF Loaded(model(c))
       THEN on' = [on EXCEPT ![c] = First(model(c))] /\ UNCHANGED <<instances, leaving>>
       ELSE LET kept == {i \in instances : ~i.jit}
                own  == Instance(model(c), Jit, TRUE)
                fits == model(c) \notin Broken /\ Used(kept) + Cost(model(c), Jit) <= Capacity
            IN  /\ instances' = kept \cup (IF fits THEN {own} ELSE {})
                /\ leaving' = leaving \cap kept
                /\ on' = [on EXCEPT ![c] = own]
  /\ UNCHANGED <<Threads, counts, caller, result, retried>>

\* The thread ends, with an answer, an error, or a status worth one retry.
Reply(c) ==
  /\ pc[c] = "generating"
  /\ generating' = generating \ {c}
  /\ \/ /\ on[c] \in instances
        /\ Go(c, IF caller[c] = "waiting" THEN "answered" ELSE "ended") /\ UNCHANGED retried
     \/ /\ on[c] \notin instances \/ "chat" \in Faults
        /\ Go(c, IF caller[c] = "waiting" THEN "failed" ELSE "ended") /\ UNCHANGED retried
     \/ /\ "chat" \in Faults /\ c \notin retried /\ caller[c] = "waiting"
        /\ Go(c, "send") /\ retried' = retried \cup {c}
  /\ UNCHANGED <<server, Threads, inflight, caller, result>>

\* _truncated: the prompt was cut to a window no smaller than the one believed.
Truncated(c) == on[c].ctx < Need[c] /\ on[c].ctx >= believed[c]

Answered(c) ==
  /\ \/ pc[c] = "answered" /\ Return(c, IF Truncated(c) THEN "truncated" ELSE "ok")
     \/ pc[c] = "failed" /\ Return(c, "chat_failed")
  /\ UNCHANGED <<server, Threads, generating, retried>>

\* The wait times out or is cancelled.  The count goes with the coroutine.  A thread that
\* has not begun will not; one that has runs on, and its result is dropped.
GiveUp(c) ==
  /\ c \in Impatient /\ caller[c] = "waiting" /\ pc[c] \notin {"ended", "admit"}
  /\ caller' = [caller EXCEPT ![c] = "gone"]
  /\ result' = [result EXCEPT ![c] = "gave_up"]
  /\ inflight' = inflight \ {c}
  /\ \/ pc[c] \notin {"recheck", "answered", "failed"} /\ UNCHANGED pc
     \/ pc[c] \in {"quick", "recheck", "send", "answered", "failed"} /\ Go(c, "ended")
  /\ UNCHANGED <<server, Threads, generating, retried>>

ChatHalf(c) ==
  Admit(c) \/ Recheck(c) \/ StartPost(c) \/ Reach(c) \/ Reply(c) \/ Answered(c)

Work(w) ==
  \/ w \in Calls /\ (LoadHalf(w) \/ ChatHalf(w))
  \/ Unreadable(w) \/ TakeLoadLock(w) \/ TakeFileLock(w) \/ Remove(w) \/ Removed(w)

----------------------------------------------------------------------------
(* The specification. *)

Init ==
  /\ instances = Residents /\ leaving = {}
  /\ on = [c \in Calls |-> None]
  /\ pc = [w \in Workers |-> IF w \in Calls THEN "quick" ELSE "lock"]
  /\ caller = [c \in Calls |-> "waiting"]
  /\ err = [c \in Calls |-> "none"]
  /\ queue = [c \in Calls |-> {}] /\ vacated = [c \in Calls |-> {}]
  /\ pending = [w \in Workers |-> None] /\ claim = [w \in Workers |-> None]
  /\ believed = [c \in Calls |-> 0]
  /\ result = [w \in Workers |-> None]
  /\ retried = {}
  /\ loadLock = [p \in Procs |-> None] /\ fileLock = None
  /\ inflight = {} /\ generating = {}

Next ==
  \/ \E w \in Workers : Work(w)
  \/ \E c \in Calls : GiveUp(c)
  \/ \E i \in instances : Leave(i) \/ Expire(i)

Spec == Init /\ [][Next]_vars

\* Threads and coroutines are scheduled, every HTTP call ends, and the server carries
\* out an unload it accepted.
Fairness ==
  /\ \A w \in Workers : WF_vars(Work(w))
  /\ \A m \in Models : WF_vars(\E i \in Of(m) : Leave(i))
FairSpec == Spec /\ Fairness

----------------------------------------------------------------------------
(* Properties. *)

Steps ==
  {"quick", "lock", "file", "decide", "load", "smaller", "probe", "probed", "probe_gone",
   "vacate", "vacate_gone", "retry", "restore", "reload_gone", "reload", "appear",
   "remove_gone", "admit", "recheck", "send", "posting", "generating", "answered", "failed",
   "ended"}
Records == [model : Models, id : Nat \ {0}, ctx : Nat, jit : BOOLEAN]

\* The types, with what the two refcounts count: _GENERATING exactly the threads with an
\* open chat request, _INFLIGHT exactly the coroutines between _inflight_add and its undo.
TypeOK ==
  /\ instances \subseteq Records /\ leaving \subseteq instances
  /\ on \in [Calls -> Records \cup {None}]
  /\ pc \in [Workers -> Steps] /\ caller \in [Calls -> {"waiting", "gone", "ended"}]
  /\ queue \in [Calls -> SUBSET Records] /\ vacated \in [Calls -> SUBSET Records]
  /\ pending \in [Workers -> Records \cup {None}] /\ claim \in [Workers -> Models \cup {None}]
  /\ believed \in [Calls -> Nat]
  /\ loadLock \in [Procs -> Workers \cup {None}] /\ fileLock \in Workers \cup {None}
  /\ generating = {c \in Calls : pc[c] \in {"posting", "generating"}}
  /\ inflight = {c \in Calls : /\ caller[c] = "waiting"
                               /\ pc[c] \in {"recheck", "send", "posting", "generating",
                                             "answered", "failed"}}

\* While the coroutine of a chat waits, no worker of its process unloads its model
\* (unload: "never pull a model out from under a generation").
BusyKept == \A c \in inflight : ~Unloading(ProcOf[c], ModelOf[c])

\* The same of every open chat request, those whose coroutine was cancelled included
\* (_generating: it "outlives the cancellation").
GenerationKept == \A c \in generating : ~Unloading(ProcOf[c], ModelOf[c])

\* An answer given as clean was computed in a window that holds the prompt (policy 3).
NoSilentTruncation == \A c \in Calls : result[c] = "ok" => on[c].ctx >= Need[c]

\* The steps of a worker between the two locks' with-block and its end.
Deciding ==
  {"decide", "load", "smaller", "probe", "probed", "probe_gone", "vacate", "vacate_gone",
   "retry", "restore", "reload_gone", "reload", "appear", "remove_gone"}

\* Where the file lock works, one worker of one session at a time reads the catalog, loads
\* and unloads (_file_lock: "the thread lock alone would let two sessions ...").
OneLoader ==
  FileLocks => \A v, w \in Workers : pc[v] \in Deciding /\ pc[w] \in Deciding => v = w

\* A call that fails has put back every resident its swap unloaded, in the window it had
\* (policy 4: "on failure, best-effort RESTORE whatever was unloaded").
SwapRestores ==
  [][\A c \in Calls :
       result'[c] # result[c] /\ result'[c] \in {"load_failed", "unload_failed", "busy"} =>
         \A r \in vacated[c] : \E i \in instances' : i.model = r.model /\ i.ctx = r.ctx]_vars

\* A swap unloads a resident only if the window its prompt needs does not fit ("a
\* smaller-context retry runs first in every policy").
EachVacatedForRoom ==
  [][\A c \in Calls :
       pc[c] = "vacate" /\ pc'[c] = "vacate_gone" => ~Fits(ModelOf[c], Need[c])]_vars

\* Every call and every removal ends: the locks are released on every way out.
WorkersEnd == \A w \in Workers : <>(pc[w] = "ended")
=============================================================================
