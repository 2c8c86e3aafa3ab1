-------------------------- MODULE LmStudioProofs --------------------------
(* Proofs about LmStudio: unload claims exclude waiting chats, and the file lock *)
(* serializes the load decisions, for any processes, models and faults; in one   *)
(* undisturbed process no answer given as clean was cut to a smaller window.     *)
EXTENDS LmStudio, FiniteSetTheorems, TLAPS

\* What a step does to the chats in flight and the claims decides whether BusyKept holds
\* after it: either may shrink, a claim needs no chat in flight, a chat no claim.
Claims(w, m) == /\ claim' = [claim EXCEPT ![w] = m] /\ inflight' = inflight
                /\ m # None => ~Busy(ProcOf[w], m)

KeyInv ==
  /\ inflight \subseteq Calls
  /\ DOMAIN claim = Workers
  /\ BusyKept

LEMMA ClaimKeepsKey ==
  ASSUME KeyInv, NEW w \in Workers, NEW m, Claims(w, m)
  PROVE  KeyInv'
<1>1. DOMAIN claim' = Workers /\ inflight' \subseteq Calls
  BY DEF KeyInv, Claims
<1>2. ASSUME NEW c \in inflight', NEW v \in Workers, ProcOf[v] = ProcOf[c], claim'[v] = ModelOf[c]
      PROVE FALSE
  <2>1. c \in Calls /\ c \in inflight /\ ModelOf[c] \in Models /\ ModelOf[c] # None
    BY <1>2, WorkersAssumption DEF KeyInv, Claims, Workers
  <2>2. CASE v = w
    <3>1. claim'[v] = m
      BY <2>2 DEF KeyInv, Claims
    <3>2. m = ModelOf[c] /\ m # None
      BY <1>2, <2>1, <3>1
    <3>3. ~Busy(ProcOf[w], m)
      BY <3>2 DEF Claims
    <3>4. QED BY <1>2, <2>1, <2>2, <3>2, <3>3 DEF Busy
  <2>3. CASE v # w
    <3>1. claim[v] = ModelOf[c]
      BY <1>2, <2>3 DEF KeyInv, Claims
    <3>2. QED BY <1>2, <2>1, <3>1 DEF KeyInv, BusyKept, Unloading
  <2>4. QED BY <2>2, <2>3
<1>3. BusyKept'
  BY <1>2 DEF BusyKept, Unloading
<1>4. QED BY <1>1, <1>3 DEF KeyInv

LEMMA QuietKeepsKey ==
  ASSUME KeyInv, claim' = claim, inflight' \subseteq inflight
  PROVE  KeyInv'
<1>1. inflight' \subseteq Calls /\ DOMAIN claim' = Workers
  BY DEF KeyInv
<1>2. BusyKept'
  BY DEF KeyInv, BusyKept, Unloading
<1>3. QED BY <1>1, <1>2 DEF KeyInv

LEMMA AdmitKeepsKey ==
  ASSUME KeyInv, NEW c \in Calls, Admit(c)
  PROVE  KeyInv'
<1>1. claim' = claim
  BY DEF Admit, Threads
<1>2. CASE inflight' \subseteq inflight
  BY <1>1, <1>2, QuietKeepsKey
<1>3. CASE inflight' = inflight \cup {c} /\ ~Unloading(ProcOf[c], ModelOf[c])
  <2>1. inflight' \subseteq Calls /\ DOMAIN claim' = Workers
    BY <1>1, <1>3 DEF KeyInv
  <2>2. BusyKept'
    BY <1>1, <1>3 DEF KeyInv, BusyKept, Unloading
  <2>3. QED BY <2>1, <2>2 DEF KeyInv
<1>4. QED BY <1>2, <1>3 DEF Admit, Return, model

LEMMA WaitOverKeepsKey ==
  ASSUME KeyInv, NEW w \in Workers, Dropped(w) \/ StillThere(w), inflight' = inflight
  PROVE  KeyInv'
<1>1. Claims(w, None)
  BY DEF Dropped, StillThere, Claims
<1>2. QED BY <1>1, ClaimKeepsKey

LEMMA StartKeepsKey ==
  ASSUME KeyInv, NEW w \in Workers, NEW i, NEW l, StartUnload(w, i, l), inflight' = inflight
  PROVE  KeyInv'
<1>1. Claims(w, i.model)
  BY DEF StartUnload, Claims
<1>2. QED BY <1>1, ClaimKeepsKey

LEMMA LoadHalfKeepsKey ==
  ASSUME KeyInv, NEW c \in Calls, LoadHalf(c)
  PROVE  KeyInv'
<1> USE DEF Chats, counts
<1>1. c \in Workers
  BY DEF Workers
<1>2. CASE AlreadyLoaded(c) \/ MustLoad(c) \/ OfferUnload(c) \/ ReloadAt(c) \/ Absent(c)
  BY <1>2, QuietKeepsKey DEF AlreadyLoaded, MustLoad, OfferUnload, ReloadAt, Absent
<1>3. CASE LoadWanted(c) \/ LoadSmaller(c) \/ Probe(c) \/ NobodyToVacate(c)
  BY <1>3, QuietKeepsKey DEF LoadWanted, LoadSmaller, Probe, NobodyToVacate
<1>4. CASE LoadAgain(c) \/ Restore(c) \/ Appear(c)
  BY <1>4, QuietKeepsKey DEF LoadAgain, Restore, Appear
<1>5. CASE Reload(c)
  <2>1. inflight' = inflight /\ (claim' = claim \/ \E i, l : StartUnload(c, i, l))
    BY <1>5 DEF Reload, UnloadFails
  <2>2. QED BY <1>1, <2>1, QuietKeepsKey, StartKeepsKey
<1>6. CASE FreeProbe(c)
  <2>1. inflight' = inflight /\ (claim' = claim \/ \E i, l : StartUnload(c, i, l))
    BY <1>6 DEF FreeProbe, UnloadFails
  <2>2. QED BY <1>1, <2>1, QuietKeepsKey, StartKeepsKey
<1>7. CASE Vacate(c)
  <2>1. inflight' = inflight /\ (claim' = claim \/ \E i, l : StartUnload(c, i, l))
    BY <1>7 DEF Vacate, UnloadFails
  <2>2. QED BY <1>1, <2>1, QuietKeepsKey, StartKeepsKey
<1>8. CASE ReloadGone(c) \/ ProbeGone(c) \/ VacateGone(c)
  <2>1. inflight' = inflight /\ (Dropped(c) \/ StillThere(c))
    BY <1>8 DEF ReloadGone, ProbeGone, VacateGone
  <2>2. QED BY <1>1, <2>1, WaitOverKeepsKey
<1>9. QED BY <1>2, <1>3, <1>4, <1>5, <1>6, <1>7, <1>8 DEF LoadHalf

LEMMA WorkKeepsKey ==
  ASSUME KeyInv, NEW w \in Workers, Work(w)
  PROVE  KeyInv'
<1> USE DEF Chats, Threads, counts
<1>1. CASE w \in Calls /\ LoadHalf(w)
  BY <1>1, LoadHalfKeepsKey
<1>2. CASE w \in Calls /\ Admit(w)
  BY <1>2, AdmitKeepsKey
<1>3. CASE w \in Calls /\ (Recheck(w) \/ StartPost(w) \/ Reach(w) \/ Reply(w) \/ Answered(w))
  BY <1>3, QuietKeepsKey DEF Recheck, StartPost, Reach, Reply, Answered, Return
<1>4. CASE Unreadable(w) \/ TakeLoadLock(w) \/ TakeFileLock(w)
  BY <1>4, QuietKeepsKey DEF Unreadable, TakeLoadLock, TakeFileLock
<1>5. CASE Remove(w)
  <2>1. inflight' = inflight /\ (claim' = claim \/ \E i, l : StartUnload(w, i, l))
    BY <1>5 DEF Remove, UnloadFails
  <2>2. QED BY <2>1, QuietKeepsKey, StartKeepsKey
<1>6. CASE Removed(w)
  <2>1. inflight' = inflight /\ (Dropped(w) \/ StillThere(w))
    BY <1>6 DEF Removed
  <2>2. QED BY <2>1, WaitOverKeepsKey
<1>7. QED BY <1>1, <1>2, <1>3, <1>4, <1>5, <1>6 DEF Work, ChatHalf

LEMMA KeyNext == KeyInv /\ [Next]_vars => KeyInv'
<1> SUFFICES ASSUME KeyInv, [Next]_vars PROVE KeyInv'
  OBVIOUS
<1>1. CASE \E w \in Workers : Work(w)
  BY <1>1, WorkKeepsKey
<1>2. CASE \E c \in Calls : GiveUp(c)
  BY <1>2, QuietKeepsKey DEF GiveUp, Threads
<1>3. CASE \E i \in instances : Leave(i) \/ Expire(i)
  BY <1>3, QuietKeepsKey DEF Leave, Expire, counts
<1>4. CASE UNCHANGED vars
  BY <1>4, QuietKeepsKey DEF vars, counts
<1>5. QED BY <1>1, <1>2, <1>3, <1>4 DEF Next

\* unload and the swap never claim a model on which a coroutine of their process waits
\* for a chat: the check and the claim are one step, and so are the claim's check and the
\* chat's count.
THEOREM BusyKeptAlways == Spec => []BusyKept
<1>1. Init => KeyInv
  BY DEF Init, KeyInv, BusyKept
<1>2. KeyInv => BusyKept
  BY DEF KeyInv
<1>3. QED BY <1>1, <1>2, KeyNext, PTL DEF Spec

----------------------------------------------------------------------------
(* The two locks. *)

LockInv ==
  /\ DOMAIN pc = Workers /\ DOMAIN loadLock = Procs
  /\ FileLocks => \A w \in Workers : pc[w] \in Deciding => fileLock = w
  /\ \A w \in Workers : pc[w] \in Deciding \cup {"file"} => loadLock[ProcOf[w]] = w

\* A step inside the with-block, and the one that leaves it or happens outside.
Inside(w) == /\ pc[w] \in Deciding /\ UNCHANGED locks
             /\ pc' = pc \/ \E l \in Deciding : Go(w, l)
Outside(w) == /\ UNCHANGED locks \/ Release(w)
              /\ \/ UNCHANGED <<pc, locks>>
                 \/ \E l : l \notin Deciding \cup {"file"} /\ Go(w, l)

LEMMA InsideKeepsLock ==
  ASSUME LockInv, NEW w \in Workers, Inside(w)
  PROVE  LockInv'
<1>1. DOMAIN pc' = Workers /\ DOMAIN loadLock' = Procs
  BY DEF Inside, LockInv, Go, locks
<1>2. ASSUME NEW v \in Workers PROVE pc'[v] = pc[v] \/ pc[v] \in Deciding
  BY DEF Inside, LockInv, Go
<1>3. QED BY <1>1, <1>2 DEF LockInv, Inside, locks

LEMMA OutsideKeepsLock ==
  ASSUME LockInv, NEW w \in Workers, Outside(w)
  PROVE  LockInv'
<1>1. CASE UNCHANGED <<pc, locks>>
  BY <1>1 DEF LockInv, locks
<1>2. CASE \E l : l \notin Deciding \cup {"file"} /\ Go(w, l)
  <2>1. DOMAIN pc' = Workers /\ DOMAIN loadLock' = Procs
    BY <1>2 DEF Outside, LockInv, Go, Release, locks
  <2>2. ASSUME NEW v \in Workers, pc'[v] \in Deciding \cup {"file"}
        PROVE  v # w /\ pc'[v] = pc[v] /\ loadLock[ProcOf[v]] = v
    BY <1>2, <2>2 DEF LockInv, Go
  <2>3. ASSUME NEW v \in Workers, pc'[v] \in Deciding \cup {"file"} PROVE loadLock'[ProcOf[v]] = v
    <3>1. ProcOf[v] \in Procs
      BY WorkersAssumption
    <3> QED BY <2>2, <2>3, <3>1 DEF Outside, Release, locks
  <2>4. ASSUME FileLocks, NEW v \in Workers, pc'[v] \in Deciding PROVE fileLock' = v
    <3>1. v # w /\ fileLock = v
      BY <2>2, <2>4 DEF LockInv
    <3> QED BY <3>1 DEF Outside, Release, locks
  <2> QED BY <2>1, <2>3, <2>4 DEF LockInv
<1> QED BY <1>1, <1>2 DEF Outside

LEMMA TakeKeepsLock ==
  ASSUME LockInv, NEW w \in Workers, TakeFileLock(w)
  PROVE  LockInv'
<1>1. DOMAIN pc' = Workers /\ UNCHANGED loadLock /\ pc[w] = "file"
  BY DEF TakeFileLock, LockInv, Go
<1>2. ASSUME FileLocks, NEW v \in Workers, pc'[v] \in Deciding PROVE fileLock' = v
  <2>1. fileLock = None /\ fileLock' = w
    BY <1>2 DEF TakeFileLock
  <2>2. CASE v # w
    <3>1. pc[v] \in Deciding
      BY <1>2, <2>2 DEF TakeFileLock, LockInv, Go
    <3>2. fileLock = v
      BY <1>2, <3>1 DEF LockInv
    <3>3. QED BY <2>1, <3>2, WorkersAssumption
  <2>3. QED BY <2>1, <2>2
<1>3. ASSUME NEW v \in Workers, pc'[v] \in Deciding \cup {"file"} PROVE loadLock[ProcOf[v]] = v
  BY <1>1, <1>3 DEF TakeFileLock, LockInv, Go
<1>4. QED BY <1>1, <1>2, <1>3 DEF LockInv

LEMMA TakeLoadKeepsLock ==
  ASSUME LockInv, NEW w \in Workers, TakeLoadLock(w)
  PROVE  LockInv'
<1>1. /\ DOMAIN pc' = Workers /\ DOMAIN loadLock' = Procs /\ UNCHANGED fileLock
      /\ loadLock[ProcOf[w]] = None /\ loadLock' = [loadLock EXCEPT ![ProcOf[w]] = w]
  BY DEF TakeLoadLock, LockInv, Go
<1>2. ASSUME NEW v \in Workers, pc'[v] \in Deciding PROVE v # w /\ pc[v] \in Deciding
  BY <1>2 DEF TakeLoadLock, LockInv, Go, Deciding
<1>3. ASSUME NEW v \in Workers, pc'[v] \in Deciding \cup {"file"} PROVE loadLock'[ProcOf[v]] = v
  <2>1. ProcOf[v] \in Procs
    BY WorkersAssumption
  <2>2. v = w \/ (v # w /\ loadLock[ProcOf[v]] = v)
    BY <1>3 DEF TakeLoadLock, LockInv, Go
  <2> QED BY <1>1, <2>1, <2>2, WorkersAssumption DEF LockInv
<1>4. QED BY <1>1, <1>2, <1>3 DEF LockInv

LEMMA LoadHalfKeepsLock ==
  ASSUME LockInv, NEW c \in Calls, LoadHalf(c)
  PROVE  LockInv'
<1> USE DEF Stay, End, Succeed
<1>1. c \in Workers
  BY DEF Workers
<1>2. CASE AlreadyLoaded(c) \/ MustLoad(c) \/ OfferUnload(c) \/ NobodyToVacate(c)
  <2>1. Outside(c)
    BY <1>2 DEF AlreadyLoaded, MustLoad, OfferUnload, NobodyToVacate, Outside, Deciding, Go
  <2>2. QED BY <1>1, <2>1, OutsideKeepsLock
<1>3. CASE Reload(c) \/ ReloadGone(c) \/ ReloadAt(c) \/ Absent(c)
  <2>1. Inside(c) \/ Outside(c)
    BY <1>3 DEF Reload, ReloadGone, ReloadAt, Absent, TooSmall, Abandon, StartUnload,
      Inside, Outside, Deciding, Go
  <2>2. QED BY <1>1, <2>1, InsideKeepsLock, OutsideKeepsLock
<1>4. CASE LoadWanted(c) \/ LoadSmaller(c) \/ Probe(c)
  <2>1. Inside(c) \/ Outside(c)
    BY <1>4 DEF LoadWanted, LoadSmaller, Probe, Assess, Proven, Inside, Outside, Deciding, Go
  <2>2. QED BY <1>1, <2>1, InsideKeepsLock, OutsideKeepsLock
<1>5. CASE FreeProbe(c) \/ ProbeGone(c)
  <2>1. Inside(c) \/ Outside(c)
    BY <1>5 DEF FreeProbe, ProbeGone, Proven, StartUnload, Inside, Outside, Deciding, Go
  <2>2. QED BY <1>1, <2>1, InsideKeepsLock, OutsideKeepsLock
<1>6. CASE Vacate(c) \/ VacateGone(c)
  <2>1. Inside(c) \/ Outside(c)
    BY <1>6 DEF Vacate, VacateGone, Abandon, StartUnload, Inside, Outside, Deciding, Go
  <2>2. QED BY <1>1, <2>1, InsideKeepsLock, OutsideKeepsLock
<1>7. CASE LoadAgain(c) \/ Restore(c) \/ Appear(c)
  <2>1. Inside(c) \/ Outside(c)
    BY <1>7 DEF LoadAgain, Restore, Appear, Abandon, Inside, Outside, Deciding, Go
  <2>2. QED BY <1>1, <2>1, InsideKeepsLock, OutsideKeepsLock
<1>8. QED BY <1>2, <1>3, <1>4, <1>5, <1>6, <1>7 DEF LoadHalf

LEMMA WorkKeepsLock ==
  ASSUME LockInv, NEW w \in Workers, Work(w)
  PROVE  LockInv'
<1> USE DEF Threads
<1>1. CASE w \in Calls /\ LoadHalf(w)
  BY <1>1, LoadHalfKeepsLock
<1>2. CASE w \in Calls /\ ChatHalf(w)
  <2>1. Outside(w)
    BY <1>2 DEF ChatHalf, Admit, Recheck, StartPost, Reach, Reply, Answered, Return,
      Outside, Deciding, Go
  <2>2. QED BY <2>1, OutsideKeepsLock
<1>3. CASE TakeFileLock(w)
  BY <1>3, TakeKeepsLock
<1>4. CASE Unreadable(w)
  <2>1. Outside(w)
    BY <1>4 DEF Unreadable, End, Outside, Deciding, Go
  <2>2. QED BY <2>1, OutsideKeepsLock
<1>5. CASE Remove(w) \/ Removed(w)
  <2>1. Inside(w) \/ Outside(w)
    BY <1>5 DEF Remove, Removed, StartUnload, Stay, End, Inside, Outside, Deciding, Go
  <2>2. QED BY <2>1, InsideKeepsLock, OutsideKeepsLock
<1>6. CASE TakeLoadLock(w)
  BY <1>6, TakeLoadKeepsLock
<1>7. QED BY <1>1, <1>2, <1>3, <1>4, <1>5, <1>6 DEF Work

LEMMA LockNext == LockInv /\ [Next]_vars => LockInv'
<1> SUFFICES ASSUME LockInv, [Next]_vars PROVE LockInv'
  OBVIOUS
<1>1. CASE \E w \in Workers : Work(w)
  BY <1>1, WorkKeepsLock
<1>2. ASSUME NEW c \in Calls, GiveUp(c) PROVE LockInv'
  <2>1. c \in Workers /\ Outside(c)
    BY <1>2 DEF GiveUp, Threads, locks, Outside, Deciding, Go, Workers
  <2>2. QED BY <2>1, OutsideKeepsLock
<1>3. CASE (\E i \in instances : Leave(i) \/ Expire(i)) \/ UNCHANGED vars
  BY <1>3 DEF Leave, Expire, locks, vars, LockInv
<1>4. QED BY <1>1, <1>2, <1>3 DEF Next

\* Where the file lock works, the load decisions of all sessions are taken one at a time.
THEOREM OneLoaderAlways == Spec => []OneLoader
<1>1. Init => LockInv
  BY DEF Init, LockInv, Deciding
<1>2. LockInv => OneLoader
  BY DEF LockInv, OneLoader
<1>3. QED BY <1>1, <1>2, LockNext, PTL DEF Spec

----------------------------------------------------------------------------
(* The windows of one undisturbed session. *)

\* No other process unloads, an unload that is accepted is carried out in time, the
\* catalog can be read before the send, and LM Studio starts with one instance of a model
\* at most.  A caller that leaves has its chat sent by a thread nobody counts, and LM
\* Studio then loads the model at its own window: either no caller leaves, or no swap can
\* put such an instance back (lmstudio_swap = never) and that window holds no prompt.
Undisturbed ==
  /\ \A v, w \in Workers : ProcOf[v] = ProcOf[w]
  /\ {"unload", "recheck"} \cap Faults = {}
  /\ IsFiniteSet(Residents) /\ \A i \in Residents : i.model \in Models /\ i.id \in Nat /\ i.jit = FALSE
  /\ \A i, j \in Residents : i.model = j.model => i = j
  /\ Impatient = {} \/ (MaySwap = {} /\ \A c \in Calls : Jit < Need[c])

Gone == {"reload_gone", "probe_gone", "vacate_gone", "remove_gone"}
Swapping == {"reload_gone", "reload", "vacate", "vacate_gone", "retry", "restore"}

\* No instance of the model comes before it.
Front(i) == \A j \in Of(i.model) : i.id <= j.id

\* A model has one instance that was asked for, and one that LM Studio loaded, at most.
ServerInv ==
  /\ IsFiniteSet(instances)
  /\ \A i \in instances : i.model \in Models /\ i.id \in Nat /\ i.jit \in BOOLEAN
  /\ \A i \in instances : i.jit => i.id = 1 /\ i.ctx = Jit /\ Impatient # {}
  /\ \A i, j \in instances : i.model = j.model /\ (i.id = j.id \/ i.jit = j.jit) => i = j

\* An instance on its way out is the one a worker is waiting for.
LeavingInv ==
  /\ leaving \subseteq instances
  /\ \A i \in leaving : \E w \in Workers : pc[w] \in Gone /\ pending[w] = i

\* Instances of different models; instances whose model is not loaded.
OnePerModel(S) == \A r, s \in S : r.model = s.model => r = s
Out(S) == \A r \in S : r.model \in Models /\ ~Loaded(r.model)

\* What a worker that waits for an unload, and one that loads, has found and left.
Waits(w) ==
  pc[w] \in Gone =>
    /\ claim[w] = pending[w].model /\ pending[w].model \in Models
    /\ pending[w] \in instances => Front(pending[w])
    /\ w \in MaySwap => Of(pending[w].model) \subseteq {pending[w]}
    /\ pc[w] # "vacate_gone" => pending[w].model = ModelOf[w]
Loads(c) ==
  /\ pc[c] \in Swapping => c \in MaySwap
  /\ pc[c] \in {"load", "smaller", "probe", "reload", "vacate", "vacate_gone", "retry"} =>
       \A i \in Of(ModelOf[c]) : i.jit
  /\ pc[c] \in {"quick", "lock", "file", "decide", "load", "smaller", "probe", "probed", "probe_gone",
                "reload_gone"} => vacated[c] = {}
  /\ pc[c] \in {"reload", "vacate", "vacate_gone", "retry"} => OnePerModel(vacated[c]) /\ Out(vacated[c])
  /\ pc[c] = "vacate_gone" => \A r \in vacated[c] : r.model # pending[c].model
  /\ pc[c] = "restore" => OnePerModel(queue[c]) /\ Out(queue[c])
Sound(w) == Waits(w) /\ (w \in Calls => Loads(w))

\* What each variable is a function of.
Shape ==
  /\ DOMAIN pc = Workers /\ DOMAIN claim = Workers /\ DOMAIN pending = Workers /\ DOMAIN result = Workers
  /\ DOMAIN queue = Calls /\ DOMAIN vacated = Calls /\ DOMAIN caller = Calls /\ DOMAIN on = Calls
  /\ DOMAIN believed = Calls /\ DOMAIN err = Calls
  /\ \A c \in Calls : err[c] # "ok" /\ pc[c] # "remove_gone"

\* A coroutine that waits for its chat is counted in flight; one that is gone has its result.
CallInv ==
  \A c \in Calls :
    /\ caller[c] = "waiting" /\ pc[c] \in {"recheck", "send", "posting", "generating", "answered", "failed"}
         => c \in inflight
    /\ \/ caller[c] = "waiting" \/ pc[c] = "ended"
       \/ caller[c] = "gone" /\ c \in Impatient /\ result[c] = "gave_up"
    /\ c \in inflight \/ pc[c] = "admit" => caller[c] = "waiting"

\* The model is served by an instance that holds the prompt.
Held(c) == \E i \in Of(ModelOf[c]) : ~i.jit /\ i.ctx >= Need[c] /\ Front(i)

\* It stays so from the re-check before the send until the chat reaches it.
HeldInv ==
  /\ \A c \in inflight : pc[c] \in {"send", "posting", "generating"} => Held(c)
  /\ \A c \in inflight : pc[c] \in {"generating", "answered"} => on[c].ctx >= Need[c]
  /\ \A c \in Calls : result[c] = "ok" => pc[c] = "ended" /\ on[c].ctx >= Need[c]

\* The inductive invariant.
CalmInv ==
  /\ Shape /\ KeyInv /\ LockInv /\ ServerInv /\ LeavingInv /\ (\A w \in Workers : Sound(w)) /\ CallInv /\ HeldInv

----------------------------------------------------------------------------
(* What LM Studio serves. *)

\* The worker that loads is alone in it.
LEMMA LoadsAlone ==
  ASSUME Undisturbed, LockInv, NEW v \in Workers, NEW w \in Workers, pc[v] \in Deciding \cup {"file"},
         pc[w] \in Deciding \cup {"file"}
  PROVE  v = w
BY DEF Undisturbed, LockInv

\* A model whose instances are LM Studio's own has one at most, and the next id is free.
LEMMA FreshIs ==
  ASSUME ServerInv, NEW m, \A i \in Of(m) : i.jit
  PROVE  Fresh(m) \in Nat /\ (\A i \in Of(m) : i.id # Fresh(m)) /\ (Of(m) = {} => Fresh(m) = 1)
<1> DEFINE N == Cardinality(instances)
           Free(n) == /\ \A i \in Of(m) : i.id # n
                      /\ \A k \in 1 .. (n - 1) : \E i \in Of(m) : i.id = k
<1>1. N \in Nat /\ (instances # {} => N # 0)
  BY FS_CardinalityType, FS_EmptySet DEF ServerInv
<1>2. Fresh(m) = CHOOSE n \in 1 .. (N + 1) : Free(n)
  BY DEF Fresh
<1> HIDE DEF N
<1>3. CASE Of(m) = {}
  <2>1. 1 \in 1 .. (N + 1) /\ Free(1) /\ \A n \in 1 .. (N + 1) : Free(n) => n = 1
    BY <1>1, <1>3
  <2> HIDE DEF Free
  <2>2. Fresh(m) = 1
    BY <1>2, <2>1
  <2> QED BY <1>3, <2>2
<1>4. CASE Of(m) # {}
  <2>1. PICK x \in Of(m) : x.id = 1 /\ \A y \in Of(m) : y = x
    BY <1>4 DEF ServerInv, Of
  <2>2. 2 \in 1 .. (N + 1) /\ Free(2)
    BY <1>1, <2>1 DEF Of
  <2>3. Fresh(m) \in 1 .. (N + 1) /\ Free(Fresh(m))
    <3> HIDE DEF Free
    <3> QED BY <1>2, <2>2
  <2> QED BY <1>1, <1>4, <2>3
<1> QED BY <1>3, <1>4

\* The entry of a model is the one of its instances no other comes before.
LEMMA FirstIs ==
  ASSUME ServerInv, NEW i \in instances, Front(i)
  PROVE  Loaded(i.model) /\ First(i.model) = i
<1>1. i \in Of(i.model) /\ \A j \in Of(i.model) : i.id <= j.id
  BY DEF Front, Of
<1>2. \A k \in Of(i.model) : (\A j \in Of(i.model) : k.id <= j.id) => k = i
  BY <1>1 DEF ServerInv, Of
<1> QED BY <1>1, <1>2 DEF First, Loaded

\* A model that is loaded has an entry.
LEMMA FirstStands ==
  ASSUME ServerInv, NEW m, Loaded(m)
  PROVE  First(m) \in Of(m) /\ Front(First(m)) /\ First(m).model = m
<1>1. PICK x \in Of(m) : TRUE
  BY DEF Loaded
<1>2. \A y, z \in Of(m) : y = z \/ (y.jit /\ ~z.jit) \/ (z.jit /\ ~y.jit)
  BY DEF ServerInv, Of
<1>3. \E y \in Of(m) : \A z \in Of(m) : y.id <= z.id
  <2>1. \A y \in Of(m) : y.id \in Nat
    BY DEF ServerInv, Of
  <2>2. CASE \A z \in Of(m) : z = x
    BY <1>1, <2>1, <2>2
  <2>3. CASE \E z \in Of(m) : z # x
    <3>1. PICK z \in Of(m) : z # x
      BY <2>3
    <3>2. \A y \in Of(m) : y = x \/ y = z
      BY <1>1, <1>2, <3>1
    <3>3. x.id <= z.id \/ z.id <= x.id
      BY <1>1, <2>1, <3>1
    <3> QED BY <1>1, <2>1, <3>1, <3>2, <3>3
  <2> QED BY <2>2, <2>3
<1> DEFINE Low(y) == \A z \in Of(m) : y.id <= z.id
<1>4. First(m) = CHOOSE y \in Of(m) : Low(y)
  BY DEF First
<1>5. First(m) \in Of(m) /\ Low(First(m))
  <2>1. \E y \in Of(m) : Low(y)
    BY <1>3
  <2> HIDE DEF Low
  <2> QED BY <1>4, <2>1
<1>6. First(m).model = m
  BY <1>5 DEF Of
<1> QED BY <1>5, <1>6 DEF Front

\* Where a load adds an instance, it is the only one of its model that was asked for.
Added(n) ==
  /\ instances' = instances \cup {n} /\ n.model \in Models /\ n.jit = FALSE /\ n.id \in Nat
  /\ \A i \in Of(n.model) : i.jit /\ i.id # n.id

LEMMA AddingIs ==
  ASSUME ServerInv, NEW m \in Models, NEW ctx, NEW e, Adding(m, ctx, e), \A i \in Of(m) : i.jit
  PROVE  \/ instances' = instances
         \/ \E n : Added(n) /\ n.model = m /\ n.ctx = ctx
<1> DEFINE n == Instance(m, ctx, FALSE)
<1>1. n.model = m /\ n.ctx = ctx /\ n.jit = FALSE /\ n.id = Fresh(m)
  BY DEF Instance
<1>2. instances' = instances \/ instances' = instances \cup {n}
  BY DEF Adding
<1> HIDE DEF n
<1> QED BY <1>1, <1>2, FreshIs DEF Added

\* What LM Studio loads by itself is the only instance of a model it had not loaded.
Own(n) ==
  /\ instances' \in {{i \in instances : ~i.jit}, {i \in instances : ~i.jit} \cup {n}}
  /\ leaving' = leaving \cap {i \in instances : ~i.jit}
  /\ n.model \in Models /\ n.jit = TRUE /\ n.id = 1 /\ n.ctx = Jit /\ ~Loaded(n.model)

LEMMA ReachIs ==
  ASSUME ServerInv, NEW c \in Calls, Reach(c), ~Loaded(ModelOf[c])
  PROVE  \E n : Own(n) /\ n.model = ModelOf[c]
<1> DEFINE n == Instance(ModelOf[c], Jit, TRUE)
           kept == {i \in instances : ~i.jit}
<1>1. n.model = ModelOf[c] /\ n.ctx = Jit /\ n.jit = TRUE /\ n.id = Fresh(ModelOf[c])
  BY DEF Instance
<1>0. ModelOf[c] \in Models
  BY WorkersAssumption DEF Workers
<1>2. Fresh(ModelOf[c]) = 1
  BY FreshIs DEF Loaded
<1>3. instances' \in {kept, kept \cup {n}} /\ leaving' = leaving \cap kept
  BY DEF Reach, model
<1> HIDE DEF n
<1> QED BY <1>0, <1>1, <1>2, <1>3 DEF Own

\* What LM Studio drops or adds leaves it so.
LEMMA FewerKeepServer ==
  ASSUME ServerInv, instances' \subseteq instances
  PROVE  ServerInv'
<1>1. IsFiniteSet(instances')
  BY FS_Subset DEF ServerInv
<1> QED BY <1>1 DEF ServerInv

LEMMA AddedKeepsServer ==
  ASSUME ServerInv, NEW n, Added(n)
  PROVE  ServerInv'
<1>1. IsFiniteSet(instances')
  BY FS_AddElement DEF ServerInv, Added
<1>2. \A i \in instances' : i.model \in Models /\ i.id \in Nat /\ i.jit \in BOOLEAN
  BY DEF ServerInv, Added
<1>3. \A i \in instances' : i.jit => i.id = 1 /\ i.ctx = Jit /\ Impatient # {}
  BY DEF ServerInv, Added
<1>4. ASSUME NEW i \in instances', NEW j \in instances', i.model = j.model, i.id = j.id \/ i.jit = j.jit
      PROVE  i = j
  <2>1. \A k \in instances : k.model = n.model => k.jit /\ k.id # n.id
    BY DEF Added, Of
  <2>2. i \in instances /\ j \in instances => i = j
    BY <1>4 DEF ServerInv
  <2> QED BY <1>4, <2>1, <2>2 DEF Added
<1> QED BY <1>1, <1>2, <1>3, <1>4 DEF ServerInv

LEMMA OwnKeepsServer ==
  ASSUME ServerInv, NEW n, Own(n), Impatient # {}
  PROVE  ServerInv'
<1> DEFINE kept == {i \in instances : ~i.jit}
<1>1. IsFiniteSet(kept) /\ IsFiniteSet(kept \cup {n})
  <2>1. kept \subseteq instances
    OBVIOUS
  <2>2. IsFiniteSet(kept)
    BY <2>1, FS_Subset DEF ServerInv
  <2> HIDE DEF kept
  <2> QED BY <2>2, FS_AddElement
<1>2. instances' = kept \/ instances' = kept \cup {n}
  BY DEF Own
<1>3. IsFiniteSet(instances')
  BY <1>1, <1>2
<1>4. \A i \in instances' : i \in kept \/ i = n
  BY <1>2
<1>5. n.model \in Models /\ n.id \in Nat /\ n.id = 1 /\ n.ctx = Jit /\ n.jit
  BY DEF Own
<1>6. \A i \in kept : i \in instances /\ ~i.jit /\ i.model # n.model
  BY DEF Own, Loaded, Of
<1> HIDE DEF kept
<1>7. \A i \in instances' : i.model \in Models /\ i.id \in Nat /\ i.jit \in BOOLEAN
  BY <1>4, <1>5, <1>6 DEF ServerInv
<1>8. \A i \in instances' : i.jit => i.id = 1 /\ i.ctx = Jit /\ Impatient # {}
  BY <1>4, <1>5, <1>6
<1>9. ASSUME NEW i \in instances', NEW j \in instances', i.model = j.model, i.id = j.id \/ i.jit = j.jit
      PROVE  i = j
  BY <1>4, <1>6, <1>9 DEF ServerInv
<1> QED BY <1>3, <1>7, <1>8, <1>9 DEF ServerInv

----------------------------------------------------------------------------
(* The coroutine. *)

LEMMA ShapeNext == Shape /\ [Next]_vars => Shape'
<1> SUFFICES ASSUME Shape, [Next]_vars PROVE Shape'
  OBVIOUS
<1>0. \A c \in Calls : c \in Workers /\ c \notin Removers
  BY WorkersAssumption DEF Workers
<1> USE <1>0 DEF Shape, Go, End, Succeed, Stay, Chats, Threads, thread, server, counts
<1>1. ASSUME NEW c \in Calls, LoadHalf(c) PROVE Shape'
  <2>1. CASE AlreadyLoaded(c) \/ MustLoad(c) \/ OfferUnload(c) \/ NobodyToVacate(c) \/ Appear(c) \/ Absent(c)
    BY <2>1 DEF AlreadyLoaded, MustLoad, OfferUnload, NobodyToVacate, Appear, Absent
  <2>2. CASE Reload(c) \/ ReloadGone(c)
    BY <2>2 DEF Reload, ReloadGone, StartUnload, UnloadFails, Dropped, StillThere
  <2>3. CASE ReloadAt(c) \/ LoadAgain(c) \/ Restore(c)
    BY <2>3 DEF ReloadAt, LoadAgain, Restore, Abandon, LoadErrors
  <2>4. CASE LoadWanted(c) \/ LoadSmaller(c) \/ Probe(c)
    BY <2>4 DEF LoadWanted, LoadSmaller, Probe, Assess, Proven, LoadErrors
  <2>5. CASE FreeProbe(c) \/ ProbeGone(c)
    BY <2>5 DEF FreeProbe, ProbeGone, StartUnload, UnloadFails, Dropped, StillThere, Proven
  <2>6. CASE Vacate(c) \/ VacateGone(c)
    BY <2>6 DEF Vacate, VacateGone, StartUnload, UnloadFails, Dropped, StillThere, Abandon
  <2> QED BY <1>1, <2>1, <2>2, <2>3, <2>4, <2>5, <2>6 DEF LoadHalf
<1>2. ASSUME NEW c \in Calls, ChatHalf(c) PROVE Shape'
  BY <1>2 DEF ChatHalf, Admit, Recheck, StartPost, Reach, Reply, Answered, Return
<1>3. ASSUME NEW w \in Workers, Unreadable(w) \/ TakeLoadLock(w) \/ TakeFileLock(w) PROVE Shape'
  BY <1>3 DEF Unreadable, TakeLoadLock, TakeFileLock
<1>4. ASSUME NEW w \in Workers, Remove(w) \/ Removed(w) PROVE Shape'
  BY <1>4 DEF Remove, Removed, StartUnload, UnloadFails, Dropped, StillThere
<1>5. ASSUME NEW c \in Calls, GiveUp(c) PROVE Shape'
  BY <1>5 DEF GiveUp
<1>6. ASSUME NEW i \in instances, Leave(i) \/ Expire(i) PROVE Shape'
  BY <1>6 DEF Leave, Expire
<1>7. CASE UNCHANGED vars
  BY <1>7 DEF vars
<1> QED BY <1>1, <1>2, <1>3, <1>4, <1>5, <1>6, <1>7 DEF Next, Work

\* A step of one worker moves no other.
Only(w) ==
  /\ \A v \in Workers \ {w} : pc'[v] = pc[v] /\ claim'[v] = claim[v] /\ pending'[v] = pending[v]
  /\ \A d \in Calls \ {w} : queue'[d] = queue[d] /\ vacated'[d] = vacated[d]

\* One before the chat: it touches no coroutine, but to end or to hand over its own.
Prepares(w) ==
  /\ Only(w) /\ UNCHANGED <<on, caller, inflight>>
  /\ pc[w] \in Deciding \cup {"quick", "lock", "file"} /\ pc'[w] \in Deciding \cup {"lock", "file", "admit", "ended"}
  /\ pc'[w] = "admit" => caller[w] = "waiting"
  /\ \A d \in Calls : result'[d] = result[d] \/ (result[d] = None /\ result'[d] # "ok")

\* The three parts of Prepares, of the load half.
LEMMA LoadHalfOnly ==
  ASSUME Shape, NEW c \in Calls, LoadHalf(c)
  PROVE  Only(c)
<1>0. c \in Workers
  BY DEF Workers
<1> USE <1>0 DEF Shape, Go, End, Succeed, Stay, Chats, counts, Only, thread
<1>1. CASE AlreadyLoaded(c) \/ MustLoad(c)
  BY <1>1 DEF AlreadyLoaded, MustLoad
<1>2. CASE OfferUnload(c) \/ NobodyToVacate(c)
  BY <1>2 DEF OfferUnload, NobodyToVacate, TooSmall
<1>3. CASE Appear(c) \/ Absent(c)
  BY <1>3 DEF Appear, Absent
<1>4. CASE Reload(c)
  BY <1>4 DEF Reload, StartUnload, UnloadFails, TooSmall
<1>5. CASE ReloadGone(c)
  BY <1>5 DEF ReloadGone, Dropped, StillThere
<1>6. CASE ReloadAt(c) \/ LoadAgain(c)
  BY <1>6 DEF ReloadAt, LoadAgain, Abandon
<1>7. CASE LoadWanted(c) \/ LoadSmaller(c)
  BY <1>7 DEF LoadWanted, LoadSmaller, Assess, Proven
<1>8. CASE Probe(c) \/ FreeProbe(c)
  BY <1>8 DEF Probe, FreeProbe, StartUnload, UnloadFails
<1>9. CASE ProbeGone(c)
  BY <1>9 DEF ProbeGone, Dropped, StillThere, Proven
<1>10. CASE Vacate(c)
  BY <1>10 DEF Vacate, StartUnload, UnloadFails, Abandon
<1>11. CASE VacateGone(c)
  BY <1>11 DEF VacateGone, Dropped, StillThere, Abandon
<1>12. CASE Restore(c)
  BY <1>12 DEF Restore
<1> QED BY <1>1, <1>2, <1>3, <1>4, <1>5, <1>6, <1>7, <1>8, <1>9, <1>10, <1>11, <1>12 DEF LoadHalf

LEMMA LoadHalfGoes ==
  ASSUME Shape, NEW c \in Calls, LoadHalf(c)
  PROVE  /\ pc[c] \in Deciding \cup {"quick", "lock", "file"}
         /\ pc'[c] \in Deciding \cup {"lock", "file", "admit", "ended"}
         /\ pc'[c] = "admit" => caller[c] = "waiting"
<1>0. c \in Workers
  BY DEF Workers
<1> USE <1>0 DEF Shape, Go, End, Succeed, Stay, Chats, counts, Deciding
<1>1. CASE AlreadyLoaded(c) \/ MustLoad(c)
  BY <1>1 DEF AlreadyLoaded, MustLoad
<1>2. CASE OfferUnload(c) \/ NobodyToVacate(c)
  BY <1>2 DEF OfferUnload, NobodyToVacate, TooSmall
<1>3. CASE Appear(c) \/ Absent(c)
  BY <1>3 DEF Appear, Absent
<1>4. CASE Reload(c)
  BY <1>4 DEF Reload, StartUnload, UnloadFails, TooSmall
<1>5. CASE ReloadGone(c)
  BY <1>5 DEF ReloadGone, Dropped, StillThere
<1>6. CASE ReloadAt(c) \/ LoadAgain(c)
  BY <1>6 DEF ReloadAt, LoadAgain, Abandon
<1>7. CASE LoadWanted(c) \/ LoadSmaller(c)
  BY <1>7 DEF LoadWanted, LoadSmaller, Assess, Proven
<1>8. CASE Probe(c) \/ FreeProbe(c)
  BY <1>8 DEF Probe, FreeProbe, StartUnload, UnloadFails
<1>9. CASE ProbeGone(c)
  BY <1>9 DEF ProbeGone, Dropped, StillThere, Proven
<1>10. CASE Vacate(c)
  BY <1>10 DEF Vacate, StartUnload, UnloadFails, Abandon
<1>11. CASE VacateGone(c)
  BY <1>11 DEF VacateGone, Dropped, StillThere, Abandon
<1>12. CASE Restore(c)
  BY <1>12 DEF Restore
<1> QED BY <1>1, <1>2, <1>3, <1>4, <1>5, <1>6, <1>7, <1>8, <1>9, <1>10, <1>11, <1>12 DEF LoadHalf

LEMMA LoadHalfLeaves ==
  ASSUME Shape, NEW c \in Calls, LoadHalf(c)
  PROVE  /\ UNCHANGED <<on, caller, inflight>>
         /\ \A d \in Calls : result'[d] = result[d] \/ (result[d] = None /\ result'[d] # "ok")
<1>0. c \in Workers /\ \A d \in Calls : d \in Workers
  BY DEF Workers
<1> USE <1>0 DEF Shape, Go, End, Succeed, Stay, Chats, counts
<1>1. CASE AlreadyLoaded(c) \/ MustLoad(c)
  BY <1>1 DEF AlreadyLoaded, MustLoad
<1>2. CASE OfferUnload(c) \/ NobodyToVacate(c)
  BY <1>2 DEF OfferUnload, NobodyToVacate, TooSmall
<1>3. CASE Appear(c) \/ Absent(c)
  BY <1>3 DEF Appear, Absent
<1>4. CASE Reload(c)
  BY <1>4 DEF Reload, StartUnload, UnloadFails, TooSmall
<1>5. CASE ReloadGone(c)
  BY <1>5 DEF ReloadGone, Dropped, StillThere
<1>6. CASE ReloadAt(c) \/ LoadAgain(c)
  BY <1>6 DEF ReloadAt, LoadAgain, Abandon
<1>7. CASE LoadWanted(c) \/ LoadSmaller(c)
  BY <1>7 DEF LoadWanted, LoadSmaller, Assess, Proven
<1>8. CASE Probe(c) \/ FreeProbe(c)
  BY <1>8 DEF Probe, FreeProbe, StartUnload, UnloadFails
<1>9. CASE ProbeGone(c)
  BY <1>9 DEF ProbeGone, Dropped, StillThere, Proven
<1>10. CASE Vacate(c)
  BY <1>10 DEF Vacate, StartUnload, UnloadFails, Abandon
<1>11. CASE VacateGone(c)
  BY <1>11 DEF VacateGone, Dropped, StillThere, Abandon
<1>12. CASE Restore(c)
  BY <1>12 DEF Restore
<1> QED BY <1>1, <1>2, <1>3, <1>4, <1>5, <1>6, <1>7, <1>8, <1>9, <1>10, <1>11, <1>12 DEF LoadHalf

\* What a worker does that is not of its coroutine.
Prep(w) ==
  \/ w \in Calls /\ LoadHalf(w)
  \/ Unreadable(w) \/ TakeLoadLock(w) \/ TakeFileLock(w) \/ Remove(w) \/ Removed(w)

LEMMA WorkPrepares ==
  ASSUME Shape, NEW w \in Workers, Prep(w)
  PROVE  Prepares(w)
<1>0. (w \in Removers => w \notin Calls) /\ \A d \in Calls : d \in Workers
  BY WorkersAssumption DEF Workers
<1>1. CASE w \in Calls /\ LoadHalf(w)
  BY <1>1, LoadHalfOnly, LoadHalfGoes, LoadHalfLeaves DEF Prepares
<1> USE <1>0 DEF Shape, Go, End, Stay, Chats, thread, counts
<1>2. CASE Unreadable(w) \/ TakeLoadLock(w) \/ TakeFileLock(w)
  <2> USE <1>2 DEF Unreadable, TakeLoadLock, TakeFileLock
  <2>1. Only(w)
    BY DEF Only
  <2>2. /\ pc[w] \in Deciding \cup {"quick", "lock", "file"} /\ pc'[w] \in Deciding \cup {"file", "ended"}
    BY DEF Deciding
  <2>3. /\ UNCHANGED <<on, caller, inflight>> /\ pc'[w] # "admit"
        /\ \A d \in Calls : result'[d] = result[d] \/ (result[d] = None /\ result'[d] # "ok")
    OBVIOUS
  <2> QED BY <2>1, <2>2, <2>3 DEF Prepares
<1>3. CASE Remove(w)
  <2> USE <1>3 DEF Remove, StartUnload, UnloadFails
  <2>1. Only(w)
    BY DEF Only
  <2>2. /\ pc[w] \in Deciding \cup {"quick", "lock", "file"} /\ pc'[w] \in Deciding \cup {"file", "ended"}
    BY DEF Deciding
  <2>3. /\ UNCHANGED <<on, caller, inflight>> /\ pc'[w] # "admit"
        /\ \A d \in Calls : result'[d] = result[d] \/ (result[d] = None /\ result'[d] # "ok")
    OBVIOUS
  <2> QED BY <2>1, <2>2, <2>3 DEF Prepares
<1>4. CASE Removed(w)
  <2> USE <1>4 DEF Removed, Dropped, StillThere
  <2>1. Only(w)
    BY DEF Only
  <2>2. /\ pc[w] \in Deciding \cup {"quick", "lock", "file"} /\ pc'[w] \in Deciding \cup {"file", "ended"}
    BY DEF Deciding
  <2>3. /\ UNCHANGED <<on, caller, inflight>> /\ pc'[w] # "admit"
        /\ \A d \in Calls : result'[d] = result[d] \/ (result[d] = None /\ result'[d] # "ok")
    OBVIOUS
  <2> QED BY <2>1, <2>2, <2>3 DEF Prepares
<1> QED BY <1>1, <1>2, <1>3, <1>4 DEF Prep

\* Nor does a step of a coroutine move another.
LEMMA ChatOnly ==
  ASSUME Shape, NEW c \in Calls, ChatHalf(c) \/ GiveUp(c)
  PROVE  /\ Only(c) /\ UNCHANGED <<claim, pending, queue, vacated>>
         /\ \A d \in Calls \ {c} : caller'[d] = caller[d] /\ on'[d] = on[d] /\ result'[d] = result[d]
         /\ \A d \in Calls \ {c} : d \in inflight' <=> d \in inflight
<1>0. c \in Workers /\ \A d \in Calls : d \in Workers
  BY DEF Workers
<1> USE <1>0 DEF Shape, Go, Threads, counts, Only
<1>1. CASE GiveUp(c)
  BY <1>1 DEF GiveUp, server
<1>2. CASE Admit(c)
  BY <1>2 DEF Admit, Return, server
<1>3. CASE Recheck(c)
  BY <1>3 DEF Recheck, Return, server
<1>4. CASE Answered(c)
  BY <1>4 DEF Answered, Return, server
<1>5. CASE StartPost(c) \/ Reach(c) \/ Reply(c)
  BY <1>5 DEF StartPost, Reach, Reply, server
<1> QED BY <1>1, <1>2, <1>3, <1>4, <1>5 DEF ChatHalf

\* A coroutine enters the count when it is admitted and leaves it when it ends.
LEMMA CallNext == Shape /\ CallInv /\ [Next]_vars => CallInv'
<1> SUFFICES ASSUME Shape, CallInv, [Next]_vars PROVE CallInv'
  OBVIOUS
<1>0. \A c \in Calls : c \in Workers
  BY DEF Workers
<1>1. ASSUME NEW w \in Workers, Prepares(w) PROVE CallInv'
  <2> SUFFICES ASSUME NEW c \in Calls
               PROVE  /\ caller'[c] = "waiting" /\ pc'[c] \in {"recheck", "send", "posting", "generating", "answered",
                                                               "failed"} => c \in inflight'
                      /\ \/ caller'[c] = "waiting" \/ pc'[c] = "ended"
                         \/ caller'[c] = "gone" /\ c \in Impatient /\ result'[c] = "gave_up"
                      /\ c \in inflight' \/ pc'[c] = "admit" => caller'[c] = "waiting"
    BY DEF CallInv
  <2>1. caller'[c] = caller[c] /\ inflight' = inflight /\ (result[c] = "gave_up" => result'[c] = "gave_up")
    BY <1>1, WorkersAssumption DEF Prepares
  <2>2. CASE c = w
    BY <1>1, <2>1, <2>2 DEF Prepares, CallInv, Deciding
  <2>3. CASE c # w
    BY <1>0, <1>1, <2>1, <2>3 DEF Prepares, Only, CallInv
  <2> QED BY <2>2, <2>3
<1>2. ASSUME NEW c \in Calls, ChatHalf(c) \/ GiveUp(c) PROVE CallInv'
  <2>1. \A d \in Calls \ {c} : /\ pc'[d] = pc[d] /\ caller'[d] = caller[d] /\ result'[d] = result[d]
                               /\ d \in inflight' <=> d \in inflight
    BY <1>0, <1>2, ChatOnly DEF Only
  <2>2. /\ caller'[c] = "waiting" /\ pc'[c] \in {"recheck", "send", "posting", "generating", "answered", "failed"}
             => c \in inflight'
        /\ \/ caller'[c] = "waiting" \/ pc'[c] = "ended"
           \/ caller'[c] = "gone" /\ c \in Impatient /\ result'[c] = "gave_up"
        /\ c \in inflight' \/ pc'[c] = "admit" => caller'[c] = "waiting"
    <3> USE <1>0, WorkersAssumption DEF Shape, Go, Threads, counts, CallInv
    <3>1. CASE GiveUp(c)
      <4>1. /\ caller'[c] = "gone" /\ c \in Impatient /\ result'[c] = "gave_up" /\ c \notin inflight'
            /\ pc'[c] # "admit"
        BY <3>1 DEF GiveUp
      <4> QED BY <4>1
    <3>2. CASE Admit(c)
      <4>1. CASE \E kind : Return(c, kind)
        BY <4>1 DEF Return
      <4>2. CASE Go(c, "recheck") /\ inflight' = inflight \cup {c} /\ UNCHANGED <<caller, result>>
        <5>1. pc[c] = "admit" /\ pc'[c] = "recheck" /\ caller'[c] = caller[c] /\ result'[c] = result[c]
          BY <3>2, <4>2 DEF Admit
        <5>2. caller[c] = "waiting" \/ (caller[c] = "gone" /\ c \in Impatient /\ result[c] = "gave_up")
          BY <5>1
        <5> QED BY <4>2, <5>1, <5>2
      <4> QED BY <3>2, <4>1, <4>2 DEF Admit
    <3>3. CASE Recheck(c)
      BY <3>3 DEF Recheck, Return
    <3>4. CASE Answered(c)
      BY <3>4 DEF Answered, Return
    <3>5. CASE StartPost(c) \/ Reach(c) \/ Reply(c)
      BY <3>5 DEF StartPost, Reach, Reply
    <3> QED BY <1>2, <3>1, <3>2, <3>3, <3>4, <3>5 DEF ChatHalf
  <2>3. ASSUME NEW d \in Calls
        PROVE  /\ caller'[d] = "waiting" /\ pc'[d] \in {"recheck", "send", "posting", "generating", "answered",
                                                               "failed"} => d \in inflight'
               /\ \/ caller'[d] = "waiting" \/ pc'[d] = "ended"
                  \/ caller'[d] = "gone" /\ d \in Impatient /\ result'[d] = "gave_up"
               /\ d \in inflight' \/ pc'[d] = "admit" => caller'[d] = "waiting"
    BY <2>1, <2>2 DEF CallInv
  <2> QED BY <2>3 DEF CallInv
<1>3. CASE (\E i \in instances : Leave(i) \/ Expire(i)) \/ UNCHANGED vars
  BY <1>3 DEF Leave, Expire, vars, CallInv, counts
<1>4. ASSUME NEW w \in Workers, Work(w) PROVE Prep(w) \/ (w \in Calls /\ ChatHalf(w))
  BY <1>4 DEF Work, Prep
<1> QED BY <1>1, <1>2, <1>3, <1>4, WorkPrepares DEF Next

----------------------------------------------------------------------------
(* One worker at a time, and what it has found and left. *)

\* Where a swap may unload, every caller waits, and LM Studio has loaded nothing itself.
LEMMA SwapWaits ==
  ASSUME Undisturbed, ServerInv, NEW w \in MaySwap
  PROVE  Impatient = {} /\ (\A i \in instances : ~i.jit) /\ (\A i, j \in instances : i.model = j.model => i = j)
<1>1. Impatient = {}
  BY DEF Undisturbed
<1>2. \A i \in instances : i.jit = FALSE
  BY <1>1 DEF ServerInv
<1> QED BY <1>1, <1>2 DEF ServerInv

\* Nothing is on its way out but what the one that loads is waiting for.
LEMMA OnlyItsOwnLeaves ==
  ASSUME Undisturbed, LockInv, LeavingInv, NEW w \in Workers, pc[w] \in Deciding \cup {"file"}, NEW i \in leaving
  PROVE  pc[w] \in Gone /\ pending[w] = i
<1>1. PICK v \in Workers : pc[v] \in Gone /\ pending[v] = i
  BY DEF LeavingInv
<1>2. pc[v] \in Deciding
  BY <1>1 DEF Gone, Deciding
<1> QED BY <1>1, <1>2, LoadsAlone

\* An instance that is dropped is gone, and with it all that were told to go.
LEMMA DroppedIs ==
  ASSUME Undisturbed, LockInv, ServerInv, LeavingInv, NEW w \in Workers, Sound(w), pc[w] \in Gone, Dropped(w)
  PROVE  /\ leaving = {} /\ pending[w] \notin instances
         /\ w \in MaySwap => ~Loaded(pending[w].model)
<1>1. pending[w] \notin instances
  <2> SUFFICES ASSUME pending[w] \in instances PROVE FALSE
    OBVIOUS
  <2>1. Front(pending[w]) /\ pending[w].model \in Models
    BY DEF Sound, Waits, ServerInv
  <2> QED BY <2>1, FirstIs DEF Dropped
<1>2. leaving = {}
  <2>1. pc[w] \in Deciding
    BY DEF Gone, Deciding
  <2> QED BY <1>1, <2>1, OnlyItsOwnLeaves DEF LeavingInv
<1>3. w \in MaySwap => Of(pending[w].model) = {}
  BY <1>1 DEF Sound, Waits, Of
<1> QED BY <1>1, <1>2, <1>3 DEF Loaded

\* A worker is sound where it neither waits nor loads, whatever the others do.
LEMMA SoundAway ==
  ASSUME NEW w \in Workers, pc'[w] \notin Deciding,
         w \in Calls /\ pc'[w] \in {"quick", "lock", "file"} => vacated'[w] = {}
  PROVE  Sound(w)'
<1>1. pc'[w] \notin Gone \cup Swapping \cup {"load", "smaller", "probe", "probed", "decide"}
  BY DEF Gone, Swapping, Deciding
<1> QED BY <1>1 DEF Sound, Waits, Loads, Gone, Swapping

Still(v) ==
  /\ pc'[v] = pc[v] /\ claim'[v] = claim[v] /\ pending'[v] = pending[v]
  /\ v \in Calls => queue'[v] = queue[v] /\ vacated'[v] = vacated[v]

LEMMA SoundAside ==
  ASSUME NEW v \in Workers, Still(v), pc[v] \notin Deciding, Sound(v)
  PROVE  Sound(v)'
<1>1. v \in Calls /\ pc[v] \in {"quick", "lock", "file"} => vacated[v] = {}
  BY DEF Sound, Loads
<1> QED BY <1>1, SoundAway DEF Still

LEMMA SoundFewer ==
  ASSUME NEW v \in Workers, Still(v), instances' \subseteq instances, Sound(v)
  PROVE  Sound(v)'
<1>1. \A m : Of(m)' \subseteq Of(m) /\ (Loaded(m)' => Loaded(m))
  BY DEF Of, Loaded
<1>2. Waits(v)'
  BY <1>1 DEF Sound, Waits, Still, Front
<1>3. v \in Calls => Loads(v)'
  BY <1>1 DEF Sound, Loads, Still, OnePerModel, Out
<1> QED BY <1>2, <1>3 DEF Sound

\* LM Studio loads by itself only where nobody swaps.
LEMMA SoundOwn ==
  ASSUME Undisturbed, ServerInv, Impatient # {}, NEW n, Own(n), NEW v \in Workers, Still(v), Sound(v)
  PROVE  Sound(v)'
<1>0. MaySwap = {}
  BY DEF Undisturbed
<1>1. /\ \A i \in instances' : i = n \/ (i \in instances /\ i.model # n.model)
      /\ n.jit /\ n.id = 1
  BY DEF Own, Loaded, Of
<1>2. \A m : \A i \in Of(m)' : i = n \/ i \in Of(m)
  BY <1>1 DEF Of
<1>3. \A i \in instances : i # n /\ Front(i) /\ i \in instances' =>
        \A j \in instances' : j.model = i.model => i.id <= j.id
  BY <1>1 DEF Front, Of
<1>4. \A j \in instances' : j.model = n.model => n.id <= j.id
  BY <1>1
<1>5. Waits(v)'
  <2> SUFFICES ASSUME pc'[v] \in Gone
               PROVE  /\ claim'[v] = pending'[v].model /\ pending'[v].model \in Models
                      /\ pending'[v] \in instances' => Front(pending[v])'
                      /\ pc'[v] # "vacate_gone" => pending'[v].model = ModelOf[v]
    BY <1>0 DEF Waits, Still
  <2>1. pending[v] \in instances => Front(pending[v])
    BY DEF Sound, Waits, Still
  <2>2. pending[v] \in instances' =>
          \A j \in instances' : j.model = pending[v].model => pending[v].id <= j.id
    BY <1>1, <1>3, <1>4, <2>1
  <2>3. pending'[v] \in instances' => Front(pending[v])'
    BY <2>2 DEF Front, Of, Still
  <2> QED BY <2>3 DEF Sound, Waits, Still
<1>6. v \in Calls => Loads(v)'
  <2> SUFFICES ASSUME v \in Calls PROVE Loads(v)'
    OBVIOUS
  <2>1. Loads(v) /\ pc[v] \notin Swapping
    BY <1>0 DEF Sound, Loads
  <2>2. (\A i \in Of(ModelOf[v]) : i.jit) => \A i \in Of(ModelOf[v])' : i.jit
    BY <1>1, <1>2
  <2> QED BY <2>1, <2>2 DEF Loads, Still, Swapping
<1> QED BY <1>5, <1>6 DEF Sound

----------------------------------------------------------------------------
(* The steps of the one that loads. *)

Base == Undisturbed /\ Shape /\ LockInv /\ ServerInv /\ LeavingInv

\* What such a step does to the server: nothing, or one load, or one unload that begins.
Effect(w) ==
  /\ pc[w] \in Gone => leaving = {}
  /\ \/ UNCHANGED <<instances, leaving>>
     \/ UNCHANGED leaving /\ \E n : Added(n)
     \/ /\ UNCHANGED instances /\ leaving' = leaving \cup {pending'[w]}
        /\ pc'[w] \in Gone /\ pending'[w] \in instances

\* An unload begins: the instance is the one it will be waiting for.
LEMMA StartIs ==
  ASSUME Base, NEW w \in Workers, NEW i, NEW l \in Gone, StartUnload(w, i, l), UNCHANGED instances,
         pc[w] \notin Gone, i \in instances => Front(i), l # "vacate_gone" => i.model = ModelOf[w]
  PROVE  Waits(w)' /\ Effect(w) /\ pc'[w] = l /\ pending'[w] = i /\ i \in instances
<1>1. /\ i \in instances /\ pc'[w] = l /\ pending'[w] = i /\ claim'[w] = i.model /\ leaving' = leaving \cup {i}
  BY DEF StartUnload, Go, Base, Shape
<1>0. i.model \in Models
  BY <1>1 DEF Base, ServerInv
<1>2. Effect(w)
  BY <1>1 DEF Effect
<1>3. Front(i)' /\ Of(i.model)' = Of(i.model)
  BY <1>1 DEF Front, Of
<1>4. w \in MaySwap => Of(i.model) \subseteq {i}
  BY <1>1, SwapWaits DEF Base, Of
<1>5. Front(pending[w])' /\ (w \in MaySwap => Of(pending[w].model)' \subseteq {pending[w]'})
  BY <1>1, <1>3, <1>4 DEF Front, Of
<1> QED BY <1>0, <1>1, <1>2, <1>5 DEF Waits

\* A request to unload that fails at once had nothing to unload.
LEMMA FailsIs ==
  ASSUME Base, NEW w \in Workers, NEW i, UnloadFails(w, i)
  PROVE  i \notin instances /\ UNCHANGED leaving
BY DEF UnloadFails, Base, Undisturbed

\* No wait for an unload times out.
LEMMA NotStill ==
  ASSUME Base, NEW w \in Workers
  PROVE  ~StillThere(w)
BY DEF StillThere, Base, Undisturbed

\* A worker that is done has nothing to keep.
LEMMA EndIs ==
  ASSUME Base, NEW w \in Workers, NEW kind, End(w, kind)
  PROVE  pc'[w] = "ended" /\ Sound(w)'
<1>1. pc'[w] = "ended"
  BY DEF End, Go, Base, Shape
<1> QED BY <1>1, SoundAway DEF Deciding

\* The steps, one operation or a few alike at a time.
LEMMA AsideSteps ==
  ASSUME Base, NEW w \in Workers, Sound(w), Unreadable(w) \/ TakeLoadLock(w) \/ TakeFileLock(w)
  PROVE  Sound(w)' /\ Effect(w)
<1>1. CASE Unreadable(w)
  <2>1. Sound(w)'
    BY <1>1, EndIs DEF Unreadable
  <2> QED BY <1>1, <2>1 DEF Unreadable, Effect, Gone
<1>2. CASE TakeLoadLock(w)
  <2>1. pc[w] = "lock" /\ pc'[w] = "file" /\ UNCHANGED <<instances, leaving, vacated>>
    BY <1>2 DEF TakeLoadLock, Go, thread, Base, Shape
  <2>2. w \in Calls => vacated[w] = {}
    BY <2>1 DEF Sound, Loads
  <2> QED BY <2>1, <2>2, SoundAway DEF Effect, Gone, Deciding
<1>3. CASE TakeFileLock(w)
  <2>1. pc[w] = "file" /\ pc'[w] = "decide" /\ UNCHANGED <<instances, leaving, vacated>>
    BY <1>3 DEF TakeFileLock, Go, thread, Base, Shape
  <2>2. w \in Calls => vacated[w] = {}
    BY <2>1 DEF Sound, Loads
  <2>3. Sound(w)'
    BY <2>1, <2>2 DEF Sound, Waits, Loads, Gone, Swapping
  <2> QED BY <2>1, <2>3 DEF Effect, Gone
<1> QED BY <1>1, <1>2, <1>3

LEMMA RemoverSteps ==
  ASSUME Base, NEW w \in Workers, Sound(w), Remove(w) \/ Removed(w)
  PROVE  Sound(w)' /\ Effect(w)
<1>1. CASE Remove(w)
  <2>1. w \notin Calls /\ pc[w] = "decide" /\ UNCHANGED instances
    BY <1>1, WorkersAssumption DEF Remove
  <2>2. CASE UNCHANGED leaving /\ \E kind : End(w, kind)
    BY <2>1, <2>2, EndIs DEF Effect, Gone
  <2>3. CASE Loaded(model(w)) /\ StartUnload(w, First(model(w)), "remove_gone")
    <3> DEFINE i == First(model(w))
    <3>1. Front(i) /\ i.model = ModelOf[w]
      BY <2>3, FirstStands DEF model, Base
    <3> HIDE DEF i
    <3>2. Waits(w)' /\ Effect(w)
      BY <2>1, <2>3, <3>1, StartIs DEF Gone, i
    <3> QED BY <2>1, <3>2 DEF Sound
  <2> QED BY <1>1, <2>2, <2>3, FailsIs DEF Remove
<1>2. CASE Removed(w)
  <2>1. pc[w] \in Gone /\ UNCHANGED <<instances, leaving>> /\ Dropped(w) /\ End(w, "ok")
    BY <1>2, NotStill DEF Removed, Gone
  <2>2. leaving = {}
    BY <2>1, DroppedIs DEF Base
  <2> QED BY <2>1, <2>2, EndIs DEF Effect
<1> QED BY <1>1, <1>2

LEMMA EndSteps ==
  ASSUME Base, NEW c \in Calls, c \in Workers, Sound(c),
         AlreadyLoaded(c) \/ MustLoad(c) \/ OfferUnload(c) \/ NobodyToVacate(c) \/ Appear(c)
  PROVE  Sound(c)' /\ Effect(c)
<1>1. /\ UNCHANGED <<instances, leaving, vacated>> /\ pc[c] \notin Gone
      /\ pc'[c] \in {"lock", "admit", "ended"} /\ (pc'[c] = "lock" => pc[c] = "quick")
  BY DEF AlreadyLoaded, MustLoad, OfferUnload, NobodyToVacate, Appear, TooSmall, Succeed, End, Go, Gone, thread,
         Base, Shape
<1>2. pc'[c] = "lock" => vacated'[c] = {}
  BY <1>1 DEF Sound, Loads
<1> QED BY <1>1, <1>2, SoundAway DEF Effect, Deciding

LEMMA AbsentStep ==
  ASSUME Base, NEW c \in Calls, c \in Workers, Sound(c), Absent(c)
  PROVE  Sound(c)' /\ Effect(c)
<1>1. /\ UNCHANGED <<instances, leaving, vacated>> /\ pc[c] = "decide" /\ pc'[c] = "load" /\ Of(ModelOf[c]) = {}
  BY DEF Absent, Go, Base, Shape, model, Loaded
<1>2. vacated[c] = {}
  BY <1>1 DEF Sound, Loads
<1>3. Of(ModelOf[c])' = {}
  BY <1>1 DEF Of
<1>4. Loads(c)' /\ Waits(c)'
  BY <1>1, <1>2, <1>3 DEF Loads, Waits, Gone, Swapping
<1> QED BY <1>1, <1>4 DEF Sound, Effect, Gone

LEMMA ReloadStep ==
  ASSUME Base, NEW c \in Calls, c \in Workers, Sound(c), Reload(c)
  PROVE  Sound(c)' /\ Effect(c)
<1>1. /\ pc[c] = "decide" /\ Loaded(ModelOf[c]) /\ c \in MaySwap /\ UNCHANGED <<instances, vacated>>
  BY DEF Reload, TooSmall, model
<1>2. CASE UNCHANGED leaving /\ \E kind : End(c, kind)
  BY <1>1, <1>2, EndIs DEF Effect, Gone
<1>3. CASE StartUnload(c, First(ModelOf[c]), "reload_gone")
  <2> DEFINE i == First(ModelOf[c])
  <2>1. Front(i) /\ i.model = ModelOf[c]
    BY <1>1, FirstStands DEF Base
  <2>2. StartUnload(c, i, "reload_gone") /\ pc[c] \notin Gone /\ "reload_gone" \in Gone
    BY <1>1, <1>3 DEF Gone
  <2> HIDE DEF i
  <2>3. Waits(c)' /\ Effect(c) /\ pc'[c] = "reload_gone"
    BY <1>1, <2>1, <2>2, StartIs
  <2>4. vacated'[c] = {}
    BY <1>1 DEF Sound, Loads
  <2>5. Loads(c)'
    BY <1>1, <2>3, <2>4 DEF Loads, Swapping
  <2> QED BY <2>3, <2>5 DEF Sound
<1> QED BY <1>2, <1>3, FailsIs DEF Reload, model

LEMMA ReloadGoneStep ==
  ASSUME Base, NEW c \in Calls, c \in Workers, Sound(c), ReloadGone(c)
  PROVE  Sound(c)' /\ Effect(c)
<1>1. /\ pc[c] = "reload_gone" /\ Dropped(c) /\ pc'[c] = "reload" /\ vacated'[c] = {pending[c]}
      /\ UNCHANGED <<instances, leaving>>
  BY NotStill DEF ReloadGone, Go, Base, Shape
<1>2. pc[c] \in Gone
  BY <1>1 DEF Gone
<1>3. c \in MaySwap /\ pending[c].model = ModelOf[c] /\ ModelOf[c] \in Models
  BY <1>1, <1>2, WorkersAssumption DEF Sound, Loads, Waits, Swapping
<1>4. leaving = {} /\ ~Loaded(ModelOf[c])
  BY <1>1, <1>2, <1>3, DroppedIs DEF Base
<1>5. Of(ModelOf[c])' = {} /\ ~Loaded(ModelOf[c])'
  BY <1>1, <1>4 DEF Loaded, Of
<1>6. OnePerModel(vacated[c])' /\ Out(vacated[c])'
  BY <1>1, <1>3, <1>5 DEF OnePerModel, Out, Loaded, Of
<1>7. Loads(c)' /\ Waits(c)'
  BY <1>1, <1>3, <1>5, <1>6 DEF Loads, Waits, Gone, Swapping
<1> QED BY <1>1, <1>4, <1>7 DEF Sound, Effect

\* What a call that gives up has to put back is gone, and of as many models.
LEMMA AbandonIs ==
  ASSUME Base, NEW c \in Calls, c \in Workers, c \in MaySwap, OnePerModel(vacated[c]), Out(vacated[c]),
         UNCHANGED instances, NEW kind, Abandon(c, kind)
  PROVE  Sound(c)'
<1>1. CASE \E k : End(c, k)
  BY <1>1, EndIs
<1>2. CASE Go(c, "restore") /\ queue' = [queue EXCEPT ![c] = vacated[c]]
  <2>1. pc'[c] = "restore" /\ queue'[c] = vacated[c]
    BY <1>2 DEF Go, Base, Shape
  <2>2. OnePerModel(queue[c])' /\ Out(queue[c])'
    BY <2>1 DEF OnePerModel, Out, Loaded, Of
  <2>3. Loads(c)' /\ Waits(c)'
    BY <2>1, <2>2 DEF Loads, Waits, Gone, Swapping
  <2> QED BY <2>3 DEF Sound
<1> QED BY <1>1, <1>2 DEF Abandon

\* A load of a model that has no instance that was asked for.
LEMMA LoadIs ==
  ASSUME Base, NEW m \in Models, NEW ctx, NEW e, Adding(m, ctx, e), \A i \in Of(m) : i.jit
  PROVE  \/ UNCHANGED instances
         \/ e = "none" /\ \E n : Added(n)
BY AddingIs DEF Base, Adding

LEMMA ReloadAtStep ==
  ASSUME Base, NEW c \in Calls, c \in Workers, Sound(c), ReloadAt(c)
  PROVE  Sound(c)' /\ Effect(c)
<1>1. PICK e : /\ Adding(ModelOf[c], Want, e)
               /\ IF e = "none" THEN Go(c, "appear") ELSE Abandon(c, "load_failed")
  BY DEF ReloadAt, model
<1>2. pc[c] = "reload" /\ UNCHANGED leaving
  BY DEF ReloadAt
<1>3. /\ c \in MaySwap /\ (\A i \in Of(ModelOf[c]) : i.jit) /\ OnePerModel(vacated[c]) /\ Out(vacated[c])
  BY <1>2 DEF Sound, Loads, Swapping
<1>4. ModelOf[c] \in Models
  BY WorkersAssumption
<1>5. UNCHANGED instances \/ (e = "none" /\ \E n : Added(n))
  BY <1>1, <1>3, <1>4, LoadIs
<1>6. Effect(c)
  BY <1>2, <1>5 DEF Effect, Gone
<1>7. CASE e = "none"
  <2>1. pc'[c] = "appear"
    BY <1>1, <1>7 DEF Go, Base, Shape
  <2> QED BY <1>6, <2>1 DEF Sound, Loads, Waits, Gone, Swapping
<1>8. CASE e # "none"
  BY <1>1, <1>3, <1>5, <1>6, <1>8, AbandonIs
<1> QED BY <1>7, <1>8

\* The swap begins with nothing vacated.
LEMMA ProvenIs ==
  ASSUME Base, NEW c \in Calls, c \in Workers, vacated'[c] = {}, UNCHANGED instances, Proven(c),
         c \in MaySwap => \A i \in Of(ModelOf[c]) : i.jit
  PROVE  Sound(c)'
<1>1. CASE \E k : End(c, k)
  BY <1>1, EndIs
<1>2. CASE c \in MaySwap /\ Go(c, "vacate")
  <2>1. pc'[c] = "vacate"
    BY <1>2 DEF Go, Base, Shape
  <2>2. \A i \in Of(ModelOf[c])' : i.jit
    BY <1>2 DEF Of
  <2>3. Loads(c)' /\ Waits(c)'
    BY <1>2, <2>1, <2>2 DEF Loads, Waits, Gone, Swapping, OnePerModel, Out
  <2> QED BY <2>3 DEF Sound
<1> QED BY <1>1, <1>2 DEF Proven

LEMMA AssessIs ==
  ASSUME Base, NEW c \in Calls, c \in Workers, vacated'[c] = {}, UNCHANGED instances, NEW e, NEW tried,
         Assess(c, e, tried), \A i \in Of(ModelOf[c]) : i.jit
  PROVE  Sound(c)'
<1>1. CASE Proven(c)
  BY <1>1, ProvenIs
<1>2. CASE \E k : End(c, k)
  BY <1>2, EndIs
<1>3. CASE Go(c, "probe")
  <2>1. pc'[c] = "probe"
    BY <1>3 DEF Go, Base, Shape
  <2>2. \A i \in Of(ModelOf[c])' : i.jit
    BY DEF Of
  <2>3. Loads(c)' /\ Waits(c)'
    BY <2>1, <2>2 DEF Loads, Waits, Gone, Swapping
  <2> QED BY <2>3 DEF Sound
<1> QED BY <1>1, <1>2, <1>3 DEF Assess

LEMMA FirstLoads ==
  ASSUME Base, NEW c \in Calls, c \in Workers, Sound(c), LoadWanted(c) \/ LoadSmaller(c) \/ Probe(c)
  PROVE  Sound(c)' /\ Effect(c)
<1>1. pc[c] \in {"load", "smaller", "probe"} /\ UNCHANGED <<leaving, vacated>>
  BY DEF LoadWanted, LoadSmaller, Probe
<1>2. vacated'[c] = {} /\ (\A i \in Of(ModelOf[c]) : i.jit) /\ ModelOf[c] \in Models
  BY <1>1, WorkersAssumption DEF Sound, Loads
<1>3. PICK ctx, e : /\ Adding(ModelOf[c], ctx, e)
                    /\ IF e = "none" THEN \E l \in {"appear", "probed"} : Go(c, l)
                       ELSE Go(c, "smaller") \/ (\E tried : Assess(c, e, tried)) \/ \E k : End(c, k)
  BY DEF LoadWanted, LoadSmaller, Probe, model
<1>4. UNCHANGED instances \/ (e = "none" /\ \E n : Added(n))
  BY <1>2, <1>3, LoadIs
<1>5. Effect(c)
  BY <1>1, <1>4 DEF Effect, Gone
<1>6. CASE e = "none"
  <2>1. pc'[c] \in {"appear", "probed"}
    BY <1>3, <1>6 DEF Go, Base, Shape
  <2> QED BY <1>2, <1>5, <2>1 DEF Sound, Loads, Waits, Gone, Swapping
<1>7. CASE e # "none" /\ Go(c, "smaller")
  <2>1. pc'[c] = "smaller" /\ UNCHANGED instances
    BY <1>4, <1>7 DEF Go, Base, Shape
  <2>2. \A i \in Of(ModelOf[c])' : i.jit
    BY <1>2, <2>1 DEF Of
  <2>3. Loads(c)' /\ Waits(c)'
    BY <1>2, <2>1, <2>2 DEF Loads, Waits, Gone, Swapping
  <2> QED BY <1>5, <2>3 DEF Sound
<1>8. CASE e # "none" /\ ~Go(c, "smaller")
  BY <1>2, <1>3, <1>4, <1>5, <1>8, AssessIs, EndIs
<1> QED BY <1>6, <1>7, <1>8

LEMMA FreeProbeStep ==
  ASSUME Base, NEW c \in Calls, c \in Workers, Sound(c), FreeProbe(c)
  PROVE  Sound(c)' /\ Effect(c)
<1>1. pc[c] = "probed" /\ UNCHANGED <<instances, vacated>>
  BY DEF FreeProbe
<1>2. CASE UNCHANGED leaving /\ \E kind : End(c, kind)
  BY <1>1, <1>2, EndIs DEF Effect, Gone
<1>3. CASE Loaded(ModelOf[c]) /\ StartUnload(c, First(ModelOf[c]), "probe_gone")
  <2> DEFINE i == First(ModelOf[c])
  <2>1. Front(i) /\ i.model = ModelOf[c]
    BY <1>3, FirstStands DEF Base
  <2>2. StartUnload(c, i, "probe_gone") /\ pc[c] \notin Gone /\ "probe_gone" \in Gone
    BY <1>1, <1>3 DEF Gone
  <2> HIDE DEF i
  <2>3. Waits(c)' /\ Effect(c) /\ pc'[c] = "probe_gone"
    BY <1>1, <2>1, <2>2, StartIs
  <2>4. vacated'[c] = {}
    BY <1>1 DEF Sound, Loads
  <2>5. Loads(c)'
    BY <2>3, <2>4 DEF Loads, Swapping
  <2> QED BY <2>3, <2>5 DEF Sound
<1> QED BY <1>2, <1>3, FailsIs DEF FreeProbe, model

LEMMA ProbeGoneStep ==
  ASSUME Base, NEW c \in Calls, c \in Workers, Sound(c), ProbeGone(c)
  PROVE  Sound(c)' /\ Effect(c)
<1>1. pc[c] = "probe_gone" /\ Dropped(c) /\ Proven(c) /\ UNCHANGED <<instances, leaving, vacated>>
  BY NotStill DEF ProbeGone
<1>2. pc[c] \in Gone
  BY <1>1 DEF Gone
<1>3. vacated'[c] = {} /\ pending[c].model = ModelOf[c] /\ ModelOf[c] \in Models
  BY <1>1, <1>2, WorkersAssumption DEF Sound, Loads, Waits
<1>4. leaving = {} /\ (c \in MaySwap => ~Loaded(ModelOf[c]))
  BY <1>1, <1>2, <1>3, DroppedIs DEF Base
<1>5. c \in MaySwap => \A i \in Of(ModelOf[c]) : i.jit
  BY <1>4 DEF Loaded
<1> QED BY <1>1, <1>3, <1>4, <1>5, ProvenIs DEF Effect

LEMMA VacateStep ==
  ASSUME Base, NEW c \in Calls, c \in Workers, Sound(c), Vacate(c)
  PROVE  Sound(c)' /\ Effect(c)
<1>1. pc[c] = "vacate" /\ UNCHANGED <<instances, vacated>>
  BY DEF Vacate
<1>2. /\ c \in MaySwap /\ (\A i \in Of(ModelOf[c]) : i.jit) /\ OnePerModel(vacated[c]) /\ Out(vacated[c])
  BY <1>1 DEF Sound, Loads, Swapping
<1>3. CASE UNCHANGED leaving /\ \E kind : Abandon(c, kind)
  BY <1>1, <1>2, <1>3, AbandonIs DEF Effect, Gone
<1>4. ASSUME NEW r, StartUnload(c, r, "vacate_gone") PROVE Sound(c)' /\ Effect(c)
  <2>1. r \in instances
    BY <1>4 DEF StartUnload
  <2>2. Front(r)
    <3>1. \A j \in Of(r.model) : j = r
      BY <1>2, <2>1, SwapWaits DEF Base, Of
    <3> QED BY <2>1, <3>1 DEF Front, Base, ServerInv
  <2>3. pc[c] \notin Gone /\ "vacate_gone" \in Gone
    BY <1>1 DEF Gone
  <2>4. Waits(c)' /\ Effect(c) /\ pc'[c] = "vacate_gone" /\ pending'[c] = r
    BY <1>1, <1>4, <2>2, <2>3, StartIs
  <2>5. \A s \in vacated[c] : s.model # r.model
    BY <1>2, <2>1 DEF Out, Loaded, Of
  <2>6. OnePerModel(vacated[c])' /\ Out(vacated[c])' /\ \A i \in Of(ModelOf[c])' : i.jit
    BY <1>1, <1>2 DEF OnePerModel, Out, Loaded, Of
  <2>7. Loads(c)'
    BY <1>1, <1>2, <2>4, <2>5, <2>6 DEF Loads, Swapping
  <2> QED BY <2>4, <2>7 DEF Sound
<1> QED BY <1>3, <1>4, FailsIs DEF Vacate

LEMMA VacateGoneStep ==
  ASSUME Base, NEW c \in Calls, c \in Workers, Sound(c), VacateGone(c)
  PROVE  Sound(c)' /\ Effect(c)
<1>1. /\ pc[c] = "vacate_gone" /\ Dropped(c) /\ pc'[c] = "retry" /\ vacated'[c] = vacated[c] \cup {pending[c]}
      /\ UNCHANGED <<instances, leaving>>
  BY NotStill DEF VacateGone, Go, Base, Shape
<1>2. pc[c] \in Gone
  BY <1>1 DEF Gone
<1>3. /\ c \in MaySwap /\ (\A i \in Of(ModelOf[c]) : i.jit) /\ OnePerModel(vacated[c]) /\ Out(vacated[c])
      /\ \A r \in vacated[c] : r.model # pending[c].model
  BY <1>1 DEF Sound, Loads, Swapping
<1>4. leaving = {} /\ ~Loaded(pending[c].model) /\ pending[c].model \in Models
  BY <1>1, <1>2, <1>3, DroppedIs DEF Base, Sound, Waits
<1>5. OnePerModel(vacated[c])' /\ Out(vacated[c])' /\ \A i \in Of(ModelOf[c])' : i.jit
  BY <1>1, <1>3, <1>4 DEF OnePerModel, Out, Loaded, Of
<1>6. Loads(c)' /\ Waits(c)'
  BY <1>1, <1>3, <1>5 DEF Loads, Waits, Gone, Swapping
<1> QED BY <1>1, <1>4, <1>6 DEF Sound, Effect

LEMMA LoadAgainStep ==
  ASSUME Base, NEW c \in Calls, c \in Workers, Sound(c), LoadAgain(c)
  PROVE  Sound(c)' /\ Effect(c)
<1>1. pc[c] = "retry" /\ UNCHANGED <<leaving, vacated>>
  BY DEF LoadAgain
<1>2. /\ c \in MaySwap /\ (\A i \in Of(ModelOf[c]) : i.jit) /\ OnePerModel(vacated[c]) /\ Out(vacated[c])
  BY <1>1 DEF Sound, Loads, Swapping
<1>3. PICK e : /\ Adding(ModelOf[c], Want, e)
               /\ IF e = "none" THEN Go(c, "appear") ELSE Go(c, "vacate") \/ Abandon(c, "load_failed")
  BY DEF LoadAgain, model
<1>4. UNCHANGED instances \/ (e = "none" /\ \E n : Added(n))
  BY <1>2, <1>3, LoadIs, WorkersAssumption
<1>5. Effect(c)
  BY <1>1, <1>4 DEF Effect, Gone
<1>6. CASE e = "none"
  <2>1. pc'[c] = "appear"
    BY <1>3, <1>6 DEF Go, Base, Shape
  <2> QED BY <1>5, <2>1 DEF Sound, Loads, Waits, Gone, Swapping
<1>7. CASE e # "none" /\ Go(c, "vacate")
  <2>1. pc'[c] = "vacate" /\ UNCHANGED instances
    BY <1>4, <1>7 DEF Go, Base, Shape
  <2>2. OnePerModel(vacated[c])' /\ Out(vacated[c])' /\ \A i \in Of(ModelOf[c])' : i.jit
    BY <1>1, <1>2, <2>1 DEF OnePerModel, Out, Loaded, Of
  <2>3. Loads(c)' /\ Waits(c)'
    BY <1>2, <2>1, <2>2 DEF Loads, Waits, Gone, Swapping
  <2> QED BY <1>5, <2>3 DEF Sound
<1>8. CASE e # "none" /\ Abandon(c, "load_failed")
  BY <1>2, <1>4, <1>5, <1>8, AbandonIs
<1> QED BY <1>3, <1>6, <1>7, <1>8

LEMMA RestoreStep ==
  ASSUME Base, NEW c \in Calls, c \in Workers, Sound(c), Restore(c)
  PROVE  Sound(c)' /\ Effect(c)
<1>1. PICK r \in queue[c] : /\ \E e \in LoadErrors(r.model, r.ctx) : Adding(r.model, r.ctx, e)
                            /\ queue' = [queue EXCEPT ![c] = @ \ {r}]
                            /\ IF queue[c] = {r} THEN End(c, err[c]) ELSE UNCHANGED <<pc, locks, result>>
  BY DEF Restore
<1>2. pc[c] = "restore" /\ UNCHANGED leaving /\ queue'[c] = queue[c] \ {r}
  BY <1>1 DEF Restore, Base, Shape
<1>3. c \in MaySwap /\ OnePerModel(queue[c]) /\ Out(queue[c])
  BY <1>2 DEF Sound, Loads, Swapping
<1>4. r.model \in Models /\ \A i \in Of(r.model) : i.jit
  BY <1>1, <1>3 DEF Out, Loaded
<1>5. UNCHANGED instances \/ \E n : Added(n) /\ n.model = r.model
  BY <1>1, <1>4, AddingIs DEF Base
<1>6. Effect(c)
  BY <1>2, <1>5 DEF Effect, Gone
<1>7. CASE queue[c] = {r}
  BY <1>1, <1>6, <1>7, EndIs
<1>8. CASE queue[c] # {r}
  <2>1. pc'[c] = "restore"
    BY <1>1, <1>2, <1>8
  <2>2. \A s \in queue'[c] : s \in queue[c] /\ s.model # r.model
    BY <1>1, <1>2, <1>3 DEF OnePerModel
  <2>3. \A s \in queue'[c] : s.model \in Models /\ ~Loaded(s.model)'
    BY <1>3, <1>5, <2>2 DEF Out, Loaded, Of, Added
  <2>4. OnePerModel(queue[c])' /\ Out(queue[c])'
    BY <1>3, <2>2, <2>3 DEF OnePerModel, Out
  <2>5. Loads(c)' /\ Waits(c)'
    BY <1>3, <2>1, <2>4 DEF Loads, Waits, Gone, Swapping
  <2> QED BY <1>6, <2>5 DEF Sound
<1> QED BY <1>7, <1>8

\* Every step before the chat keeps the worker sound, and does that to the server.
LEMMA PrepSound ==
  ASSUME Base, NEW w \in Workers, Sound(w), Prep(w)
  PROVE  Sound(w)' /\ Effect(w)
<1>1. ASSUME w \in Calls, LoadHalf(w) PROVE Sound(w)' /\ Effect(w)
  <2>1. CASE AlreadyLoaded(w) \/ MustLoad(w) \/ OfferUnload(w) \/ NobodyToVacate(w) \/ Appear(w)
    BY <1>1, <2>1, EndSteps
  <2>2. CASE Absent(w)
    BY <1>1, <2>2, AbsentStep
  <2>3. CASE Reload(w) \/ ReloadGone(w) \/ ReloadAt(w)
    BY <1>1, <2>3, ReloadStep, ReloadGoneStep, ReloadAtStep
  <2>4. CASE LoadWanted(w) \/ LoadSmaller(w) \/ Probe(w)
    BY <1>1, <2>4, FirstLoads
  <2>5. CASE FreeProbe(w) \/ ProbeGone(w)
    BY <1>1, <2>5, FreeProbeStep, ProbeGoneStep
  <2>6. CASE Vacate(w) \/ VacateGone(w)
    BY <1>1, <2>6, VacateStep, VacateGoneStep
  <2>7. CASE LoadAgain(w) \/ Restore(w)
    BY <1>1, <2>7, LoadAgainStep, RestoreStep
  <2> QED BY <1>1, <2>1, <2>2, <2>3, <2>4, <2>5, <2>6, <2>7 DEF LoadHalf
<1>2. CASE Unreadable(w) \/ TakeLoadLock(w) \/ TakeFileLock(w)
  BY <1>2, AsideSteps
<1>3. CASE Remove(w) \/ Removed(w)
  BY <1>3, RemoverSteps
<1> QED BY <1>1, <1>2, <1>3 DEF Prep

\* Outside the locks a worker does not touch the server.
LEMMA EarlySteps ==
  ASSUME NEW w \in Workers, Prep(w), pc[w] \in {"quick", "lock"}
  PROVE  UNCHANGED <<instances, leaving>>
<1>1. CASE w \in Calls /\ LoadHalf(w)
  BY <1>1 DEF LoadHalf, TooSmall, AlreadyLoaded, MustLoad, OfferUnload, Reload, ReloadGone, ReloadAt, Absent,
     LoadWanted, LoadSmaller, Probe, FreeProbe, ProbeGone, Vacate, NobodyToVacate, VacateGone, LoadAgain, Restore,
     Appear
<1>2. CASE Unreadable(w) \/ TakeLoadLock(w) \/ TakeFileLock(w)
  BY <1>2 DEF Unreadable, TakeLoadLock, TakeFileLock
<1>3. CASE Remove(w) \/ Removed(w)
  BY <1>3 DEF Remove, Removed
<1> QED BY <1>1, <1>2, <1>3 DEF Prep

\* And the others: they are not in the locks while it is.
LEMMA PrepOthers ==
  ASSUME Base, NEW w \in Workers, Prep(w), NEW v \in Workers, v # w, Sound(v)
  PROVE  Sound(v)'
<1>1. Prepares(w)
  BY WorkPrepares DEF Base
<1>2. Still(v)
  BY <1>1 DEF Prepares, Only, Still
<1>3. CASE pc[w] \in Deciding \cup {"file"}
  <2>1. pc[v] \notin Deciding
    BY <1>3, LoadsAlone DEF Base
  <2> QED BY <1>2, <2>1, SoundAside
<1>4. CASE pc[w] \in {"quick", "lock"}
  BY <1>2, <1>4, EarlySteps, SoundFewer
<1> QED BY <1>1, <1>3, <1>4 DEF Prepares

LEMMA EffectKeepsServer ==
  ASSUME Base, NEW w \in Workers, Effect(w)
  PROVE  ServerInv'
BY FewerKeepServer, AddedKeepsServer DEF Effect, Base

LEMMA PrepLeaving ==
  ASSUME Base, NEW w \in Workers, Prep(w), Effect(w)
  PROVE  LeavingInv'
<1>1. Prepares(w) /\ DOMAIN pc = Workers
  BY WorkPrepares DEF Base, Shape
<1>2. leaving' \subseteq instances'
  BY DEF Effect, Base, LeavingInv, Added
<1>3. CASE pc[w] \in Deciding \cup {"file"}
  <2>1. leaving = {} \/ pc[w] \in Gone
    BY <1>3, OnlyItsOwnLeaves DEF Base
  <2>2. leaving = {}
    BY <2>1 DEF Effect
  <2>3. leaving' = {} \/ (leaving' = {pending'[w]} /\ pc'[w] \in Gone)
    BY <2>2 DEF Effect
  <2> QED BY <1>2, <2>3 DEF LeavingInv
<1>4. CASE pc[w] \in {"quick", "lock"}
  <2>1. leaving' = leaving
    BY <1>4, EarlySteps
  <2>3. ASSUME NEW i \in leaving PROVE \E v \in Workers : pc'[v] \in Gone /\ pending'[v] = i
    <3>1. PICK v \in Workers : pc[v] \in Gone /\ pending[v] = i
      BY <2>3 DEF Base, LeavingInv
    <3>2. v # w
      BY <1>4, <3>1 DEF Gone
    <3> QED BY <1>1, <3>1, <3>2 DEF Prepares, Only
  <2> QED BY <1>2, <2>1, <2>3 DEF LeavingInv
<1> QED BY <1>1, <1>3, <1>4 DEF Prepares

----------------------------------------------------------------------------
(* What the other steps leave of it. *)

\* A call whose prompt is on its way finds its model, unless its caller is gone.
LEMMA ReachWho ==
  ASSUME CallInv, HeldInv, NEW c \in Calls, pc[c] = "posting", ~Loaded(ModelOf[c])
  PROVE  c \notin inflight /\ Impatient # {}
<1>1. c \notin inflight
  BY DEF HeldInv, Held, Loaded
<1> QED BY <1>1 DEF CallInv

LEMMA ChatStands ==
  ASSUME Shape, NEW c \in Calls, Admit(c) \/ Recheck(c) \/ StartPost(c) \/ Reply(c) \/ Answered(c) \/ GiveUp(c)
  PROVE  UNCHANGED <<instances, leaving, on>>
BY DEF Admit, Recheck, StartPost, Reply, Answered, GiveUp, server

LEMMA ChatGoes ==
  ASSUME Shape, NEW c \in Calls, ChatHalf(c)
  PROVE  /\ pc[c] \in {"admit", "recheck", "send", "posting", "generating", "answered", "failed"}
         /\ pc'[c] \in {"recheck", "send", "posting", "generating", "answered", "failed", "ended"}
<1>0. c \in Workers
  BY DEF Workers
<1> USE <1>0 DEF Shape, Go
<1>1. CASE Admit(c) \/ Recheck(c)
  BY <1>1 DEF Admit, Recheck, Return
<1>2. CASE StartPost(c) \/ Reach(c) \/ Reply(c)
  BY <1>2 DEF StartPost, Reach, Reply
<1>3. CASE Answered(c)
  BY <1>3 DEF Answered, Return
<1> QED BY <1>1, <1>2, <1>3 DEF ChatHalf

LEMMA GiveUpGoes ==
  ASSUME Shape, NEW c \in Calls, GiveUp(c)
  PROVE  pc'[c] = pc[c] \/ (pc'[c] = "ended" /\ pc[c] \notin Gone)
<1>0. c \in Workers
  BY DEF Workers
<1> QED BY <1>0 DEF Shape, Go, GiveUp, Gone

\* What a coroutine does to the server: nothing, but for a chat that finds no instance.
ChatEffect(c) ==
  \/ UNCHANGED <<instances, leaving>>
  \/ Impatient # {} /\ c \notin inflight /\ \E n : Own(n) /\ n.model = ModelOf[c]

LEMMA ChatEffectIs ==
  ASSUME Base, CallInv, HeldInv, NEW c \in Calls, ChatHalf(c) \/ GiveUp(c)
  PROVE  ChatEffect(c)
<1>1. CASE Reach(c) /\ ~Loaded(ModelOf[c])
  <2>1. c \notin inflight /\ Impatient # {}
    BY <1>1, ReachWho DEF Reach
  <2> QED BY <1>1, <2>1, ReachIs DEF Base, ChatEffect
<1>2. CASE Reach(c) /\ Loaded(ModelOf[c])
  BY <1>2 DEF Reach, model, ChatEffect
<1>3. CASE ~Reach(c)
  BY <1>3, ChatStands DEF ChatHalf, Base, ChatEffect
<1> QED BY <1>1, <1>2, <1>3

LEMMA ChatServer ==
  ASSUME Base, NEW c \in Calls, ChatEffect(c)
  PROVE  ServerInv'
BY FewerKeepServer, OwnKeepsServer DEF Base, ChatEffect

LEMMA ChatLeaving ==
  ASSUME Base, NEW c \in Calls, ChatEffect(c), ChatHalf(c) \/ GiveUp(c)
  PROVE  LeavingInv'
<1>1. leaving' \subseteq leaving /\ leaving' \subseteq instances'
  <2>1. CASE UNCHANGED <<instances, leaving>>
    BY <2>1 DEF Base, LeavingInv
  <2>2. ASSUME NEW n, Own(n) PROVE leaving' \subseteq leaving /\ leaving' \subseteq instances'
    BY <2>2 DEF Own
  <2> QED BY <2>1, <2>2 DEF ChatEffect
<1>2. Only(c) /\ UNCHANGED pending
  BY ChatOnly DEF Base
<1>3. pc[c] \in Gone => pc'[c] \in Gone
  BY ChatGoes, GiveUpGoes DEF Base, Gone
<1>4. ASSUME NEW i \in leaving' PROVE \E v \in Workers : pc'[v] \in Gone /\ pending'[v] = i
  <2>1. PICK v \in Workers : pc[v] \in Gone /\ pending[v] = i
    BY <1>1, <1>4 DEF Base, LeavingInv
  <2>2. pc'[v] \in Gone
    BY <1>2, <1>3, <2>1 DEF Only
  <2> QED BY <1>2, <2>1, <2>2
<1> QED BY <1>1, <1>4 DEF LeavingInv

LEMMA ChatSound ==
  ASSUME Base, NEW c \in Calls, ChatEffect(c), ChatHalf(c) \/ GiveUp(c), NEW v \in Workers, Sound(v)
  PROVE  Sound(v)'
<1>1. Only(c) /\ UNCHANGED <<claim, pending, queue, vacated>>
  BY ChatOnly DEF Base
<1>2. CASE v # c \/ pc'[c] = pc[c]
  <2>1. Still(v)
    BY <1>1, <1>2 DEF Only, Still
  <2> QED BY <2>1, SoundFewer, SoundOwn DEF Base, ChatEffect
<1>3. CASE v = c /\ pc'[c] # pc[c]
  <2>1. pc'[v] \notin Deciding \cup {"quick", "lock", "file"}
    BY <1>3, ChatGoes, GiveUpGoes DEF Base, Deciding
  <2> QED BY <2>1, SoundAway
<1> QED BY <1>2, <1>3

\* An instance goes.
Goes(i) ==
  /\ instances' = instances \ {i} /\ leaving' = leaving \ {i} /\ i \in instances
  /\ UNCHANGED <<on, thread, counts, locks, claim, pc, caller, result, retried>>

LEMMA GoesKeeps ==
  ASSUME Base, NEW i, Goes(i), \A v \in Workers : Sound(v)
  PROVE  ServerInv' /\ LeavingInv' /\ \A v \in Workers : Sound(v)'
<1>1. UNCHANGED <<pc, pending, claim, queue, vacated>> /\ instances' \subseteq instances
  BY DEF Goes, thread
<1>2. LeavingInv'
  BY <1>1 DEF Goes, Base, LeavingInv
<1>3. ASSUME NEW v \in Workers PROVE Sound(v)'
  <2>1. Still(v)
    BY <1>1 DEF Still
  <2> QED BY <1>1, <2>1, SoundFewer
<1> QED BY <1>1, <1>2, <1>3, FewerKeepServer DEF Base

----------------------------------------------------------------------------
(* The instance a chat in flight was promised. *)

\* It stands while no instance of its model but LM Studio's own comes or goes.
\* Nothing of the model comes, and only what LM Studio loaded by itself goes.
Keeps(m) ==
  Of(m)' \subseteq Of(m) /\ \A i \in Of(m) : ~i.jit => i \in Of(m)'

LEMMA HeldStands ==
  ASSUME NEW c \in Calls, Held(c), Keeps(ModelOf[c])
  PROVE  Held(c)'
<1>1. PICK i \in Of(ModelOf[c]) : ~i.jit /\ i.ctx >= Need[c] /\ Front(i)
  BY DEF Held
<1>2. i \in Of(ModelOf[c])' /\ i.model = ModelOf[c]
  BY <1>1 DEF Of, Keeps
<1>3. Front(i)'
  BY <1>1, <1>2 DEF Front, Keeps
<1> QED BY <1>1, <1>2, <1>3 DEF Held

LEMMA HeldSame ==
  ASSUME NEW c \in Calls, Held(c), Of(ModelOf[c])' = Of(ModelOf[c])
  PROVE  Held(c)'
BY HeldStands DEF Keeps

LEMMA HeldEffect ==
  ASSUME NEW w \in Workers, Effect(w), NEW c \in Calls, Held(c)
  PROVE  Held(c)'
<1>1. CASE UNCHANGED instances
  BY <1>1, HeldSame DEF Of
<1>2. ASSUME NEW n, Added(n) PROVE Held(c)'
  <2>1. n.model # ModelOf[c]
    BY <1>2 DEF Added, Held
  <2> QED BY <1>2, <2>1, HeldSame DEF Added, Of
<1> QED BY <1>1, <1>2 DEF Effect

LEMMA HeldChatEffect ==
  ASSUME NEW d \in Calls, ChatEffect(d), NEW c \in Calls, Held(c)
  PROVE  Held(c)'
<1>1. CASE UNCHANGED instances
  BY <1>1, HeldSame DEF Of
<1>2. ASSUME NEW n, Own(n) PROVE Held(c)'
  <2>1. n.model # ModelOf[c]
    BY <1>2 DEF Own, Held, Loaded
  <2>2. \A i \in instances' : i = n \/ i \in instances
    BY <1>2 DEF Own
  <2>3. \A i \in instances : ~i.jit => i \in instances'
    BY <1>2 DEF Own
  <2>4. Keeps(ModelOf[c])
    BY <2>1, <2>2, <2>3 DEF Of, Keeps
  <2> QED BY <2>4, HeldStands
<1> QED BY <1>1, <1>2 DEF ChatEffect

\* No instance of a model with a chat in flight goes, but one LM Studio loaded by itself.
LEMMA HeldGoes ==
  ASSUME Undisturbed, KeyInv, LeavingInv, \A v \in Workers : Sound(v), NEW i, Goes(i), i \in leaving \/ i.jit,
         NEW c \in inflight, c \in Calls, Held(c)
  PROVE  Held(c)'
<1>1. i.model # ModelOf[c] \/ i.jit
  <2> SUFFICES ASSUME i \in leaving PROVE i.model # ModelOf[c]
    OBVIOUS
  <2>1. PICK v \in Workers : pc[v] \in Gone /\ pending[v] = i
    BY DEF LeavingInv
  <2>2. claim[v] = i.model
    BY <2>1 DEF Sound, Waits
  <2>3. ProcOf[v] = ProcOf[c]
    BY DEF Undisturbed, Workers
  <2> QED BY <2>2, <2>3 DEF KeyInv, BusyKept, Unloading
<1>2. instances' \subseteq instances /\ \A j \in instances : j # i => j \in instances'
  BY DEF Goes
<1>3. Keeps(ModelOf[c])
  BY <1>1, <1>2 DEF Of, Keeps
<1> QED BY <1>3, HeldStands

\* The parts of HeldInv, of one call.
Sent(c) ==
  /\ c \in inflight /\ pc[c] \in {"send", "posting", "generating"} => Held(c)
  /\ c \in inflight /\ pc[c] \in {"generating", "answered"} => on[c].ctx >= Need[c]
  /\ result[c] = "ok" => pc[c] = "ended" /\ on[c].ctx >= Need[c]

LEMMA HeldInvIs ==
  ASSUME KeyInv
  PROVE  HeldInv <=> \A c \in Calls : Sent(c)
BY DEF HeldInv, Sent, KeyInv

LEMMA SentStands ==
  ASSUME NEW c \in Calls, Sent(c), Held(c) /\ c \in inflight => Held(c)', pc'[c] = pc[c], on'[c] = on[c],
         c \in inflight' => c \in inflight, result'[c] = result[c] \/ result'[c] # "ok"
  PROVE  Sent(c)'
BY DEF Sent

LEMMA PrepSent ==
  ASSUME Base, KeyInv, NEW w \in Workers, Prep(w), Effect(w), NEW c \in Calls, Sent(c)
  PROVE  Sent(c)'
<1>1. Prepares(w)
  BY WorkPrepares DEF Base
<1>2. on'[c] = on[c] /\ inflight' = inflight /\ (result'[c] = result[c] \/ result'[c] # "ok")
  BY <1>1 DEF Prepares
<1>3. CASE c # w
  <2>1. pc'[c] = pc[c]
    BY <1>1, <1>3 DEF Prepares, Only, Workers
  <2> QED BY <1>2, <2>1, HeldEffect, SentStands
<1>4. CASE c = w
  <2>1. result[c] # "ok" /\ pc'[c] \notin {"send", "posting", "generating", "answered"}
    BY <1>1, <1>4 DEF Prepares, Sent, Deciding
  <2> QED BY <1>2, <2>1 DEF Sent
<1> QED BY <1>3, <1>4

\* The entry that holds a prompt is not one LM Studio loaded by itself.
LEMMA ServesHolds ==
  ASSUME Base, NEW c \in Calls, Serves(c)
  PROVE  Held(c)
<1> DEFINE i == First(ModelOf[c])
<1>1. i \in Of(ModelOf[c]) /\ Front(i) /\ i.ctx >= Need[c]
  BY FirstStands DEF Base, Serves, Window, model
<1>2. i \in instances
  BY <1>1 DEF Of
<1> HIDE DEF i
<1>3. ~i.jit
  <2> SUFFICES ASSUME i.jit PROVE FALSE
    OBVIOUS
  <2>1. i.ctx = Jit /\ Impatient # {}
    BY <1>2 DEF Base, ServerInv
  <2> QED BY <1>1, <2>1, WindowAssumption DEF Base, Undisturbed
<1> QED BY <1>1, <1>3 DEF Held

LEMMA HeldAnswers ==
  ASSUME Base, NEW c \in Calls, Held(c), Reach(c)
  PROVE  on'[c].ctx >= Need[c]
<1>1. PICK i \in Of(ModelOf[c]) : ~i.jit /\ i.ctx >= Need[c] /\ Front(i)
  BY DEF Held
<1>2. i \in instances /\ i.model = ModelOf[c]
  BY <1>1 DEF Of
<1>3. Loaded(ModelOf[c]) /\ First(ModelOf[c]) = i
  BY <1>1, <1>2, FirstIs DEF Base
<1>4. on'[c] = i
  BY <1>3 DEF Reach, model, Base, Shape
<1> QED BY <1>1, <1>4

LEMMA ChatSentOthers ==
  ASSUME Base, NEW d \in Calls, ChatEffect(d), ChatHalf(d) \/ GiveUp(d), NEW c \in Calls, c # d, Sent(c)
  PROVE  Sent(c)'
<1>1. on'[c] = on[c] /\ result'[c] = result[c] /\ (c \in inflight' <=> c \in inflight)
  BY ChatOnly DEF Base
<1>2. pc'[c] = pc[c]
  <2>1. Only(d) /\ c \in Workers
    BY ChatOnly DEF Base, Workers
  <2> QED BY <2>1 DEF Only
<1> QED BY <1>1, <1>2, HeldChatEffect, SentStands

\* A chat answered as clean was answered by the instance that held its prompt.
LEMMA ChatSent ==
  ASSUME Base, CallInv, NEW c \in Calls, ChatEffect(c), ChatHalf(c) \/ GiveUp(c), Sent(c)
  PROVE  Sent(c)'
<1>0. c \in Workers
  BY DEF Workers
<1>1. CASE Reach(c)
  <2>1. pc[c] = "posting" /\ pc'[c] = "generating" /\ inflight' = inflight /\ result'[c] = result[c]
    BY <1>0, <1>1 DEF Reach, Go, counts, Base, Shape
  <2>2. c \in inflight => Held(c)
    BY <2>1 DEF Sent
  <2>3. c \in inflight => Held(c)' /\ on'[c].ctx >= Need[c]
    BY <1>1, <2>2, HeldChatEffect, HeldAnswers
  <2>4. result[c] # "ok"
    BY <2>1 DEF Sent
  <2> QED BY <2>1, <2>3, <2>4 DEF Sent
<1>2. CASE ~Reach(c)
  <2>0. UNCHANGED <<instances, leaving, on>>
    BY <1>2, ChatStands DEF ChatHalf, Base
  <2>1. Held(c) => Held(c)'
    BY HeldChatEffect
  <2>2. CASE GiveUp(c)
    <3>1. c \notin inflight' /\ result'[c] = "gave_up"
      BY <1>0, <2>2 DEF GiveUp, Base, Shape
    <3> QED BY <3>1 DEF Sent
  <2>3. CASE Admit(c)
    <3>1. pc[c] = "admit" /\ pc'[c] \in {"ended", "recheck"} /\ (result'[c] = result[c] \/ result'[c] # "ok")
      BY <1>0, <2>3 DEF Admit, Return, Go, Base, Shape
    <3> QED BY <3>1 DEF Sent
  <2>4. CASE Recheck(c)
    <3>1. CASE pc[c] = "recheck" /\ Serves(c) /\ Go(c, "send") /\ UNCHANGED <<result, inflight>>
      <4>1. pc'[c] = "send" /\ Held(c)
        BY <1>0, <3>1, ServesHolds DEF Go, Base, Shape
      <4> QED BY <2>1, <3>1, <4>1 DEF Sent
    <3>2. CASE pc[c] = "recheck" /\ \E k \in {"model_unavailable", "context_too_small"} : Return(c, k)
      <4>1. pc'[c] = "ended" /\ (result'[c] = result[c] \/ result'[c] # "ok")
        BY <1>0, <3>2 DEF Return, Go, Base, Shape
      <4> QED BY <3>2, <4>1 DEF Sent
    <3>3. "recheck" \notin Faults
      BY DEF Base, Undisturbed
    <3> QED BY <2>4, <3>1, <3>2, <3>3 DEF Recheck
  <2>5. CASE StartPost(c)
    <3>1. pc[c] = "send" /\ pc'[c] = "posting" /\ UNCHANGED <<result, inflight>>
      BY <1>0, <2>5 DEF StartPost, Go, Base, Shape
    <3> QED BY <2>1, <3>1 DEF Sent
  <2>6. CASE Reply(c)
    <3>1. pc[c] = "generating" /\ pc'[c] \in {"answered", "failed", "ended", "send"} /\ UNCHANGED <<result, inflight>>
      BY <1>0, <2>6 DEF Reply, Go, Base, Shape
    <3> QED BY <2>0, <2>1, <3>1 DEF Sent
  <2>7. CASE Answered(c)
    <3>1. PICK k \in {"truncated", "ok", "chat_failed"} : Return(c, k) /\ (k = "ok" => pc[c] = "answered")
      BY <2>7 DEF Answered
    <3>2. pc[c] \in {"answered", "failed"}
      BY <2>7 DEF Answered
    <3>3. /\ pc'[c] = "ended" /\ result'[c] = (IF result[c] = None THEN k ELSE result[c])
      BY <1>0, <3>1 DEF Return, Go, Base, Shape
    <3>4. result[c] # "ok"
      BY <3>2 DEF Sent
    <3>5. result'[c] = "ok" => result[c] = None /\ pc[c] = "answered"
      BY <3>1, <3>3, <3>4
    <3>6. result[c] = None /\ pc[c] = "answered" => c \in inflight
      BY WorkersAssumption DEF CallInv
    <3> QED BY <2>0, <3>3, <3>5, <3>6 DEF Sent
  <2> QED BY <1>2, <2>2, <2>3, <2>4, <2>5, <2>6, <2>7 DEF ChatHalf
<1> QED BY <1>1, <1>2

LEMMA GoesSent ==
  ASSUME Base, KeyInv, \A v \in Workers : Sound(v), NEW i, Goes(i), i \in leaving \/ i.jit, NEW c \in Calls, Sent(c)
  PROVE  Sent(c)'
<1>1. UNCHANGED <<pc, on, inflight, result>>
  BY DEF Goes, counts
<1>2. Held(c) /\ c \in inflight => Held(c)'
  BY HeldGoes DEF Base
<1> QED BY <1>1, <1>2, SentStands

----------------------------------------------------------------------------
(* The theorem. *)

LEMMA CalmInit == Undisturbed /\ Init => CalmInv
<1> SUFFICES ASSUME Undisturbed, Init PROVE CalmInv
  OBVIOUS
<1>0. \A c \in Calls : c \in Workers
  BY DEF Workers
<1>1. Shape
  BY <1>0 DEF Init, Shape
<1>2. KeyInv
  BY DEF Init, KeyInv, BusyKept
<1>3. LockInv
  BY DEF Init, LockInv, Deciding
<1>4. ServerInv
  BY DEF Init, Undisturbed, ServerInv
<1>5. LeavingInv
  BY DEF Init, LeavingInv
<1>6. ASSUME NEW w \in Workers PROVE Sound(w)
  BY <1>0 DEF Init, Sound, Waits, Loads, Gone, Swapping
<1>7. CallInv
  BY <1>0 DEF Init, CallInv
<1>8. HeldInv
  BY <1>0, WorkersAssumption DEF Init, HeldInv
<1> QED BY <1>1, <1>2, <1>3, <1>4, <1>5, <1>6, <1>7, <1>8 DEF CalmInv

\* What CalmInv adds to the invariants that hold of every instance.
Rest == ServerInv /\ LeavingInv /\ (\A w \in Workers : Sound(w)) /\ HeldInv

LEMMA RestNext == Undisturbed /\ CalmInv /\ [Next]_vars => Rest'
<1> SUFFICES ASSUME Undisturbed, CalmInv, [Next]_vars PROVE Rest'
  OBVIOUS
<1>1. /\ Base /\ KeyInv /\ CallInv /\ HeldInv
  BY DEF CalmInv, Base
<1>2. /\ \A v \in Workers : Sound(v)
      /\ \A c \in Calls : Sent(c)
  BY <1>1, HeldInvIs DEF CalmInv
<1>3. KeyInv'
  BY <1>1, KeyNext
<1>4. (\A c \in Calls : Sent(c)') => HeldInv'
  <2>1. HeldInv' <=> \A c \in Calls : Sent(c)'
    BY <1>3 DEF HeldInv, Sent, KeyInv
  <2> QED BY <2>1
<1>5. ASSUME NEW w \in Workers, Prep(w) PROVE Rest'
  <2>1. Sound(w)' /\ Effect(w)
    BY <1>1, <1>2, <1>5, PrepSound
  <2>2. ServerInv' /\ LeavingInv'
    BY <1>1, <1>5, <2>1, EffectKeepsServer, PrepLeaving
  <2>3. \A v \in Workers : Sound(v)'
    BY <1>1, <1>2, <1>5, <2>1, PrepOthers
  <2>4. \A c \in Calls : Sent(c)'
    BY <1>1, <1>2, <1>5, <2>1, PrepSent
  <2> QED BY <1>4, <2>2, <2>3, <2>4 DEF Rest
<1>6. ASSUME NEW c \in Calls, ChatHalf(c) \/ GiveUp(c) PROVE Rest'
  <2>1. ChatEffect(c)
    BY <1>1, <1>6, ChatEffectIs
  <2>2. ServerInv' /\ LeavingInv'
    BY <1>1, <1>6, <2>1, ChatServer, ChatLeaving
  <2>3. \A v \in Workers : Sound(v)'
    BY <1>1, <1>2, <1>6, <2>1, ChatSound
  <2>4. \A d \in Calls : Sent(d)'
    BY <1>1, <1>2, <1>6, <2>1, ChatSent, ChatSentOthers
  <2> QED BY <1>4, <2>2, <2>3, <2>4 DEF Rest
<1>7. ASSUME NEW i \in instances, Leave(i) \/ Expire(i) PROVE Rest'
  <2>1. Goes(i) /\ (i \in leaving \/ i.jit)
    BY <1>7 DEF Leave, Expire, Goes
  <2>2. ServerInv' /\ LeavingInv' /\ \A v \in Workers : Sound(v)'
    BY <1>1, <1>2, <2>1, GoesKeeps
  <2>3. \A c \in Calls : Sent(c)'
    BY <1>1, <1>2, <2>1, GoesSent
  <2> QED BY <1>4, <2>2, <2>3 DEF Rest
<1>8. CASE UNCHANGED vars
  <2>1. UNCHANGED <<instances, leaving, on, pc, claim, pending, result, queue, vacated, inflight>>
    BY <1>8 DEF vars, server, thread, counts
  <2>2. ServerInv' /\ LeavingInv'
    BY <1>1, <2>1 DEF Base, ServerInv, LeavingInv
  <2>3. ASSUME NEW v \in Workers PROVE Sound(v)'
    BY <1>2, <2>1, SoundFewer DEF Still
  <2>4. ASSUME NEW c \in Calls PROVE Sent(c)'
    BY <1>2, <2>1, HeldSame, SentStands DEF Of
  <2> QED BY <1>4, <2>2, <2>3, <2>4 DEF Rest
<1>9. ASSUME NEW w \in Workers, Work(w) PROVE Prep(w) \/ (w \in Calls /\ ChatHalf(w))
  BY <1>9 DEF Work, Prep
<1> QED BY <1>5, <1>6, <1>7, <1>8, <1>9 DEF Next

\* In one session whose unloads are carried out and whose catalog is readable before the
\* send, an answer given as clean was computed in a window that holds the prompt (policy 3),
\* where either no caller is cancelled, or nobody swaps and no prompt fits LM Studio's own
\* window: then _inflight_add, the re-check and the two locks together leave the instance
\* that was looked at in place until it answers.
THEOREM NoSilentTruncationHolds ==
  ASSUME Undisturbed
  PROVE  Spec => []NoSilentTruncation
<1>1. Init => CalmInv
  BY CalmInit
<1>2. CalmInv /\ [Next]_vars => CalmInv'
  <2>1. CalmInv => Shape /\ KeyInv /\ LockInv /\ CallInv
    BY DEF CalmInv
  <2>2. CalmInv /\ [Next]_vars => Shape' /\ KeyInv' /\ LockInv' /\ CallInv' /\ Rest'
    BY <2>1, ShapeNext, KeyNext, LockNext, CallNext, RestNext
  <2> QED BY <2>2 DEF CalmInv, Rest
<1>3. CalmInv => NoSilentTruncation
  BY DEF CalmInv, HeldInv, NoSilentTruncation
<1> QED BY <1>1, <1>2, <1>3, PTL DEF Spec
=============================================================================
