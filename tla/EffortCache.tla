------------------------------ MODULE EffortCache -----------------------------
(* openrouter._model_efforts and _clamp_effort: what efforts a model supports,    *)
(* from a catalog of some 400 models that is downloaded under a lock, off the      *)
(* event loop, at most once per refresh window.  A member is one call of a panel.  *)
EXTENDS Integers, Sequences, FiniteSets

CONSTANTS
  Members,    \* concurrent calls
  Models, Listed,  \* the models asked for, and those the catalog lists
  Refresh,    \* _EFFORT_REFRESH_S, after a good download
  Again,      \* _EFFORT_RETRY_S, after a failed one
  MaxTime,    \* bound of the clock
  Nobody, NoModel

ASSUME RefreshAssumption == {Refresh, Again, MaxTime} \subseteq Nat /\ Listed \subseteq Models
ASSUME NobodyAssumption == Nobody \notin Members

VARIABLES
  lookup,     \* per member: idle, waiting for the lock, loading, or answered
  model,      \* the model it asks for
  learnt,     \* what it was told: the model is known, or not
  holder,     \* of _EFFORT_LOCK
  known,      \* _EFFORT_CACHE: the models whose efforts are cached
  refreshAt,  \* _effort_refresh_at
  now,
  downloads   \* every download: when it began and ended, and whether it succeeded

effortVars == <<lookup, model, learnt, holder, known, refreshAt, now, downloads>>

EffortInit ==
  /\ lookup = [m \in Members |-> "idle"] /\ model = [m \in Members |-> NoModel]
  /\ learnt = [m \in Members |-> "nothing"]
  /\ holder = Nobody /\ known = {} /\ refreshAt = 0 /\ now = 0 /\ downloads = <<>>

\* A call looks its model's efforts up, in a thread of its own.
LookUp(m) ==
  /\ lookup[m] = "idle"
  /\ \E x \in Models : model' = [model EXCEPT ![m] = x]
  /\ lookup' = [lookup EXCEPT ![m] = "waiting"]
  /\ UNCHANGED <<learnt, holder, known, refreshAt, now, downloads>>

Answers(m, cache) ==
  /\ lookup' = [lookup EXCEPT ![m] = "answered"]
  /\ learnt' = [learnt EXCEPT ![m] = IF model[m] \in cache THEN "known" ELSE "omit"]

\* Known, or fetched (or failed) too recently to ask again.
Cached(m) == model[m] \in known \/ now < refreshAt

\* Mutant of Locked: the cache is consulted before the lock is taken.
LockedLate(m) ==
  /\ lookup[m] = "waiting"
  /\ IF Cached(m)
       THEN Answers(m, known) /\ UNCHANGED <<holder, downloads>>
       ELSE /\ lookup' = [lookup EXCEPT ![m] = "loading"] /\ holder' = m
            /\ downloads' = Append(downloads, [by |-> m, began |-> now, ended |-> -1, good |-> FALSE])
            /\ UNCHANGED learnt
  /\ UNCHANGED <<model, known, refreshAt, now>>

\* The lock is taken; a hit or a miss inside the window is answered, and anything
\* else downloads the catalog, still under the lock.
Locked(m) ==
  /\ lookup[m] = "waiting" /\ holder = Nobody
  /\ IF Cached(m)
       THEN Answers(m, known) /\ UNCHANGED <<holder, downloads>>
       ELSE /\ lookup' = [lookup EXCEPT ![m] = "loading"] /\ holder' = m
            /\ downloads' = Append(downloads, [by |-> m, began |-> now, ended |-> -1, good |-> FALSE])
            /\ UNCHANGED learnt
  /\ UNCHANGED <<model, known, refreshAt, now>>

\* The download ends, well or not, and opens the next window.
Downloaded(m) ==
  /\ lookup[m] = "loading"
  /\ \E good \in BOOLEAN, i \in DOMAIN downloads :
       /\ downloads[i].by = m /\ downloads[i].ended = -1
       /\ refreshAt' = now + (IF good THEN Refresh ELSE Again)
       /\ known' = IF good THEN known \cup Listed ELSE known
       /\ downloads' = [downloads EXCEPT ![i].ended = now, ![i].good = good]
  /\ Answers(m, known')
  /\ holder' = IF holder = m THEN Nobody ELSE holder
  /\ UNCHANGED <<model, now>>

\* The call goes on, with the effort its model supports or without the field.
Sent(m) ==
  /\ lookup[m] = "answered"
  /\ lookup' = [lookup EXCEPT ![m] = "idle"] /\ model' = [model EXCEPT ![m] = NoModel]
  /\ learnt' = [learnt EXCEPT ![m] = "nothing"]
  /\ UNCHANGED <<holder, known, refreshAt, now, downloads>>

EffortTick == now < MaxTime /\ now' = now + 1 /\ UNCHANGED <<lookup, model, learnt, holder, known, refreshAt, downloads>>

EffortNext ==
  \/ \E m \in Members : LookUp(m) \/ Locked(m) \/ Downloaded(m) \/ Sent(m)
  \/ EffortTick
=============================================================================
