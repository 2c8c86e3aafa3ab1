--------------------------------- MODULE Hub ----------------------------------
(* hub.py: the fleet's shared record of turns, one SQLite file that every server  *)
(* process opens, uses and closes for each operation.  Table turns is the record,   *)
(* table session_meta a cache of it with one row per session (its full key:         *)
(* project, session, agent).  A transaction is one step, since SQLite admits one    *)
(* writer; everything that a process reads outside of one is a step of its own.     *)
EXTENDS Integers, FiniteSets

CONSTANTS
  Servers,     \* the server processes
  Keys,        \* full keys of sessions
  Unknown,     \* those whose agent is "unknown", prune_junk's default target
  Cap,         \* _max_rows: more turns than this are swept, 0 or less never
  SweepEvery,  \* every so many writes of a process it sweeps
  MaxTurns     \* bound of the turns ever begun

ASSUME HubAssumption ==
  /\ Unknown \subseteq Keys /\ Cap \in Int /\ SweepEvery \in Nat \ {0} /\ MaxTurns \in Nat

VARIABLES
  schema,   \* of session_meta: "old" (without project in its key), "none", "new"
  turns,    \* rows of turns: its time, its session's key, whether it took no time
  meta,     \* rows of session_meta: turn_count, and the time of the turn it shows
  now,
  hubAt,    \* where each process is in its operation
  row,      \* the turn it mirrors
  excess,   \* how many turns its sweep will delete
  writes,   \* _sweep_counter
  rebuilt   \* session_meta was dropped at some time

hubVars == <<schema, turns, meta, now, hubAt, row, excess, writes, rebuilt>>

NoRow == [ts |-> 0, key |-> CHOOSE k \in Keys : TRUE, quick |-> FALSE]

\* A new database, or one from before session_meta's key had the project, with a turn.
HubInit ==
  /\ schema \in {"none", "old"}
  /\ turns = IF schema = "old" THEN {NoRow} ELSE {}
  /\ meta = <<>> /\ now = 0 /\ rebuilt = FALSE
  /\ hubAt = [s \in Servers |-> "idle"] /\ row = [s \in Servers |-> NoRow]
  /\ excess = [s \in Servers |-> 0] /\ writes = [s \in Servers |-> 0]

HubGo(s, place) == hubAt' = [hubAt EXCEPT ![s] = place]

TurnsOf(k, rows) == {t \in rows : t.key = k}

-----------------------------------------------------------------------------
(* _connect: the schema is looked at, dropped and created in three statements that  *)
(* commit one by one.                                                               *)

Look(s) ==
  /\ hubAt[s] = "idle"
  /\ HubGo(s, IF schema = "old" THEN "drop" ELSE "create")
  /\ UNCHANGED <<schema, turns, meta, now, row, excess, writes, rebuilt>>

\* What is dropped is whatever table is there by now.
Drop(s) ==
  /\ hubAt[s] = "drop" /\ HubGo(s, "create")
  /\ schema' = "none" /\ meta' = <<>> /\ rebuilt' = TRUE
  /\ UNCHANGED <<turns, now, row, excess, writes>>

Create(s) ==
  /\ hubAt[s] = "create" /\ HubGo(s, "open")
  /\ schema' = IF schema = "none" THEN "new" ELSE schema
  /\ UNCHANGED <<turns, meta, now, row, excess, writes, rebuilt>>

-----------------------------------------------------------------------------
(* write_turn *)

\* The time is taken before the transaction has its turn.
Mirror(s) ==
  /\ hubAt[s] = "open" /\ now < MaxTurns /\ now' = now + 1 /\ HubGo(s, "write")
  /\ \E k \in Keys, quick \in BOOLEAN :
       /\ quick => k \in Unknown
       /\ row' = [row EXCEPT ![s] = [ts |-> now + 1, key |-> k, quick |-> quick]]
  /\ UNCHANGED <<schema, turns, meta, excess, writes, rebuilt>>

\* The session's row shows the turn written last, whatever its time.
Upserted(t) ==
  [k \in DOMAIN meta \cup {t.key} |->
     IF k # t.key THEN meta[k]
     ELSE [count |-> (IF k \in DOMAIN meta THEN meta[k].count ELSE 0) + 1, shows |-> t.ts]]

Write(s) ==
  /\ hubAt[s] = "write" /\ schema = "new"
  /\ turns' = turns \cup {row[s]} /\ meta' = Upserted(row[s])
  /\ writes' = [writes EXCEPT ![s] = (@ + 1) % SweepEvery]
  /\ HubGo(s, IF writes'[s] = 0 THEN "sweep" ELSE "idle")
  /\ row' = [row EXCEPT ![s] = NoRow]
  /\ UNCHANGED <<schema, now, excess, rebuilt>>

\* The statement waited too long, or the table is gone: nothing is committed.
Fails(s) ==
  /\ hubAt[s] \in {"drop", "create", "open", "write", "evict"} /\ HubGo(s, "idle")
  /\ row' = [row EXCEPT ![s] = NoRow] /\ excess' = [excess EXCEPT ![s] = 0]
  /\ UNCHANGED <<schema, turns, meta, now, writes, rebuilt>>

-----------------------------------------------------------------------------
(* _sweep counts before its transaction; prune_junk needs no count.               *)

Count(s) ==
  /\ hubAt[s] = "sweep"
  /\ HubGo(s, IF Cap > 0 /\ Cardinality(turns) > Cap THEN "evict" ELSE "idle")
  /\ excess' = [excess EXCEPT ![s] = IF hubAt'[s] = "evict" THEN Cardinality(turns) - (Cap * 9) \div 10 ELSE 0]
  /\ UNCHANGED <<schema, turns, meta, now, row, writes, rebuilt>>

Oldest(n) == {t \in turns : Cardinality({u \in turns : u.ts < t.ts}) < n}

\* Mutant of Recounted: a sweep drops the sessions that have no turns left, and no more.
RecountedNever(left) == [k \in {k \in DOMAIN meta : TurnsOf(k, left) # {}} |-> meta[k]]

\* Orphaned rows go, the others are counted again.
Recounted(left) ==
  [k \in {k \in DOMAIN meta : TurnsOf(k, left) # {}} |->
     [meta[k] EXCEPT !.count = Cardinality(TurnsOf(k, left))]]

Evict(s) ==
  /\ hubAt[s] = "evict" /\ HubGo(s, "idle") /\ schema = "new"
  /\ turns' = turns \ Oldest(excess[s])
  /\ meta' = Recounted(turns')
  /\ excess' = [excess EXCEPT ![s] = 0]
  /\ UNCHANGED <<schema, now, row, writes, rebuilt>>

Junk == {t \in turns : t.key \in Unknown /\ t.quick}
LatestOf(k, rows) == CHOOSE t \in TurnsOf(k, rows) : \A u \in TurnsOf(k, rows) : u.ts <= t.ts

PruneJunk(s) ==
  /\ hubAt[s] = "open" /\ HubGo(s, "idle") /\ schema = "new"
  /\ turns' = turns \ Junk
  /\ meta' = [k \in DOMAIN Recounted(turns') |->
                [Recounted(turns')[k] EXCEPT !.shows = LatestOf(k, turns').ts]]
  /\ UNCHANGED <<schema, now, row, excess, writes, rebuilt>>

\* The process dies; what it had not committed is rolled back.
ServerDies(s) ==
  /\ hubAt[s] # "idle" /\ HubGo(s, "idle")
  /\ writes' = [writes EXCEPT ![s] = 0] /\ excess' = [excess EXCEPT ![s] = 0]
  /\ row' = [row EXCEPT ![s] = NoRow]
  /\ UNCHANGED <<schema, turns, meta, now, rebuilt>>

HubNext ==
  \E s \in Servers :
    \/ Look(s) \/ Drop(s) \/ Create(s)
    \/ Mirror(s) \/ Write(s) \/ Fails(s) \/ ServerDies(s)
    \/ Count(s) \/ Evict(s) \/ PruneJunk(s)

HubSpec == HubInit /\ [][HubNext]_hubVars

-----------------------------------------------------------------------------
(* Properties. *)

\* session_meta, which writers count up and sweeps and prunings of other processes
\* count anew, has a row for exactly the sessions that have turns left, with their
\* number; and when a process of a newer version has rebuilt the table under the
\* others, no row claims turns that are not there.
MetaTellsTheTurns ==
  /\ \A k \in DOMAIN meta : meta[k].count \in 1 .. Cardinality(TurnsOf(k, turns))
  /\ ~rebuilt /\ schema = "new" =>
       \A k \in Keys : LET n == Cardinality(TurnsOf(k, turns))
                       IN  IF n = 0 THEN k \notin DOMAIN meta ELSE k \in DOMAIN meta /\ meta[k].count = n

\* "evict the oldest first (to 90%)" (_sweep): not so when two processes have counted
\* the same turns and both sweep, or a pruning comes between the count and the sweep.
SweepsToNinety ==
  [][\A s \in Servers : Evict(s) => Cardinality(turns') >= (Cap * 9) \div 10]_hubVars
=============================================================================
