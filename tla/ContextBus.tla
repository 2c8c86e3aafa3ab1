----------------------------- MODULE ContextBus -----------------------------
(***************************************************************************)
(* The LAN context bus: the owner daemon (context_busd.py), its clients    *)
(* (context_bus.py, reached through context_store.py) and each client's    *)
(* rollback guard (context_hwm.py).                                        *)
(*                                                                         *)
(* A client sends one request at a time and gives up on it after a         *)
(* timeout, but what it sent may still reach the daemon.  The daemon's     *)
(* threads each run one SQLite statement, so a request is handled in one   *)
(* step.  Values are sealed and say who wrote them and when, and nothing   *)
(* else of them matters here: a row is a writer and a timestamp.           *)
(***************************************************************************)
EXTENDS Integers, FiniteSets

CONSTANTS
  Clients,     \* clients of the bus, each with its own guard database
  Keys,
  Ops,         \* the operations clients use
  Offset,      \* what each client's clock shows beyond the daemon's
  Skew,        \* SKEW_S
  Slack,       \* FLOOR_SLACK_NS
  Token,       \* requests are authenticated
  Cap,         \* ASK_FABLE_CONTEXT_MAX_ROWS; 0 is no cap
  SweepEvery,  \* _SWEEP_EVERY
  Restores,    \* the owner may restore a backup
  MaxTime,     \* bounds of the model: on the daemon's clock, and on the late
  MaxLate,     \* requests
  NoRow, NoRequest, NoReply

ASSUME ClockAssumption ==
  Offset \in [Clients -> Int] /\ Skew \in Nat /\ Slack \in Nat /\ MaxTime \in Nat /\ MaxLate \in Nat
ASSUME RetentionAssumption == Cap \in Nat /\ SweepEvery \in Nat \ {0}
ASSUME FlagAssumption == Token \in BOOLEAN /\ Restores \in BOOLEAN
ASSUME ClientsAssumption == Ops \subseteq {"put", "get", "delete"} /\ IsFiniteSet(Clients) /\ IsFiniteSet(Keys)

VARIABLES
  now,      \* the daemon's clock
  rows,     \* the bus database
  puts,     \* cfg.puts, modulo SweepEvery
  req,      \* the request a client waits for
  reply,    \* the daemon's answer to it, on its way
  late,     \* requests given up by their clients that may still be handled
  marks,    \* the guard databases; 0 where there is no mark
  backup    \* a copy of the bus database

\* History: what each client's last operation told it of a value or of its age,
\* and the newest timestamp it has read from each key since it last deleted it.
VARIABLES outcome, seen

vars == <<now, rows, puts, req, reply, late, marks, backup, outcome, seen>>

Row == [writer : Clients, ts : Nat]
Request == [op : Ops, key : Keys, ts : Int, by : Clients]
Reply == [kind : {"stored", "stale", "rejected", "found", "absent", "deleted"},
          row : Row \cup {NoRow}]

ASSUME NullAssumption == NoRow \notin Row /\ NoRequest \notin Request /\ NoReply \notin Reply

TypeOK ==
  /\ now \in Nat /\ puts \in Nat
  /\ rows \in [Keys -> Row \cup {NoRow}] /\ backup \in [Keys -> Row \cup {NoRow}]
  /\ req \in [Clients -> Request \cup {NoRequest}]
  /\ reply \in [Clients -> Reply \cup {NoReply}]
  /\ \A c \in Clients : reply[c] # NoReply =>
       /\ req[c] # NoRequest
       /\ (reply[c].kind = "found") = (reply[c].row # NoRow)
  /\ late \subseteq Request
  /\ marks \in [Clients -> [Keys -> Nat]] /\ seen \in [Clients -> [Keys -> Nat]]
  /\ outcome \in [Clients -> {"none", "value", "refused", "stale"}]

Empty == [k \in Keys |-> NoRow]
Unmarked == [k \in Keys |-> 0]

Init ==
  /\ now = Skew
  /\ rows = Empty /\ backup = Empty /\ puts = 0
  /\ req = [c \in Clients |-> NoRequest] /\ reply = [c \in Clients |-> NoReply]
  /\ late = {}
  /\ marks = [c \in Clients |-> Unmarked] /\ seen = [c \in Clients |-> Unmarked]
  /\ outcome = [c \in Clients |-> "none"]

-----------------------------------------------------------------------------
(* The daemon. *)

Answer(kind, row) == [kind |-> kind, row |-> row]

\* The request was signed within the skew window.
Authorized(r) == Token => r.ts - now \in -Skew..Skew

\* Mutant of Sane: a timestamp from the future is accepted.
SaneAnyFuture(r) == r.ts >= 0

Sane(r) == r.ts >= 0 /\ r.ts <= now + Slack

\* Mutant of AboveFloor: no slack is given.
AboveFloorStrict(r) == rows[r.key] # NoRow => r.ts >= rows[r.key].ts

\* The guarded upsert: no row, or one that is not newer beyond the slack.
AboveFloor(r) == rows[r.key] # NoRow => r.ts >= rows[r.key].ts - Slack

Of(table, w) == {k \in Keys : table[k] # NoRow /\ table[k].writer = w}

\* Mutant of Evicted: the newest rows go.
EvictedNewest(table, w, gone) ==
  LET mine == Of(table, w)
      excess == IF Cardinality(mine) > Cap THEN Cardinality(mine) - (Cap * 9) \div 10 ELSE 0
  IN /\ Cardinality(gone \cap mine) = excess
     /\ \A k \in gone \cap mine, l \in mine \ gone : table[k].ts >= table[l].ts

\* Of a writer over its cap, the oldest rows go, down to nine tenths of the cap.
Evicted(table, w, gone) ==
  LET mine == Of(table, w)
      excess == IF Cardinality(mine) > Cap THEN Cardinality(mine) - (Cap * 9) \div 10 ELSE 0
  IN /\ Cardinality(gone \cap mine) = excess
     /\ \A k \in gone \cap mine, l \in mine \ gone : table[k].ts <= table[l].ts

Without(table, gone) == [k \in Keys |-> IF k \in gone THEN NoRow ELSE table[k]]

\* What the retention sweep may leave of the table.
Swept(table) ==
  IF Cap = 0 THEN {table}
  ELSE {Without(table, gone) : gone \in
         {g \in SUBSET {k \in Keys : table[k] # NoRow} : \A w \in Clients : Evicted(table, w, g)}}

\* What the daemon answers, from the table as it finds it.
Verdict(r) ==
  CASE ~Authorized(r) \/ (r.op = "put" /\ ~Sane(r)) -> Answer("rejected", NoRow)
    [] r.op = "put" /\ Authorized(r) /\ Sane(r) -> Answer(IF AboveFloor(r) THEN "stored" ELSE "stale", NoRow)
    [] OTHER -> IF rows[r.key] = NoRow THEN Answer("absent", NoRow)
                ELSE IF r.op = "get" THEN Answer("found", rows[r.key]) ELSE Answer("deleted", NoRow)

\* /v1/put
HandlePut(r) ==
  /\ r.op = "put" /\ Verdict(r).kind = "stored"
  /\ puts' = (puts + 1) % SweepEvery
  /\ LET stored == [rows EXCEPT ![r.key] = [writer |-> r.by, ts |-> r.ts]]
     IN rows' \in (IF puts' = 0 THEN Swept(stored) ELSE {stored})

\* /v1/delete leaves nothing behind, so the key's floor goes with the row.
HandleDelete(r) ==
  /\ r.op = "delete" /\ Verdict(r).kind = "deleted"
  /\ rows' = [rows EXCEPT ![r.key] = NoRow]
  /\ UNCHANGED puts

\* /v1/get, and whatever is refused or finds nothing.
HandleRest(r) ==
  /\ Verdict(r).kind \notin {"stored", "deleted"}
  /\ UNCHANGED <<rows, puts>>

Handle(r) == HandlePut(r) \/ HandleDelete(r) \/ HandleRest(r)

Serve(c) ==
  /\ req[c] # NoRequest /\ reply[c] = NoReply
  /\ Handle(req[c])
  /\ reply' = [reply EXCEPT ![c] = Verdict(req[c])]
  /\ UNCHANGED <<now, req, late, marks, backup, outcome, seen>>

\* A request whose client has gone is handled all the same.
ServeLate(r) ==
  /\ r \in late
  /\ Handle(r)
  /\ late' = late \ {r}
  /\ UNCHANGED <<now, req, reply, marks, backup, outcome, seen>>

\* The daemon stops and starts: its connections are gone, the database is not.
Crash ==
  /\ puts' = 0 /\ late' = {}
  /\ req' = [c \in Clients |-> IF reply[c] = NoReply THEN NoRequest ELSE req[c]]
  /\ UNCHANGED <<now, reply, marks, outcome, seen>>

Restart == Crash /\ UNCHANGED <<rows, backup>>

\* The owner copies its database, and puts the copy back some day.
TakeBackup ==
  /\ Restores /\ backup # rows /\ backup' = rows
  /\ UNCHANGED <<now, rows, puts, req, reply, late, marks, outcome, seen>>

Restore == Restores /\ Crash /\ rows' = backup /\ UNCHANGED backup

-----------------------------------------------------------------------------
(* A client. *)

Send(c, op, k) ==
  /\ req[c] = NoRequest
  /\ req' = [req EXCEPT ![c] = [op |-> op, key |-> k, ts |-> now + Offset[c], by |-> c]]
  /\ outcome' = [outcome EXCEPT ![c] = "none"]
  /\ UNCHANGED <<now, rows, puts, reply, late, marks, backup, seen>>

Done(c, how) ==
  /\ req' = [req EXCEPT ![c] = NoRequest]
  /\ reply' = [reply EXCEPT ![c] = NoReply]
  /\ outcome' = [outcome EXCEPT ![c] = how]
  /\ UNCHANGED <<now, rows, puts, late, backup>>

Got(c, kinds) == reply[c] # NoReply /\ reply[c].kind \in kinds

\* _bump
Bumped(mark, ts) == IF ts > mark THEN ts ELSE mark

Rollback(c, k, ts) == ts < marks[c][k] - Slack

\* put succeeded: the mark advances, unless the guard's database fails, which is
\* only a warning.
Stored(c) ==
  /\ Got(c, {"stored"})
  /\ LET k == req[c].key
     IN marks' \in {marks, [marks EXCEPT ![c][k] = Bumped(@, req[c].ts)]}
  /\ Done(c, "none") /\ UNCHANGED seen

\* get found a row, and _readable checks it against the mark.
ReadValue(c) ==
  /\ Got(c, {"found"})
  /\ LET k == req[c].key
         ts == reply[c].row.ts
     IN /\ ~Rollback(c, k, ts)
        /\ marks' = [marks EXCEPT ![c][k] = Bumped(@, ts)]
        /\ seen' = [seen EXCEPT ![c][k] = IF ts > @ THEN ts ELSE @]
  /\ Done(c, "value")

ReadRefused(c) ==
  /\ Got(c, {"found"}) /\ Rollback(c, req[c].key, reply[c].row.ts)
  /\ Done(c, "refused") /\ UNCHANGED <<marks, seen>>

\* Mutant of ReadUnguarded: the guard's database fails open.
ReadFailOpen(c) ==
  /\ Got(c, {"found"})
  /\ seen' = [seen EXCEPT ![c][req[c].key] =
       IF reply[c].row.ts > @ THEN reply[c].row.ts ELSE @]
  /\ Done(c, "value") /\ UNCHANGED marks

\* The guard's database fails: so does the read.
ReadUnguarded(c) ==
  /\ Got(c, {"found"})
  /\ Done(c, "none") /\ UNCHANGED <<marks, seen>>

\* delete removed the row: the mark is dropped, if the guard's database works.
Deleted(c) ==
  /\ Got(c, {"deleted"})
  /\ LET k == req[c].key
     IN /\ marks' \in {marks, [marks EXCEPT ![c][k] = 0]}
        /\ seen' = [seen EXCEPT ![c][k] = 0]
  /\ Done(c, "none")

\* Every other answer only ends the operation.
Ended(c) ==
  /\ Got(c, {"stale", "rejected", "absent"})
  /\ Done(c, IF reply[c].kind = "stale" THEN "stale" ELSE "none")
  /\ UNCHANGED <<marks, seen>>

Receive(c) == Stored(c) \/ ReadValue(c) \/ ReadRefused(c) \/ ReadUnguarded(c) \/ Deleted(c) \/ Ended(c)

\* The client gives up, before or after the daemon has handled the request.  A
\* get that nobody waits for is of no consequence.
GiveUp(c) ==
  /\ req[c] # NoRequest
  /\ late' = IF reply[c] = NoReply /\ req[c].op # "get" THEN late \cup {req[c]} ELSE late
  /\ Cardinality(late') <= MaxLate
  /\ req' = [req EXCEPT ![c] = NoRequest]
  /\ reply' = [reply EXCEPT ![c] = NoReply]
  /\ outcome' = [outcome EXCEPT ![c] = "none"]
  /\ UNCHANGED <<now, rows, puts, marks, backup, seen>>

Tick ==
  /\ now < MaxTime /\ now' = now + 1
  /\ UNCHANGED <<rows, puts, req, reply, late, marks, backup, outcome, seen>>

Next ==
  \/ \E c \in Clients :
       \/ \E op \in Ops, k \in Keys : Send(c, op, k)
       \/ Serve(c) \/ Receive(c) \/ GiveUp(c)
  \/ \E r \in late : ServeLate(r)
  \/ Restart \/ TakeBackup \/ Restore \/ Tick

Spec == Init /\ [][Next]_vars

-----------------------------------------------------------------------------
(* What the bus promises. *)

\* context_hwm: whatever the owner serves, be it a restored database, and whatever
\* requests arrive late or guard databases fail meanwhile, a client that has read a
\* value never again accepts one that is older by more than the slack.
NoRollback ==
  [][\A c \in Clients : Got(c, {"found"}) /\ outcome'[c] = "value" =>
       reply[c].row.ts >= seen[c][req[c].key] - Slack]_vars

\* The guard takes no honest owner for a rolled-back one.
HonestReadsServed == \A c \in Clients : outcome[c] # "refused"

\* The floor turns away no put whose client is still waiting for it.
HonestPutsStored == \A c \in Clients : outcome[c] # "stale"

\* Neither side takes an honest peer for a stale one, though the marks of a client,
\* the floor of the daemon and what is handled late know nothing of each other.
HonestPeersServed == HonestReadsServed /\ HonestPutsStored

Served(c, kind) == reply[c] = NoReply /\ reply'[c] # NoReply /\ reply'[c].kind = kind

\* test_far_future_envelope_ts_cannot_poison_the_floor: however fast the clocks of
\* other writers are, a put that carries the daemon's own time is not refused.
FloorNotPoisoned == [][\A c \in Clients : Served(c, "stale") => req[c].ts < now]_vars

\* "a silent 200 would falsely claim its stale envelope is published": the put the
\* daemon acknowledges, or one of its writer that is as new, is on the bus.
AcknowledgedIsPublished ==
  [][\A c \in Clients : Served(c, "stored") =>
       \E k \in Of(rows', c) : rows'[k].ts >= req[c].ts]_vars

=============================================================================
