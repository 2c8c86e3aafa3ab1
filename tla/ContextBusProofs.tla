------------------------- MODULE ContextBusProofs -------------------------
(***************************************************************************)
(* What the context bus promises for every set of clients and keys, every  *)
(* slack and every retention setting: types, the rollback guard's promise  *)
(* (SeenMarked: a client's mark is never below what it has read) and, for  *)
(* clocks that agree, that no honest peer is turned away.                  *)
(***************************************************************************)
EXTENDS ContextBus, FiniteSetTheorems, TLAPS

\* A client has no outcome to show while it waits.
Waiting == \A c \in Clients : req[c] # NoRequest => outcome[c] = "none"

\* The guard remembers the newest value its client has read.
SeenMarked == \A c \in Clients, k \in Keys : seen[c][k] <= marks[c][k]

GuardInv == TypeOK /\ Waiting /\ SeenMarked

Tables == [Keys -> Row \cup {NoRow}]

-----------------------------------------------------------------------------
(* What the operators of the daemon return. *)

\* A sweep only takes rows away (_sweep).
LEMMA SweptRows ==
  ASSUME NEW table \in Tables, NEW left \in Swept(table)
  PROVE  left \in Tables /\ \A k \in Keys : left[k] \in {NoRow, table[k]}
<1>1. CASE left = table
  BY <1>1 DEF Tables
<1>2. ASSUME NEW gone \in SUBSET Keys, left = Without(table, gone)
      PROVE  left \in Tables /\ \A k \in Keys : left[k] \in {NoRow, table[k]}
  BY <1>2 DEF Without, Tables
<1>3. left = table \/ \E gone \in SUBSET Keys : left = Without(table, gone)
  BY DEF Swept
<1>4. QED BY <1>1, <1>2, <1>3

\* The daemon's answers, by what it finds in the table (do_POST).
LEMMA VerdictFacts ==
  ASSUME TypeOK, NEW r \in Request
  PROVE  /\ Verdict(r) \in Reply
         /\ Verdict(r).kind = "found" => Verdict(r).row = rows[r.key] /\ Verdict(r).row \in Row
         /\ Verdict(r).kind # "found" => Verdict(r).row = NoRow
         /\ Verdict(r).kind = "stored" =>
              r.op = "put" /\ Authorized(r) /\ Sane(r) /\ AboveFloor(r)
         /\ Verdict(r).kind = "stale" =>
              r.op = "put" /\ Authorized(r) /\ Sane(r) /\ ~AboveFloor(r)
<1>1. rows[r.key] \in Row \cup {NoRow}
  BY DEF TypeOK, Request
<1>2. CASE ~Authorized(r) \/ (r.op = "put" /\ ~Sane(r))
  <2>1. Verdict(r) = Answer("rejected", NoRow)
    BY <1>2 DEF Verdict
  <2>2. QED BY <2>1, NullAssumption DEF Answer, Reply
<1>3. CASE Authorized(r) /\ r.op = "put" /\ Sane(r)
  <2>1. Verdict(r) = Answer(IF AboveFloor(r) THEN "stored" ELSE "stale", NoRow)
    BY <1>3 DEF Verdict
  <2>2. QED BY <2>1, <1>3 DEF Answer, Reply
<1>4. CASE Authorized(r) /\ r.op # "put"
  <2>1. Verdict(r) = IF rows[r.key] = NoRow THEN Answer("absent", NoRow)
                     ELSE IF r.op = "get" THEN Answer("found", rows[r.key])
                     ELSE Answer("deleted", NoRow)
    BY <1>4 DEF Verdict
  <2>2. QED BY <2>1, <1>1, <1>4, NullAssumption DEF Answer, Reply
<1>5. QED BY <1>2, <1>3, <1>4

\* What handling a request does to the database (_put, _get, _delete).
LEMMA HandleFacts ==
  ASSUME TypeOK, NEW r \in Request, Handle(r)
  PROVE  /\ rows' \in Tables /\ puts' \in Nat
         /\ \A k \in Keys : rows'[k] \in {NoRow,
              IF k = r.key /\ Verdict(r).kind = "stored" THEN [writer |-> r.by, ts |-> r.ts] ELSE rows[k]}
<1> USE DEF Tables
<1>1. rows \in Tables /\ puts \in Nat /\ r.key \in Keys /\ r.by \in Clients /\ r.ts \in Int
  BY DEF TypeOK, Request
<1>2. CASE HandlePut(r)
  <2> DEFINE stored == [rows EXCEPT ![r.key] = [writer |-> r.by, ts |-> r.ts]]
  <2>1. r.ts \in Nat /\ Verdict(r).kind = "stored"
    BY <1>1, <1>2, VerdictFacts DEF HandlePut, Sane
  <2>2. stored \in Tables
    BY <1>1, <2>1 DEF Row
  <2>3. rows' \in Swept(stored) \/ rows' = stored
    BY <1>2 DEF HandlePut
  <2>4. puts' \in Nat
    BY <1>1, <1>2, RetentionAssumption DEF HandlePut
  <2>5. rows' \in Tables /\ \A k \in Keys : rows'[k] \in {NoRow, stored[k]}
    <3> HIDE DEF stored
    <3> QED BY <2>2, <2>3, SweptRows
  <2>6. QED BY <1>1, <2>1, <2>4, <2>5
<1>3. CASE HandleDelete(r)
  BY <1>1, <1>3 DEF HandleDelete
<1>4. CASE HandleRest(r)
  BY <1>1, <1>4 DEF HandleRest
<1>5. QED BY <1>2, <1>3, <1>4 DEF Handle

\* A mark moves only up (_bump).
LEMMA BumpFacts ==
  ASSUME NEW mark \in Nat, NEW ts \in Int
  PROVE  Bumped(mark, ts) \in Nat /\ Bumped(mark, ts) >= mark /\ Bumped(mark, ts) >= ts
         /\ Bumped(mark, ts) \in {mark, ts}
BY DEF Bumped

\* One entry of a guard database changes.
LEMMA MarkUpdate ==
  ASSUME NEW f \in [Clients -> [Keys -> Nat]], NEW c \in Clients, NEW k \in Keys, NEW v \in Nat,
         NEW g, g = [f EXCEPT ![c][k] = v]
  PROVE  /\ g \in [Clients -> [Keys -> Nat]]
         /\ \A d \in Clients, l \in Keys : g[d][l] = IF d = c /\ l = k THEN v ELSE f[d][l]
<1>1. f[c] \in [Keys -> Nat]
  OBVIOUS
<1>2. [f[c] EXCEPT ![k] = v] \in [Keys -> Nat]
  BY <1>1
<1>3. g = [f EXCEPT ![c] = [f[c] EXCEPT ![k] = v]]
  OBVIOUS
<1>4. g \in [Clients -> [Keys -> Nat]]
  BY <1>2, <1>3
<1>5. g[c] = [f[c] EXCEPT ![k] = v] /\ \A d \in Clients : d # c => g[d] = f[d]
  BY <1>3
<1>6. QED BY <1>1, <1>4, <1>5

-----------------------------------------------------------------------------
(* Types and the guard. *)

LEMMA GuardInit == Init => GuardInv
<1> SUFFICES ASSUME Init PROVE GuardInv
  OBVIOUS
<1>1. TypeOK
  BY ClockAssumption DEF Init, TypeOK, Empty, Unmarked
<1>2. Waiting /\ SeenMarked
  BY DEF Init, Waiting, SeenMarked, Unmarked
<1>3. QED BY <1>1, <1>2 DEF GuardInv

\* The daemon's steps leave the guards alone.
LEMMA ServeKeepsGuard ==
  ASSUME GuardInv, NEW c \in Clients, Serve(c)
  PROVE  GuardInv'
<1>1. req[c] \in Request
  BY DEF Serve, GuardInv, TypeOK
<1>2. Handle(req[c]) /\ TypeOK
  BY DEF Serve, GuardInv
<1>3. rows' \in Tables /\ puts' \in Nat
  BY <1>1, <1>2, HandleFacts
<1>4. Verdict(req[c]) \in Reply /\ (Verdict(req[c]).kind = "found") = (Verdict(req[c]).row # NoRow)
  BY <1>1, <1>2, VerdictFacts, NullAssumption
<1>5. TypeOK'
  BY <1>3, <1>4 DEF Serve, GuardInv, TypeOK, Tables
<1>6. QED BY <1>5 DEF Serve, GuardInv, Waiting, SeenMarked

LEMMA ServeLateKeepsGuard ==
  ASSUME GuardInv, NEW r \in late, ServeLate(r)
  PROVE  GuardInv'
<1>1. r \in Request /\ Handle(r) /\ TypeOK
  BY DEF ServeLate, GuardInv, TypeOK
<1>2. rows' \in Tables /\ puts' \in Nat
  BY <1>1, HandleFacts
<1>3. TypeOK'
  BY <1>2 DEF ServeLate, GuardInv, TypeOK, Tables
<1>4. QED BY <1>3 DEF ServeLate, GuardInv, Waiting, SeenMarked

LEMMA CrashKeepsGuard ==
  ASSUME GuardInv, Crash, rows' \in {rows, backup}, UNCHANGED backup
  PROVE  GuardInv'
<1>1. TypeOK'
  BY DEF Crash, GuardInv, TypeOK
<1>2. Waiting' /\ SeenMarked'
  BY DEF Crash, GuardInv, Waiting, SeenMarked, TypeOK
<1>3. QED BY <1>1, <1>2 DEF GuardInv

LEMMA SendKeepsGuard ==
  ASSUME GuardInv, NEW c \in Clients, NEW op \in Ops, NEW k \in Keys, Send(c, op, k)
  PROVE  GuardInv'
<1>1. [op |-> op, key |-> k, ts |-> now + Offset[c], by |-> c] \in Request
  BY ClockAssumption DEF Request, GuardInv, TypeOK
<1>2. TypeOK'
  BY <1>1, NullAssumption DEF Send, GuardInv, TypeOK
<1>3. Waiting' /\ SeenMarked'
  BY DEF Send, GuardInv, Waiting, SeenMarked, TypeOK
<1>4. QED BY <1>2, <1>3 DEF GuardInv

\* What ends an operation keeps the invariant if it keeps the marks above what
\* was seen.
LEMMA DoneKeepsGuard ==
  ASSUME GuardInv, NEW c \in Clients, NEW how \in {"none", "value", "refused", "stale"},
         Done(c, how),
         marks' \in [Clients -> [Keys -> Nat]], seen' \in [Clients -> [Keys -> Nat]], SeenMarked'
  PROVE  GuardInv'
<1>1. TypeOK'
  BY DEF Done, GuardInv, TypeOK
<1>2. Waiting'
  BY DEF Done, GuardInv, Waiting, TypeOK
<1>3. QED BY <1>1, <1>2 DEF GuardInv

LEMMA ReceiveKeepsGuard ==
  ASSUME GuardInv, NEW c \in Clients, Receive(c)
  PROVE  GuardInv'
<1> DEFINE k == req[c].key
<1>1. req[c] \in Request /\ reply[c] \in Reply
  BY DEF Receive, Stored, ReadValue, ReadRefused, ReadUnguarded, Deleted, Ended, Got, GuardInv, TypeOK
<1>2. k \in Keys /\ req[c].ts \in Int
  BY <1>1 DEF Request
<1>3. marks \in [Clients -> [Keys -> Nat]] /\ seen \in [Clients -> [Keys -> Nat]] /\ SeenMarked
  BY DEF GuardInv, TypeOK
<1>4. CASE Stored(c)
  <2>1. Bumped(marks[c][k], req[c].ts) \in Nat /\ Bumped(marks[c][k], req[c].ts) >= marks[c][k]
    BY <1>2, <1>3, BumpFacts
  <2>2. marks' = marks \/ marks' = [marks EXCEPT ![c][k] = Bumped(marks[c][k], req[c].ts)]
    BY <1>4 DEF Stored
  <2>3. marks' \in [Clients -> [Keys -> Nat]] /\ \A d \in Clients, l \in Keys : marks'[d][l] >= marks[d][l]
    <3> DEFINE v == Bumped(marks[c][k], req[c].ts)
    <3> HIDE DEF k, v
    <3>1. CASE marks' = marks
      BY <1>3, <3>1
    <3>2. CASE marks' = [marks EXCEPT ![c][k] = v]
      BY <1>2, <1>3, <2>1, <3>2, MarkUpdate DEF v
    <3>3. QED BY <2>2, <3>1, <3>2 DEF v
  <2>4. SeenMarked'
    BY <1>3, <1>4, <2>3 DEF Stored, SeenMarked
  <2>5. QED BY <1>3, <1>4, <2>3, <2>4, DoneKeepsGuard DEF Stored
<1>5. CASE ReadValue(c)
  <2> DEFINE ts == reply[c].row.ts
  <2>1. ts \in Nat
    BY <1>1, <1>5 DEF ReadValue, Got, GuardInv, TypeOK, Reply, Row
  <2>2. Bumped(marks[c][k], ts) \in Nat /\ Bumped(marks[c][k], ts) >= marks[c][k] /\ Bumped(marks[c][k], ts) >= ts
    <3>1. marks[c][k] \in Nat /\ ts \in Int
      BY <1>2, <1>3, <2>1
    <3> HIDE DEF ts, k
    <3>2. QED BY <3>1, BumpFacts
  <2>3. marks' = [marks EXCEPT ![c][k] = Bumped(marks[c][k], ts)]
    BY <1>5 DEF ReadValue
  <2>4. seen' = [seen EXCEPT ![c][k] = IF ts > seen[c][k] THEN ts ELSE seen[c][k]]
    BY <1>5 DEF ReadValue
  <2> DEFINE mark == Bumped(marks[c][k], ts)
             high == IF ts > seen[c][k] THEN ts ELSE seen[c][k]
  <2>5. high \in Nat /\ mark \in Nat /\ high <= mark
    <3> HIDE DEF ts, k
    <3>1. seen[c][k] \in Nat /\ seen[c][k] <= marks[c][k] /\ marks[c][k] \in Nat
      BY <1>2, <1>3 DEF SeenMarked
    <3> QED BY <2>1, <2>2, <3>1
  <2> HIDE DEF ts, mark, high, k
  <2>6. /\ marks' \in [Clients -> [Keys -> Nat]]
        /\ \A d \in Clients, l \in Keys : marks'[d][l] = IF d = c /\ l = k THEN mark ELSE marks[d][l]
    BY <1>2, <1>3, <2>3, <2>5, MarkUpdate DEF mark
  <2>7. /\ seen' \in [Clients -> [Keys -> Nat]]
        /\ \A d \in Clients, l \in Keys : seen'[d][l] = IF d = c /\ l = k THEN high ELSE seen[d][l]
    BY <1>2, <1>3, <2>4, <2>5, MarkUpdate DEF high
  <2>8. SeenMarked'
    BY <1>3, <2>5, <2>6, <2>7 DEF SeenMarked
  <2>9. QED BY <1>5, <2>6, <2>7, <2>8, DoneKeepsGuard DEF ReadValue
<1>6. CASE ReadRefused(c)
  BY <1>3, <1>6, DoneKeepsGuard DEF ReadRefused, SeenMarked
<1>7. CASE ReadUnguarded(c)
  BY <1>3, <1>7, DoneKeepsGuard DEF ReadUnguarded, SeenMarked
<1>8. CASE Deleted(c)
  <2>1. seen' = [seen EXCEPT ![c][k] = 0]
    BY <1>8 DEF Deleted
  <2>2. marks' = marks \/ marks' = [marks EXCEPT ![c][k] = 0]
    BY <1>8 DEF Deleted
  <2> HIDE DEF k
  <2>3. /\ seen' \in [Clients -> [Keys -> Nat]]
        /\ \A d \in Clients, l \in Keys : seen'[d][l] = IF d = c /\ l = k THEN 0 ELSE seen[d][l]
    BY <1>2, <1>3, <2>1, MarkUpdate
  <2>4. /\ marks' \in [Clients -> [Keys -> Nat]]
        /\ \A d \in Clients, l \in Keys : marks'[d][l] \in {marks[d][l], IF d = c /\ l = k THEN 0 ELSE marks[d][l]}
    <3>1. CASE marks' = marks
      BY <1>3, <3>1
    <3>2. CASE marks' = [marks EXCEPT ![c][k] = 0]
      BY <1>2, <1>3, <3>2, MarkUpdate
    <3>3. QED BY <2>2, <3>1, <3>2
  <2>6. SeenMarked'
    BY <1>3, <2>3, <2>4 DEF SeenMarked
  <2>5. QED BY <1>8, <2>3, <2>4, <2>6, DoneKeepsGuard DEF Deleted
<1>9. CASE Ended(c)
  BY <1>3, <1>9, DoneKeepsGuard DEF Ended, SeenMarked
<1>10. QED BY <1>4, <1>5, <1>6, <1>7, <1>8, <1>9 DEF Receive

LEMMA GiveUpKeepsGuard ==
  ASSUME GuardInv, NEW c \in Clients, GiveUp(c)
  PROVE  GuardInv'
<1>1. TypeOK'
  BY DEF GiveUp, GuardInv, TypeOK
<1>2. Waiting' /\ SeenMarked'
  BY DEF GiveUp, GuardInv, Waiting, SeenMarked, TypeOK
<1>3. QED BY <1>1, <1>2 DEF GuardInv

LEMMA GuardNext == GuardInv /\ [Next]_vars => GuardInv'
<1> SUFFICES ASSUME GuardInv, [Next]_vars PROVE GuardInv'
  OBVIOUS
<1>1. CASE \E c \in Clients : \E op \in Ops, k \in Keys : Send(c, op, k)
  BY <1>1, SendKeepsGuard
<1>2. CASE \E c \in Clients : Serve(c) \/ Receive(c) \/ GiveUp(c)
  BY <1>2, ServeKeepsGuard, ReceiveKeepsGuard, GiveUpKeepsGuard
<1>3. CASE \E r \in late : ServeLate(r)
  BY <1>3, ServeLateKeepsGuard
<1>4. CASE Restart
  BY <1>4, CrashKeepsGuard DEF Restart
<1>5. CASE Restore
  BY <1>5, CrashKeepsGuard DEF Restore
<1>6. CASE TakeBackup
  BY <1>6 DEF TakeBackup, GuardInv, TypeOK, Waiting, SeenMarked
<1>7. CASE Tick
  BY <1>7 DEF Tick, GuardInv, TypeOK, Waiting, SeenMarked
<1>8. CASE UNCHANGED vars
  BY <1>8 DEF vars, GuardInv, TypeOK, Waiting, SeenMarked
<1>9. QED BY <1>1, <1>2, <1>3, <1>4, <1>5, <1>6, <1>7, <1>8 DEF Next

\* Type correctness of daemon, clients and guards.
THEOREM BusTypeCorrect == Spec => []TypeOK
<1>1. GuardInv => TypeOK
  BY DEF GuardInv
<1>2. QED BY <1>1, GuardInit, GuardNext, PTL DEF Spec

\* context_hwm.check: a client never goes back by more than the slack, whatever
\* the owner serves.
THEOREM NoRollbackHolds == Spec => NoRollback
<1> DEFINE Kept == \A c \in Clients : Got(c, {"found"}) /\ outcome'[c] = "value" =>
                     reply[c].row.ts >= seen[c][req[c].key] - Slack
<1>1. GuardInv /\ [Next]_vars => [Kept]_vars
  <2> SUFFICES ASSUME GuardInv, Next, NEW c \in Clients, Got(c, {"found"}), outcome'[c] = "value"
               PROVE  reply[c].row.ts >= seen[c][req[c].key] - Slack
    OBVIOUS
  <2>1. req[c] \in Request /\ outcome[c] = "none" /\ reply[c] \in Reply /\ reply[c].row \in Row
    BY DEF Got, GuardInv, TypeOK, Waiting, Reply
  <2>2. ReadValue(c)
    <3>1. ASSUME NEW d \in Clients, NEW how, Done(d, how) PROVE d = c /\ how = "value"
      BY <2>1, <3>1 DEF Done, GuardInv, TypeOK
    <3>2. ASSUME NEW d \in Clients, NEW op \in Ops, NEW k \in Keys PROVE ~Send(d, op, k)
      BY <2>1 DEF Send, GuardInv, TypeOK
    <3>3. ASSUME NEW d \in Clients PROVE ~Serve(d) /\ ~GiveUp(d)
      BY <2>1 DEF Serve, GiveUp, GuardInv, TypeOK
    <3>4. ~Restart /\ ~Restore /\ ~TakeBackup /\ ~Tick /\ \A r \in late : ~ServeLate(r)
      BY <2>1 DEF Restart, Restore, Crash, TakeBackup, Tick, ServeLate
    <3>5. PICK d \in Clients : Receive(d)
      BY <3>2, <3>3, <3>4 DEF Next
    <3>6. CASE ReadValue(d)
      BY <3>1, <3>6 DEF ReadValue
    <3>7. CASE ~ReadValue(d)
      <4>1. \E how \in {"none", "refused", "stale"} : Done(d, how)
        BY <3>5, <3>7 DEF Receive, Stored, ReadRefused, ReadUnguarded, Deleted, Ended
      <4>2. QED BY <3>1, <4>1
    <3>8. QED BY <3>6, <3>7
  <2>3. ~(reply[c].row.ts < marks[c][req[c].key] - Slack)
    BY <2>2 DEF ReadValue, Rollback
  <2>4. /\ marks[c][req[c].key] \in Nat /\ seen[c][req[c].key] \in Nat
        /\ seen[c][req[c].key] <= marks[c][req[c].key]
    BY <2>1 DEF GuardInv, TypeOK, SeenMarked, Request
  <2>5. reply[c].row.ts \in Nat /\ Slack \in Nat
    BY <2>1, ClockAssumption DEF Row
  <2>6. QED BY <2>3, <2>4, <2>5
<1>2. QED BY <1>1, GuardInit, GuardNext, PTL DEF Spec, NoRollback

-----------------------------------------------------------------------------
(* Clocks that agree. *)

\* Every clock is the daemon's, requests are authenticated, nothing is restored, and
\* the slack is no smaller than the skew (both are 60 s).
Synced ==
  /\ \A c \in Clients : Offset[c] = 0
  /\ Token /\ ~Restores /\ Skew <= Slack

\* The timestamps a client's mark of a key shows or is about to show.
Claims(c, k) ==
  {marks[c][k]}
  \cup {t \in Int : reply[c] # NoReply /\ req[c].key = k /\ reply[c].kind = "found" /\ t = reply[c].row.ts}
  \cup {t \in Int : reply[c] # NoReply /\ req[c].key = k /\ reply[c].kind = "stored" /\ t = req[c].ts}

\* Nothing carries a timestamp of the future.
Past ==
  /\ \A c \in Clients : req[c] # NoRequest => req[c].ts <= now
  /\ \A r \in late : r.ts <= now
  /\ \A k \in Keys : rows[k] # NoRow => rows[k].ts <= now
  /\ \A c \in Clients, k \in Keys : \A t \in Claims(c, k) : t <= now

\* No row is older, by more than the slack, than a mark it may be checked against.
FreshRows ==
  \A k \in Keys : rows[k] # NoRow =>
    \A c \in Clients : \A t \in Claims(c, k) : t <= rows[k].ts + Slack

\* Nor is a row on its way to a client.
FreshReplies ==
  \A c \in Clients : reply[c] # NoReply =>
    /\ reply[c].kind # "stale"
    /\ reply[c].kind = "found" => marks[c][req[c].key] <= reply[c].row.ts + Slack

PeersInv == GuardInv /\ Past /\ FreshRows /\ FreshReplies /\ HonestReadsServed /\ HonestPutsStored

LEMMA PeersInit == Init => PeersInv
<1> SUFFICES ASSUME Init PROVE PeersInv
  OBVIOUS
<1>1. \A c \in Clients, k \in Keys : Claims(c, k) = {0}
  BY DEF Init, Unmarked, Claims
<1>2. Past
  BY <1>1, ClockAssumption DEF Init, Empty, Past
<1>3. FreshRows /\ FreshReplies /\ HonestReadsServed /\ HonestPutsStored
  BY DEF Init, Empty, FreshRows, FreshReplies, HonestReadsServed, HonestPutsStored
<1>4. QED BY <1>2, <1>3, GuardInit DEF PeersInv

\* What the daemon writes is at most the skew old, so no claim is far above it.
LEMMA HandledRowsFresh ==
  ASSUME Synced, PeersInv, NEW r \in Request, r.ts <= now, Handle(r), NEW k \in Keys, rows'[k] # NoRow,
         NEW t \in Int, t <= now, rows[k] # NoRow => t <= rows[k].ts + Slack
  PROVE  rows'[k].ts <= now /\ t <= rows'[k].ts + Slack
<1>1. now \in Nat /\ Slack \in Nat /\ Skew \in Nat /\ r.ts \in Int /\ TypeOK /\ Past
  BY ClockAssumption DEF PeersInv, GuardInv, TypeOK, Request
<1>2. rows'[k] = IF k = r.key /\ Verdict(r).kind = "stored" THEN [writer |-> r.by, ts |-> r.ts] ELSE rows[k]
  BY <1>1, HandleFacts
<1>3. CASE k = r.key /\ Verdict(r).kind = "stored"
  <2>1. Authorized(r)
    BY <1>1, <1>3, VerdictFacts
  <2>2. r.ts - now \in -Skew..Skew /\ Skew <= Slack
    BY <2>1 DEF Authorized, Synced
  <2>3. now <= r.ts + Slack
    BY <1>1, <2>2
  <2>4. rows'[k].ts = r.ts
    BY <1>2, <1>3
  <2>5. QED BY <1>1, <2>3, <2>4
<1>4. CASE ~(k = r.key /\ Verdict(r).kind = "stored")
  BY <1>1, <1>2, <1>4 DEF Past
<1>5. QED BY <1>3, <1>4

\* Authenticated requests of honest clients are never below the floor.
LEMMA NeverStale ==
  ASSUME Synced, PeersInv, NEW r \in Request
  PROVE  Verdict(r).kind # "stale"
<1> SUFFICES ASSUME Verdict(r).kind = "stale" PROVE FALSE
  OBVIOUS
<1>1. now \in Nat /\ Slack \in Nat /\ Skew \in Nat /\ r.ts \in Int /\ TypeOK /\ Past /\ r.key \in Keys
  BY ClockAssumption DEF PeersInv, GuardInv, TypeOK, Request
<1>2. Authorized(r) /\ ~AboveFloor(r)
  BY <1>1, VerdictFacts
<1>3. r.ts - now \in -Skew..Skew /\ Skew <= Slack
  BY <1>2 DEF Authorized, Synced
<1>4. rows[r.key] # NoRow /\ ~(r.ts >= rows[r.key].ts - Slack)
  BY <1>2 DEF AboveFloor
<1>5. rows[r.key].ts \in Nat /\ rows[r.key].ts <= now
  BY <1>1, <1>4 DEF TypeOK, Past, Row
<1>6. QED BY <1>1, <1>3, <1>4, <1>5

\* Claims are timestamps.
LEMMA ClaimsInt == TypeOK => \A c \in Clients, k \in Keys : Claims(c, k) \subseteq Int
<1> SUFFICES ASSUME TypeOK, NEW c \in Clients, NEW k \in Keys PROVE marks[c][k] \in Int
  BY DEF Claims
<1> QED BY DEF TypeOK

LEMMA ServeKeepsPeers ==
  ASSUME Synced, PeersInv, NEW c \in Clients, Serve(c)
  PROVE  PeersInv'
<1> DEFINE r == req[c]
<1>1. GuardInv /\ GuardInv' /\ TypeOK /\ TypeOK' /\ Past
  BY ServeKeepsGuard DEF PeersInv, GuardInv
<1>2. r \in Request /\ r.ts <= now /\ Handle(r) /\ r.key \in Keys /\ r.ts \in Int /\ now \in Nat
  BY <1>1 DEF Serve, GuardInv, TypeOK, Past, Request
<1>3. reply' = [reply EXCEPT ![c] = Verdict(r)] /\ UNCHANGED <<now, req, late, marks, outcome>>
  BY DEF Serve
<1>4. ASSUME NEW d \in Clients, NEW k \in Keys, NEW t \in Claims(d, k)'
      PROVE  /\ t \in Int /\ t <= now
             /\ \/ rows[k] # NoRow => t <= rows[k].ts + Slack
                \/ d = c /\ k = r.key /\ Verdict(r).kind = "stored" /\ t = r.ts
  <2>1. CASE t \in Claims(d, k)
    BY <1>1, <2>1, ClaimsInt DEF Past, PeersInv, FreshRows
  <2>2. CASE t \notin Claims(d, k)
    <3>1. d = c /\ k = r.key /\ t \in Int
      BY <1>1, <1>3, <2>2 DEF Claims, TypeOK
    <3>2. \/ Verdict(r).kind = "found" /\ t = Verdict(r).row.ts
          \/ Verdict(r).kind = "stored" /\ t = r.ts
      BY <1>1, <1>3, <2>2, <3>1 DEF Claims, TypeOK
    <3>3. CASE Verdict(r).kind = "found" /\ t = Verdict(r).row.ts
      <4>1. rows[k] \in Row /\ t = rows[k].ts /\ rows[k] # NoRow
        BY <1>1, <1>2, <3>1, <3>3, VerdictFacts, NullAssumption
      <4>2. rows[k].ts \in Nat /\ Slack \in Nat /\ rows[k].ts <= now
        BY <1>1, <4>1, ClockAssumption DEF Row, Past
      <4>3. QED BY <4>1, <4>2
    <3>4. QED BY <1>2, <3>1, <3>2, <3>3
  <2>3. QED BY <2>1, <2>2
<1>5. ASSUME NEW k \in Keys, rows'[k] # NoRow
      PROVE  rows'[k].ts <= now /\ \A d \in Clients : \A t \in Claims(d, k)' : t <= rows'[k].ts + Slack
  <2>1. rows'[k].ts <= now
    <3>1. 0 <= now /\ (rows[k] # NoRow => 0 <= rows[k].ts + Slack)
      BY <1>1, <1>2, ClockAssumption DEF TypeOK, Row
    <3>2. QED BY <1>2, <1>5, <3>1, HandledRowsFresh
  <2>2. ASSUME NEW d \in Clients, NEW t \in Claims(d, k)' PROVE t <= rows'[k].ts + Slack
    <3>1. CASE rows[k] # NoRow => t <= rows[k].ts + Slack
      BY <1>2, <1>4, <1>5, <3>1, HandledRowsFresh
    <3>2. CASE k = r.key /\ Verdict(r).kind = "stored" /\ t = r.ts
      <4>1. rows'[k].ts = r.ts
        BY <1>1, <1>2, <1>5, <3>2, HandleFacts
      <4>2. QED BY <1>2, <3>2, <4>1, ClockAssumption
    <3>3. QED BY <1>4, <3>1, <3>2
  <2>3. QED BY <2>1, <2>2
<1>6. Past'
  <2>1. \A d \in Clients : req'[d] # NoRequest => req'[d].ts <= now'
    BY <1>1, <1>3 DEF Past
  <2>2. \A x \in late' : x.ts <= now'
    BY <1>1, <1>3 DEF Past
  <2>3. QED BY <1>3, <1>4, <1>5, <2>1, <2>2 DEF Past
<1>7. FreshRows'
  BY <1>5 DEF FreshRows
<1>8. FreshReplies'
  <2> SUFFICES ASSUME NEW d \in Clients, reply'[d] # NoReply
               PROVE  /\ reply'[d].kind # "stale"
                      /\ reply'[d].kind = "found" => marks[d][req[d].key] <= reply'[d].row.ts + Slack
    BY <1>3 DEF FreshReplies
  <2>1. CASE d # c
    BY <1>1, <1>3, <2>1 DEF PeersInv, FreshReplies, TypeOK
  <2>2. CASE d = c
    <3>1. reply'[d] = Verdict(r)
      BY <1>1, <1>3, <2>2 DEF TypeOK
    <3>2. ASSUME Verdict(r).kind = "found" PROVE marks[d][r.key] <= Verdict(r).row.ts + Slack
      <4>1. rows[r.key] # NoRow /\ Verdict(r).row = rows[r.key]
        BY <1>1, <1>2, <3>2, VerdictFacts, NullAssumption
      <4>2. marks[d][r.key] \in Claims(d, r.key)
        BY DEF Claims
      <4>3. QED BY <1>2, <4>1, <4>2 DEF PeersInv, FreshRows
    <3>3. QED BY <1>2, <2>2, <3>1, <3>2, NeverStale
  <2>3. QED BY <2>1, <2>2
<1>9. HonestReadsServed' /\ HonestPutsStored'
  BY <1>3 DEF PeersInv, HonestReadsServed, HonestPutsStored
<1>10. QED BY <1>1, <1>6, <1>7, <1>8, <1>9 DEF PeersInv

\* A late request changes the table as an awaited one does.
LEMMA ServeLateKeepsPeers ==
  ASSUME Synced, PeersInv, NEW r \in late, ServeLate(r)
  PROVE  PeersInv'
<1>1. GuardInv /\ GuardInv' /\ TypeOK /\ Past
  BY ServeLateKeepsGuard DEF PeersInv, GuardInv
<1>2. r \in Request /\ r.ts <= now /\ Handle(r) /\ now \in Nat
  BY <1>1 DEF ServeLate, TypeOK, Past
<1>3. UNCHANGED <<now, req, reply, marks, outcome>> /\ late' \subseteq late
  BY DEF ServeLate
<1>4. \A d \in Clients, k \in Keys : Claims(d, k)' = Claims(d, k)
  BY <1>3 DEF Claims
<1>5. ASSUME NEW k \in Keys, rows'[k] # NoRow
      PROVE  rows'[k].ts <= now /\ \A d \in Clients : \A t \in Claims(d, k) : t <= rows'[k].ts + Slack
  <2>1. 0 <= now /\ (rows[k] # NoRow => 0 <= rows[k].ts + Slack)
    BY <1>1, <1>2, ClockAssumption DEF TypeOK, Row
  <2>2. rows'[k].ts <= now
    BY <1>2, <1>5, <2>1, HandledRowsFresh
  <2>3. ASSUME NEW d \in Clients, NEW t \in Claims(d, k) PROVE t <= rows'[k].ts + Slack
    <3>1. t \in Int /\ t <= now /\ (rows[k] # NoRow => t <= rows[k].ts + Slack)
      BY <1>1, ClaimsInt DEF Past, PeersInv, FreshRows
    <3>2. QED BY <1>2, <1>5, <3>1, HandledRowsFresh
  <2>4. QED BY <2>2, <2>3
<1>6. Past'
  BY <1>1, <1>3, <1>4, <1>5 DEF Past
<1>7. FreshRows'
  BY <1>4, <1>5 DEF FreshRows
<1>8. FreshReplies' /\ HonestReadsServed' /\ HonestPutsStored'
  BY <1>3 DEF PeersInv, FreshReplies, HonestReadsServed, HonestPutsStored
<1>9. QED BY <1>1, <1>6, <1>7, <1>8 DEF PeersInv

\* Steps that touch neither table nor marks, and give nobody an answer.
LEMMA QuietKeepsPeers ==
  ASSUME Synced, PeersInv, GuardInv',
         UNCHANGED <<rows, marks>>, now' \in Nat, now' >= now,
         \A c \in Clients : reply'[c] # NoReply => reply'[c] = reply[c] /\ req'[c] = req[c],
         \A c \in Clients : req'[c] # NoRequest => req'[c].ts <= now',
         \A r \in late' : r.ts <= now',
         \A c \in Clients : outcome'[c] \in {outcome[c], "none"}
  PROVE  PeersInv'
<1>1. GuardInv /\ TypeOK /\ Past /\ now \in Nat
  BY DEF PeersInv, GuardInv, TypeOK
<1>2. \A d \in Clients, k \in Keys : Claims(d, k)' \subseteq Claims(d, k)
  BY DEF Claims
<1>3. \A d \in Clients, k \in Keys : \A t \in Claims(d, k)' : t \in Int /\ t <= now /\ t <= now'
  BY <1>1, <1>2, ClaimsInt DEF Past
<1>4. \A k \in Keys : rows'[k] # NoRow => rows'[k].ts <= now'
  BY <1>1 DEF Past, TypeOK, Row
<1>5. Past'
  BY <1>3, <1>4 DEF Past
<1>6. FreshRows'
  BY <1>2 DEF PeersInv, FreshRows
<1>7. FreshReplies'
  BY DEF PeersInv, FreshReplies
<1>8. HonestReadsServed' /\ HonestPutsStored'
  BY DEF PeersInv, HonestReadsServed, HonestPutsStored
<1>9. QED BY <1>5, <1>6, <1>7, <1>8 DEF PeersInv

\* A mark that moves to a claim of its client stays below the rows.
LEMMA MarkedKeepsPeers ==
  ASSUME Synced, PeersInv, GuardInv', NEW c \in Clients, NEW how \in {"none", "value"}, Done(c, how),
         \A d \in Clients, k \in Keys :
           marks'[d][k] \in Claims(d, k) \cup {0} /\ (d # c => marks'[d][k] = marks[d][k])
  PROVE  PeersInv'
<1>1. GuardInv /\ TypeOK /\ TypeOK' /\ Past /\ now \in Nat
  BY DEF PeersInv, GuardInv, TypeOK
<1>2. /\ req' = [req EXCEPT ![c] = NoRequest] /\ reply' = [reply EXCEPT ![c] = NoReply]
      /\ outcome' = [outcome EXCEPT ![c] = how] /\ UNCHANGED <<now, rows, late>>
  BY DEF Done
<1>3. \A d \in Clients, k \in Keys : Claims(d, k)' \subseteq Claims(d, k) \cup {0}
  <2> SUFFICES ASSUME NEW d \in Clients, NEW k \in Keys PROVE Claims(d, k)' \subseteq Claims(d, k) \cup {0}
    OBVIOUS
  <2>1. CASE d = c
    <3>1. reply'[d] = NoReply
      BY <1>1, <1>2, <2>1 DEF TypeOK
    <3>2. Claims(d, k)' = {marks'[d][k]}
      BY <3>1 DEF Claims
    <3>3. QED BY <3>2
  <2>2. CASE d # c
    BY <1>1, <1>2, <2>2 DEF Claims, TypeOK
  <2>3. QED BY <2>1, <2>2
<1>4. Past'
  <2>1. \A d \in Clients : req'[d] # NoRequest => req'[d].ts <= now'
    BY <1>1, <1>2 DEF Past, TypeOK
  <2>2. (\A r \in late' : r.ts <= now') /\ (\A k \in Keys : rows'[k] # NoRow => rows'[k].ts <= now')
    BY <1>1, <1>2 DEF Past
  <2>3. \A d \in Clients, k \in Keys : \A t \in Claims(d, k)' : t <= now'
    BY <1>1, <1>2, <1>3 DEF Past
  <2>4. QED BY <2>1, <2>2, <2>3 DEF Past
<1>5. FreshRows'
  <2> SUFFICES ASSUME NEW k \in Keys, rows[k] # NoRow, NEW d \in Clients, NEW t \in Claims(d, k)'
               PROVE  t <= rows[k].ts + Slack
    BY <1>2 DEF FreshRows
  <2>1. 0 <= rows[k].ts + Slack
    BY <1>1, ClockAssumption DEF TypeOK, Row
  <2>2. QED BY <1>3, <2>1 DEF PeersInv, FreshRows
<1>6. FreshReplies'
  BY <1>1, <1>2 DEF PeersInv, FreshReplies, TypeOK
<1>7. HonestReadsServed' /\ HonestPutsStored'
  BY <1>1, <1>2 DEF PeersInv, HonestReadsServed, HonestPutsStored, TypeOK
<1>8. QED BY <1>4, <1>5, <1>6, <1>7 DEF PeersInv

LEMMA ReceiveKeepsPeers ==
  ASSUME Synced, PeersInv, NEW c \in Clients, Receive(c)
  PROVE  PeersInv'
<1> DEFINE k == req[c].key
<1>1. GuardInv /\ GuardInv' /\ TypeOK
  BY ReceiveKeepsGuard DEF PeersInv, GuardInv
<1>2. reply[c] # NoReply /\ req[c] \in Request /\ reply[c] \in Reply /\ k \in Keys /\ req[c].ts \in Int
  BY <1>1 DEF Receive, Stored, ReadValue, ReadRefused, ReadUnguarded, Deleted, Ended, Got, TypeOK, Request
<1>3. marks \in [Clients -> [Keys -> Nat]] /\ \A d \in Clients, l \in Keys : marks[d][l] \in Claims(d, l)
  BY <1>1 DEF TypeOK, Claims
<1>4. CASE Stored(c)
  <2> DEFINE v == Bumped(marks[c][k], req[c].ts)
  <2>1. req[c].ts \in Claims(c, k)
    BY <1>2, <1>4 DEF Stored, Got, Claims
  <2>2. v \in Nat /\ v \in Claims(c, k)
    <3>1. marks[c][k] \in Nat
      BY <1>2, <1>3
    <3> HIDE DEF k
    <3>2. QED BY <1>2, <1>3, <2>1, <3>1, BumpFacts
  <2>3. marks' = marks \/ marks' = [marks EXCEPT ![c][k] = v]
    BY <1>4 DEF Stored
  <2>4. \A d \in Clients, l \in Keys :
          marks'[d][l] \in Claims(d, l) \cup {0} /\ (d # c => marks'[d][l] = marks[d][l])
    <3> HIDE DEF k, v
    <3>1. CASE marks' = marks
      BY <1>3, <3>1
    <3>2. CASE marks' = [marks EXCEPT ![c][k] = v]
      BY <1>2, <1>3, <2>2, <3>2, MarkUpdate
    <3>3. QED BY <2>3, <3>1, <3>2
  <2>5. QED BY <1>1, <1>4, <2>4, MarkedKeepsPeers DEF Stored
<1>5. CASE ReadValue(c)
  <2> DEFINE ts == reply[c].row.ts
             v == Bumped(marks[c][k], ts)
  <2>1. ts \in Nat /\ ts \in Claims(c, k)
    BY <1>1, <1>2, <1>5 DEF ReadValue, Got, TypeOK, Reply, Row, Claims
  <2>2. v \in Nat /\ v \in Claims(c, k)
    <3>1. marks[c][k] \in Nat /\ ts \in Int
      BY <1>2, <1>3, <2>1
    <3> HIDE DEF k, ts
    <3>2. QED BY <1>2, <1>3, <2>1, <3>1, BumpFacts
  <2>3. marks' = [marks EXCEPT ![c][k] = v]
    BY <1>5 DEF ReadValue
  <2>4. \A d \in Clients, l \in Keys :
          marks'[d][l] \in Claims(d, l) \cup {0} /\ (d # c => marks'[d][l] = marks[d][l])
    <3> HIDE DEF k, v
    <3> QED BY <1>2, <1>3, <2>2, <2>3, MarkUpdate
  <2>5. QED BY <1>1, <1>5, <2>4, MarkedKeepsPeers DEF ReadValue
<1>6. CASE ReadRefused(c)
  <2>1. reply[c].row.ts \in Nat /\ Slack \in Nat /\ marks[c][k] \in Nat
    BY <1>1, <1>2, <1>3, <1>6, ClockAssumption DEF ReadRefused, Got, TypeOK, Reply, Row
  <2>2. marks[c][k] <= reply[c].row.ts + Slack /\ reply[c].row.ts < marks[c][k] - Slack
    BY <1>2, <1>6 DEF ReadRefused, Rollback, Got, PeersInv, FreshReplies
  <2>3. QED
    <3> HIDE DEF k
    <3> QED BY <2>1, <2>2
<1>7. CASE ReadUnguarded(c)
  BY <1>1, <1>3, <1>7, MarkedKeepsPeers DEF ReadUnguarded
<1>8. CASE Deleted(c)
  <2>1. marks' = marks \/ marks' = [marks EXCEPT ![c][k] = 0]
    BY <1>8 DEF Deleted
  <2>2. \A d \in Clients, l \in Keys :
          marks'[d][l] \in Claims(d, l) \cup {0} /\ (d # c => marks'[d][l] = marks[d][l])
    <3> HIDE DEF k
    <3>1. CASE marks' = marks
      BY <1>3, <3>1
    <3>2. CASE marks' = [marks EXCEPT ![c][k] = 0]
      BY <1>2, <1>3, <3>2, MarkUpdate
    <3>3. QED BY <2>1, <3>1, <3>2
  <2>3. QED BY <1>1, <1>8, <2>2, MarkedKeepsPeers DEF Deleted
<1>9. CASE Ended(c)
  <2>1. reply[c].kind # "stale"
    BY <1>2 DEF PeersInv, FreshReplies
  <2>2. Done(c, "none") /\ marks' = marks
    BY <1>9, <2>1 DEF Ended
  <2>3. QED BY <1>1, <1>3, <2>2, MarkedKeepsPeers
<1>10. QED BY <1>4, <1>5, <1>6, <1>7, <1>8, <1>9 DEF Receive

LEMMA PeersNext == Synced /\ PeersInv /\ [Next]_vars => PeersInv'
<1> SUFFICES ASSUME Synced, PeersInv, [Next]_vars PROVE PeersInv'
  OBVIOUS
<1>1. GuardInv /\ GuardInv' /\ TypeOK /\ Past /\ now \in Nat
  BY GuardNext DEF PeersInv, GuardInv, TypeOK
<1>2. ASSUME NEW c \in Clients, NEW op \in Ops, NEW k \in Keys, Send(c, op, k) PROVE PeersInv'
  <2>1. now + Offset[c] = now
    BY <1>1 DEF Synced
  <2>2. \A d \in Clients : req'[d] # NoRequest => req'[d].ts <= now
    BY <1>1, <1>2, <2>1 DEF Send, TypeOK, Past
  <2>3. \A d \in Clients : reply'[d] # NoReply => reply'[d] = reply[d] /\ req'[d] = req[d]
    BY <1>1, <1>2 DEF Send, TypeOK
  <2>4. QED BY <1>1, <1>2, <2>2, <2>3, QuietKeepsPeers DEF Send, TypeOK, Past
<1>3. CASE \E c \in Clients : Serve(c) \/ Receive(c)
  BY <1>3, ServeKeepsPeers, ReceiveKeepsPeers
<1>4. ASSUME NEW c \in Clients, GiveUp(c) PROVE PeersInv'
  <2>1. \A r \in late' : r.ts <= now
    BY <1>1, <1>4 DEF GiveUp, Past
  <2>2. QED BY <1>1, <1>4, <2>1, QuietKeepsPeers DEF GiveUp, TypeOK, Past
<1>5. CASE \E r \in late : ServeLate(r)
  BY <1>5, ServeLateKeepsPeers
<1>6. CASE Restart
  BY <1>1, <1>6, QuietKeepsPeers DEF Restart, Crash, TypeOK, Past
<1>7. CASE TakeBackup \/ Restore
  BY <1>7 DEF TakeBackup, Restore, Synced
<1>8. CASE Tick
  <2>1. now' = now + 1 /\ UNCHANGED <<rows, req, reply, late, marks, outcome>>
    BY <1>8 DEF Tick
  <2>2. now' \in Nat /\ now' >= now
    BY <1>1, <2>1
  <2>3. (\A d \in Clients : req'[d] # NoRequest => req'[d].ts <= now') /\ \A r \in late' : r.ts <= now'
    BY <1>1, <2>1 DEF Past, TypeOK, Request
  <2>4. QED BY <1>1, <2>1, <2>2, <2>3, QuietKeepsPeers
<1>9. CASE UNCHANGED vars
  BY <1>1, <1>9, QuietKeepsPeers DEF vars, Past
<1>10. QED BY <1>2, <1>3, <1>4, <1>5, <1>6, <1>7, <1>8, <1>9 DEF Next

\* context_hwm's slack is as wide as the daemon's skew window so that, with clocks
\* that agree, no honest peer is ever refused as a rolled-back one.
THEOREM SyncedReadsServed ==
  ASSUME Synced PROVE Spec => []HonestReadsServed
<1>1. Init => PeersInv
  BY PeersInit
<1>2. PeersInv /\ [Next]_vars => PeersInv'
  BY PeersNext, Synced
<1>3. PeersInv => HonestReadsServed
  BY DEF PeersInv
<1>4. QED BY <1>1, <1>2, <1>3, PTL DEF Spec

\* Nor is an honest put refused as a stale one (_put's floor).
THEOREM SyncedPutsStored ==
  ASSUME Synced PROVE Spec => []HonestPutsStored
<1>1. Init => PeersInv
  BY PeersInit
<1>2. PeersInv /\ [Next]_vars => PeersInv'
  BY PeersNext, Synced
<1>3. PeersInv => HonestPutsStored
  BY DEF PeersInv
<1>4. QED BY <1>1, <1>2, <1>3, PTL DEF Spec

\* Both together: with clocks that agree, the guard against a rolled-back owner and
\* the floor against a stale writer cost no honest peer an operation.
THEOREM SyncedPeersServed ==
  ASSUME Synced PROVE Spec => []HonestPeersServed
<1>1. Spec => []HonestReadsServed
  BY SyncedReadsServed, Synced
<1>2. Spec => []HonestPutsStored
  BY SyncedPutsStored, Synced
<1>3. HonestReadsServed /\ HonestPutsStored => HonestPeersServed
  BY DEF HonestPeersServed
<1>4. QED BY <1>1, <1>2, <1>3, PTL

-----------------------------------------------------------------------------
(* The floor and the acknowledgements, whatever the clocks show. *)

\* No row is dated further ahead of the daemon's clock than the slack.
Near(table) == \A k \in Keys : table[k] # NoRow => table[k].ts <= now + Slack

\* A request is signed by the client that sent it.
OwnRequests == \A c \in Clients : req[c] # NoRequest => req[c].by = c

FloorInv == GuardInv /\ Near(rows) /\ Near(backup) /\ OwnRequests

LEMMA FloorInit == Init => FloorInv
BY GuardInit DEF Init, FloorInv, Near, OwnRequests, Empty

\* Only a sane put adds a row.
LEMMA HandleKeepsNear ==
  ASSUME TypeOK, Near(rows), NEW r \in Request, Handle(r), now' = now
  PROVE  Near(rows)'
<1>1. SUFFICES ASSUME NEW k \in Keys, rows'[k] # NoRow PROVE rows'[k].ts <= now + Slack
  BY DEF Near
<1>2. \/ rows'[k] = rows[k] /\ rows[k] # NoRow
      \/ rows'[k] = [writer |-> r.by, ts |-> r.ts] /\ Verdict(r).kind = "stored"
  BY <1>1, HandleFacts
<1>3. CASE rows'[k] = rows[k] /\ rows[k] # NoRow
  BY <1>3 DEF Near
<1>4. CASE rows'[k] = [writer |-> r.by, ts |-> r.ts] /\ Verdict(r).kind = "stored"
  <2>1. r.ts <= now + Slack
    BY <1>4, VerdictFacts DEF Sane
  <2>2. QED BY <2>1, <1>4
<1>5. QED BY <1>2, <1>3, <1>4

LEMMA FloorNext == FloorInv /\ [Next]_vars => FloorInv'
<1> SUFFICES ASSUME FloorInv, [Next]_vars PROVE FloorInv'
  OBVIOUS
<1>1. GuardInv' /\ TypeOK /\ Near(rows) /\ Near(backup) /\ OwnRequests
  BY GuardNext DEF FloorInv, GuardInv
<1>2. ASSUME NEW c \in Clients, NEW op \in Ops, NEW k \in Keys, Send(c, op, k)
      PROVE  FloorInv'
  BY <1>1, <1>2 DEF Send, FloorInv, Near, OwnRequests, TypeOK
<1>3. ASSUME NEW c \in Clients, Serve(c)
      PROVE  FloorInv'
  <2>1. req[c] \in Request /\ Handle(req[c]) /\ UNCHANGED <<now, backup, req>>
    BY <1>1, <1>3 DEF Serve, TypeOK
  <2>2. Near(rows)'
    BY <1>1, <2>1, HandleKeepsNear
  <2>3. QED BY <1>1, <2>1, <2>2 DEF FloorInv, Near, OwnRequests
<1>4. ASSUME NEW r \in late, ServeLate(r)
      PROVE  FloorInv'
  <2>1. r \in Request /\ Handle(r) /\ UNCHANGED <<now, backup, req>>
    BY <1>1, <1>4 DEF ServeLate, TypeOK
  <2>2. Near(rows)'
    BY <1>1, <2>1, HandleKeepsNear
  <2>3. QED BY <1>1, <2>1, <2>2 DEF FloorInv, Near, OwnRequests
<1>5. ASSUME NEW c \in Clients, Receive(c)
      PROVE  FloorInv'
  <2>1. UNCHANGED <<now, rows, backup>> /\ req' = [req EXCEPT ![c] = NoRequest]
    BY <1>5 DEF Receive, Stored, ReadValue, ReadRefused, ReadUnguarded, Deleted, Ended, Done
  <2>2. QED BY <1>1, <2>1 DEF FloorInv, Near, OwnRequests, TypeOK
<1>6. ASSUME NEW c \in Clients, GiveUp(c)
      PROVE  FloorInv'
  BY <1>1, <1>6 DEF GiveUp, FloorInv, Near, OwnRequests, TypeOK
<1>7. CASE Restart \/ Restore
  BY <1>1, <1>7 DEF Restart, Restore, Crash, FloorInv, Near, OwnRequests
<1>8. CASE TakeBackup
  BY <1>1, <1>8 DEF TakeBackup, FloorInv, Near, OwnRequests
<1>9. CASE Tick
  <2>1. now' >= now /\ now \in Nat /\ now' \in Nat /\ UNCHANGED <<rows, backup, req>>
    BY <1>1, <1>9 DEF Tick, TypeOK
  <2>2. ASSUME NEW table \in Tables, Near(table), NEW k \in Keys, table[k] # NoRow
        PROVE  table[k].ts <= now' + Slack
    <3>1. table[k].ts \in Nat /\ table[k].ts <= now + Slack
      BY <2>2 DEF Near, Tables, Row
    <3>2. QED BY <2>1, <3>1, ClockAssumption
  <2>3. rows \in Tables /\ backup \in Tables
    BY <1>1 DEF TypeOK, Tables
  <2>4. Near(rows)' /\ Near(backup)'
    BY <1>1, <2>1, <2>2, <2>3 DEF Near
  <2>5. QED BY <1>1, <2>1, <2>4 DEF FloorInv, OwnRequests
<1>10. CASE UNCHANGED vars
  BY <1>1, <1>10 DEF vars, FloorInv, Near, OwnRequests
<1>11. QED BY <1>2, <1>3, <1>4, <1>5, <1>6, <1>7, <1>8, <1>9, <1>10 DEF Next

\* Only the daemon's answer to a client gives it one.
LEMMA OnlyServeAnswers ==
  ASSUME TypeOK, Next, NEW c \in Clients, reply[c] = NoReply, reply'[c] # NoReply
  PROVE  Serve(c)
<1>1. ASSUME NEW d \in Clients, Receive(d) PROVE reply'[c] = NoReply
  <2>1. reply' = [reply EXCEPT ![d] = NoReply]
    BY <1>1 DEF Receive, Stored, ReadValue, ReadRefused, ReadUnguarded, Deleted, Ended, Done
  <2>2. QED BY <2>1 DEF TypeOK
<1>2. ASSUME NEW d \in Clients, GiveUp(d) PROVE reply'[c] = NoReply
  BY <1>2 DEF GiveUp, TypeOK
<1>3. ASSUME NEW d \in Clients, NEW op \in Ops, NEW k \in Keys, Send(d, op, k) PROVE reply'[c] = NoReply
  BY <1>3 DEF Send
<1>4. ASSUME Restart \/ TakeBackup \/ Restore \/ Tick \/ \E r \in late : ServeLate(r)
      PROVE  reply'[c] = NoReply
  BY <1>4 DEF Restart, TakeBackup, Restore, Crash, Tick, ServeLate
<1>5. PICK d \in Clients : Serve(d)
  BY <1>1, <1>2, <1>3, <1>4 DEF Next
<1>6. d = c
  BY <1>5 DEF Serve, TypeOK
<1>7. QED BY <1>5, <1>6

\* A put the floor turns away is older than a row that is itself at most the slack
\* ahead of the daemon's clock: however fast its clock, no writer can put the floor
\* above the present (_put refuses a timestamp beyond now_ns + FLOOR_SLACK_NS).
THEOREM FloorNotPoisonedHolds == Spec => FloorNotPoisoned
<1> DEFINE Kept == \A c \in Clients : Served(c, "stale") => req[c].ts < now
<1>1. FloorInv /\ [Next]_vars => [Kept]_vars
  <2> SUFFICES ASSUME FloorInv, Next, NEW c \in Clients, Served(c, "stale")
               PROVE  req[c].ts < now
    OBVIOUS
  <2>1. TypeOK /\ Near(rows)
    BY DEF FloorInv, GuardInv
  <2>2. Serve(c)
    BY <2>1, OnlyServeAnswers DEF Served
  <2>3. req[c] \in Request /\ Verdict(req[c]).kind = "stale"
    BY <2>1, <2>2 DEF Serve, Served, TypeOK
  <2>4. ~AboveFloor(req[c])
    BY <2>1, <2>3, VerdictFacts
  <2>5. req[c].key \in Keys /\ req[c].ts \in Int
    BY <2>3 DEF Request
  <2> DEFINE row == rows[req[c].key]
  <2>6. row # NoRow /\ ~(req[c].ts >= row.ts - Slack) /\ row.ts <= now + Slack /\ row.ts \in Nat
    BY <2>1, <2>4, <2>5 DEF AboveFloor, Near, TypeOK, Row
  <2>7. now \in Nat /\ Slack \in Nat
    BY <2>1, ClockAssumption DEF TypeOK
  <2>8. QED BY <2>5, <2>6, <2>7
<1>2. QED BY <1>1, FloorInit, FloorNext, PTL DEF Spec, FloorNotPoisoned

-----------------------------------------------------------------------------
(* The retention sweep. *)

\* A sweep leaves a writer's newest row, or one as new, unless the cap is 1: nine
\* tenths of that is nothing.
LEMMA SweepKeepsNewest ==
  ASSUME Cap # 1, NEW table \in Tables, NEW left \in Swept(table), NEW w \in Clients, NEW k \in Of(table, w)
  PROVE  \E l \in Of(left, w) : left[l].ts >= table[k].ts
<1>1. k \in Keys /\ table[k] # NoRow /\ table[k].writer = w /\ table[k].ts \in Nat
  BY DEF Of, Tables, Row
<1>2. CASE left = table
  BY <1>1, <1>2
<1>3. ASSUME Cap # 0,
             NEW gone \in SUBSET {l \in Keys : table[l] # NoRow},
             Evicted(table, w, gone), left = Without(table, gone)
      PROVE  \E l \in Of(left, w) : left[l].ts >= table[k].ts
  <2> DEFINE mine == Of(table, w)
             kept == mine \ gone
             excess == IF Cardinality(mine) > Cap THEN Cardinality(mine) - (Cap * 9) \div 10 ELSE 0
  <2>1. IsFiniteSet(mine) /\ IsFiniteSet(gone \cap mine) /\ Cardinality(mine) \in Nat
    <3>1. IsFiniteSet(mine)
      BY ClientsAssumption, FS_Subset DEF Of
    <3>2. QED BY <3>1, FS_Subset, FS_CardinalityType
  <2>2. Cardinality(gone \cap mine) = excess
    BY <1>3 DEF Evicted
  <2>3. (Cap * 9) \div 10 >= 1
    BY <1>3, RetentionAssumption
  <2>4. Cardinality(mine) # 0
    BY <2>1, FS_EmptySet
  <2>5. excess < Cardinality(mine)
    BY <2>1, <2>3, <2>4, RetentionAssumption
  <2>6. kept # {}
    <3>1. SUFFICES ASSUME kept = {} PROVE FALSE
      OBVIOUS
    <3>2. gone \cap mine = mine
      BY <3>1
    <3>3. Cardinality(mine) = excess
      BY <2>2, <3>2
    <3> HIDE DEF mine, excess
    <3>4. QED BY <2>1, <2>5, <3>3
  <2>7. ASSUME NEW l \in kept PROVE l \in Of(left, w) /\ left[l] = table[l] /\ table[l].ts \in Nat
    BY <1>3, <2>7 DEF Of, Without, Tables, Row
  <2>8. CASE k \in gone
    <3>1. PICK l \in kept : TRUE
      BY <2>6
    <3>2. table[k].ts <= table[l].ts
      BY <1>3, <2>8, <3>1 DEF Evicted
    <3>3. QED BY <1>1, <2>7, <3>1, <3>2
  <2>9. CASE k \notin gone
    <3>1. k \in kept
      BY <2>9
    <3>2. QED BY <1>1, <2>7, <3>1
  <2>10. QED BY <2>8, <2>9
<1>4. \/ left = table
      \/ /\ Cap # 0
         /\ \E gone \in SUBSET {l \in Keys : table[l] # NoRow} :
              Evicted(table, w, gone) /\ left = Without(table, gone)
  BY DEF Swept
<1>5. QED BY <1>2, <1>3, <1>4

\* What the daemon acknowledges is on the bus when it does, though the put may have
\* set off a sweep.  With ASK_FABLE_CONTEXT_MAX_ROWS=1 it need not be: int(1 * 0.9)
\* rows, none, survive the sweep.
THEOREM AcknowledgedIsPublishedHolds ==
  ASSUME Cap # 1 PROVE Spec => AcknowledgedIsPublished
<1> DEFINE Kept == \A c \in Clients : Served(c, "stored") =>
                     \E k \in Of(rows', c) : rows'[k].ts >= req[c].ts
<1>1. FloorInv /\ [Next]_vars => [Kept]_vars
  <2> SUFFICES ASSUME FloorInv, Next, NEW c \in Clients, Served(c, "stored")
               PROVE  \E k \in Of(rows', c) : rows'[k].ts >= req[c].ts
    OBVIOUS
  <2>1. TypeOK /\ OwnRequests
    BY DEF FloorInv, GuardInv
  <2>2. Serve(c)
    BY <2>1, OnlyServeAnswers DEF Served
  <2> DEFINE r == req[c]
             k == r.key
             stored == [rows EXCEPT ![k] = [writer |-> c, ts |-> r.ts]]
  <2>3. r \in Request /\ r.by = c /\ Verdict(r).kind = "stored" /\ Handle(r)
    BY <2>1, <2>2 DEF Serve, Served, TypeOK, OwnRequests
  <2>4. k \in Keys /\ r.ts \in Nat
    <3>1. Sane(r)
      BY <2>1, <2>3, VerdictFacts
    <3>2. QED BY <2>3, <3>1 DEF Sane, Request
  <2>5. rows' \in Swept(stored) \/ rows' = stored
    BY <2>3 DEF Handle, HandlePut, HandleDelete, HandleRest
  <2>6. stored \in Tables /\ stored[k] = [writer |-> c, ts |-> r.ts]
    BY <2>1, <2>4 DEF TypeOK, Tables, Row
  <2>7. k \in Of(stored, c) /\ stored[k].ts = r.ts
    BY <2>4, <2>6, NullAssumption DEF Of, Tables, Row
  <2> HIDE DEF stored, k, r
  <2>8. CASE rows' = stored
    BY <2>4, <2>7, <2>8 DEF r
  <2>9. CASE rows' \in Swept(stored)
    BY <2>6, <2>7, <2>9, SweepKeepsNewest DEF r
  <2>10. QED BY <2>5, <2>8, <2>9
<1>2. QED BY <1>1, FloorInit, FloorNext, PTL DEF Spec, AcknowledgedIsPublished
=============================================================================
