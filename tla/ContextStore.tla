------------------------------ MODULE ContextStore ----------------------------
(* The context store of one machine (context_store.py's local backend) under the    *)
(* handlers of several server processes: context(op=write|pack|delete),               *)
(* context_read, and _prepare_context, which fetches what a question refers to before *)
(* any model is asked.  Every operation of the store may find the file locked; it     *)
(* then says nothing but None and leaves the reason in last_error, of which there is  *)
(* one per process.  A handler runs without an await, so in one process one at a time.*)
(* The compare-and-set that falsify uses is in module Falsify.                        *)
EXTENDS Integers, Sequences, FiniteSets, SequencesExt

CONSTANTS
  Agents,     \* the server processes
  BlobKeys,   \* keys of the store
  RefLists,   \* the lists of keys that a question may refer to
  CtxCap,     \* ASK_FABLE_CONTEXT_MAX_ROWS; 0 or less is no cap
  CtxSweep,   \* a process sweeps after so many of its writes
  MaxWrites, MaxCalls  \* bounds

ASSUME ContextAssumption ==
  /\ RefLists \subseteq Seq(BlobKeys) /\ CtxCap \in Int /\ CtxSweep \in Nat \ {0}
  /\ {MaxWrites, MaxCalls} \subseteq Nat

VARIABLES
  blobs,      \* what is stored: per key the number of its last write, 0 for nothing
  ctxWrites,  \* writes so far, which are also the times of the rows
  ctxAt,      \* where each process is
  pending,    \* the references it has still to fetch
  asked,      \* what else the question has: inline context or a session's history
  fetched,    \* of those it has fetched: resolved, missing, degraded
  unread,     \* those whose read failed
  found,      \* the writes whose values it got
  absent,     \* those that were not in the store when it looked
  lastError,  \* per process: last_error() is not None
  counter,    \* _sweep_counter
  surplus,    \* rows its sweep will delete
  outcome,    \* what the last call returned
  calls

ctxVars == <<blobs, ctxWrites, ctxAt, pending, asked, fetched, unread, found, absent,
             lastError, counter, surplus, outcome, calls>>

Nothing == [resolved |-> {}, missing |-> {}, degraded |-> {}]

ContextInit ==
  /\ blobs = [n \in BlobKeys |-> 0] /\ ctxWrites = 0 /\ calls = 0
  /\ ctxAt = [a \in Agents |-> "idle"] /\ pending = [a \in Agents |-> <<>>]
  /\ asked = [a \in Agents |-> FALSE] /\ fetched = [a \in Agents |-> Nothing]
  /\ unread = [a \in Agents |-> {}] /\ found = [a \in Agents |-> {}] /\ absent = [a \in Agents |-> {}]
  /\ lastError = [a \in Agents |-> FALSE]
  /\ counter = [a \in Agents |-> 0] /\ surplus = [a \in Agents |-> 0]
  /\ outcome = [a \in Agents |-> "none"]

Rows == {n \in BlobKeys : blobs[n] # 0}
CtxGo(a, place) == ctxAt' = [ctxAt EXCEPT ![a] = place]
Says(a, what) == outcome' = [outcome EXCEPT ![a] = what]
Asks == <<pending, asked, fetched, unread, found, absent>>
Sweeps == <<counter, surplus>>

\* Mutant of Cleared: an operation does not forget the error of the one before.
ClearedNever(error) == error

\* Every public operation starts clean.
Cleared(error) == FALSE

\* After an operation last_error tells whether this one failed.
Notes(a, fails) == lastError' = [lastError EXCEPT ![a] = fails \/ Cleared(lastError[a])]

-----------------------------------------------------------------------------
(* context(op="write") and context(op="pack"), and the sweep behind every so many     *)
(* writes.                                                                           *)

Call(a) == ctxAt[a] = "idle" /\ calls < MaxCalls /\ calls' = calls + 1

Put(a, n, failure) ==
  /\ \E fails \in BOOLEAN :
       /\ Notes(a, fails) /\ Says(a, IF fails THEN failure ELSE "ok")
       /\ blobs' = IF fails THEN blobs ELSE [blobs EXCEPT ![n] = ctxWrites + 1]
       /\ ctxWrites' = IF fails THEN ctxWrites ELSE ctxWrites + 1
       /\ counter' = IF fails THEN counter ELSE [counter EXCEPT ![a] = (@ + 1) % CtxSweep]
       /\ CtxGo(a, IF ~fails /\ counter'[a] = 0 /\ CtxCap > 0 THEN "count" ELSE "idle")
  /\ UNCHANGED <<Asks, surplus>>

WriteBlob(a, n) == Call(a) /\ ctxWrites < MaxWrites /\ Put(a, n, "write_failed")

\* A pack that found nothing it may read, or has no room for it, leaves the store alone.
PackBlob(a, n) ==
  /\ Call(a)
  /\ \/ /\ Says(a, "empty_pack")
        /\ UNCHANGED <<blobs, ctxWrites, ctxAt, Asks, lastError, Sweeps>>
     \/ ctxWrites < MaxWrites /\ Put(a, n, "store_failed")

CountRows(a) ==
  /\ ctxAt[a] = "count"
  /\ \E fails \in BOOLEAN :
       /\ surplus' = [surplus EXCEPT ![a] = IF ~fails /\ Cardinality(Rows) > CtxCap
                                           THEN Cardinality(Rows) - (CtxCap * 9) \div 10 ELSE 0]
       /\ lastError' = [lastError EXCEPT ![a] = @ \/ fails]
  /\ CtxGo(a, IF surplus'[a] > 0 THEN "evict" ELSE "idle")
  /\ UNCHANGED <<blobs, ctxWrites, Asks, counter, outcome, calls>>

EvictRows(a) ==
  /\ ctxAt[a] = "evict" /\ CtxGo(a, "idle")
  /\ \E fails \in BOOLEAN :
       /\ blobs' = [n \in BlobKeys |->
            IF ~fails /\ Cardinality({m \in Rows : blobs[m] < blobs[n]}) < surplus[a] THEN 0 ELSE blobs[n]]
       /\ lastError' = [lastError EXCEPT ![a] = @ \/ fails]
  /\ surplus' = [surplus EXCEPT ![a] = 0]
  /\ UNCHANGED <<ctxWrites, Asks, counter, outcome, calls>>

\* context(op="delete") answers ok, with deleted false, also when it could not look.
DeleteBlob(a, n) ==
  /\ Call(a) /\ Says(a, "ok")
  /\ \E fails \in BOOLEAN :
       Notes(a, fails) /\ blobs' = IF fails THEN blobs ELSE [blobs EXCEPT ![n] = 0]
  /\ UNCHANGED <<ctxWrites, ctxAt, Asks, Sweeps>>

\* get and get_meta: 0 for a blob that is not there and for one that cannot be read.
Got(n, fails) == IF fails THEN 0 ELSE blobs[n]

\* context_read of a key; then of the list, which names the error beside what it has.
ReadBlob(a, n) ==
  /\ Call(a)
  /\ \E fails \in BOOLEAN :
       /\ Notes(a, fails)
       /\ Says(a, IF Got(n, fails) # 0 THEN "ok"
                  ELSE IF lastError'[a] THEN "store_unavailable" ELSE "not_found")
  /\ UNCHANGED <<blobs, ctxWrites, ctxAt, Asks, Sweeps>>

ListBlobs(a) ==
  /\ Call(a)
  /\ \E fails \in BOOLEAN : Notes(a, fails) /\ Says(a, IF lastError'[a] THEN "store_error" ELSE "ok")
  /\ UNCHANGED <<blobs, ctxWrites, ctxAt, Asks, Sweeps>>

-----------------------------------------------------------------------------
(* _prepare_context *)

Ask(a) ==
  /\ Call(a) /\ CtxGo(a, "fetch") /\ Says(a, "none")
  /\ \E list \in RefLists, more \in BOOLEAN :
       pending' = [pending EXCEPT ![a] = list] /\ asked' = [asked EXCEPT ![a] = more]
  /\ fetched' = [fetched EXCEPT ![a] = Nothing]
  /\ unread' = [unread EXCEPT ![a] = {}] /\ found' = [found EXCEPT ![a] = {}]
  /\ absent' = [absent EXCEPT ![a] = {}]
  /\ UNCHANGED <<blobs, ctxWrites, lastError, Sweeps>>

\* On which list a key goes.
Sorted(f, n, value, error) ==
  IF value # 0 THEN [f EXCEPT !.resolved = @ \cup {n}]
  ELSE IF error THEN [f EXCEPT !.degraded = @ \cup {n}]
  ELSE [f EXCEPT !.missing = @ \cup {n}]

\* One get, and at once the look at last_error that tells absent from unreadable.
Fetch(a) ==
  /\ ctxAt[a] = "fetch" /\ pending[a] # <<>>
  /\ LET n == Head(pending[a]) IN
       \E fails \in BOOLEAN :
         /\ Notes(a, fails)
         /\ fetched' = [fetched EXCEPT ![a] = Sorted(@, n, Got(n, fails), lastError'[a])]
         /\ unread' = IF fails THEN [unread EXCEPT ![a] = @ \cup {n}] ELSE unread
         /\ found' = IF Got(n, fails) = 0 THEN found ELSE [found EXCEPT ![a] = @ \cup {blobs[n]}]
         /\ absent' = IF ~fails /\ blobs[n] = 0 THEN [absent EXCEPT ![a] = @ \cup {n}] ELSE absent
  /\ pending' = [pending EXCEPT ![a] = Tail(@)]
  /\ UNCHANGED <<blobs, ctxWrites, ctxAt, asked, Sweeps, outcome, calls>>

\* A degraded reference stops the call; missing ones do when nothing else is left to
\* answer from, and their error lists the nearest keys there are, another operation.
Prepared(a) ==
  /\ ctxAt[a] = "fetch" /\ pending[a] = <<>> /\ CtxGo(a, "idle")
  /\ LET f == fetched[a]
         needs == f.degraded = {} /\ f.missing # {} /\ f.resolved = {} /\ ~asked[a]
     IN /\ Says(a, IF f.degraded # {} THEN "store_degraded" ELSE IF needs THEN "needs_context" ELSE "asked")
        /\ IF needs THEN \E fails \in BOOLEAN : Notes(a, fails) ELSE UNCHANGED lastError
  /\ UNCHANGED <<blobs, ctxWrites, Asks, Sweeps, calls>>

ContextNext ==
  \E a \in Agents :
    \/ \E n \in BlobKeys : WriteBlob(a, n) \/ PackBlob(a, n) \/ DeleteBlob(a, n) \/ ReadBlob(a, n)
    \/ ListBlobs(a) \/ CountRows(a) \/ EvictRows(a) \/ Ask(a) \/ Fetch(a) \/ Prepared(a)

ContextSpec == ContextInit /\ [][ContextNext]_ctxVars

\* "a hard retry", not "a fix-the-key": a model is asked only when every reference was
\* read or was not there; the caller is told to fix its keys only when none of them was
\* there, and that the store is degraded only when one of this question's reads failed.
NeverAskedBlind ==
  \A a \in Agents :
    LET f == fetched[a] IN
      /\ outcome[a] = "asked" => unread[a] = {}
      /\ outcome[a] = "needs_context" => unread[a] = {} /\ found[a] = {} /\ f.missing \subseteq absent[a]
      /\ outcome[a] = "store_degraded" => unread[a] # {}
=============================================================================
