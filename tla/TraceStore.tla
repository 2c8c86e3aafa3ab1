------------------------------- MODULE TraceStore -----------------------------
(* trace_store.EventStore: events appended by several processes to one file, under  *)
(* a lock on a file beside it; the full file becomes a segment, the oldest segments *)
(* are trimmed, and readers go through what they listed, with no lock.  An event is *)
(* its number in the order of writing.                                              *)
EXTENDS Integers, Sequences, FiniteSets, SequencesExt

CONSTANTS
  Appenders, Readers,
  Sizes,        \* sizes of events, in bytes
  MaxBytes,     \* max_bytes; 0 or less never rotates
  Retain,       \* retain_segments; 0 drops the full file, All keeps every segment
  All,
  NoAppender,
  MaxEvents, MaxReads  \* bounds

ASSUME TrailAssumption ==
  /\ Sizes \subseteq Nat \ {0} /\ MaxBytes \in Int /\ Retain \in Nat \cup {All}
  /\ MaxEvents \in Nat /\ MaxReads \in Nat /\ NoAppender \notin Appenders

VARIABLES
  active,    \* the lines of the active file: event, size, readable, ended by "\n"
  segments,  \* rotated files: a stamp and their lines
  trailLock, \* who holds the lock
  appendAt,  \* where each process is in an append
  event,     \* the size of its event
  written,   \* events written so far
  acked,     \* those whose append returned True
  listing,   \* per reader: its direction, the files it has yet to read
  seen,      \* per reader: the lines it has gone through, in order
  reads

trailVars == <<active, segments, trailLock, appendAt, event, written, acked, listing, seen, reads>>

TrailInit ==
  /\ active = <<>> /\ segments = {} /\ trailLock = NoAppender
  /\ appendAt = [p \in Appenders |-> "idle"] /\ event = [p \in Appenders |-> 0]
  /\ written = 0 /\ acked = {} /\ reads = 0
  /\ listing = [r \in Readers |-> [newest |-> FALSE, left |-> <<>>]]
  /\ seen = [r \in Readers |-> <<>>]

\* The orders of rotated files by age: one, since the stamps differ.
ByAge(S) == {q \in [1 .. Cardinality(S) -> S] : \A i, j \in DOMAIN q : i < j => q[i].stamp < q[j].stamp}
Bytes(lines) == FoldSeq(LAMBDA line, sum : sum + line.size, 0, lines)

-----------------------------------------------------------------------------
(* append *)

AppendTo(p, place) == appendAt' = [appendAt EXCEPT ![p] = place]
KeepsReaders == UNCHANGED <<listing, seen, reads>>

Emit(p) ==
  /\ appendAt[p] = "idle" /\ AppendTo(p, "lock")
  /\ \E size \in Sizes : event' = [event EXCEPT ![p] = size]
  /\ UNCHANGED <<active, segments, trailLock, written, acked>> /\ KeepsReaders

TakeLock(p) ==
  /\ appendAt[p] = "lock" /\ trailLock = NoAppender
  /\ trailLock' = p /\ AppendTo(p, "rotate")
  /\ UNCHANGED <<active, segments, event, written, acked>> /\ KeepsReaders

\* _rotate_if_needed, up to the renaming; stamps are the clock's, which never goes back.
Rotate(p) ==
  /\ appendAt[p] = "rotate"
  /\ IF MaxBytes <= 0 \/ active = <<>> \/ Bytes(active) + event[p] <= MaxBytes
       THEN AppendTo(p, "write") /\ UNCHANGED <<active, segments>>
       ELSE /\ active' = <<>>
            /\ IF Retain = 0 THEN AppendTo(p, "write") /\ UNCHANGED segments
               ELSE /\ segments' = segments \cup {[stamp |-> written, lines |-> active]}
                    /\ AppendTo(p, "trim")
  /\ UNCHANGED <<trailLock, event, written, acked>> /\ KeepsReaders

\* Mutant of Excess: the newest segments are taken for the oldest.
ExcessNewest ==
  IF Retain = All THEN {} ELSE {s \in segments : Cardinality({t \in segments : t.stamp < s.stamp}) >= Retain}

\* _trim_segments keeps the newest ones.
Excess ==
  IF Retain = All THEN {} ELSE {s \in segments : Cardinality({t \in segments : t.stamp > s.stamp}) >= Retain}

\* One after the other is unlinked, the oldest first.
Trim(p) ==
  /\ appendAt[p] = "trim"
  /\ IF Excess = {} THEN AppendTo(p, "write") /\ UNCHANGED segments
     ELSE /\ \E s \in Excess : (\A t \in Excess : s.stamp <= t.stamp) /\ segments' = segments \ {s}
          /\ UNCHANGED appendAt
  /\ UNCHANGED <<active, trailLock, event, written, acked>> /\ KeepsReaders

\* A line that follows one without its end is one line with it, and unreadable.
With(lines, line) ==
  IF lines = <<>> THEN <<line>>
  ELSE IF Last(lines).ended THEN Append(lines, line)
  ELSE Append(Front(lines), [line EXCEPT !.readable = FALSE, !.size = @ + Last(lines).size])

\* An append is over; its lock is let go.
AppendOver(p) ==
  /\ AppendTo(p, "idle") /\ event' = [event EXCEPT ![p] = 0]
  /\ trailLock' = IF trailLock = p THEN NoAppender ELSE trailLock
  /\ UNCHANGED segments /\ KeepsReaders

\* The line is written; or, on a full disk, a part of it, and the append fails.
WriteLine(p) ==
  /\ appendAt[p] = "write" /\ written < MaxEvents /\ written' = written + 1
  /\ \E whole \in BOOLEAN :
       /\ active' = With(active, [event |-> written + 1, size |-> IF whole THEN event[p] ELSE 1,
                                  readable |-> whole, ended |-> whole])
       /\ acked' = IF whole THEN acked \cup {written + 1} ELSE acked
  /\ AppendOver(p)

\* The process dies, or a file operation fails before the line.
AppendFails(p) ==
  /\ appendAt[p] # "idle" /\ AppendOver(p) /\ UNCHANGED <<active, written, acked>>

-----------------------------------------------------------------------------
(* iter_records: a file is read in one step, since an open file keeps its lines when *)
(* it is renamed, and what is added to it meanwhile comes after them.  Of the lines   *)
(* it goes through a reader gets those that are readable.                             *)

Listed(order, newest) ==
  LET rotated == [i \in DOMAIN order |-> [segment |-> TRUE, stamp |-> order[i].stamp]]
      current == IF active = <<>> THEN <<>> ELSE <<[segment |-> FALSE, stamp |-> 0]>>
  IN  IF newest THEN current \o Reverse(rotated) ELSE rotated \o current

ListFiles(r) ==
  /\ listing[r].left = <<>> /\ reads < MaxReads /\ reads' = reads + 1
  /\ \E order \in ByAge(segments), newest \in BOOLEAN :
       listing' = [listing EXCEPT ![r] = [newest |-> newest, left |-> Listed(order, newest)]]
  /\ seen' = [seen EXCEPT ![r] = <<>>]
  /\ UNCHANGED <<active, segments, trailLock, appendAt, event, written, acked>>

\* The lines of a listed file, of none when it is gone by now.
LinesOf(name) ==
  IF ~name.segment THEN active
  ELSE LET there == {s \in segments : s.stamp = name.stamp}
       IN  IF there = {} THEN <<>> ELSE (CHOOSE s \in there : TRUE).lines

ReadFile(r) ==
  /\ listing[r].left # <<>>
  /\ LET new == LinesOf(Head(listing[r].left))
     IN  seen' = [seen EXCEPT ![r] = @ \o (IF listing[r].newest THEN Reverse(new) ELSE new)]
  /\ listing' = [listing EXCEPT ![r].left = Tail(@)]
  /\ UNCHANGED <<active, segments, trailLock, appendAt, event, written, acked, reads>>

TrailNext ==
  \/ \E p \in Appenders :
       Emit(p) \/ TakeLock(p) \/ Rotate(p) \/ Trim(p) \/ WriteLine(p) \/ AppendFails(p)
  \/ \E r \in Readers : ListFiles(r) \/ ReadFile(r)

TrailSpec == TrailInit /\ [][TrailNext]_trailVars

-----------------------------------------------------------------------------
(* What the trail promises. *)

EventsOf(lines) == {lines[i].event : i \in DOMAIN lines}
Stored == EventsOf(active) \cup UNION {EventsOf(s.lines) : s \in segments}
Before(E, F) == \A m \in E, n \in F : m < n
Ascending(lines) == \A i, j \in DOMAIN lines : i < j => lines[i].event < lines[j].event

\* Rotation and trimming take events from the old end only: from the oldest segment to
\* the active file all lines are in the order of writing, and what was acknowledged and
\* is gone is older than everything stored; and a reader gets no event twice and none
\* out of order, whatever is rotated or trimmed between its listing and its reading.
TrailInOrder ==
  /\ Ascending(active)
  /\ \A s \in segments : Ascending(s.lines) /\ Before(EventsOf(s.lines), EventsOf(active))
  /\ \A s, t \in segments : s.stamp < t.stamp => Before(EventsOf(s.lines), EventsOf(t.lines))
  /\ \A n \in acked, m \in Stored : m < n => n \in Stored
  /\ \A r \in Readers : Ascending(IF listing[r].newest THEN Reverse(seen[r]) ELSE seen[r])

\* append returned True for an event that is stored, but on the line that another's
\* failed write left without an end: no reader gets it.
AcknowledgedIsReadable ==
  \A lines \in {active} \cup {s.lines : s \in segments} : \A i \in DOMAIN lines :
    lines[i].event \in acked => lines[i].readable
=============================================================================
