------------------------------- MODULE Falsify -------------------------------
(***************************************************************************)
(* ask_falsify (falsify.py) on one session: runs of several server         *)
(* processes over one stored ledger (context_store.py, local backend) and  *)
(* one reputation store (reputation.py).                                   *)
(*                                                                         *)
(* A run reads the ledger, plays rounds of an assert and an attack turn on *)
(* its own copy while it awaits the models, and saves the copy after every *)
(* round if the row still has the version it expects.  The session's lock  *)
(* admits one run per process, the others give up after two seconds.  An   *)
(* agent may delete the ledger's key with context_delete.                  *)
(***************************************************************************)
EXTENDS FalsifyLedger

CONSTANTS
  Procs,       \* server processes
  Rounds,      \* values of the arguments `rounds` and `metamorph`
  Metamorph,
  Deletes,     \* the key may be deleted
  MaxRuns,     \* bounds of the model: runs of a process, rows a turn's block
  MaxRows,     \* has, and store errors
  MaxFaults,
  NoRow, NoRun

ASSUME RunAssumption == Rounds \subseteq Nat \ {0} /\ Metamorph \subseteq BOOLEAN /\ Deletes \in BOOLEAN
ASSUME BoundAssumption == MaxRuns \in Nat /\ MaxRows \in Nat /\ MaxFaults \in Nat

VARIABLES
  row,       \* the stored ledger and its version, or NoRow
  run,       \* each process's run
  outcomes,  \* the reputation store: each claim's outcome, or "none"
  runs,      \* runs each process has started
  faults     \* store errors so far

\* History: <<claim, status>> of every ledger that was ever stored.
VARIABLE stored

vars == <<row, run, outcomes, runs, faults, stored>>

Row == [ledger : Ledger, version : Nat \ {0}]
Settled == {"survived", "killed"}

Run ==
  [pc : {"assert", "attack", "report"},
   roles : [assertor : Agents, falsifier : Agents],
   metamorph : BOOLEAN,
   ledger : Ledger,
   before : Ledger,       \* the ledger the round began with
   version : Nat,         \* ledger_version
   left : Nat,            \* rounds still to play, this one included
   rows : Nat,            \* rows of this turn's block
   persistOk : BOOLEAN]

ASSUME NullAssumption == NoRow \notin Row /\ NoRun \notin Run

Init ==
  /\ row = NoRow /\ outcomes = [id \in Ids |-> "none"] /\ stored = {}
  /\ run = [p \in Procs |-> NoRun] /\ runs = [p \in Procs |-> 0] /\ faults = 0

Fault == faults < MaxFaults /\ faults' = faults + 1

SetRun(p, r) == run' = [run EXCEPT ![p] = r]
SetLedger(p, led) == SetRun(p, [run[p] EXCEPT !.ledger = led, !.rows = @ + 1])

At(p, pc) == run[p] # NoRun /\ run[p].pc = pc
MoreRows(p) == run[p].rows < MaxRows

----------------------------------------------------------------------------
(* The run's own steps. *)

\* An absent key is a new ledger, an unreadable store is none: the run ends.
Load(p) ==
  /\ run[p] = NoRun /\ runs[p] < MaxRuns
  /\ runs' = [runs EXCEPT ![p] = @ + 1]
  /\ \/ /\ \E a, f \in Agents, n \in Rounds, m \in Metamorph :
             /\ a # f
             /\ LET led == IF row = NoRow THEN NewLedger ELSE [row.ledger EXCEPT !.fixpoint = FALSE]
                IN SetRun(p, [pc |-> "assert", roles |-> [assertor |-> a, falsifier |-> f],
                              metamorph |-> m, ledger |-> led, before |-> led,
                              version |-> IF row = NoRow THEN 0 ELSE row.version,
                              left |-> n, rows |-> 0, persistOk |-> TRUE])
        /\ UNCHANGED faults
     \/ Fault /\ UNCHANGED run
  /\ UNCHANGED <<row, outcomes, stored>>

AssertRow(p) ==
  /\ At(p, "assert") /\ MoreRows(p)
  /\ \E id \in Ids, receipt \in {"ok", "bad"}, answers \in BOOLEAN :
       SetLedger(p, Asserted(run[p].ledger, id, run[p].roles.assertor, receipt, answers))
  /\ UNCHANGED <<row, outcomes, runs, faults, stored>>

ToAttack(p, led) == SetRun(p, [run[p] EXCEPT !.pc = "attack", !.ledger = led, !.rows = 0])

\* The block is through, or the turn has failed and there was none; then the
\* metamorph checks, each of which may find no paraphraser.
EndAssert(p) ==
  /\ At(p, "assert")
  /\ IF run[p].metamorph
     THEN \E done \in SUBSET Unchecked(run[p].ledger) :
            \E verdict \in [done -> {"stable", "unstable"}] : ToAttack(p, Checked(run[p].ledger, verdict))
     ELSE ToAttack(p, run[p].ledger)
  /\ UNCHANGED <<row, outcomes, runs, faults, stored>>

\* The run's very first turn fails, or the run is cancelled or dies.
Quit(p) ==
  /\ run[p] # NoRun /\ SetRun(p, NoRun)
  /\ UNCHANGED <<row, outcomes, runs, faults, stored>>

Challenge(p) ==
  /\ At(p, "attack") /\ MoreRows(p)
  /\ \E id \in Attackable(run[p].ledger) :
       SetLedger(p, Challenged(run[p].ledger, id, run[p].roles.falsifier))
  /\ UNCHANGED <<row, outcomes, runs, faults, stored>>

Contra(p) ==
  /\ At(p, "attack") /\ MoreRows(p)
  /\ \E id \in Attackable(run[p].ledger), new \in Ids, quoted \in BOOLEAN :
       SetLedger(p, Contradicted(run[p].ledger, id, new, quoted, run[p].roles.falsifier))
  /\ UNCHANGED <<row, outcomes, runs, faults, stored>>

\* The falsifier's test passes or fails; an inconclusive one changes nothing.
RunTest(p) ==
  /\ At(p, "attack") /\ MoreRows(p)
  /\ \E id \in Attackable(run[p].ledger) :
       \/ SetLedger(p, Withstood(run[p].ledger, id, run[p].roles.falsifier))
       \/ SetLedger(p, Killed(run[p].ledger, id, run[p].roles.falsifier))
  /\ UNCHANGED <<row, outcomes, runs, faults, stored>>

----------------------------------------------------------------------------
(* The save, and what follows it. *)

\* Mutant: any row is taken for the one that was read.
MutMatches(version) == IF version = 0 THEN row = NoRow ELSE row # NoRow

\* put with expected_version.
Matches(version) ==
  IF version = 0 THEN row = NoRow ELSE row # NoRow /\ row.version = version

Stored(led) == {<<id, led.claims[id].status>> : id \in ById(led)}

Save(version, led) ==
  /\ row' = [ledger |-> led, version |-> version + 1]
  /\ stored' = stored \cup Stored(led)

\* Mutant: a failed save is not remembered.
MutAfterSave(r, led, saved) ==
  LET next == [r EXCEPT !.ledger = led, !.rows = 0, !.left = @ - 1,
                        !.version = IF saved THEN @ + 1 ELSE @]
      again == [led EXCEPT !.fixpoint = FALSE]
  IN IF led.fixpoint \/ r.left = 1 THEN [next EXCEPT !.pc = "report"]
     ELSE [next EXCEPT !.pc = "assert", !.ledger = again, !.before = again]

\* A quiet round or the last one ends the loop.
AfterSave(r, led, saved) ==
  LET next == [r EXCEPT !.ledger = led, !.rows = 0, !.left = @ - 1,
                        !.version = IF saved THEN @ + 1 ELSE @,
                        !.persistOk = @ /\ saved]
      again == [led EXCEPT !.fixpoint = FALSE]
  IN IF led.fixpoint \/ r.left = 1 THEN [next EXCEPT !.pc = "report"]
     ELSE [next EXCEPT !.pc = "assert", !.ledger = again, !.before = again]

EndRound(p) ==
  /\ At(p, "attack")
  /\ LET r == run[p]
         led == EndOfRound(r.before, r.ledger)
     IN \/ /\ Matches(r.version) /\ Save(r.version, led)
           /\ SetRun(p, AfterSave(r, led, TRUE)) /\ UNCHANGED faults
        \/ /\ ~Matches(r.version)
           /\ SetRun(p, AfterSave(r, led, FALSE)) /\ UNCHANGED <<row, stored, faults>>
        \/ /\ Fault
           /\ SetRun(p, AfterSave(r, led, FALSE)) /\ UNCHANGED <<row, stored>>
  /\ UNCHANGED <<outcomes, runs>>

SettledIn(led) == {id \in ById(led) : led.claims[id].status \in Settled}

\* One upsert per settled claim, each of which may fail.
Recorded(led, done) ==
  [id \in Ids |-> IF id \in done THEN led.claims[id].status ELSE outcomes[id]]

Report(p) ==
  /\ At(p, "report")
  /\ IF run[p].persistOk
     THEN \E done \in SUBSET SettledIn(run[p].ledger) : outcomes' = Recorded(run[p].ledger, done)
     ELSE UNCHANGED outcomes
  /\ SetRun(p, NoRun)
  /\ UNCHANGED <<row, runs, faults, stored>>

\* context_delete, or the row cap's sweep.
Delete ==
  /\ Deletes /\ row # NoRow /\ row' = NoRow
  /\ UNCHANGED <<run, outcomes, runs, faults, stored>>

Step(p) ==
  \/ Load(p) \/ AssertRow(p) \/ EndAssert(p) \/ Challenge(p) \/ Contra(p) \/ RunTest(p)
  \/ EndRound(p) \/ Report(p) \/ Quit(p)

Next == Delete \/ \E p \in Procs : Step(p)

Spec == Init /\ [][Next]_vars

----------------------------------------------------------------------------
(* Properties. *)

TypeOK ==
  /\ row \in Row \cup {NoRow} /\ run \in [Procs -> Run \cup {NoRun}]
  /\ outcomes \in [Ids -> Settled \cup {"none"}]
  /\ runs \in [Procs -> 0..MaxRuns] /\ faults \in 0..MaxFaults
  /\ stored \subseteq Ids \X Statuses

\* A later ledger of a session: every claim is still there with its author, its
\* receipts and its attacks, at most answered since.
SameAttack(k, l) == k.by = l.by /\ k.accepted = l.accepted /\ (k.addressed => l.addressed)

Continues(c, d) ==
  /\ d.author = c.author /\ d.reopens >= c.reopens
  /\ IsPrefix(c.receipts, d.receipts)
  /\ Len(c.kills) <= Len(d.kills)
  /\ \A i \in DOMAIN c.kills : SameAttack(c.kills[i], d.kills[i])

Extends(led, later) ==
  /\ later.round > led.round /\ ById(led) \subseteq ById(later) /\ led.edges \subseteq later.edges
  /\ \A id \in ById(led) : Continues(led.claims[id], later.claims[id])

Rewritten == row # NoRow /\ row' # NoRow /\ row' # row

\* A run that saves has seen everything stored before it: overlapping runs of
\* two processes lose no claim, receipt or kill of each other (the
\* expected_version save of falsify.py and context_store.put).
NothingForgotten == [][Rewritten => Extends(row.ledger, row'.ledger)]_vars

\* From one stored ledger to the next a killed claim is killed again or has been
\* reopened by an answer, at most MaxReopens times, and a survivor only falls to a
\* kill: not to a restatement, a later corpus or an older run (apply_asserts,
\* resolve and _clerk_asserts).
DeadUnlessAnswered ==
  [][Rewritten => \A id \in ById(row.ledger) \cap ById(row'.ledger) :
       LET c == row.ledger.claims[id]
           d == row'.ledger.claims[id]
       IN /\ c.status = "killed" /\ d.status # "killed" => d.reopens \in c.reopens + 1 .. MaxReopens
          /\ c.status = "survived" => d.status \in {"survived", "killed"} \/ d.reopens > c.reopens]_vars

\* A stored survivor is supported, has no unanswered kill, and has withstood K
\* attacks after the last kill that was accepted: a reopened claim does not
\* live on what it withstood before (apply_asserts, resolve).
LastKill(c) == Cardinality({i \in DOMAIN c.kills : \E j \in i..Len(c.kills) : c.kills[j].accepted})

SurvivalIsEarned ==
  row # NoRow =>
    \A id \in WithStatus(row.ledger, "survived") :
      LET c == row.ledger.claims[id]
      IN Supported(c) /\ ~StandsKilled(c) /\ Len(c.kills) - LastKill(c) >= K

\* The reputation inside the stored ledger counts each accepted kill for its
\* killer, and each death of a claim once against its author: a claim dies again
\* only after it was reopened (_clerk_attacks skips the dead).
Accepted(led) ==
  UNION {{<<id, i>> : i \in {j \in DOMAIN led.claims[id].kills : led.claims[id].kills[j].accepted}}
           : id \in ById(led)}

Deaths(led) ==
  UNION {{<<id, i>> : i \in 1 .. led.claims[id].reopens + (IF led.claims[id].status = "killed" THEN 1 ELSE 0)}
           : id \in ById(led)}

RepCountsKillsOnce ==
  row # NoRow =>
    \A a \in Agents :
      LET led == row.ledger
      IN /\ led.rep[a].kills = Cardinality({k \in Accepted(led) : led.claims[k[1]].kills[k[2]].by = a})
         /\ led.rep[a].deaths = Cardinality({d \in Deaths(led) : led.claims[d[1]].author = a})

\* What the reputation store holds of a claim, some stored ledger once said:
\* no outcome of a round that was lost to another run counts (the persist_ok
\* gate of _falsify).
OutcomesWereStored == \A id \in Ids : outcomes[id] # "none" => <<id, outcomes[id]>> \in stored

\* The two books agree with the ledger, whichever saves failed or lost to another
\* run's: its own reputation, and the reputation store (reputation.py).
BooksAgree == RepCountsKillsOnce /\ OutcomesWereStored

\* "a model must not grade its own family" (falsify.py): the attacks a survivor
\* has withstood are another's, K of them.
JudgedByOthers ==
  row # NoRow =>
    \A id \in WithStatus(row.ledger, "survived") :
      LET c == row.ledger.claims[id]
      IN Cardinality({i \in DOMAIN c.kills : ~c.kills[i].accepted /\ c.kills[i].by # c.author}) >= K

\* A run that says "not persisted" leaves a stored ledger other than the one it
\* reports (_save_ledger: "The caller surfaces False as `not persisted`").
UnpersistedIsUnstored ==
  \A p \in Procs : At(p, "report") /\ ~run[p].persistOk => row = NoRow \/ row.ledger # run[p].ledger
=============================================================================
