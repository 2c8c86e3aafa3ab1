------------------------------ MODULE MCFalsify ------------------------------
\* Instances of Falsify for TLC, under several uses of it in one run.
EXTENDS Falsify

CONSTANTS p1, p2, m1, m2, c1, c2

OneProc == {p1}
TwoProcs == {p1, p2}
Models == {m1, m2}
OneId == {c1}
TwoIds == {c1, c2}

Symmetries == Permutations(Procs) \cup Permutations(Agents) \cup Permutations(Ids)

-----------------------------------------------------------------------------
\* A use of the ledger bounds what its runs may do.
CONSTANT Uses

\* All that the constants allow.
AnyUse ==
  {[procs |-> Procs, ids |-> Ids, rows |-> MaxRows, metamorph |-> Metamorph, faults |-> MaxFaults, deletes |-> Deletes]}

\* Two ways to use it: one run, on all claims, whose key may be deleted; or runs
\* of all processes on one claim, a row a turn, without the metamorph check, and a store
\* error.
TwoUses ==
  {[procs |-> {p}, ids |-> Ids, rows |-> MaxRows, metamorph |-> Metamorph, faults |-> 0, deletes |-> TRUE] : p \in Procs}
    \cup {[procs |-> Procs, ids |-> {id}, rows |-> 1, metamorph |-> {FALSE}, faults |-> MaxFaults, deletes |-> FALSE]
            : id \in Ids}

VARIABLE use

Within ==
  /\ \A p \in Procs : run[p] # NoRun =>
       /\ p \in use.procs /\ run[p].metamorph \in use.metamorph /\ run[p].rows <= use.rows
       /\ ById(run[p].ledger) \subseteq use.ids
  /\ faults <= use.faults

\* What a step keeps to.
In == UNCHANGED use /\ Within' /\ (~use.deletes /\ row # NoRow => row' # NoRow)

UsedInit == Init /\ use \in Uses

UsedNext ==
  \/ Delete /\ In
  \/ \E p \in Procs :
       \/ Load(p) /\ In
       \/ AssertRow(p) /\ In
       \/ EndAssert(p) /\ In
       \/ Challenge(p) /\ In
       \/ Contra(p) /\ In
       \/ RunTest(p) /\ In
       \/ EndRound(p) /\ In
       \/ Report(p) /\ In
       \/ Quit(p) /\ In

UsedSpec == UsedInit /\ [][UsedNext]_<<vars, use>>
=============================================================================
