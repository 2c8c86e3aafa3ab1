----------------------------- MODULE SharedProofs -----------------------------
(* What holds of everything that is shared: the slots of the CLI gates, among the    *)
(* calls of one process (CliGate), for any finite set of calls, any gates, limit,     *)
(* timeout and pool; the hub, the configuration, the trail of events and the context   *)
(* store, among any number of processes (Hub, ConfigStore, TraceStore, ContextStore).  *)
EXTENDS CliGate, Stores, FiniteSetTheorems, SequenceTheorems, WellFoundedInduction, TLAPS

-----------------------------------------------------------------------------
(* The CLI gate. *)

\* The actions of one call, so that a proof has one step per action.
CallNext(c) ==
  \/ Start(c) \/ Worker(c) \/ RunFails(c)
  \/ Deliver(c) \/ Cancel(c) \/ KillHandle(c)
  \/ LeaderExits(c) \/ Fork(c) \/ DescendantExits(c)

LEMMA NextIsCallNext == Next => (\E c \in Calls : CallNext(c)) \/ Tick \/ UNCHANGED vars
  BY DEF Next, CallNext, AllSettled

\* The type invariant is inductive on its own: every blocking primitive is
\* entered with a natural number of ticks, and time passes only while there
\* are some left.
THEOREM TypeCorrect == Spec => []TypeOK
<1> USE CallsAssumption, LimitAssumption, TimeAssumption
    DEF TypeOK, Phases, Active, Blocked, Between, Settled
<1>1. Init => TypeOK
  BY DEF Init
<1>2. TypeOK /\ [Next]_vars => TypeOK'
  <2> SUFFICES ASSUME TypeOK, [Next]_vars PROVE TypeOK'
    OBVIOUS
  <2>1. ASSUME NEW c \in Calls, CallNext(c) PROVE TypeOK'
    <3> GateOf[c] \in Gates
      OBVIOUS
    <3>1. CASE Start(c) BY <3>1 DEF Start, Block
    <3>2. CASE Acquire(c) BY <3>2 DEF Acquire, Goto, Block
    <3>3. CASE GateBusy(c) BY <3>3 DEF GateBusy, Goto, Block
    <3>4. CASE CheckCancelled(c) BY <3>4 DEF CheckCancelled, Leave, Release, Goto, Block
    <3>5. CASE Spawn(c) BY <3>5 DEF Spawn, Goto, Block
    <3>6. CASE SpawnFails(c) BY <3>6 DEF SpawnFails, Leave, Release, Goto, Block
    <3>7. CASE Publish(c) BY <3>7 DEF Publish, Block
    <3>8. CASE PublishRefused(c) BY <3>8 DEF PublishRefused, KillGroup, Block
    <3>9. CASE Complete(c) BY <3>9 DEF Complete, Leave, Release, Goto, Block
    <3>10. CASE RunTimeout(c) BY <3>10 DEF RunTimeout, KillGroup, Block
    <3>11. CASE DrainTimeout(c) BY <3>11 DEF DrainTimeout, Leave, Release, Goto, Block
    <3>12. CASE RunFails(c) BY <3>12 DEF RunFails, Leave, Release, Goto, Block
    <3>13. CASE CappedWaitEnds(c) BY <3>13 DEF CappedWaitEnds, Block
    <3>14. CASE JoinOut(c) BY <3>14 DEF JoinOut, Block
    <3>15. CASE JoinErr(c) BY <3>15 DEF JoinErr, Leave, Release, Goto, Block
    <3>16. CASE Deliver(c) BY <3>16 DEF Deliver
    <3>17. CASE Cancel(c) BY <3>17 DEF Cancel
    <3>18. CASE KillHandle(c) BY <3>18 DEF KillHandle, KillGroup
    <3>19. CASE LeaderExits(c) BY <3>19 DEF LeaderExits
    <3>20. CASE Fork(c) BY <3>20 DEF Fork
    <3>21. CASE DescendantExits(c) BY <3>21 DEF DescendantExits
    <3> QED
      BY <2>1, <3>1, <3>2, <3>3, <3>4, <3>5, <3>6, <3>7, <3>8, <3>9, <3>10, <3>11,
         <3>12, <3>13, <3>14, <3>15, <3>16, <3>17, <3>18, <3>19, <3>20, <3>21
         DEF CallNext, Worker
  <2>2. CASE Tick
    <3>1. \A c \in Calls : phase[c] \in Blocked => timer[c] > 0
      BY <2>2 DEF Tick, Ready
    <3> QED BY <2>2, <3>1 DEF Tick
  <2>3. CASE UNCHANGED vars
    BY <2>3 DEF vars
  <2> QED
    BY <2>1, <2>2, <2>3, NextIsCallNext
<1> QED
  BY <1>1, <1>2, PTL DEF Spec

-----------------------------------------------------------------------------
(***************************************************************************)
(* The child.  NoOrphan and KillMissesNobody are not inductive: what makes *)
(* them so is that a leader lives only while its worker is between Popen   *)
(* and a kill, that kill() and the handle agree, and that a running child  *)
(* of a killed handle was recorded, hence killed with it.                  *)
(***************************************************************************)
ChildInv ==
  \A c \in Calls :
    /\ leader[c] = "alive" => phase[c] \in {"spawned", "running"}
    /\ caller[c] = "cancelled" <=> handle[c] = "killed"
    /\ phase[c] = "running" => handle[c] # "empty"
    /\ phase[c] = "running" /\ handle[c] = "killed" => leader[c] # "alive"

THEOREM ChildInvariant == Spec => []ChildInv
<1> USE DEF ChildInv, TypeOK, Goto, Block
<1>1. Init => ChildInv
  BY DEF Init
<1>2. TypeOK /\ ChildInv /\ [Next]_vars => ChildInv'
  <2> SUFFICES ASSUME TypeOK, ChildInv, [Next]_vars PROVE ChildInv'
    OBVIOUS
  <2>1. ASSUME NEW c \in Calls, CallNext(c) PROVE ChildInv'
    <3>1. CASE Start(c) BY <3>1 DEF Start
    <3>2. CASE Acquire(c) BY <3>2 DEF Acquire
    <3>3. CASE GateBusy(c) BY <3>3 DEF GateBusy
    <3>4. CASE CheckCancelled(c) BY <3>4 DEF CheckCancelled, Leave, Release
    <3>5. CASE Spawn(c) BY <3>5 DEF Spawn
    <3>6. CASE SpawnFails(c) BY <3>6 DEF SpawnFails, Leave, Release
    <3>7. CASE Publish(c) BY <3>7 DEF Publish
    <3>8. CASE PublishRefused(c) BY <3>8 DEF PublishRefused, KillGroup
    <3>9. CASE Complete(c) BY <3>9 DEF Complete, Leave, Release
    <3>10. CASE RunTimeout(c) BY <3>10 DEF RunTimeout, KillGroup
    <3>11. CASE DrainTimeout(c) BY <3>11 DEF DrainTimeout, Leave, Release
    <3>12. CASE RunFails(c) BY <3>12 DEF RunFails, Leave, Release
    <3>13. CASE CappedWaitEnds(c) BY <3>13 DEF CappedWaitEnds
    <3>14. CASE JoinOut(c) BY <3>14 DEF JoinOut
    <3>15. CASE JoinErr(c) BY <3>15 DEF JoinErr, Leave, Release
    <3>16. CASE Deliver(c) BY <3>16 DEF Deliver
    <3>17. CASE Cancel(c) BY <3>17 DEF Cancel
    <3>18. CASE KillHandle(c) BY <3>18 DEF KillHandle, KillGroup
    <3>19. CASE LeaderExits(c) BY <3>19 DEF LeaderExits
    <3>20. CASE Fork(c) BY <3>20 DEF Fork
    <3>21. CASE DescendantExits(c) BY <3>21 DEF DescendantExits
    <3> QED
      BY <2>1, <3>1, <3>2, <3>3, <3>4, <3>5, <3>6, <3>7, <3>8, <3>9, <3>10,
         <3>11, <3>12, <3>13, <3>14, <3>15, <3>16, <3>17, <3>18, <3>19, <3>20, <3>21
         DEF CallNext, Worker
  <2>2. CASE Tick
    BY <2>2 DEF Tick
  <2>3. CASE UNCHANGED vars
    BY <2>3 DEF vars
  <2> QED
    BY <2>1, <2>2, <2>3, NextIsCallNext
<1> QED
  BY <1>1, <1>2, TypeCorrect, PTL DEF Spec

\* Whatever the interleaving, a call that has returned has no running child, and a
\* kill racing the spawn misses nobody: after kill() the only child that may still
\* run is the one its worker is about to hand to set().
THEOREM NoStrayHolds == Spec => []NoStray
<1>1. ChildInv => NoOrphan
  BY DEF ChildInv, NoOrphan, Settled
<1>2. ChildInv => KillMissesNobody
  BY DEF ChildInv, KillMissesNobody
<1> QED
  BY <1>1, <1>2, ChildInvariant, PTL DEF NoStray

-----------------------------------------------------------------------------
(***************************************************************************)
(* The budget.  In each blocking primitive, what was spent and what may    *)
(* still be spent add up to the bound of the stage the call is in; between *)
(* primitives nothing is spent.                                            *)
(***************************************************************************)
Budget(c) ==
  CASE phase[c] \in {"pooled", "dropped"} -> age[c] = 0
    [] phase[c] \in {"queued", "running"} -> age[c] + timer[c] <= Timeout
    [] phase[c] \in Between -> age[c] <= Timeout
    [] phase[c] \in {"draining", "joinOut"} ->
         age[c] + timer[c] <= Timeout + Drain /\ (phase[c] = "joinOut" => c \in Capped)
    [] phase[c] = "joinErr" -> age[c] + timer[c] <= Timeout + 2 * Drain /\ c \in Capped
    [] OTHER -> age[c] <= Timeout + (IF c \in Capped THEN 2 * Drain ELSE Drain)

BudgetInv == \A c \in Calls : Budget(c)

THEOREM BudgetInvariant == Spec => []BudgetInv
<1> USE TimeAssumption
    DEF BudgetInv, Budget, TypeOK, Goto, Block, Phases, Active, Blocked, Between, Settled
<1>1. Init => BudgetInv
  BY DEF Init
<1>2. TypeOK /\ BudgetInv /\ [Next]_vars => BudgetInv'
  <2> SUFFICES ASSUME TypeOK, BudgetInv, [Next]_vars PROVE BudgetInv'
    OBVIOUS
  <2>1. ASSUME NEW c \in Calls, CallNext(c) PROVE BudgetInv'
    <3>1. CASE Start(c) BY <3>1 DEF Start
    <3>2. CASE Acquire(c) BY <3>2 DEF Acquire
    <3>3. CASE GateBusy(c) BY <3>3 DEF GateBusy
    <3>4. CASE CheckCancelled(c) BY <3>4 DEF CheckCancelled, Leave, Release
    <3>5. CASE Spawn(c) BY <3>5 DEF Spawn
    <3>6. CASE SpawnFails(c) BY <3>6 DEF SpawnFails, Leave, Release
    <3>7. CASE Publish(c) BY <3>7 DEF Publish
    <3>8. CASE PublishRefused(c) BY <3>8 DEF PublishRefused, KillGroup
    <3>9. CASE Complete(c) BY <3>9 DEF Complete, Leave, Release
    <3>10. CASE RunTimeout(c) BY <3>10 DEF RunTimeout, KillGroup
    <3>11. CASE DrainTimeout(c) BY <3>11 DEF DrainTimeout, Leave, Release
    <3>12. CASE RunFails(c) BY <3>12 DEF RunFails, Leave, Release
    <3>13. CASE CappedWaitEnds(c) BY <3>13 DEF CappedWaitEnds
    <3>14. CASE JoinOut(c) BY <3>14 DEF JoinOut
    <3>15. CASE JoinErr(c) BY <3>15 DEF JoinErr, Leave, Release
    <3>16. CASE Deliver(c) BY <3>16 DEF Deliver
    <3>17. CASE Cancel(c) BY <3>17 DEF Cancel
    <3>18. CASE KillHandle(c) BY <3>18 DEF KillHandle, KillGroup
    <3>19. CASE LeaderExits(c) BY <3>19 DEF LeaderExits
    <3>20. CASE Fork(c) BY <3>20 DEF Fork
    <3>21. CASE DescendantExits(c) BY <3>21 DEF DescendantExits
    <3> QED
      BY <2>1, <3>1, <3>2, <3>3, <3>4, <3>5, <3>6, <3>7, <3>8, <3>9, <3>10,
         <3>11, <3>12, <3>13, <3>14, <3>15, <3>16, <3>17, <3>18, <3>19, <3>20, <3>21
         DEF CallNext, Worker
  <2>2. CASE Tick
    BY <2>2 DEF Tick, Ready
  <2>3. CASE UNCHANGED vars
    BY <2>3 DEF vars
  <2> QED
    BY <2>1, <2>2, <2>3, NextIsCallNext
<1> QED
  BY <1>1, <1>2, TypeCorrect, PTL DEF Spec

\* The wait for a slot, the run and the drain never exceed the total budget by
\* more than the drain allows, for every depth of the queue.
THEOREM WallTimeHolds == Spec => []WallTime
<1>1. TypeOK /\ BudgetInv => WallTime
  BY TimeAssumption DEF BudgetInv, Budget, WallTime, TypeOK, Phases, Active, Blocked, Between, Settled
<1> QED
  BY <1>1, BudgetInvariant, TypeCorrect, PTL

-----------------------------------------------------------------------------
(***************************************************************************)
(* The slots.  As far as the pool is concerned a step of a call does one   *)
(* of four things: it comes in, it goes out, it gives up without having    *)
(* been in, or it stays where it is.                                       *)
(***************************************************************************)
OthersStay(c) == \A d \in Calls \ {c} : phase'[d] = phase[d]

ComesIn(c) ==
  /\ phase[c] = "queued" /\ phase'[c] \in Holding
  /\ Gated => sem[GateOf[c]] > 0
  /\ sem' = IF Gated THEN [sem EXCEPT ![GateOf[c]] = @ - 1] ELSE sem

GoesOut(c) ==
  /\ phase[c] \in Holding /\ phase'[c] = "done"
  /\ Release(c)

GivesUp(c) ==
  /\ phase[c] \in {"pooled", "queued"} /\ phase'[c] \in Settled
  /\ UNCHANGED sem

Stays(c) ==
  /\ phase[c] \in Holding <=> phase'[c] \in Holding
  /\ phase[c] \in Settled <=> phase'[c] \in Settled
  /\ UNCHANGED sem

LEMMA FourWays ==
  ASSUME TypeOK, NEW c \in Calls, CallNext(c)
  PROVE  OthersStay(c) /\ (ComesIn(c) \/ GoesOut(c) \/ GivesUp(c) \/ Stays(c))
<1> USE DEF OthersStay, ComesIn, GoesOut, GivesUp, Stays, TypeOK, Goto, Block,
            Holding, Active, Blocked, Between, Settled, Phases
<1>1. CASE Start(c) BY <1>1 DEF Start
<1>2. CASE Acquire(c) BY <1>2 DEF Acquire
<1>3. CASE GateBusy(c) BY <1>3 DEF GateBusy
<1>4. CASE CheckCancelled(c) BY <1>4 DEF CheckCancelled, Leave
<1>5. CASE Spawn(c) BY <1>5 DEF Spawn
<1>6. CASE SpawnFails(c) BY <1>6 DEF SpawnFails, Leave
<1>7. CASE Publish(c) BY <1>7 DEF Publish
<1>8. CASE PublishRefused(c) BY <1>8 DEF PublishRefused
<1>9. CASE Complete(c) BY <1>9 DEF Complete, Leave
<1>10. CASE RunTimeout(c) BY <1>10 DEF RunTimeout
<1>11. CASE DrainTimeout(c) BY <1>11 DEF DrainTimeout, Leave
<1>12. CASE RunFails(c) BY <1>12 DEF RunFails, Leave
<1>13. CASE CappedWaitEnds(c) BY <1>13 DEF CappedWaitEnds
<1>14. CASE JoinOut(c) BY <1>14 DEF JoinOut
<1>15. CASE JoinErr(c) BY <1>15 DEF JoinErr, Leave
<1>16. CASE Deliver(c) BY <1>16 DEF Deliver
<1>17. CASE Cancel(c) BY <1>17 DEF Cancel
<1>18. CASE KillHandle(c) BY <1>18 DEF KillHandle
<1>19. CASE LeaderExits(c) BY <1>19 DEF LeaderExits
<1>20. CASE Fork(c) BY <1>20 DEF Fork
<1>21. CASE DescendantExits(c) BY <1>21 DEF DescendantExits
<1> QED
  BY <1>1, <1>2, <1>3, <1>4, <1>5, <1>6, <1>7, <1>8, <1>9, <1>10, <1>11,
     <1>12, <1>13, <1>14, <1>15, <1>16, <1>17, <1>18, <1>19, <1>20, <1>21
     DEF CallNext, Worker

\* Time changes nobody's place.
LEMMA TickStays == Tick => UNCHANGED <<phase, sem>>
  BY DEF Tick

LEMMA HoldersFinite == \A g \in Gates : IsFiniteSet(Holders(g)) /\ Cardinality(Holders(g)) \in Nat
  BY CallsAssumption, FS_Subset, FS_CardinalityType DEF Holders

\* The count SlotsConserved keeps, together with a semaphore never in debt.
SlotInv ==
  Gated => \A g \in Gates : sem[g] >= 0 /\ sem[g] + Cardinality(Holders(g)) = Limit

LEMMA SlotStep == TypeOK /\ SlotInv /\ [Next]_vars => SlotInv'
<1> SUFFICES ASSUME TypeOK, SlotInv, [Next]_vars, Gated, NEW g \in Gates
             PROVE  sem'[g] >= 0 /\ sem'[g] + Cardinality(Holders(g)') = Limit
  BY DEF SlotInv, Gated
<1> USE LimitAssumption
<1>0. /\ sem[g] \in Int /\ sem[g] >= 0 /\ sem[g] + Cardinality(Holders(g)) = Limit
      /\ IsFiniteSet(Holders(g)) /\ Cardinality(Holders(g)) \in Nat
  BY HoldersFinite DEF SlotInv, TypeOK
<1>1. CASE UNCHANGED <<phase, sem>>
  <2>1. Holders(g)' = Holders(g)
    BY <1>1 DEF Holders
  <2> QED BY <1>0, <1>1, <2>1
<1>2. ASSUME NEW c \in Calls, CallNext(c)
      PROVE  sem'[g] >= 0 /\ sem'[g] + Cardinality(Holders(g)') = Limit
  <2>0. OthersStay(c) /\ (ComesIn(c) \/ GoesOut(c) \/ GivesUp(c) \/ Stays(c))
    BY <1>2, FourWays
  <2>1. CASE Stays(c) \/ GivesUp(c)
    <3>1. Holders(g)' = Holders(g)
      BY <2>0, <2>1 DEF Stays, GivesUp, Holders, OthersStay, Holding, Active, Blocked, Between, Settled
    <3> QED BY <1>0, <2>1, <3>1 DEF Stays, GivesUp
  <2>2. CASE ComesIn(c)
    <3>1. CASE GateOf[c] = g
      <4>1. Holders(g)' = Holders(g) \cup {c} /\ c \notin Holders(g)
        BY <2>0, <2>2, <3>1 DEF ComesIn, Holders, OthersStay, Holding
      <4>2. Cardinality(Holders(g)') = Cardinality(Holders(g)) + 1
        BY <1>0, <4>1, FS_AddElement
      <4>3. sem[g] > 0 /\ sem'[g] = sem[g] - 1
        BY <2>2, <3>1 DEF ComesIn, TypeOK
      <4> QED BY <1>0, <4>2, <4>3
    <3>2. CASE GateOf[c] # g
      <4>1. Holders(g)' = Holders(g)
        BY <2>0, <3>2 DEF Holders, OthersStay
      <4>2. sem'[g] = sem[g]
        BY <2>2, <3>2 DEF ComesIn, TypeOK
      <4> QED BY <1>0, <4>1, <4>2
    <3> QED BY <3>1, <3>2
  <2>3. CASE GoesOut(c)
    <3>1. CASE GateOf[c] = g
      <4>1. Holders(g)' = Holders(g) \ {c} /\ c \in Holders(g)
        BY <2>0, <2>3, <3>1 DEF GoesOut, Holders, OthersStay, Holding, Active, Blocked, Between
      <4>2. Cardinality(Holders(g)') = Cardinality(Holders(g)) - 1
        BY <1>0, <4>1, FS_RemoveElement
      <4>3. sem'[g] = sem[g] + 1
        BY <2>3, <3>1 DEF GoesOut, Release, TypeOK
      <4> QED BY <1>0, <4>2, <4>3
    <3>2. CASE GateOf[c] # g
      <4>1. Holders(g)' = Holders(g)
        BY <2>0, <3>2 DEF Holders, OthersStay
      <4>2. sem'[g] = sem[g]
        BY <2>3, <3>2 DEF GoesOut, Release, TypeOK
      <4> QED BY <1>0, <4>1, <4>2
    <3> QED BY <3>1, <3>2
  <2> QED BY <2>0, <2>1, <2>2, <2>3
<1> QED
  BY <1>1, <1>2, NextIsCallNext, TickStays DEF vars

LEMMA SlotInit == Init => SlotInv
<1> SUFFICES ASSUME Init, Gated, NEW g \in Gates
             PROVE  sem[g] >= 0 /\ sem[g] + Cardinality(Holders(g)) = Limit
  BY DEF SlotInv
<1>1. Holders(g) = {}
  BY DEF Init, Holders, Holding, Active, Blocked, Between
<1> QED
  BY <1>1, FS_EmptySet, LimitAssumption DEF Init, Gated

THEOREM SlotInvariant == Spec => []SlotInv
  BY SlotInit, SlotStep, TypeCorrect, PTL DEF Spec

\* No path through run_cli loses a slot or gives one back twice.
THEOREM SlotsConservedHolds == Spec => []SlotsConserved
<1>1. SlotInv => SlotsConserved
  BY DEF SlotInv, SlotsConserved
<1> QED
  BY <1>1, SlotInvariant, PTL

\* A leader lives only inside the with-block, so the slots bound the processes.
THEOREM GateBoundHolds == Spec => []GateBound
<1>1. ChildInv /\ SlotInv /\ TypeOK => GateBound
  <2> SUFFICES ASSUME ChildInv, SlotInv, TypeOK, Gated, NEW g \in Gates
               PROVE  Cardinality({c \in Calls : GateOf[c] = g /\ leader[c] = "alive"}) <= Limit
    BY DEF GateBound
  <2> DEFINE alive == {c \in Calls : GateOf[c] = g /\ leader[c] = "alive"}
  <2>1. alive \subseteq Holders(g)
    BY DEF ChildInv, Holders, Holding, Active, Blocked, Between
  <2>2. Cardinality(alive) <= Cardinality(Holders(g)) /\ Cardinality(alive) \in Nat
    BY <2>1, HoldersFinite, FS_Subset, FS_CardinalityType
  <2>3. sem[g] \in Int /\ sem[g] >= 0 /\ sem[g] + Cardinality(Holders(g)) = Limit
    BY DEF SlotInv, TypeOK
  <2> QED BY <2>2, <2>3, HoldersFinite, LimitAssumption
<1> QED
  BY <1>1, ChildInvariant, SlotInvariant, TypeCorrect, PTL

\* The gate is a slot pool: its steps are steps of SlotPool or leave the pool
\* as it was.
THEOREM GateIsSlotPool == Spec => Pool!Spec
<1> DEFINE in == {c \in Calls : phase[c] \in Holding}
           out == {c \in Calls : phase[c] \in Settled}
<1>1. Init => Pool!Init
  BY DEF Init, Pool!Init, Holding, Active, Blocked, Between, Settled
<1>2. TypeOK /\ SlotInv /\ [Next]_vars => [Pool!Next]_(Pool!poolVars)
  <2> SUFFICES ASSUME TypeOK, SlotInv, [Next]_vars
               PROVE  [Pool!Next]_(Pool!poolVars)
    OBVIOUS
  <2>1. CASE UNCHANGED <<phase, sem>>
    BY <2>1 DEF Pool!poolVars
  <2>2. ASSUME NEW c \in Calls, CallNext(c) PROVE [Pool!Next]_(Pool!poolVars)
    <3>0. OthersStay(c) /\ (ComesIn(c) \/ GoesOut(c) \/ GivesUp(c) \/ Stays(c))
      BY <2>2, FourWays
    <3>1. CASE Stays(c)
      <4>1. in' = in /\ out' = out
        BY <3>0, <3>1 DEF Stays, OthersStay
      <4> QED BY <4>1 DEF Pool!poolVars
    <3>2. CASE ComesIn(c)
      <4>1. in' = in \cup {c} /\ out' = out /\ c \notin in \cup out
        BY <3>0, <3>2 DEF ComesIn, OthersStay, Holding, Active, Blocked, Between, Settled
      <4>2. Pool!Room(GateOf[c])
        <5> DEFINE here == {d \in in : GateOf[d] = GateOf[c]}
        <5>1. here = Holders(GateOf[c])
          BY DEF Holders
        <5>2. GateOf[c] \in Gates
          BY CallsAssumption
        <5>3. Cardinality(here) = Cardinality(Holders(GateOf[c]))
          BY <5>1
        <5> HIDE DEF here
        <5>4. ASSUME Gated PROVE Cardinality(here) < Limit
          <6>1. /\ sem[GateOf[c]] \in Int /\ sem[GateOf[c]] > 0
                /\ sem[GateOf[c]] + Cardinality(Holders(GateOf[c])) = Limit
            BY <3>2, <5>2, <5>4 DEF ComesIn, SlotInv, TypeOK
          <6>2. Cardinality(Holders(GateOf[c])) \in Nat
            BY <5>2, HoldersFinite
          <6> QED BY <5>3, <6>1, <6>2, LimitAssumption
        <5>5. Cardinality(here) = Pool!Cardinality(here)
          BY DEF Cardinality, Pool!Cardinality
        <5> QED BY <5>4, <5>5 DEF Pool!Room, Gated, here
      <4> QED BY <4>1, <4>2 DEF Pool!Next, Pool!Enter
    <3>3. CASE GoesOut(c)
      <4>1. in' = in \ {c} /\ out' = out \cup {c} /\ c \in in
        BY <3>0, <3>3 DEF GoesOut, OthersStay, Holding, Active, Blocked, Between, Settled
      <4> QED BY <4>1 DEF Pool!Next, Pool!Exit
    <3>4. CASE GivesUp(c)
      <4>1. in' = in /\ out' = out \cup {c} /\ c \notin in \cup out
        BY <3>0, <3>4 DEF GivesUp, OthersStay, Holding, Active, Blocked, Between, Settled
      <4> QED BY <4>1 DEF Pool!Next, Pool!GiveUp
    <3> QED BY <3>0, <3>1, <3>2, <3>3, <3>4
  <2> QED
    BY <2>1, <2>2, NextIsCallNext, TickStays DEF vars
<1> QED
  BY <1>1, <1>2, TypeCorrect, SlotInvariant, PTL DEF Spec, Pool!Spec

-----------------------------------------------------------------------------
(* OnlyNamedSettings.  The inductive invariant is about the lock: whoever is between  *)
(* taking and releasing it holds it, so nobody replaces the file between another's    *)
(* reading and replacing.                                                            *)

Locked == {"locked", "loaded", "unlock"}

\* Each process inside save holds the lock, and what it read is what is there.
HeldInv ==
  /\ configAt \in [Writers -> {"idle", "save"} \cup Locked]
  /\ DOMAIN loaded = Writers
  /\ \A w \in Writers : configAt[w] \in Locked => flock = w
  /\ \A w \in Writers : configAt[w] = "loaded" => loaded[w] = file

\* Nothing is locked when a server starts.
LEMMA HeldInit == ConfigInit => HeldInv
  BY DEF ConfigInit, HeldInv, Locked

\* The tools' part of a call leaves the lock and the file alone.
LEMMA HeldSaves ==
  ASSUME HeldInv, NEW w \in Writers, NEW p, Saves(w, p)
  PROVE  HeldInv'
  BY DEF HeldInv, Saves, Locked

\* Taking the lock: it was nobody's, so nobody was inside save.
LEMMA HeldLock ==
  ASSUME HeldInv, NEW w \in Writers, Lock(w)
  PROVE  HeldInv'
<1>1. \A x \in Writers : configAt[x] \notin Locked
  BY ConfigAssumption DEF HeldInv, Lock
<1>2. /\ configAt' = [configAt EXCEPT ![w] = "locked"]
      /\ flock' = w /\ file' = file /\ loaded' = loaded
  BY DEF Lock
<1> QED
  BY <1>1, <1>2 DEF HeldInv, Locked

\* Reading the file makes what was read what is there.
LEMMA HeldLoad ==
  ASSUME HeldInv, NEW w \in Writers, Load(w)
  PROVE  HeldInv'
  BY DEF HeldInv, Load, Locked

\* Replacing the file is seen by nobody who has read it: only the holder has.
LEMMA HeldReplace ==
  ASSUME HeldInv, NEW w \in Writers, Replace(w)
  PROVE  HeldInv'
<1>1. /\ configAt' = [configAt EXCEPT ![w] = "unlock"]
      /\ flock' = flock /\ loaded' = loaded /\ flock = w
  BY DEF Replace, HeldInv, Locked
<1>2. \A x \in Writers : configAt'[x] # "loaded"
  <2> SUFFICES ASSUME NEW x \in Writers PROVE configAt'[x] # "loaded"
    OBVIOUS
  <2>1. CASE x = w
    BY <1>1, <2>1 DEF HeldInv
  <2>2. CASE x # w
    BY <1>1, <2>2 DEF HeldInv, Locked
  <2> QED
    BY <2>1, <2>2
<1> QED
  BY <1>1, <1>2 DEF HeldInv, Locked

\* Leaving, by the end of the save or by death, lets go of the caller's own lock only.
LEMMA HeldEnds ==
  ASSUME HeldInv, NEW w \in Writers, Ends(w)
  PROVE  HeldInv'
<1>1. /\ configAt' = [configAt EXCEPT ![w] = "idle"]
      /\ loaded' = [loaded EXCEPT ![w] = NoFile] /\ file' = file
      /\ flock' = IF flock = w THEN NoWriter ELSE flock
  BY DEF Ends
<1>2. \A x \in Writers : configAt'[x] \in Locked => x # w /\ configAt[x] \in Locked /\ flock' = x
  BY <1>1 DEF HeldInv, Locked
<1>3. \A x \in Writers : configAt'[x] = "loaded" => loaded'[x] = file'
  BY <1>1, <1>2 DEF HeldInv, Locked
<1> QED
  BY <1>1, <1>2, <1>3 DEF HeldInv, Locked

\* Every step keeps the invariant.
LEMMA HeldNext == HeldInv /\ [ConfigNext]_configVars => HeldInv'
<1> SUFFICES ASSUME HeldInv, [ConfigNext]_configVars PROVE HeldInv'
  OBVIOUS
<1>1. CASE UNCHANGED configVars
  BY <1>1 DEF HeldInv, configVars
<1>2. ASSUME NEW w \in Writers, Configure(w) PROVE HeldInv'
  BY <1>2, HeldSaves DEF Configure
<1>3. ASSUME NEW w \in Writers, ConfigureDisabled(w) PROVE HeldInv'
  BY <1>3, HeldSaves DEF ConfigureDisabled
<1>4. ASSUME NEW w \in Writers, Lock(w) \/ Load(w) \/ Replace(w) PROVE HeldInv'
  BY <1>4, HeldLock, HeldLoad, HeldReplace
<1>5. ASSUME NEW w \in Writers, Unlock(w) \/ WriterDies(w) PROVE HeldInv'
  BY <1>5, HeldEnds DEF Unlock, WriterDies
<1> QED
  BY <1>1, <1>2, <1>3, <1>4, <1>5 DEF ConfigNext

\* Under the lock a replacement differs from the file by the caller's patch alone, and
\* no other step touches the file.
LEMMA NamedStep ==
  ASSUME HeldInv, [ConfigNext]_configVars, NEW k \in AllKeys, file'[k] # file[k]
  PROVE  \E w \in Writers : k \in DOMAIN patch[w] /\ configAt[w] = "loaded" /\ file'[k] = patch[w][k]
<1>1. PICK w \in Writers : Replace(w)
  BY DEF ConfigNext, configVars, Configure, ConfigureDisabled, Saves, Lock, Load, Unlock, WriterDies, Ends
<1>2. configAt[w] = "loaded" /\ loaded[w] = file /\ file' = Merged(w)
  BY <1>1 DEF Replace, HeldInv
<1>3. file'[k] = IF k \in DOMAIN patch[w] THEN patch[w][k] ELSE file[k]
  BY <1>2 DEF Merged
<1> QED
  BY <1>2, <1>3

\* config.save's promise: saves of several processes lose none of each other's settings.
THEOREM OnlyNamedSettingsHolds == ConfigSpec => OnlyNamedSettings
<1> DEFINE Named ==
      \A k \in AllKeys : file'[k] # file[k] =>
        \E w \in Writers : k \in DOMAIN patch[w] /\ configAt[w] = "loaded" /\ file'[k] = patch[w][k]
<1>1. HeldInv /\ [ConfigNext]_configVars => [Named]_configVars
  BY NamedStep
<1> HIDE DEF Named
<1>2. ConfigSpec => [][Named]_configVars
  BY <1>1, HeldInit, HeldNext, PTL DEF ConfigSpec
<1> QED
  BY <1>2 DEF Named, OnlyNamedSettings

-----------------------------------------------------------------------------
(* NeverAskedBlind.  The invariant says of each process that its three lists are what *)
(* its reads came to: degraded those that failed, missing those that found nothing,   *)
(* resolved none unless one found something; and that no verdict is out before all of *)
(* the question's references have been fetched.                                      *)

Verdicts == [resolved : SUBSET BlobKeys, missing : SUBSET BlobKeys, degraded : SUBSET BlobKeys]

Table(g) == g = [a \in Agents |-> g[a]]

FetchTypes ==
  /\ ctxAt \in [Agents -> {"idle", "count", "evict", "fetch"}]
  /\ fetched \in [Agents -> Verdicts] /\ pending \in [Agents -> Seq(BlobKeys)]
  /\ unread \in [Agents -> SUBSET BlobKeys] /\ absent \in [Agents -> SUBSET BlobKeys]
  /\ Table(found) /\ Table(lastError) /\ Table(outcome)

Told(a) ==
  /\ fetched[a].missing = absent[a] /\ fetched[a].degraded = unread[a]
  /\ found[a] # {} => fetched[a].resolved # {}
  /\ ctxAt[a] = "fetch" => outcome[a] = "none"
  /\ outcome[a] = "asked" => unread[a] = {}
  /\ outcome[a] = "needs_context" => unread[a] = {} /\ found[a] = {}
  /\ outcome[a] = "store_degraded" => unread[a] # {}

FetchInv == FetchTypes /\ \A a \in Agents : Told(a)

\* At first nothing was asked and nothing read.
LEMMA FetchInit == ContextInit => FetchInv
<1> SUFFICES ASSUME ContextInit PROVE FetchInv
  OBVIOUS
<1>1. FetchTypes
  BY DEF ContextInit, FetchTypes, Nothing, Verdicts, Table
<1>2. \A a \in Agents : Told(a)
  BY DEF ContextInit, Told, Nothing
<1> QED
  BY <1>1, <1>2 DEF FetchInv

\* What answers a call other than a question keeps to the words of such calls.
LEMMA FetchOther ==
  ASSUME FetchInv, NEW a \in Agents, ctxAt[a] # "fetch", UNCHANGED Asks,
         Table(lastError'),
         NEW place \in {"idle", "count", "evict"}, ctxAt' = [ctxAt EXCEPT ![a] = place],
         NEW what, outcome' = [outcome EXCEPT ![a] = what],
         what = outcome[a] \/ what \notin {"asked", "needs_context", "store_degraded"}
  PROVE  FetchInv'
<1>1. FetchTypes'
  BY DEF FetchInv, FetchTypes, Asks, Table
<1>2. \A b \in Agents : Told(b)'
  BY DEF FetchInv, FetchTypes, Told, Asks, Table
<1> QED
  BY <1>1, <1>2 DEF FetchInv

\* A question starts with empty lists and no answer.
LEMMA FetchAsk ==
  ASSUME FetchInv, NEW a \in Agents, Ask(a)
  PROVE  FetchInv'
<1>1. /\ ctxAt' = [ctxAt EXCEPT ![a] = "fetch"] /\ outcome' = [outcome EXCEPT ![a] = "none"]
      /\ fetched' = [fetched EXCEPT ![a] = Nothing] /\ lastError' = lastError
      /\ unread' = [unread EXCEPT ![a] = {}] /\ found' = [found EXCEPT ![a] = {}]
      /\ absent' = [absent EXCEPT ![a] = {}]
  BY DEF Ask, CtxGo, Says
<1>2. pending' \in [Agents -> Seq(BlobKeys)]
  BY ContextAssumption DEF Ask, FetchInv, FetchTypes
<1>3. FetchTypes'
  BY <1>1, <1>2 DEF FetchInv, FetchTypes, Nothing, Verdicts, Table
<1>4. \A b \in Agents : Told(b)'
  BY <1>1 DEF FetchInv, FetchTypes, Told, Nothing, Table
<1> QED
  BY <1>3, <1>4 DEF FetchInv

\* The lists after one more read, of process a.
LEMMA FetchListed ==
  ASSUME FetchInv, NEW a \in Agents, ctxAt[a] = "fetch", NEW r \in Verdicts,
         ctxAt' = ctxAt, outcome' = outcome, pending' \in [Agents -> Seq(BlobKeys)],
         Table(lastError'), fetched' = [fetched EXCEPT ![a] = r],
         NEW bad \in SUBSET BlobKeys, unread' = [unread EXCEPT ![a] = bad], r.degraded = bad,
         NEW none \in SUBSET BlobKeys, absent' = [absent EXCEPT ![a] = none], r.missing = none,
         NEW got, found' = [found EXCEPT ![a] = got], got # {} => r.resolved # {}
  PROVE  FetchInv'
<1>1. FetchTypes'
  BY DEF FetchInv, FetchTypes, Table
<1>2. \A b \in Agents : Told(b)'
  BY DEF FetchInv, FetchTypes, Told, Table
<1> QED
  BY <1>1, <1>2 DEF FetchInv

\* Fetching puts the key on the list that its read deserves.
LEMMA FetchFetch ==
  ASSUME FetchInv, NEW a \in Agents, Fetch(a)
  PROVE  FetchInv'
<1> DEFINE n == Head(pending[a])
           v == fetched[a]
<1>1. n \in BlobKeys /\ pending' \in [Agents -> Seq(BlobKeys)]
  BY DEF Fetch, FetchInv, FetchTypes
<1>2. PICK fails \in BOOLEAN :
        /\ lastError' = [lastError EXCEPT ![a] = fails \/ FALSE]
        /\ fetched' = [fetched EXCEPT ![a] = Sorted(v, n, Got(n, fails), lastError'[a])]
        /\ unread' = IF fails THEN [unread EXCEPT ![a] = @ \cup {n}] ELSE unread
        /\ found' = IF Got(n, fails) = 0 THEN found ELSE [found EXCEPT ![a] = @ \cup {blobs[n]}]
        /\ absent' = IF ~fails /\ blobs[n] = 0 THEN [absent EXCEPT ![a] = @ \cup {n}] ELSE absent
  BY DEF Fetch, Notes, Cleared
<1>3. ctxAt' = ctxAt /\ outcome' = outcome /\ ctxAt[a] = "fetch" /\ Table(lastError')
  BY <1>2 DEF Fetch, FetchInv, FetchTypes, Table
<1>4. /\ v \in Verdicts /\ Told(a)
      /\ unread = [unread EXCEPT ![a] = unread[a]] /\ unread[a] \in SUBSET BlobKeys
      /\ absent = [absent EXCEPT ![a] = absent[a]] /\ absent[a] \in SUBSET BlobKeys
      /\ found = [found EXCEPT ![a] = found[a]]
  BY DEF FetchInv, FetchTypes, Table
<1> HIDE DEF n
<1>5. CASE fails
  <2> DEFINE r == [v EXCEPT !.degraded = v.degraded \cup {n}]
  <2>1. r \in Verdicts /\ r.degraded = unread[a] \cup {n} /\ r.missing = absent[a] /\ r.resolved = v.resolved
    BY <1>1, <1>4 DEF Verdicts, Told
  <2>2. lastError'[a]
    BY <1>2, <1>5 DEF FetchInv, FetchTypes, Table
  <2>3. Got(n, fails) = 0
    BY <1>5 DEF Got
  <2>4. Sorted(v, n, Got(n, fails), lastError'[a]) = r
    BY <2>2, <2>3 DEF Sorted
  <2>5. unread' = [unread EXCEPT ![a] = unread[a] \cup {n}] /\ absent' = absent
    BY <1>2, <1>5
  <2>6. found' = found /\ fetched' = [fetched EXCEPT ![a] = r]
    BY <1>2, <2>3, <2>4
  <2>7. found[a] # {} => r.resolved # {}
    BY <1>4, <2>1 DEF Told
  <2>8. unread[a] \cup {n} \in SUBSET BlobKeys /\ absent[a] \cup {n} \in SUBSET BlobKeys
    BY <1>1, <1>4
  <2>9. found' = [found EXCEPT ![a] = found[a]] /\ absent' = [absent EXCEPT ![a] = absent[a]]
    BY <1>4, <2>5, <2>6
  <2> HIDE DEF r, v
  <2> QED
    BY <1>1, <1>3, <1>4, <2>1, <2>5, <2>6, <2>7, <2>8, <2>9, FetchListed
<1>6. CASE ~fails /\ blobs[n] = 0
  <2> DEFINE r == [v EXCEPT !.missing = v.missing \cup {n}]
  <2>1. r \in Verdicts /\ r.missing = absent[a] \cup {n} /\ r.degraded = unread[a] /\ r.resolved = v.resolved
    BY <1>1, <1>4 DEF Verdicts, Told
  <2>2. ~lastError'[a]
    BY <1>2, <1>6 DEF FetchInv, FetchTypes, Table
  <2>3. Got(n, fails) = 0
    BY <1>6 DEF Got
  <2>4. Sorted(v, n, Got(n, fails), lastError'[a]) = r
    BY <2>2, <2>3 DEF Sorted
  <2>5. absent' = [absent EXCEPT ![a] = absent[a] \cup {n}] /\ unread' = unread
    BY <1>2, <1>6
  <2>6. found' = found /\ fetched' = [fetched EXCEPT ![a] = r]
    BY <1>2, <2>3, <2>4
  <2>7. found[a] # {} => r.resolved # {}
    BY <1>4, <2>1 DEF Told
  <2>8. unread[a] \cup {n} \in SUBSET BlobKeys /\ absent[a] \cup {n} \in SUBSET BlobKeys
    BY <1>1, <1>4
  <2>9. found' = [found EXCEPT ![a] = found[a]] /\ unread' = [unread EXCEPT ![a] = unread[a]]
    BY <1>4, <2>5, <2>6
  <2> HIDE DEF r, v
  <2> QED
    BY <1>1, <1>3, <1>4, <2>1, <2>5, <2>6, <2>7, <2>8, <2>9, FetchListed
<1>7. CASE ~fails /\ blobs[n] # 0
  <2> DEFINE r == [v EXCEPT !.resolved = v.resolved \cup {n}]
  <2>1. r \in Verdicts /\ r.missing = absent[a] /\ r.degraded = unread[a] /\ r.resolved # {}
    BY <1>1, <1>4 DEF Verdicts, Told
  <2>2. Got(n, fails) # 0
    BY <1>7 DEF Got
  <2>3. Sorted(v, n, Got(n, fails), lastError'[a]) = r
    BY <2>2 DEF Sorted
  <2>4. fetched' = [fetched EXCEPT ![a] = r] /\ found' = [found EXCEPT ![a] = found[a] \cup {blobs[n]}]
    BY <1>2, <2>2, <2>3
  <2>5. unread' = unread /\ absent' = absent
    BY <1>2, <1>7
  <2> HIDE DEF r
  <2> QED
    BY <1>1, <1>3, <1>4, <2>1, <2>4, <2>5, FetchListed
<1> QED
  BY <1>5, <1>6, <1>7

\* The verdict reads the lists, which are what the reads came to.
LEMMA FetchPrepared ==
  ASSUME FetchInv, NEW a \in Agents, Prepared(a)
  PROVE  FetchInv'
<1> DEFINE f == fetched[a]
           needs == f.degraded = {} /\ f.missing # {} /\ f.resolved = {} /\ ~asked[a]
           says == IF f.degraded # {} THEN "store_degraded" ELSE IF needs THEN "needs_context" ELSE "asked"
<1>1. /\ ctxAt' = [ctxAt EXCEPT ![a] = "idle"] /\ outcome' = [outcome EXCEPT ![a] = says]
      /\ UNCHANGED Asks /\ ctxAt[a] = "fetch"
  BY DEF Prepared, CtxGo, Says
<1>2. Table(lastError')
  BY DEF Prepared, Notes, FetchInv, FetchTypes, Table
<1>3. FetchTypes'
  BY <1>1, <1>2 DEF FetchInv, FetchTypes, Asks, Table
<1>4. ASSUME NEW b \in Agents, b # a PROVE Told(b)'
  BY <1>1, <1>4 DEF FetchInv, FetchTypes, Told, Asks, Table
<1>5. Told(a)'
  BY <1>1 DEF FetchInv, FetchTypes, Told, Asks, Table
<1> QED
  BY <1>3, <1>4, <1>5 DEF FetchInv

\* Every step keeps it.
LEMMA FetchNext == FetchInv /\ [ContextNext]_ctxVars => FetchInv'
<1> SUFFICES ASSUME FetchInv, [ContextNext]_ctxVars PROVE FetchInv'
  OBVIOUS
<1>1. ASSUME NEW a \in Agents, NEW n \in BlobKeys, NEW failure \in {"write_failed", "store_failed"},
             Call(a), Put(a, n, failure)
      PROVE  FetchInv'
  <2>1. PICK fails \in BOOLEAN :
          /\ lastError' = [lastError EXCEPT ![a] = fails \/ FALSE]
          /\ outcome' = [outcome EXCEPT ![a] = IF fails THEN failure ELSE "ok"]
          /\ ctxAt' = [ctxAt EXCEPT ![a] =
               IF ~fails /\ counter'[a] = 0 /\ CtxCap > 0 THEN "count" ELSE "idle"]
    BY <1>1 DEF Put, Notes, Cleared, Says, CtxGo
  <2>2. Table(lastError') /\ UNCHANGED Asks /\ ctxAt[a] # "fetch"
    BY <1>1, <2>1 DEF Put, Call, FetchInv, FetchTypes, Table
  <2> QED
    BY <1>1, <2>1, <2>2, FetchOther
<1>2. ASSUME NEW a \in Agents, NEW n \in BlobKeys, WriteBlob(a, n) PROVE FetchInv'
  BY <1>1, <1>2 DEF WriteBlob
<1>3. ASSUME NEW a \in Agents, NEW n \in BlobKeys, PackBlob(a, n) PROVE FetchInv'
  <2>1. CASE Put(a, n, "store_failed")
    BY <1>1, <1>3, <2>1 DEF PackBlob
  <2>2. CASE Says(a, "empty_pack") /\ UNCHANGED <<blobs, ctxWrites, ctxAt, Asks, lastError, Sweeps>>
    <3>1. ctxAt' = [ctxAt EXCEPT ![a] = "idle"] /\ ctxAt[a] # "fetch" /\ Table(lastError')
      BY <1>3, <2>2 DEF PackBlob, Call, FetchInv, FetchTypes, Table
    <3> QED
      BY <2>2, <3>1, FetchOther DEF Says
  <2> QED
    BY <1>3, <2>1, <2>2 DEF PackBlob
<1>4. ASSUME NEW a \in Agents, CountRows(a) PROVE FetchInv'
  <2>1. ctxAt[a] # "fetch" /\ UNCHANGED Asks /\ outcome' = [outcome EXCEPT ![a] = outcome[a]]
    BY <1>4 DEF CountRows, FetchInv, FetchTypes, Table
  <2>2. Table(lastError')
    BY <1>4 DEF CountRows, FetchInv, FetchTypes, Table
  <2> QED
    BY <1>4, <2>1, <2>2, FetchOther DEF CountRows, CtxGo
<1>5. ASSUME NEW a \in Agents, EvictRows(a) PROVE FetchInv'
  <2>1. ctxAt[a] # "fetch" /\ UNCHANGED Asks /\ outcome' = [outcome EXCEPT ![a] = outcome[a]]
    BY <1>5 DEF EvictRows, FetchInv, FetchTypes, Table
  <2>2. Table(lastError')
    BY <1>5 DEF EvictRows, FetchInv, FetchTypes, Table
  <2> QED
    BY <1>5, <2>1, <2>2, FetchOther DEF EvictRows, CtxGo
<1>6. ASSUME NEW a \in Agents, Call(a), ctxAt' = ctxAt, UNCHANGED Asks, Table(lastError'),
             NEW what \in {"ok", "store_unavailable", "not_found", "store_error"}, Says(a, what)
      PROVE  FetchInv'
  <2>1. ctxAt' = [ctxAt EXCEPT ![a] = "idle"] /\ ctxAt[a] # "fetch"
    BY <1>6 DEF Call, FetchInv, FetchTypes
  <2> QED
    BY <1>6, <2>1, FetchOther DEF Says
<1>7. ASSUME NEW a \in Agents, NEW n \in BlobKeys, DeleteBlob(a, n) PROVE FetchInv'
  <2>1. Table(lastError')
    BY <1>7 DEF DeleteBlob, Notes, FetchInv, FetchTypes, Table
  <2> QED
    BY <1>6, <1>7, <2>1 DEF DeleteBlob
<1>8. ASSUME NEW a \in Agents, NEW n \in BlobKeys, ReadBlob(a, n) PROVE FetchInv'
  <2>1. Table(lastError')
    BY <1>8 DEF ReadBlob, Notes, FetchInv, FetchTypes, Table
  <2> QED
    BY <1>6, <1>8, <2>1 DEF ReadBlob
<1>9. ASSUME NEW a \in Agents, ListBlobs(a) PROVE FetchInv'
  <2>1. Table(lastError')
    BY <1>9 DEF ListBlobs, Notes, FetchInv, FetchTypes, Table
  <2> QED
    BY <1>6, <1>9, <2>1 DEF ListBlobs
<1>10. CASE UNCHANGED ctxVars
  <2>1. FetchTypes'
    BY <1>10 DEF ctxVars, FetchInv, FetchTypes, Table
  <2>2. \A b \in Agents : Told(b)'
    BY <1>10 DEF ctxVars, FetchInv, Told
  <2> QED
    BY <2>1, <2>2 DEF FetchInv
<1> QED
  BY <1>2, <1>3, <1>4, <1>5, <1>7, <1>8, <1>9, <1>10, FetchAsk, FetchFetch, FetchPrepared DEF ContextNext

\* _prepare_context for any number of processes and keys, whichever reads fail: no model
\* is asked without a reference that could not be read, and the caller is told to mend
\* its keys or to try again only with reason.
THEOREM NeverAskedBlindHolds == ContextSpec => []NeverAskedBlind
<1>1. FetchInv => NeverAskedBlind
  BY DEF FetchInv, Told, NeverAskedBlind
<1> QED
  BY <1>1, FetchInit, FetchNext, PTL DEF ContextSpec

-----------------------------------------------------------------------------
(* MetaTellsTheTurns.  Counting up is right only if the turn written is a new one, so *)
(* the inductive invariant dates every turn, stored or in a process's hands, and lets  *)
(* no two have the same date.  And a count is right only if the table was there from    *)
(* the first turn on, or was dropped at some time and is known to have been.            *)

Places == {"idle", "drop", "create", "open", "write", "sweep", "evict"}

\* Turns in hand are of the past, of different times and not stored; so is every turn.
DatedInv ==
  /\ now \in Nat /\ IsFiniteSet(turns) /\ hubAt \in [Servers -> Places] /\ DOMAIN row = Servers
  /\ \A t \in turns : t.ts \in Nat /\ t.ts <= now
  /\ \A s \in Servers : hubAt[s] = "write" =>
       /\ row[s].ts \in Nat /\ row[s].ts <= now
       /\ \A t \in turns : t.ts # row[s].ts
       /\ \A r \in Servers : hubAt[r] = "write" /\ r # s => row[r].ts # row[s].ts

\* Only the table of today has rows, each no more than its session has turns; and it
\* has them all unless it was dropped, which an old table must be first.
CountInv ==
  /\ schema # "new" => DOMAIN meta = {}
  /\ \A k \in DOMAIN meta :
       /\ meta[k] = [count |-> meta[k].count, shows |-> meta[k].shows]
       /\ meta[k].count \in 1 .. Cardinality(TurnsOf(k, turns))
  /\ ~rebuilt /\ schema = "none" => turns = {}
  /\ ~rebuilt /\ schema = "new" =>
       \A k : /\ TurnsOf(k, turns) = {} => k \notin DOMAIN meta
              /\ TurnsOf(k, turns) # {} =>
                   k \in DOMAIN meta /\ meta[k].count = Cardinality(TurnsOf(k, turns))

HubInv == DatedInv /\ CountInv

\* A new database, and an old one with its one turn.
LEMMA HubInvInit == HubInit => HubInv
<1> SUFFICES ASSUME HubInit PROVE HubInv
  OBVIOUS
<1>1. IsFiniteSet(turns)
  BY FS_EmptySet, FS_Singleton DEF HubInit
<1>2. turns = {} \/ (turns = {NoRow} /\ NoRow.ts = 0)
  BY DEF HubInit, NoRow
<1>3. hubAt \in [Servers -> Places] /\ \A s \in Servers : hubAt[s] # "write"
  BY DEF HubInit, Places
<1>4. DOMAIN row = Servers /\ now = 0
  BY DEF HubInit
<1>5. DatedInv
  BY <1>1, <1>2, <1>3, <1>4 DEF DatedInv
<1>6. CountInv
  BY DEF HubInit, CountInv
<1> QED
  BY <1>5, <1>6 DEF HubInv

\* What leaves the tables alone and takes no turn in hand disturbs nothing.
LEMMA HubQuiet ==
  ASSUME HubInv, NEW s \in Servers, NEW p \in Places \ {"write"}, HubGo(s, p),
         UNCHANGED <<turns, now>>, row' = row \/ row' = [row EXCEPT ![s] = NoRow]
  PROVE  DatedInv'
<1>1. /\ hubAt' = [hubAt EXCEPT ![s] = p] /\ turns' = turns /\ now' = now
      /\ DOMAIN row' = Servers /\ \A r \in Servers : r # s => row'[r] = row[r]
  BY DEF HubInv, DatedInv, HubGo
<1>2. \A r \in Servers : hubAt'[r] = "write" => r # s /\ hubAt[r] = "write" /\ row'[r] = row[r]
  BY <1>1 DEF HubInv, DatedInv
<1>3. hubAt' \in [Servers -> Places]
  BY <1>1 DEF HubInv, DatedInv
<1> QED
  BY <1>1, <1>2, <1>3 DEF HubInv, DatedInv

\* Deleting turns leaves the others dated.
LEMMA FewerDated ==
  ASSUME HubInv, NEW s \in Servers, HubGo(s, "idle"), UNCHANGED <<now, row>>,
         turns' \subseteq turns
  PROVE  DatedInv'
<1>1. /\ hubAt' = [hubAt EXCEPT ![s] = "idle"] /\ now' = now /\ row' = row
  BY DEF HubGo
<1>2. \A r \in Servers : hubAt'[r] = "write" => hubAt[r] = "write"
  BY <1>1 DEF HubInv, DatedInv
<1>3. IsFiniteSet(turns')
  BY FS_Subset DEF HubInv, DatedInv
<1>4. hubAt' \in [Servers -> Places]
  BY <1>1 DEF HubInv, DatedInv, Places
<1> QED
  BY <1>1, <1>2, <1>3, <1>4 DEF HubInv, DatedInv

\* The turns of a session are finitely many, and one or more where there is one.
LEMMA SessionTurns ==
  ASSUME NEW rows, IsFiniteSet(rows), NEW k
  PROVE  /\ IsFiniteSet(TurnsOf(k, rows)) /\ Cardinality(TurnsOf(k, rows)) \in Nat
         /\ TurnsOf(k, rows) # {} => Cardinality(TurnsOf(k, rows)) \in 1 .. Cardinality(TurnsOf(k, rows))
<1>1. TurnsOf(k, rows) \in SUBSET rows
  BY DEF TurnsOf
<1>2. IsFiniteSet(TurnsOf(k, rows))
  BY <1>1, FS_Subset
<1>3. Cardinality(TurnsOf(k, rows)) \in Nat
  BY <1>2, FS_CardinalityType
<1>4. TurnsOf(k, rows) # {} => Cardinality(TurnsOf(k, rows)) # 0
  BY <1>2, FS_EmptySet
<1> QED
  BY <1>2, <1>3, <1>4

\* A table counted anew is right, whatever it said before, of the sessions it has.
LEMMA CountedAnew ==
  ASSUME HubInv, schema = "new", UNCHANGED <<schema, rebuilt>>, turns' \subseteq turns,
         DOMAIN meta' = {k \in DOMAIN meta : TurnsOf(k, turns') # {}},
         \A k \in DOMAIN meta' :
           /\ meta'[k] = [count |-> meta'[k].count, shows |-> meta'[k].shows]
           /\ meta'[k].count = Cardinality(TurnsOf(k, turns'))
  PROVE  CountInv'
<1>1. IsFiniteSet(turns')
  BY FS_Subset DEF HubInv, DatedInv
<1>2. \A k \in DOMAIN meta' : meta'[k].count \in 1 .. Cardinality(TurnsOf(k, turns'))
  BY <1>1, SessionTurns
<1>3. \A k : TurnsOf(k, turns') \subseteq TurnsOf(k, turns)
  BY DEF TurnsOf
<1>4. ~rebuilt => \A k : TurnsOf(k, turns') # {} => k \in DOMAIN meta
  BY <1>3 DEF HubInv, CountInv
<1> QED
  BY <1>2, <1>4 DEF CountInv

\* The turn in hand is a new one, so that the session has one more than it had.
LEMMA WriteCounts ==
  ASSUME HubInv, NEW s \in Servers, Write(s)
  PROVE  HubInv'
<1> DEFINE t == row[s]
<1>1. /\ turns' = turns \cup {t} /\ meta' = Upserted(t) /\ now' = now
      /\ schema = "new" /\ schema' = "new" /\ rebuilt' = rebuilt
      /\ row' = [row EXCEPT ![s] = NoRow] /\ hubAt[s] = "write"
  BY DEF Write
<1>2. PICK p \in {"sweep", "idle"} : hubAt' = [hubAt EXCEPT ![s] = p]
  BY DEF Write, HubGo
<1>3. /\ t \notin turns /\ IsFiniteSet(turns) /\ IsFiniteSet(turns')
  BY <1>1, FS_AddElement DEF HubInv, DatedInv
<1>4. DatedInv'
  <2>1. \A r \in Servers : hubAt'[r] = "write" => r # s /\ hubAt[r] = "write" /\ row'[r] = row[r]
    BY <1>1, <1>2 DEF HubInv, DatedInv
  <2>2. \A u \in turns' : u.ts \in Nat /\ u.ts <= now
    BY <1>1 DEF HubInv, DatedInv
  <2>3. \A r \in Servers, u \in turns' : hubAt'[r] = "write" => u.ts # row[r].ts
    BY <1>1, <2>1 DEF HubInv, DatedInv
  <2>4. hubAt' \in [Servers -> Places] /\ DOMAIN row' = Servers
    BY <1>1, <1>2 DEF HubInv, DatedInv, Places
  <2> QED
    BY <1>1, <1>3, <2>1, <2>2, <2>3, <2>4 DEF HubInv, DatedInv
<1>5. /\ TurnsOf(t.key, turns') = TurnsOf(t.key, turns) \cup {t} /\ t \notin TurnsOf(t.key, turns)
      /\ \A k : k # t.key => TurnsOf(k, turns') = TurnsOf(k, turns)
  BY <1>1, <1>3 DEF TurnsOf
<1>6. /\ Cardinality(TurnsOf(t.key, turns)) \in Nat
      /\ Cardinality(TurnsOf(t.key, turns')) = Cardinality(TurnsOf(t.key, turns)) + 1
  BY <1>3, <1>5, SessionTurns, FS_AddElement
<1>7. TurnsOf(t.key, turns) = {} => Cardinality(TurnsOf(t.key, turns)) = 0
  BY FS_EmptySet
<1>8. CountInv'
  <2> HIDE DEF t
  <2>1. /\ DOMAIN meta' = DOMAIN meta \cup {t.key}
        /\ \A k \in DOMAIN meta : k # t.key => meta'[k] = meta[k]
        /\ meta'[t.key] = [count |-> (IF t.key \in DOMAIN meta THEN meta[t.key].count ELSE 0) + 1,
                           shows |-> t.ts]
    BY <1>1 DEF Upserted
  <2>2. meta'[t.key].count \in 1 .. Cardinality(TurnsOf(t.key, turns'))
    BY <2>1, <1>6 DEF HubInv, CountInv
  <2>3. \A k \in DOMAIN meta' :
          /\ meta'[k] = [count |-> meta'[k].count, shows |-> meta'[k].shows]
          /\ meta'[k].count \in 1 .. Cardinality(TurnsOf(k, turns'))
    BY <2>1, <2>2, <1>5 DEF HubInv, CountInv
  <2>4. ~rebuilt => meta'[t.key].count = Cardinality(TurnsOf(t.key, turns'))
    BY <2>1, <1>1, <1>6, <1>7 DEF HubInv, CountInv
  <2>5. ~rebuilt => \A k : /\ TurnsOf(k, turns') = {} => k \notin DOMAIN meta'
                           /\ TurnsOf(k, turns') # {} =>
                                k \in DOMAIN meta' /\ meta'[k].count = Cardinality(TurnsOf(k, turns'))
    BY <2>1, <2>4, <1>1, <1>5 DEF HubInv, CountInv
  <2> QED
    BY <1>1, <2>3, <2>5 DEF CountInv
<1> QED
  BY <1>4, <1>8 DEF HubInv

\* The clock moves on, so that the turn taken in hand is dated as no other.
LEMMA MirrorDates ==
  ASSUME HubInv, NEW s \in Servers, Mirror(s)
  PROVE  HubInv'
<1>1. /\ now' = now + 1 /\ turns' = turns /\ hubAt' = [hubAt EXCEPT ![s] = "write"]
      /\ row'[s].ts = now + 1 /\ DOMAIN row' = Servers
      /\ \A r \in Servers : r # s => row'[r] = row[r]
  BY DEF Mirror, HubGo, HubInv, DatedInv
<1>2. \A r \in Servers : r # s /\ hubAt'[r] = "write" => hubAt[r] = "write"
  BY <1>1 DEF HubInv, DatedInv
<1>3. DatedInv'
  <2>1. hubAt' \in [Servers -> Places] /\ now' \in Nat /\ now \in Nat
    BY <1>1 DEF HubInv, DatedInv, Places
  <2>2. \A u \in turns : u.ts \in Nat /\ u.ts <= now' /\ u.ts # now + 1
    BY <1>1 DEF HubInv, DatedInv
  <2>3. \A r \in Servers : r # s /\ hubAt'[r] = "write" =>
          row'[r].ts \in Nat /\ row'[r].ts <= now' /\ row'[r].ts # now + 1
    BY <1>1, <1>2 DEF HubInv, DatedInv
  <2> QED
    BY <1>1, <1>2, <2>1, <2>2, <2>3 DEF HubInv, DatedInv
<1>4. CountInv'
  BY DEF Mirror, HubInv, CountInv
<1> QED
  BY <1>3, <1>4 DEF HubInv

\* A sweep and a pruning count what is left.
LEMMA EvictCounts ==
  ASSUME HubInv, NEW s \in Servers, Evict(s) \/ PruneJunk(s)
  PROVE  HubInv'
<1>1. /\ HubGo(s, "idle") /\ schema = "new" /\ UNCHANGED <<schema, rebuilt, now, row>>
      /\ turns' \subseteq turns
  BY DEF Evict, PruneJunk
<1>2. \A k \in DOMAIN meta : meta[k] = [count |-> meta[k].count, shows |-> meta[k].shows]
  BY DEF HubInv, CountInv
<1>3. DOMAIN Recounted(turns') = {k \in DOMAIN meta : TurnsOf(k, turns') # {}}
  BY DEF Recounted
<1>4. \A k \in DOMAIN Recounted(turns') :
        Recounted(turns')[k] = [count |-> Cardinality(TurnsOf(k, turns')), shows |-> meta[k].shows]
  BY <1>2 DEF Recounted
<1>5. /\ DOMAIN meta' = {k \in DOMAIN meta : TurnsOf(k, turns') # {}}
      /\ \A k \in DOMAIN meta' :
           \E shown : meta'[k] = [count |-> Cardinality(TurnsOf(k, turns')), shows |-> shown]
  <2>1. CASE Evict(s)
    <3>1. meta' = Recounted(turns')
      BY <2>1 DEF Evict
    <3> QED
      BY <3>1, <1>3, <1>4
  <2>2. CASE PruneJunk(s)
    <3>1. meta' = [k \in DOMAIN Recounted(turns') |->
                     [Recounted(turns')[k] EXCEPT !.shows = LatestOf(k, turns').ts]]
      BY <2>2 DEF PruneJunk
    <3>2. \A k \in DOMAIN meta' :
            meta'[k] = [count |-> Cardinality(TurnsOf(k, turns')), shows |-> LatestOf(k, turns').ts]
      BY <3>1, <1>4
    <3> QED
      BY <3>1, <3>2, <1>3
  <2> QED
    BY <2>1, <2>2
<1>6. \A k \in DOMAIN meta' :
        /\ meta'[k] = [count |-> meta'[k].count, shows |-> meta'[k].shows]
        /\ meta'[k].count = Cardinality(TurnsOf(k, turns'))
  <2> SUFFICES ASSUME NEW k \in DOMAIN meta'
               PROVE  /\ meta'[k] = [count |-> meta'[k].count, shows |-> meta'[k].shows]
                      /\ meta'[k].count = Cardinality(TurnsOf(k, turns'))
    OBVIOUS
  <2>1. PICK shown : meta'[k] = [count |-> Cardinality(TurnsOf(k, turns')), shows |-> shown]
    BY <1>5
  <2> QED
    BY <2>1
<1> QED
  BY <1>1, <1>5, <1>6, FewerDated, CountedAnew DEF HubInv

\* What remains looks at the tables, makes or drops session_meta, or gives up.
LEMMA HubNextInv == HubInv /\ [HubNext]_hubVars => HubInv'
<1> SUFFICES ASSUME HubInv, [HubNext]_hubVars PROVE HubInv'
  OBVIOUS
<1>1. CASE UNCHANGED hubVars
  BY <1>1 DEF hubVars, HubInv, DatedInv, CountInv
<1>2. ASSUME NEW s \in Servers, Look(s) PROVE HubInv'
  <2>1. PICK p \in {"drop", "create"} : HubGo(s, p)
    BY <1>2 DEF Look
  <2>2. UNCHANGED <<turns, now>> /\ (row' = row \/ row' = [row EXCEPT ![s] = NoRow])
    BY <1>2 DEF Look
  <2>3. DatedInv'
    BY <2>1, <2>2, HubQuiet DEF Places
  <2>4. CountInv'
    BY <1>2 DEF Look, HubInv, CountInv
  <2> QED
    BY <2>3, <2>4 DEF HubInv
<1>3. ASSUME NEW s \in Servers, Drop(s) PROVE HubInv'
  <2>1. PICK p \in {"create"} : HubGo(s, p)
    BY <1>3 DEF Drop
  <2>2. UNCHANGED <<turns, now>> /\ (row' = row \/ row' = [row EXCEPT ![s] = NoRow])
    BY <1>3 DEF Drop
  <2>3. DatedInv'
    BY <2>1, <2>2, HubQuiet DEF Places
  <2>4. CountInv'
    BY <1>3 DEF Drop, HubInv, CountInv
  <2> QED
    BY <2>3, <2>4 DEF HubInv
<1>4. ASSUME NEW s \in Servers, Create(s) PROVE HubInv'
  <2>1. PICK p \in {"open"} : HubGo(s, p)
    BY <1>4 DEF Create
  <2>2. UNCHANGED <<turns, now>> /\ (row' = row \/ row' = [row EXCEPT ![s] = NoRow])
    BY <1>4 DEF Create
  <2>3. DatedInv'
    BY <2>1, <2>2, HubQuiet DEF Places
  <2>4. CountInv'
    BY <1>4 DEF Create, HubInv, CountInv, TurnsOf
  <2> QED
    BY <2>3, <2>4 DEF HubInv
<1>5. ASSUME NEW s \in Servers, Fails(s) PROVE HubInv'
  <2>1. PICK p \in {"idle"} : HubGo(s, p)
    BY <1>5 DEF Fails
  <2>2. UNCHANGED <<turns, now>> /\ (row' = row \/ row' = [row EXCEPT ![s] = NoRow])
    BY <1>5 DEF Fails
  <2>3. DatedInv'
    BY <2>1, <2>2, HubQuiet DEF Places
  <2>4. CountInv'
    BY <1>5 DEF Fails, HubInv, CountInv
  <2> QED
    BY <2>3, <2>4 DEF HubInv
<1>6. ASSUME NEW s \in Servers, ServerDies(s) PROVE HubInv'
  <2>1. PICK p \in {"idle"} : HubGo(s, p)
    BY <1>6 DEF ServerDies
  <2>2. UNCHANGED <<turns, now>> /\ (row' = row \/ row' = [row EXCEPT ![s] = NoRow])
    BY <1>6 DEF ServerDies
  <2>3. DatedInv'
    BY <2>1, <2>2, HubQuiet DEF Places
  <2>4. CountInv'
    BY <1>6 DEF ServerDies, HubInv, CountInv
  <2> QED
    BY <2>3, <2>4 DEF HubInv
<1>7. ASSUME NEW s \in Servers, Count(s) PROVE HubInv'
  <2>1. PICK p \in {"evict", "idle"} : HubGo(s, p)
    BY <1>7 DEF Count
  <2>2. UNCHANGED <<turns, now>> /\ (row' = row \/ row' = [row EXCEPT ![s] = NoRow])
    BY <1>7 DEF Count
  <2>3. DatedInv'
    BY <2>1, <2>2, HubQuiet DEF Places
  <2>4. CountInv'
    BY <1>7 DEF Count, HubInv, CountInv
  <2> QED
    BY <2>3, <2>4 DEF HubInv
<1> QED
  BY <1>1, <1>2, <1>3, <1>4, <1>5, <1>6, <1>7, MirrorDates, WriteCounts, EvictCounts DEF HubNext

\* The dashboard's counts are those of the turns, for any number of processes that
\* mirror, sweep, prune, rebuild, fail and die as they like, and whatever the cap.
THEOREM MetaTellsTheTurnsHolds == HubSpec => []MetaTellsTheTurns
<1>1. HubInv => MetaTellsTheTurns
  <2> SUFFICES ASSUME HubInv PROVE MetaTellsTheTurns
    OBVIOUS
  <2>1. \A k : Cardinality(TurnsOf(k, turns)) = 0 <=> TurnsOf(k, turns) = {}
    BY SessionTurns, FS_EmptySet DEF HubInv, DatedInv
  <2> QED
    BY <2>1 DEF HubInv, CountInv, MetaTellsTheTurns
<1> QED
  BY <1>1, HubInvInit, HubNextInv, PTL DEF HubSpec

-----------------------------------------------------------------------------
(* The trail. *)

Line == [event : Nat, size : Int, readable : BOOLEAN, ended : BOOLEAN]
Descending(lines) == \A i, j \in DOMAIN lines : i < j => lines[i].event > lines[j].event

\* A stamp lies between what was written before it and what is written after it.
Past(stamp) == stamp \in Nat /\ stamp <= written /\ Before({stamp}, EventsOf(active))

ActiveInv == active \in Seq(Line) /\ Ascending(active) /\ \A e \in EventsOf(active) : e <= written

\* What is written is in order, file after file, and a stamp names one file.
SegmentsInv ==
  /\ IsFiniteSet(segments) /\ (Retain = 0 => segments = {})
  /\ \A s \in segments : /\ Past(s.stamp) /\ s.lines \in Seq(Line) /\ Ascending(s.lines)
                         /\ \A e \in EventsOf(s.lines) : e <= s.stamp
  /\ \A s, t \in segments : /\ s.stamp = t.stamp => s = t
                            /\ s.stamp < t.stamp => Before({s.stamp}, EventsOf(t.lines))

\* A line without an end is of an event that nobody was told is stored; what was
\* acknowledged and is gone is older than what is stored.
AckedInv ==
  /\ acked \subseteq 1 .. written
  /\ active # <<>> /\ ~Last(active).ended => Last(active).event \notin acked
  /\ \A n \in acked, m \in Stored : m < n => n \in Stored

FilesInv == written \in Nat /\ ActiveInv /\ SegmentsInv /\ AckedInv

Name == [segment : BOOLEAN, stamp : Nat]

\* The files a reader has listed and not yet read are in the order of its direction,
\* the active file at the new end; whatever is trimmed or rotated meanwhile, their lines
\* are in that order, and beyond those it has gone through.
ReaderInv(left, newest, had) ==
  /\ \A e \in EventsOf(had) : e <= written
  /\ \A i \in DOMAIN left : left[i].segment => Past(left[i].stamp)
  /\ \A i, j \in DOMAIN left : left[i].segment /\ left[j].segment /\ left[i].stamp < left[j].stamp =>
       \A s \in segments : s.stamp = left[j].stamp => Before({left[i].stamp}, EventsOf(s.lines))
  /\ newest =>
       /\ Descending(had)
       /\ \A i, j \in DOMAIN left : i < j => left[j].segment /\ (left[i].segment => left[j].stamp < left[i].stamp)
       /\ \A i \in DOMAIN left : IF left[i].segment THEN \A e \in EventsOf(had) : left[i].stamp < e ELSE had = <<>>
  /\ ~newest =>
       /\ Ascending(had)
       /\ \A i, j \in DOMAIN left : i < j => left[i].segment /\ (left[j].segment => left[i].stamp < left[j].stamp)
       /\ \A i \in DOMAIN left :
            IF left[i].segment
              THEN \A s \in segments : s.stamp = left[i].stamp => Before(EventsOf(had), EventsOf(s.lines))
              ELSE Before(EventsOf(had), EventsOf(active))

ReadersInv ==
  /\ listing \in [Readers -> [newest : BOOLEAN, left : Seq(Name)]] /\ seen \in [Readers -> Seq(Line)]
  /\ \A r \in Readers : ReaderInv(listing[r].left, listing[r].newest, seen[r])

TrailInv == event \in [Appenders -> Nat] /\ FilesInv /\ ReadersInv

\* What the reversal of lines holds, and in which order.
LEMMA ReversedLines ==
  ASSUME NEW lines \in Seq(Line)
  PROVE  /\ Reverse(lines) \in Seq(Line) /\ Len(Reverse(lines)) = Len(lines)
         /\ EventsOf(Reverse(lines)) = EventsOf(lines)
         /\ Ascending(lines) => Descending(Reverse(lines))
         /\ Descending(lines) => Ascending(Reverse(lines))
<1> DEFINE n == Len(lines)
           back == [i \in 1 .. n |-> lines[(n - i) + 1]]
<1>1. /\ n \in Nat /\ DOMAIN lines = 1 .. n /\ \A i \in 1 .. n : lines[i] \in Line
  BY ElementOfSeq, LenProperties
<1>2. Reverse(lines) = back
  BY DEF Reverse
<1>3. /\ \A i \in 1 .. n : (n - i) + 1 \in 1 .. n /\ back[i] = lines[(n - i) + 1]
      /\ \A i, j \in 1 .. n : i < j => (n - j) + 1 < (n - i) + 1
      /\ \A i \in 1 .. n : lines[i] = back[(n - i) + 1]
      /\ DOMAIN back = 1 .. n
  BY <1>1
<1>4. back \in Seq(Line) /\ Len(back) = n
  <2>1. back \in [1 .. n -> Line]
    BY <1>1, <1>3
  <2> HIDE DEF back
  <2> QED BY <2>1, <1>1, IsASeq, <1>3, LenProperties
<1> HIDE DEF back, n
<1>5. EventsOf(back) = EventsOf(lines)
  <2>1. \A i \in DOMAIN back : back[i].event \in EventsOf(lines)
    BY <1>1, <1>3 DEF EventsOf
  <2>2. \A i \in DOMAIN lines : lines[i].event \in EventsOf(back)
    BY <1>1, <1>3 DEF EventsOf
  <2> QED BY <2>1, <2>2 DEF EventsOf
<1>6. Ascending(lines) => Descending(back)
  BY <1>1, <1>3 DEF Ascending, Descending
<1>7. Descending(lines) => Ascending(back)
  BY <1>1, <1>3 DEF Ascending, Descending
<1> QED BY <1>2, <1>4, <1>5, <1>6, <1>7 DEF n

\* Two pieces of which one is before the other make one in order.
LEMMA JoinedLines ==
  ASSUME NEW s \in Seq(Line), NEW t \in Seq(Line)
  PROVE  /\ s \o t \in Seq(Line) /\ EventsOf(s \o t) = EventsOf(s) \cup EventsOf(t)
         /\ Ascending(s) /\ Ascending(t) /\ Before(EventsOf(s), EventsOf(t)) => Ascending(s \o t)
         /\ Descending(s) /\ Descending(t) /\ Before(EventsOf(t), EventsOf(s)) => Descending(s \o t)
<1> DEFINE m == Len(s)
           n == Len(t)
           both == s \o t
<1>0. /\ \A i \in DOMAIN s : s[i] \in Line
      /\ \A i \in DOMAIN t : t[i] \in Line
      /\ \A line \in Line : line.event \in Nat
  BY ElementOfSeq, LenProperties DEF Line
<1>1. /\ m \in Nat /\ n \in Nat /\ DOMAIN s = 1 .. m /\ DOMAIN t = 1 .. n
      /\ both \in Seq(Line) /\ Len(both) = m + n /\ DOMAIN both = 1 .. m + n
      /\ \A i \in 1 .. m + n : both[i] = IF i <= m THEN s[i] ELSE t[i - m]
      /\ \A i \in 1 .. m : s[i].event \in Nat
      /\ \A i \in 1 .. n : t[i].event \in Nat
  <2>1. m \in Nat /\ n \in Nat /\ DOMAIN s = 1 .. m /\ DOMAIN t = 1 .. n
    BY LenProperties
  <2>2. both \in Seq(Line) /\ Len(both) = m + n
    BY ConcatProperties
  <2>3. DOMAIN both = 1 .. m + n
    BY <2>2, LenProperties
  <2>4. \A i \in 1 .. m + n : both[i] = IF i <= m THEN s[i] ELSE t[i - m]
    BY ConcatProperties
  <2> QED BY <2>1, <2>2, <2>3, <2>4, <1>0
<1> HIDE DEF m, n, both
<1>2. /\ \A i \in 1 .. m : i \in 1 .. m + n /\ both[i] = s[i]
      /\ \A i \in 1 .. n : m + i \in 1 .. m + n /\ both[m + i] = t[i]
      /\ \A i \in 1 .. m + n : i \in 1 .. m \/ (i - m \in 1 .. n /\ both[i] = t[i - m])
  <2>1. \A i \in 1 .. n : m + i \in 1 .. m + n /\ ~(m + i <= m) /\ (m + i) - m = i
    BY <1>1
  <2>2. \A i \in 1 .. n : both[m + i] = t[i]
    BY <1>1, <2>1
  <2>3. \A i \in 1 .. m + n : i \in 1 .. m \/ (i - m \in 1 .. n /\ both[i] = t[i - m])
    BY <1>1
  <2> QED BY <1>1, <2>1, <2>2, <2>3
<1>3. EventsOf(both) = EventsOf(s) \cup EventsOf(t)
  <2>1. \A i \in DOMAIN both : both[i].event \in EventsOf(s) \cup EventsOf(t)
    <3> SUFFICES ASSUME NEW i \in 1 .. m + n PROVE both[i].event \in EventsOf(s) \cup EventsOf(t)
      BY <1>1
    <3>1. CASE i \in 1 .. m BY <3>1, <1>1, <1>2 DEF EventsOf
    <3>2. CASE i - m \in 1 .. n /\ both[i] = t[i - m]
      <4>1. both[i] = t[i - m]
        BY <3>2
      <4> QED BY <3>2, <4>1, <1>1 DEF EventsOf
    <3> QED BY <3>1, <3>2, <1>2
  <2>2. \A i \in DOMAIN s : s[i].event \in EventsOf(both)
    BY <1>1, <1>2 DEF EventsOf
  <2>3. \A i \in DOMAIN t : t[i].event \in EventsOf(both)
    BY <1>1, <1>2 DEF EventsOf
  <2> QED BY <2>1, <2>2, <2>3 DEF EventsOf
<1>4. /\ \A i \in 1 .. m, j \in 1 .. n : s[i].event \in EventsOf(s) /\ t[j].event \in EventsOf(t)
  BY <1>1 DEF EventsOf
<1>5. ASSUME Ascending(s), Ascending(t), Before(EventsOf(s), EventsOf(t)) PROVE Ascending(both)
  <2> SUFFICES \A i, j \in 1 .. m + n : i < j => both[i].event < both[j].event
    BY <1>1 DEF Ascending
  <2> TAKE i, j \in 1 .. m + n
  <2> HAVE i < j
  <2>1. CASE j <= m
    <3>1. i \in 1 .. m /\ j \in 1 .. m /\ both[i] = s[i] /\ both[j] = s[j]
      BY <2>1, <1>1
    <3>2. s[i].event < s[j].event
      BY <3>1, <1>1, <1>5 DEF Ascending
    <3> QED BY <3>1, <3>2
  <2>2. CASE i <= m /\ ~(j <= m)
    <3>1. s[i].event < t[j - m].event
      BY <2>2, <1>1, <1>2, <1>4, <1>5 DEF Before
    <3> QED BY <3>1, <2>2, <1>1
  <2>3. CASE ~(i <= m)
    <3>1. i - m \in 1 .. n /\ j - m \in 1 .. n /\ i - m < j - m /\ ~(j <= m)
      BY <2>3, <1>1
    <3>2. t[i - m].event < t[j - m].event
      BY <3>1, <1>1, <1>5 DEF Ascending
    <3> QED BY <3>1, <3>2, <2>3, <1>1
  <2> QED BY <2>1, <2>2, <2>3, <1>1
<1>6. ASSUME Descending(s), Descending(t), Before(EventsOf(t), EventsOf(s)) PROVE Descending(both)
  <2> SUFFICES \A i, j \in 1 .. m + n : i < j => both[i].event > both[j].event
    BY <1>1 DEF Descending
  <2> TAKE i, j \in 1 .. m + n
  <2> HAVE i < j
  <2>1. CASE j <= m
    <3>1. i \in 1 .. m /\ j \in 1 .. m /\ both[i] = s[i] /\ both[j] = s[j]
      BY <2>1, <1>1
    <3>2. s[i].event > s[j].event
      BY <3>1, <1>1, <1>6 DEF Descending
    <3> QED BY <3>1, <3>2
  <2>2. CASE i <= m /\ ~(j <= m)
    <3>1. t[j - m].event < s[i].event
      BY <2>2, <1>1, <1>2, <1>4, <1>6 DEF Before
    <3> QED BY <3>1, <2>2, <1>1, <1>2
  <2>3. CASE ~(i <= m)
    <3>1. i - m \in 1 .. n /\ j - m \in 1 .. n /\ i - m < j - m /\ ~(j <= m)
      BY <2>3, <1>1
    <3>2. t[i - m].event > t[j - m].event
      BY <3>1, <1>1, <1>6 DEF Descending
    <3> QED BY <3>1, <3>2, <2>3, <1>1
  <2> QED BY <2>1, <2>2, <2>3, <1>1
<1> QED BY <1>1, <1>3, <1>5, <1>6 DEF both

LEMMA LineAppended ==
  ASSUME NEW lines \in Seq(Line), NEW line \in Line, Ascending(lines), \A e \in EventsOf(lines) : e < line.event
  PROVE  /\ Append(lines, line) \in Seq(Line) /\ Append(lines, line) # <<>> /\ Ascending(Append(lines, line))
         /\ EventsOf(Append(lines, line)) = EventsOf(lines) \cup {line.event}
         /\ Append(lines, line)[Len(Append(lines, line))] = line
<1>1. <<line>> \in Seq(Line) /\ Len(<<line>>) = 1 /\ DOMAIN <<line>> = {1} /\ <<line>>[1] = line
  OBVIOUS
<1>2. EventsOf(<<line>>) = {line.event}
  BY <1>1 DEF EventsOf
<1>3. Ascending(<<line>>)
  BY <1>1 DEF Ascending
<1>4. Append(lines, line) = lines \o <<line>>
  BY AppendIsConcat
<1>5. Before(EventsOf(lines), EventsOf(<<line>>))
  BY <1>2 DEF Before
<1>6. /\ lines \o <<line>> \in Seq(Line) /\ Ascending(lines \o <<line>>)
      /\ EventsOf(lines \o <<line>>) = EventsOf(lines) \cup {line.event}
  BY <1>1, <1>2, <1>3, <1>5, JoinedLines
<1>7. Append(lines, line) # <<>> /\ Append(lines, line)[Len(Append(lines, line))] = line
  BY AppendProperties, LenProperties
<1> QED BY <1>4, <1>6, <1>7

LEMMA LastLineLeft ==
  ASSUME NEW lines \in Seq(Line), lines # <<>>, Ascending(lines)
  PROVE  /\ Front(lines) \in Seq(Line) /\ Ascending(Front(lines)) /\ Last(lines) \in Line
         /\ EventsOf(lines) = EventsOf(Front(lines)) \cup {Last(lines).event}
<1> DEFINE n == Len(lines)
           f == Front(lines)
<1>1. n \in Nat \ {0} /\ DOMAIN lines = 1 .. n /\ \A i \in 1 .. n : lines[i] \in Line
  BY ElementOfSeq, LenProperties, EmptySeq
<1>2. n - 1 \in 0 .. n /\ \A i \in 1 .. n - 1 : i \in 1 .. n
  BY <1>1
<1>3. f \in Seq(Line) /\ Len(f) = n - 1 /\ \A i \in 1 .. n - 1 : f[i] = lines[i]
  <2>1. 1 \in 1 .. n + 1 /\ n - 1 \in 1 - 1 .. n
    BY <1>1
  <2>2. f \in Seq(Line)
    BY <2>1, <1>1 DEF Front
  <2>3. Len(f) = n - 1 /\ \A i \in 1 .. n - 1 : f[i] = lines[i]
    BY <2>1, <1>1 DEF Front
  <2> QED BY <2>2, <2>3
<1>4. DOMAIN f = 1 .. n - 1
  BY <1>3, LenProperties
<1>5. Last(lines) = lines[n] /\ Last(lines) \in Line
  BY <1>1 DEF Last
<1> HIDE DEF n, f
<1>6. Ascending(f)
  BY <1>1, <1>2, <1>3, <1>4 DEF Ascending
<1>7. \A i \in 1 .. n : i \in 1 .. n - 1 \/ i = n
  BY <1>1
<1>8. EventsOf(lines) = EventsOf(f) \cup {Last(lines).event}
  <2>1. \A i \in DOMAIN lines : lines[i].event \in EventsOf(f) \cup {Last(lines).event}
    BY <1>1, <1>3, <1>4, <1>5, <1>7 DEF EventsOf
  <2>2. \A i \in DOMAIN f : f[i].event \in EventsOf(lines)
    BY <1>1, <1>2, <1>3, <1>4 DEF EventsOf
  <2>3. Last(lines).event \in EventsOf(lines)
    BY <1>1, <1>5 DEF EventsOf
  <2> QED BY <2>1, <2>2, <2>3 DEF EventsOf
<1> QED BY <1>3, <1>5, <1>6, <1>8 DEF f

\* A line that is written is the last one, and of the others at most one that was without
\* an end is gone.
LEMMA LineWritten ==
  ASSUME NEW lines \in Seq(Line), NEW line \in Line, Ascending(lines), \A e \in EventsOf(lines) : e < line.event
  PROVE  /\ With(lines, line) \in Seq(Line) /\ With(lines, line) # <<>> /\ Ascending(With(lines, line))
         /\ EventsOf(With(lines, line)) \subseteq EventsOf(lines) \cup {line.event}
         /\ line.event \in EventsOf(With(lines, line))
         /\ \A e \in EventsOf(lines) :
              e \in EventsOf(With(lines, line)) \/ (lines # <<>> /\ ~Last(lines).ended /\ e = Last(lines).event)
         /\ Last(With(lines, line)).event = line.event /\ Last(With(lines, line)).ended = line.ended
<1> HIDE DEF Line
<1>1. CASE lines = <<>> \/ Last(lines).ended
  <2>1. With(lines, line) = Append(lines, line)
    <3>1. CASE lines = <<>>
      <4>1. Append(<<>>, line) = <<line>>
        OBVIOUS
      <4> QED BY <3>1, <4>1 DEF With
    <3>2. CASE lines # <<>> BY <3>2, <1>1 DEF With
    <3> QED BY <3>1, <3>2
  <2>2. Last(Append(lines, line)) = line
    BY LineAppended DEF Last
  <2> QED BY <2>1, <2>2, LineAppended
<1>2. CASE lines # <<>> /\ ~Last(lines).ended
  <2> DEFINE merged == [line EXCEPT !.readable = FALSE, !.size = @ + Last(lines).size]
  <2>1. With(lines, line) = Append(Front(lines), merged)
    BY <1>2 DEF With
  <2>2. /\ Front(lines) \in Seq(Line) /\ Ascending(Front(lines)) /\ Last(lines) \in Line
        /\ EventsOf(lines) = EventsOf(Front(lines)) \cup {Last(lines).event}
    BY <1>2, LastLineLeft
  <2>3. merged \in Line /\ merged.event = line.event /\ merged.ended = line.ended
    <3> DEFINE sum == line.size + Last(lines).size
    <3>1. line.size \in Int /\ Last(lines).size \in Int
      BY <2>2 DEF Line
    <3>2. sum \in Int
      BY <3>1
    <3>3. merged = [line EXCEPT !.readable = FALSE, !.size = sum]
      BY <3>1 DEF Line
    <3> HIDE DEF sum, merged
    <3> QED BY <3>2, <3>3 DEF Line
  <2> HIDE DEF merged
  <2>4. \A e \in EventsOf(Front(lines)) : e < merged.event
    BY <2>2, <2>3
  <2>5. /\ Append(Front(lines), merged) \in Seq(Line) /\ Append(Front(lines), merged) # <<>>
        /\ Ascending(Append(Front(lines), merged))
        /\ EventsOf(Append(Front(lines), merged)) = EventsOf(Front(lines)) \cup {merged.event}
        /\ Append(Front(lines), merged)[Len(Append(Front(lines), merged))] = merged
    BY <2>2, <2>3, <2>4, LineAppended
  <2>6. Last(Append(Front(lines), merged)) = merged
    BY <2>5 DEF Last
  <2> QED BY <1>2, <2>1, <2>2, <2>3, <2>5, <2>6
<1> QED BY <1>1, <1>2

LEMMA NoLines ==
  <<>> \in Seq(Line) /\ EventsOf(<<>>) = {} /\ Ascending(<<>>) /\ Descending(<<>>)
<1>1. DOMAIN <<>> = {}
  OBVIOUS
<1> QED BY <1>1 DEF EventsOf, Ascending, Descending

LEMMA EventsAreNumbers == ASSUME NEW lines \in Seq(Line) PROVE EventsOf(lines) \subseteq Nat
<1>1. \A i \in DOMAIN lines : lines[i] \in Line
  BY ElementOfSeq, LenProperties
<1> QED BY <1>1 DEF EventsOf, Line

\* A line that is written comes after all others.
LEMMA LineWrittenKeepsFiles ==
  ASSUME FilesInv, NEW p \in Appenders, event[p] \in Nat, WriteLine(p)
  PROVE  /\ FilesInv' /\ segments' = segments /\ written <= written'
         /\ \A e \in EventsOf(active') : e \in EventsOf(active) \/ e = written + 1
<1> PICK whole \in BOOLEAN :
      /\ active' = With(active, [event |-> written + 1, size |-> IF whole THEN event[p] ELSE 1,
                                 readable |-> whole, ended |-> whole])
      /\ acked' = IF whole THEN acked \cup {written + 1} ELSE acked
  BY DEF WriteLine
<1> DEFINE line == [event |-> written + 1, size |-> IF whole THEN event[p] ELSE 1,
                    readable |-> whole, ended |-> whole]
<1>1. /\ written \in Nat /\ written' = written + 1 /\ segments' = segments
      /\ active \in Seq(Line) /\ Ascending(active) /\ \A e \in EventsOf(active) : e <= written
  BY DEF FilesInv, ActiveInv, WriteLine, AppendOver
<1>2. line \in Line /\ line.event = written + 1 /\ line.ended = whole
  BY <1>1 DEF Line
<1>3. active' = With(active, line)
  OBVIOUS
<1> HIDE DEF line
<1>4. EventsOf(active) \subseteq Nat
  BY <1>1, EventsAreNumbers
<1>5. \A e \in EventsOf(active) : e < line.event
  BY <1>1, <1>2, <1>4
<1>6. /\ active' \in Seq(Line) /\ active' # <<>> /\ Ascending(active')
      /\ EventsOf(active') \subseteq EventsOf(active) \cup {written + 1}
      /\ written + 1 \in EventsOf(active')
      /\ \A e \in EventsOf(active) :
           e \in EventsOf(active') \/ (active # <<>> /\ ~Last(active).ended /\ e = Last(active).event)
      /\ Last(active').event = written + 1 /\ Last(active').ended = whole
  <2> DEFINE new == With(active, line)
  <2>1. /\ new \in Seq(Line) /\ new # <<>> /\ Ascending(new)
        /\ EventsOf(new) \subseteq EventsOf(active) \cup {line.event}
        /\ line.event \in EventsOf(new)
        /\ \A e \in EventsOf(active) :
             e \in EventsOf(new) \/ (active # <<>> /\ ~Last(active).ended /\ e = Last(active).event)
        /\ Last(new).event = line.event /\ Last(new).ended = line.ended
    BY <1>1, <1>2, <1>5, LineWritten
  <2>2. active' = new
    BY <1>3
  <2> HIDE DEF new
  <2> QED BY <1>2, <2>1, <2>2
<1>7. ActiveInv'
  BY <1>1, <1>4, <1>6 DEF ActiveInv
<1>8. SegmentsInv'
  <2>1. \A stamp : Past(stamp) => Past(stamp)'
    BY <1>1, <1>4, <1>6 DEF Past, Before
  <2> QED BY <1>1, <2>1 DEF FilesInv, SegmentsInv
<1>9. AckedInv'
  <2>1. acked' \subseteq 1 .. written'
    BY <1>1 DEF FilesInv, AckedInv
  <2>2. active' # <<>> /\ ~Last(active').ended => Last(active').event \notin acked'
    BY <1>1, <1>6 DEF FilesInv, AckedInv
  <2>3. ASSUME NEW n \in acked', NEW m \in Stored', m < n PROVE n \in Stored'
    <3>1. Stored' = EventsOf(active') \cup UNION {EventsOf(s.lines) : s \in segments}
      BY <1>1 DEF Stored
    <3>2. CASE n = written + 1 BY <3>1, <3>2, <1>6
    <3>3. CASE n \in acked /\ n # written + 1
      <4>1. n \in 1 .. written
        BY <3>3 DEF FilesInv, AckedInv
      <4>2. m # written + 1
        BY <4>1, <1>1, <2>3
      <4>3. m \in Stored
        BY <4>2, <3>1, <1>6 DEF Stored
      <4>4. n \in Stored
        BY <3>3, <4>3, <2>3 DEF FilesInv, AckedInv
      <4>5. ~(active # <<>> /\ ~Last(active).ended /\ n = Last(active).event)
        BY <3>3 DEF FilesInv, AckedInv
      <4> QED BY <4>4, <4>5, <3>1, <1>6 DEF Stored
    <3> QED BY <3>2, <3>3
  <2> QED BY <2>1, <2>2, <2>3 DEF AckedInv
<1> QED BY <1>1, <1>6, <1>7, <1>8, <1>9 DEF FilesInv

\* The full file becomes the newest segment, or nothing when none is retained.
LEMMA RotationKeepsFiles ==
  ASSUME FilesInv, NEW p \in Appenders, Rotate(p)
  PROVE  /\ FilesInv' /\ written' = written /\ EventsOf(active') \subseteq EventsOf(active)
         /\ segments' \subseteq segments \cup (IF active = <<>> THEN {} ELSE {[stamp |-> written, lines |-> active]})
<1> DEFINE full == [stamp |-> written, lines |-> active]
<1>1. /\ written \in Nat /\ written' = written /\ acked' = acked
      /\ active \in Seq(Line) /\ Ascending(active) /\ \A e \in EventsOf(active) : e <= written
      /\ EventsOf(active) \subseteq Nat
  BY EventsAreNumbers DEF FilesInv, ActiveInv, Rotate
<1>2. CASE active' = active /\ segments' = segments
  <2>1. ActiveInv' /\ SegmentsInv' /\ AckedInv'
    BY <1>1, <1>2 DEF FilesInv, ActiveInv, SegmentsInv, AckedInv, Past, Stored
  <2> QED BY <1>1, <1>2, <2>1 DEF FilesInv
<1>3. CASE active # <<>> /\ active' = <<>> /\ (IF Retain = 0 THEN segments' = segments ELSE segments' = segments \cup {full})
  <2>1. active' \in Seq(Line) /\ EventsOf(active') = {} /\ Ascending(active')
    BY <1>3, NoLines
  <2>2. ActiveInv'
    BY <2>1, <1>1 DEF ActiveInv
  <2>3. \A s \in segments : s.stamp \in Nat /\ s.stamp <= written /\ Before({s.stamp}, EventsOf(active))
    BY DEF FilesInv, SegmentsInv, Past
  <2>4. \A stamp \in Nat : stamp <= written => Past(stamp)'
    BY <1>1, <2>1 DEF Past, Before
  <2>5. \E e \in EventsOf(active) : TRUE
    <3>1. 1 \in DOMAIN active
      BY <1>1, <1>3, EmptySeq, LenProperties
    <3> QED BY <3>1 DEF EventsOf
  <2>6. \A s \in segments : s.stamp # written
    BY <1>1, <2>3, <2>5 DEF Before
  <2>7. /\ full.stamp = written /\ full.lines = active
    OBVIOUS
  <2>8. SegmentsInv'
    <3>1. CASE Retain = 0 BY <1>3, <2>3, <2>4, <3>1 DEF FilesInv, SegmentsInv
    <3>2. CASE Retain # 0
      <4> HIDE DEF full
      <4>1. segments' = segments \cup {full}
        BY <1>3, <3>2
      <4>2. IsFiniteSet(segments')
        BY <4>1, FS_AddElement DEF FilesInv, SegmentsInv
      <4>3. \A s \in segments' : /\ Past(s.stamp)' /\ s.lines \in Seq(Line) /\ Ascending(s.lines)
                                 /\ \A e \in EventsOf(s.lines) : e <= s.stamp
        <5>1. \A s \in segments : Past(s.stamp)'
          BY <2>3, <2>4
        <5> SUFFICES ASSUME NEW s \in segments'
                     PROVE  /\ Past(s.stamp)' /\ s.lines \in Seq(Line) /\ Ascending(s.lines)
                            /\ \A e \in EventsOf(s.lines) : e <= s.stamp
          OBVIOUS
        <5>2. CASE s \in segments
          BY <5>1, <5>2 DEF FilesInv, SegmentsInv
        <5>3. CASE s = full
          <6>1. s.stamp = written /\ s.lines = active
            BY <5>3, <2>7
          <6>2. s.stamp \in Nat /\ s.stamp <= written
            BY <6>1, <1>1
          <6>3. Past(s.stamp)'
            BY <6>2, <2>4
          <6> QED BY <6>1, <6>3, <1>1
        <5> QED BY <4>1, <5>2, <5>3
      <4>4. ASSUME NEW s \in segments', NEW t \in segments'
            PROVE  /\ s.stamp = t.stamp => s = t
                   /\ s.stamp < t.stamp => Before({s.stamp}, EventsOf(t.lines))
        <5>1. CASE s \in segments /\ t \in segments BY <5>1 DEF FilesInv, SegmentsInv
        <5>2. CASE s \in segments /\ t = full BY <5>2, <2>3, <2>6, <2>7
        <5>3. CASE s = full /\ t \in segments
          <6>1. s.stamp = written /\ t.stamp \in Nat /\ t.stamp <= written /\ t.stamp # written
            BY <5>3, <2>3, <2>6, <2>7
          <6> QED BY <6>1, <1>1
        <5>4. CASE s = full /\ t = full BY <5>4, <2>7, <1>1
        <5> QED BY <4>1, <5>1, <5>2, <5>3, <5>4
      <4> QED BY <3>2, <4>2, <4>3, <4>4 DEF SegmentsInv
    <3> QED BY <3>1, <3>2
  <2>9. AckedInv'
    <3>1. CASE Retain = 0
      <4>1. segments' = {}
        BY <1>3, <3>1 DEF FilesInv, SegmentsInv
      <4>2. Stored' = {}
        BY <4>1, <2>1 DEF Stored
      <4> QED BY <4>2, <1>1, <1>3 DEF FilesInv, AckedInv
    <3>2. CASE Retain # 0
      <4>1. Stored' = Stored
        <5> HIDE DEF full
        <5>1. segments' = segments \cup {full}
          BY <1>3, <3>2
        <5>2. Stored' = UNION {EventsOf(s.lines) : s \in segments'}
          BY <2>1 DEF Stored
        <5> QED BY <5>1, <5>2, <2>7 DEF Stored
      <4> QED BY <4>1, <1>1, <1>3 DEF FilesInv, AckedInv
    <3> QED BY <3>1, <3>2
  <2> QED BY <1>1, <1>3, <2>1, <2>2, <2>8, <2>9 DEF FilesInv
<1> QED BY <1>2, <1>3 DEF Rotate

\* The segment that is unlinked is the oldest: whatever is older than one in excess is in
\* excess too.
LEMMA TrimmingKeepsFiles ==
  ASSUME FilesInv, NEW p \in Appenders, Trim(p)
  PROVE  FilesInv' /\ written' = written /\ active' = active /\ segments' \subseteq segments
<1>1. written' = written /\ active' = active /\ acked' = acked
  BY DEF Trim
<1>2. CASE segments' = segments
  BY <1>1, <1>2 DEF FilesInv, ActiveInv, SegmentsInv, AckedInv, Past, Stored
<1>3. ASSUME NEW s \in Excess, \A t \in Excess : s.stamp <= t.stamp, segments' = segments \ {s}
      PROVE  FilesInv' /\ segments' \subseteq segments
  <2> DEFINE newer(u) == {v \in segments : v.stamp > u.stamp}
  <2>1. /\ s \in segments /\ Retain \in Nat /\ IsFiniteSet(segments)
        /\ \A t \in segments : t \in Excess <=> Cardinality(newer(t)) >= Retain
        /\ \A t \in segments : t.stamp \in Nat
    BY <1>3, TrailAssumption DEF Excess, FilesInv, SegmentsInv, Past
  <2>2. \A t \in segments : s.stamp <= t.stamp
    <3> SUFFICES ASSUME NEW t \in segments, t.stamp < s.stamp PROVE FALSE
      BY <2>1
    <3>1. newer(s) \subseteq newer(t)
      BY <2>1
    <3>2. IsFiniteSet(newer(t)) /\ newer(t) \subseteq segments
      BY <2>1, FS_Subset
    <3>3. /\ Cardinality(newer(s)) <= Cardinality(newer(t))
          /\ Cardinality(newer(s)) \in Nat /\ Cardinality(newer(t)) \in Nat
      BY <3>1, <3>2, FS_Subset, FS_CardinalityType
    <3>4. Cardinality(newer(s)) >= Retain
      BY <1>3, <2>1
    <3> HIDE DEF newer
    <3>5. t \in Excess
      BY <2>1, <3>3, <3>4
    <3> QED BY <1>3, <2>1, <3>5
  <2>3. ActiveInv'
    BY <1>1 DEF FilesInv, ActiveInv
  <2>4. IsFiniteSet(segments')
    BY <1>3, <2>1, FS_Subset
  <2>5. SegmentsInv'
    BY <1>1, <1>3, <2>4 DEF FilesInv, SegmentsInv, Past
  <2>6. AckedInv'
    <3> SUFFICES ASSUME NEW n \in acked, NEW m \in Stored', m < n, n \notin Stored' PROVE FALSE
      BY <1>1 DEF FilesInv, AckedInv
    <3>1. m \in Stored
      BY <1>1, <1>3 DEF Stored
    <3>2. n \in Stored
      BY <3>1 DEF FilesInv, AckedInv
    <3>3. n \in EventsOf(s.lines)
      BY <3>2, <1>1, <1>3 DEF Stored
    <3>4. n <= s.stamp /\ n \in Nat /\ s.stamp \in Nat
      BY <3>3, <2>1, EventsAreNumbers DEF FilesInv, SegmentsInv
    <3>5. CASE m \in EventsOf(active)
      <4>1. s.stamp < m
        BY <3>5, <2>1 DEF FilesInv, SegmentsInv, Past, Before
      <4>2. m \in Nat
        BY <3>5, EventsAreNumbers DEF FilesInv, ActiveInv
      <4> QED BY <3>4, <4>1, <4>2
    <3>6. ASSUME NEW t \in segments', m \in EventsOf(t.lines) PROVE FALSE
      <4>1. t \in segments /\ t # s /\ t.stamp \in Nat
        BY <3>6, <1>3, <2>1
      <4>2. s.stamp < t.stamp
        <5>1. s.stamp # t.stamp
          BY <4>1, <2>1 DEF FilesInv, SegmentsInv
        <5>2. s.stamp <= t.stamp /\ s.stamp \in Nat
          BY <4>1, <2>1, <2>2
        <5> QED BY <4>1, <5>1, <5>2
      <4>3. s.stamp < m
        BY <4>1, <4>2, <3>6, <2>1 DEF FilesInv, SegmentsInv, Before
      <4>4. m \in Nat
        BY <4>1, <3>6, EventsAreNumbers DEF FilesInv, SegmentsInv
      <4> QED BY <3>4, <4>3, <4>4
    <3> QED BY <3>5, <3>6, <1>1 DEF Stored
  <2> QED BY <1>1, <1>3, <2>3, <2>5, <2>6 DEF FilesInv
<1> QED BY <1>1, <1>2, <1>3 DEF Trim

\* The files as a reader lists them.
LEMMA FilesListed ==
  ASSUME FilesInv, NEW order \in ByAge(segments), NEW newest \in BOOLEAN
  PROVE  Listed(order, newest) \in Seq(Name) /\ ReaderInv(Listed(order, newest), newest, <<>>)
<1> DEFINE n == Cardinality(segments)
           rotated == [i \in DOMAIN order |-> [segment |-> TRUE, stamp |-> order[i].stamp]]
           back == Reverse(rotated)
           current == IF active = <<>> THEN <<>> ELSE <<[segment |-> FALSE, stamp |-> 0]>>
           k == Len(current)
<1>1. /\ n \in Nat /\ DOMAIN order = 1 .. n /\ \A i \in 1 .. n : order[i] \in segments
      /\ \A i, j \in 1 .. n : i < j => order[i].stamp < order[j].stamp
  BY FS_CardinalityType DEF FilesInv, SegmentsInv, ByAge
<1>2. \A s \in segments : s.stamp \in Nat /\ Past(s.stamp)
  BY DEF FilesInv, SegmentsInv, Past
<1> HIDE DEF n
<1>3. /\ rotated \in Seq(Name) /\ Len(rotated) = n
      /\ \A i \in 1 .. n : rotated[i] = [segment |-> TRUE, stamp |-> order[i].stamp]
  <2>1. \A i \in 1 .. n : [segment |-> TRUE, stamp |-> order[i].stamp] \in Name
    BY <1>1, <1>2 DEF Name
  <2>2. rotated \in [1 .. n -> Name]
    BY <1>1, <2>1
  <2>3. rotated \in Seq(Name)
    BY <2>2, <1>1, IsASeq
  <2>4. DOMAIN rotated = 1 .. n
    BY <1>1
  <2>5. Len(rotated) = n
    BY <2>3, <2>4, <1>1, LenProperties
  <2> QED BY <2>3, <2>5, <1>1
<1> HIDE DEF rotated
<1>4. /\ back \in Seq(Name) /\ Len(back) = n
      /\ \A i \in 1 .. n : (n - i) + 1 \in 1 .. n /\ back[i] = rotated[(n - i) + 1]
  <2>1. back = [i \in 1 .. n |-> rotated[(n - i) + 1]]
    BY <1>3 DEF Reverse
  <2>2. \A i \in 1 .. n : (n - i) + 1 \in 1 .. n
    BY <1>1
  <2>3. \A i \in 1 .. n : rotated[i] \in Name
    BY <1>3, ElementOfSeq
  <2>4. back \in [1 .. n -> Name]
    BY <2>1, <2>2, <2>3
  <2>5. back \in Seq(Name) /\ DOMAIN back = 1 .. n
    BY <2>4, <1>1, IsASeq
  <2>6. Len(back) = n
    BY <2>5, <1>1, LenProperties
  <2> HIDE DEF back
  <2> QED BY <2>1, <2>2, <2>5, <2>6
<1> HIDE DEF back
<1> HIDE DEF k
<1>5. /\ current \in Seq(Name) /\ k \in {0, 1} /\ \A i \in 1 .. k : current[i] = [segment |-> FALSE, stamp |-> 0]
  <2>1. CASE active = <<>>
    <3>1. current = <<>>
      BY <2>1
    <3>2. k = 0 /\ current \in Seq(Name)
      BY <3>1 DEF k
    <3> QED BY <3>2
  <2>2. CASE active # <<>>
    <3> DEFINE name == [segment |-> FALSE, stamp |-> 0]
    <3>1. name \in Name
      BY DEF Name
    <3>2. current = <<name>>
      BY <2>2
    <3> HIDE DEF name, current
    <3>3. <<name>> \in Seq(Name) /\ Len(<<name>>) = 1 /\ <<name>>[1] = name
      BY <3>1
    <3>4. k = 1 /\ current \in Seq(Name) /\ current[1] = name
      BY <3>2, <3>3 DEF k
    <3>5. \A i \in 1 .. k : i = 1
      BY <3>4
    <3> QED BY <3>4, <3>5 DEF name
  <2> QED BY <2>1, <2>2
<1>6. EventsOf(<<>>) = {} /\ Ascending(<<>>) /\ Descending(<<>>)
  BY NoLines
<1> HIDE DEF current
<1>7. CASE newest
  <2> DEFINE left == current \o back
  <2>1. Listed(order, newest) = left
    BY <1>7 DEF Listed, rotated, current, back
  <2>2. /\ left \in Seq(Name) /\ DOMAIN left = 1 .. k + n
        /\ \A i \in 1 .. k + n : left[i] = IF i <= k THEN current[i] ELSE back[i - k]
    BY <1>1, <1>4, <1>5, ConcatProperties, LenProperties DEF k
  <2> HIDE DEF left
  <2>3. ASSUME NEW i \in 1 .. k + n
        PROVE  \/ i = 1 /\ k = 1 /\ left[i] = [segment |-> FALSE, stamp |-> 0]
               \/ /\ i > k /\ (n - (i - k)) + 1 \in 1 .. n
                  /\ left[i] = [segment |-> TRUE, stamp |-> order[(n - (i - k)) + 1].stamp]
    <3>1. CASE i <= k
      <4>1. i = 1 /\ k = 1 /\ i \in 1 .. k
        BY <3>1, <1>5
      <4> QED BY <4>1, <3>1, <2>2, <1>5
    <3>2. CASE ~(i <= k)
      <4>1. i - k \in 1 .. n /\ i > k
        BY <3>2, <1>1, <1>5
      <4>2. left[i] = back[i - k]
        BY <3>2, <2>2
      <4> QED BY <4>1, <4>2, <1>3, <1>4
    <3> QED BY <3>1, <3>2
  <2>4. ASSUME NEW i \in 1 .. k + n, left[i].segment PROVE \E s \in segments : s.stamp = left[i].stamp
    <3>1. left[i] # [segment |-> FALSE, stamp |-> 0]
      BY <2>4
    <3>2. (n - (i - k)) + 1 \in 1 .. n /\ left[i] = [segment |-> TRUE, stamp |-> order[(n - (i - k)) + 1].stamp]
      BY <2>3, <3>1
    <3>3. left[i].stamp = order[(n - (i - k)) + 1].stamp
      BY <3>2
    <3> QED BY <3>2, <3>3, <1>1
  <2>5. ASSUME NEW i \in 1 .. k + n, NEW j \in 1 .. k + n, i < j
        PROVE  left[j].segment /\ (left[i].segment => left[j].stamp < left[i].stamp)
    <3>1. j > k
      BY <2>5, <1>5
    <3>2. /\ (n - (j - k)) + 1 \in 1 .. n
          /\ left[j] = [segment |-> TRUE, stamp |-> order[(n - (j - k)) + 1].stamp]
      BY <2>3, <3>1, <1>5
    <3>3. CASE left[i].segment
      <4>1. /\ (n - (i - k)) + 1 \in 1 .. n
            /\ left[i] = [segment |-> TRUE, stamp |-> order[(n - (i - k)) + 1].stamp]
        BY <2>3, <3>3
      <4>2. (n - (j - k)) + 1 < (n - (i - k)) + 1
        BY <2>5, <1>1, <1>5
      <4> QED BY <4>1, <4>2, <3>2, <1>1
    <3> QED BY <3>2, <3>3
  <2>6. \A i, j \in DOMAIN left : left[i].segment /\ left[j].segment /\ left[i].stamp < left[j].stamp =>
         \A s \in segments : s.stamp = left[j].stamp => Before({left[i].stamp}, EventsOf(s.lines))
    BY <2>2, <2>4 DEF FilesInv, SegmentsInv
  <2> QED BY <1>2, <1>6, <1>7, <2>1, <2>2, <2>4, <2>5, <2>6 DEF ReaderInv
<1>8. CASE ~newest
  <2> DEFINE left == rotated \o current
  <2>1. Listed(order, newest) = left
    BY <1>8 DEF Listed, rotated, current
  <2>2. /\ left \in Seq(Name) /\ DOMAIN left = 1 .. n + k
        /\ \A i \in 1 .. n + k : left[i] = IF i <= n THEN rotated[i] ELSE current[i - n]
    BY <1>1, <1>3, <1>5, ConcatProperties, LenProperties DEF k
  <2> HIDE DEF left
  <2>3. ASSUME NEW i \in 1 .. n + k
        PROVE  \/ i \in 1 .. n /\ left[i] = [segment |-> TRUE, stamp |-> order[i].stamp]
               \/ i = n + 1 /\ k = 1 /\ left[i] = [segment |-> FALSE, stamp |-> 0]
    <3>1. CASE i <= n
      <4>1. i \in 1 .. n
        BY <3>1, <1>1
      <4> QED BY <4>1, <3>1, <2>2, <1>3
    <3>2. CASE ~(i <= n)
      <4>1. i - n \in 1 .. k /\ k = 1 /\ i = n + 1
        BY <3>2, <1>1, <1>5
      <4>2. left[i] = current[i - n]
        BY <3>2, <2>2
      <4> QED BY <4>1, <4>2, <1>5
    <3> QED BY <3>1, <3>2
  <2>4. ASSUME NEW i \in 1 .. n + k, left[i].segment PROVE \E s \in segments : s.stamp = left[i].stamp
    <3>1. left[i] # [segment |-> FALSE, stamp |-> 0]
      BY <2>4
    <3>2. i \in 1 .. n /\ left[i] = [segment |-> TRUE, stamp |-> order[i].stamp]
      BY <2>3, <3>1
    <3>3. left[i].stamp = order[i].stamp
      BY <3>2
    <3> QED BY <3>2, <3>3, <1>1
  <2>5. ASSUME NEW i \in 1 .. n + k, NEW j \in 1 .. n + k, i < j
        PROVE  left[i].segment /\ (left[j].segment => left[i].stamp < left[j].stamp)
    <3>1. i \in 1 .. n /\ left[i] = [segment |-> TRUE, stamp |-> order[i].stamp]
      BY <2>3, <2>5, <1>1, <1>5
    <3>2. CASE left[j].segment
      <4>1. j \in 1 .. n /\ left[j] = [segment |-> TRUE, stamp |-> order[j].stamp]
        BY <2>3, <3>2
      <4> QED BY <3>1, <4>1, <2>5, <1>1
    <3> QED BY <3>1, <3>2
  <2>6. \A i, j \in DOMAIN left : left[i].segment /\ left[j].segment /\ left[i].stamp < left[j].stamp =>
         \A s \in segments : s.stamp = left[j].stamp => Before({left[i].stamp}, EventsOf(s.lines))
    BY <2>2, <2>4 DEF FilesInv, SegmentsInv
  <2>7. \A E : Before(EventsOf(<<>>), E)
    BY <1>6 DEF Before
  <2> QED BY <1>2, <1>6, <1>8, <2>1, <2>2, <2>4, <2>5, <2>6, <2>7 DEF ReaderInv
<1> QED BY <1>7, <1>8

\* The lines of a file that may be gone by now.
LEMMA LinesOfListed ==
  ASSUME FilesInv, NEW name \in Name
  PROVE  /\ LinesOf(name) \in Seq(Line) /\ Ascending(LinesOf(name)) /\ \A e \in EventsOf(LinesOf(name)) : e <= written
         /\ ~name.segment => LinesOf(name) = active
         /\ name.segment => \/ LinesOf(name) = <<>>
                            \/ \E s \in segments : s.stamp = name.stamp /\ LinesOf(name) = s.lines
<1> HIDE DEF Name, Line
<1>1. CASE ~name.segment BY <1>1 DEF LinesOf, FilesInv, ActiveInv
<1>2. CASE name.segment
  <2> DEFINE there == {s \in segments : s.stamp = name.stamp}
  <2>1. CASE there = {}
    <3>1. LinesOf(name) = <<>>
      BY <1>2, <2>1 DEF LinesOf
    <3> QED BY <1>2, <3>1, NoLines
  <2>2. CASE there # {}
    <3>1. PICK s \in there : s = CHOOSE t \in there : TRUE
      BY <2>2
    <3>2. LinesOf(name) = s.lines /\ s \in segments /\ s.stamp = name.stamp
      BY <1>2, <2>2, <3>1 DEF LinesOf
    <3>3. /\ s.lines \in Seq(Line) /\ Ascending(s.lines) /\ s.stamp \in Nat /\ s.stamp <= written
          /\ \A e \in EventsOf(s.lines) : e <= s.stamp
      BY <3>2 DEF FilesInv, SegmentsInv, Past
    <3>4. EventsOf(s.lines) \subseteq Nat /\ written \in Nat
      BY <3>3, EventsAreNumbers DEF FilesInv
    <3> QED BY <1>2, <3>2, <3>3, <3>4
  <2> QED BY <2>1, <2>2
<1> QED BY <1>1, <1>2

\* Whatever has become of the file, what is read of it comes next.
LEMMA FileRead ==
  ASSUME FilesInv, NEW left \in Seq(Name), left # <<>>, NEW newest \in BOOLEAN, NEW had \in Seq(Line),
         ReaderInv(left, newest, had),
         NEW got, got = IF newest THEN Reverse(LinesOf(Head(left))) ELSE LinesOf(Head(left))
  PROVE  /\ had \o got \in Seq(Line) /\ Tail(left) \in Seq(Name)
         /\ ReaderInv(Tail(left), newest, had \o got)
<1> DEFINE name == left[1]
           new == LinesOf(name)
           n == Len(left)
           rest == Tail(left)
<1>1. /\ n \in Nat \ {0} /\ DOMAIN left = 1 .. n /\ \A i \in 1 .. n : left[i] \in Name
      /\ name \in Name /\ Head(left) = name
  <2>1. n \in Nat \ {0} /\ DOMAIN left = 1 .. n /\ \A i \in 1 .. n : left[i] \in Name
    BY EmptySeq, LenProperties, ElementOfSeq
  <2> QED BY <2>1
<1>2. rest \in Seq(Name) /\ DOMAIN rest = 1 .. n - 1
  BY HeadTailProperties, LenProperties, <1>1
<1>3. \A i \in 1 .. n - 1 : i + 1 \in 1 .. n /\ 1 < i + 1 /\ rest[i] = left[i + 1]
  BY HeadTailProperties, <1>1
<1> HIDE DEF n, rest
<1>4. /\ new \in Seq(Line) /\ Ascending(new) /\ \A e \in EventsOf(new) : e <= written
      /\ ~name.segment => new = active
      /\ name.segment => \/ new = <<>>
                         \/ \E s \in segments : s.stamp = name.stamp /\ new = s.lines
  BY <1>1, LinesOfListed
<1>5. got = IF newest THEN Reverse(new) ELSE new
  BY <1>1
<1>6. /\ got \in Seq(Line) /\ EventsOf(got) = EventsOf(new)
      /\ newest => Descending(got)
      /\ ~newest => Ascending(got)
  BY <1>4, <1>5, ReversedLines
<1>7. /\ written \in Nat /\ EventsOf(had) \subseteq Nat /\ EventsOf(got) \subseteq Nat
      /\ \A e \in EventsOf(had) : e <= written
  BY <1>6, EventsAreNumbers DEF FilesInv, ReaderInv
<1>8. /\ name.segment => Past(name.stamp) /\ \A e \in EventsOf(got) : e <= name.stamp
      /\ ~name.segment => EventsOf(got) = EventsOf(active)
  <2>1. ASSUME name.segment PROVE Past(name.stamp)
    BY <2>1, <1>1 DEF ReaderInv
  <2>2. ASSUME name.segment, NEW e \in EventsOf(got) PROVE e <= name.stamp
    <3>1. EventsOf(new) # {}
      BY <2>2, <1>6
    <3>2. new # <<>>
      BY <3>1, NoLines
    <3> QED BY <2>2, <3>2, <1>4, <1>6 DEF FilesInv, SegmentsInv
  <2> QED BY <2>1, <2>2, <1>4, <1>6
<1> HIDE DEF new, name
<1>9. /\ had \o got \in Seq(Line) /\ EventsOf(had \o got) = EventsOf(had) \cup EventsOf(got)
      /\ Ascending(had) /\ Ascending(got) /\ Before(EventsOf(had), EventsOf(got)) => Ascending(had \o got)
      /\ Descending(had) /\ Descending(got) /\ Before(EventsOf(got), EventsOf(had)) => Descending(had \o got)
  BY <1>6, JoinedLines
<1>10. \A e \in EventsOf(had \o got) : e <= written
  BY <1>4, <1>6, <1>7, <1>9
<1>11. \A i \in 1 .. n - 1 : rest[i].segment => Past(rest[i].stamp)
  BY <1>1, <1>3 DEF ReaderInv
<1>12. \A i, j \in 1 .. n - 1 : rest[i].segment /\ rest[j].segment /\ rest[i].stamp < rest[j].stamp =>
         \A s \in segments : s.stamp = rest[j].stamp => Before({rest[i].stamp}, EventsOf(s.lines))
  BY <1>1, <1>3 DEF ReaderInv
<1>13. \A i, j \in 1 .. n - 1 : i < j => i + 1 < j + 1
  BY <1>1
<1>14. CASE newest
  <2>1. /\ Descending(had)
        /\ \A i, j \in 1 .. n : i < j => left[j].segment /\ (left[i].segment => left[j].stamp < left[i].stamp)
        /\ \A i \in 1 .. n : IF left[i].segment THEN \A e \in EventsOf(had) : left[i].stamp < e ELSE had = <<>>
    BY <1>1, <1>14 DEF ReaderInv
  <2>2. Before(EventsOf(got), EventsOf(had))
    <3>1. CASE name.segment
      <4>1. name.stamp \in Nat /\ \A e \in EventsOf(had) : name.stamp < e
        BY <3>1, <2>1, <1>1, <1>8 DEF name, Past
      <4>2. \A e \in EventsOf(got) : e <= name.stamp
        BY <3>1, <1>8
      <4> QED BY <4>1, <4>2, <1>7 DEF Before
    <3>2. CASE ~name.segment
      <4>1. had = <<>>
        BY <3>2, <2>1, <1>1 DEF name
      <4>2. EventsOf(had) = {}
        BY <4>1, NoLines
      <4> QED BY <4>2 DEF Before
    <3> QED BY <3>1, <3>2
  <2>3. Descending(had \o got)
    BY <2>1, <2>2, <1>6, <1>9, <1>14
  <2>4. \A i, j \in 1 .. n - 1 : i < j => rest[j].segment /\ (rest[i].segment => rest[j].stamp < rest[i].stamp)
    BY <2>1, <1>3, <1>13
  <2>5. ASSUME NEW i \in 1 .. n - 1
        PROVE  rest[i].segment /\ \A e \in EventsOf(had \o got) : rest[i].stamp < e
    <3>1. /\ i + 1 \in 1 .. n /\ 1 \in 1 .. n /\ rest[i] = left[i + 1] /\ 1 < i + 1
      BY <1>1, <1>3
    <3>2. rest[i].segment /\ (name.segment => rest[i].stamp < name.stamp)
      BY <3>1, <2>1 DEF name
    <3>3. \A e \in EventsOf(had) : rest[i].stamp < e
      BY <3>1, <3>2, <2>1
    <3>4. Past(rest[i].stamp)
      BY <3>2, <1>11
    <3>5. ASSUME NEW e \in EventsOf(got) PROVE rest[i].stamp < e
      <4>1. CASE ~name.segment BY <4>1, <3>4, <1>8 DEF Past, Before
      <4>2. CASE name.segment
        <5>1. PICK s \in segments : s.stamp = name.stamp /\ new = s.lines
          BY <4>2, <1>4, <1>6, NoLines
        <5>2. Before({rest[i].stamp}, EventsOf(s.lines))
          BY <5>1, <4>2, <3>1, <3>2, <1>1 DEF ReaderInv, name
        <5> QED BY <5>1, <5>2, <1>6 DEF Before
      <4> QED BY <4>1, <4>2
    <3> QED BY <3>2, <3>3, <3>5, <1>9
  <2> QED BY <1>2, <1>9, <1>10, <1>11, <1>12, <1>14, <2>3, <2>4, <2>5 DEF ReaderInv, rest
<1>15. CASE ~newest
  <2>1. /\ Ascending(had)
        /\ \A i, j \in 1 .. n : i < j => left[i].segment /\ (left[j].segment => left[i].stamp < left[j].stamp)
        /\ \A i \in 1 .. n :
             IF left[i].segment
               THEN \A s \in segments : s.stamp = left[i].stamp => Before(EventsOf(had), EventsOf(s.lines))
               ELSE Before(EventsOf(had), EventsOf(active))
    BY <1>1, <1>15 DEF ReaderInv
  <2>2. Before(EventsOf(had), EventsOf(got))
    <3>1. CASE EventsOf(got) = {} BY <3>1 DEF Before
    <3>2. CASE EventsOf(got) # {} /\ name.segment
      <4>1. PICK s \in segments : s.stamp = name.stamp /\ new = s.lines
        BY <3>2, <1>4, <1>6, NoLines
      <4> QED BY <4>1, <3>2, <2>1, <1>1, <1>6 DEF name
    <3>3. CASE ~name.segment BY <3>3, <2>1, <1>1, <1>8 DEF name
    <3> QED BY <3>1, <3>2, <3>3
  <2>3. Ascending(had \o got)
    BY <2>1, <2>2, <1>6, <1>9, <1>15
  <2>4. \A i, j \in 1 .. n - 1 : i < j => rest[i].segment /\ (rest[j].segment => rest[i].stamp < rest[j].stamp)
    BY <2>1, <1>3, <1>13
  <2>5. ASSUME NEW i \in 1 .. n - 1
        PROVE  IF rest[i].segment
                 THEN \A s \in segments : s.stamp = rest[i].stamp => Before(EventsOf(had \o got), EventsOf(s.lines))
                 ELSE Before(EventsOf(had \o got), EventsOf(active))
    <3>1. /\ i + 1 \in 1 .. n /\ 1 \in 1 .. n /\ rest[i] = left[i + 1] /\ 1 < i + 1
      BY <1>1, <1>3
    <3>2. name.segment /\ (rest[i].segment => name.stamp < rest[i].stamp)
      BY <3>1, <2>1 DEF name
    <3>3. name.stamp \in Nat /\ Past(name.stamp) /\ \A e \in EventsOf(got) : e <= name.stamp
      BY <3>2, <1>8 DEF Past
    <3>4. ASSUME rest[i].segment, NEW s \in segments, s.stamp = rest[i].stamp
          PROVE  Before(EventsOf(had \o got), EventsOf(s.lines))
      <4>1. Before(EventsOf(had), EventsOf(s.lines))
        BY <3>1, <3>4, <2>1
      <4>2. Before({name.stamp}, EventsOf(s.lines))
        BY <3>1, <3>2, <3>4, <1>1 DEF ReaderInv, name
      <4>3. EventsOf(s.lines) \subseteq Nat
        BY EventsAreNumbers DEF FilesInv, SegmentsInv
      <4>4. Before(EventsOf(got), EventsOf(s.lines))
        BY <4>2, <4>3, <3>3, <1>7 DEF Before
      <4> QED BY <4>1, <4>4, <1>9 DEF Before
    <3>5. ASSUME ~rest[i].segment PROVE Before(EventsOf(had \o got), EventsOf(active))
      <4>1. Before(EventsOf(had), EventsOf(active))
        BY <3>1, <3>5, <2>1
      <4>2. EventsOf(active) \subseteq Nat
        BY EventsAreNumbers DEF FilesInv, ActiveInv
      <4>3. Before(EventsOf(got), EventsOf(active))
        BY <4>2, <3>3, <1>7 DEF Past, Before
      <4> QED BY <4>1, <4>3, <1>9 DEF Before
    <3> QED BY <3>4, <3>5
  <2> QED BY <1>2, <1>9, <1>10, <1>11, <1>12, <1>15, <2>3, <2>4, <2>5 DEF ReaderInv, rest
<1> QED BY <1>2, <1>9, <1>14, <1>15 DEF rest

LEMMA InvariantOrdersTheTrail == TrailInv => TrailInOrder
<1> SUFFICES ASSUME TrailInv PROVE TrailInOrder
  OBVIOUS
<1> HIDE DEF Line, Name
<1>1. \A s, t \in segments : s.stamp < t.stamp => Before(EventsOf(s.lines), EventsOf(t.lines))
  <2> SUFFICES ASSUME NEW s \in segments, NEW t \in segments, s.stamp < t.stamp,
                      NEW m \in EventsOf(s.lines), NEW n \in EventsOf(t.lines)
               PROVE  m < n
    BY DEF Before
  <2>1. m \in Nat /\ n \in Nat /\ s.stamp \in Nat
    BY EventsAreNumbers DEF TrailInv, FilesInv, SegmentsInv, Past
  <2>2. m <= s.stamp /\ s.stamp < n
    BY DEF TrailInv, FilesInv, SegmentsInv, Before
  <2> QED BY <2>1, <2>2
<1>2. \A s \in segments : Ascending(s.lines) /\ Before(EventsOf(s.lines), EventsOf(active))
  <2> SUFFICES ASSUME NEW s \in segments, NEW m \in EventsOf(s.lines), NEW n \in EventsOf(active) PROVE m < n
    BY DEF Before, TrailInv, FilesInv, SegmentsInv
  <2>1. m \in Nat /\ n \in Nat /\ s.stamp \in Nat
    BY EventsAreNumbers DEF TrailInv, FilesInv, ActiveInv, SegmentsInv, Past
  <2>2. m <= s.stamp /\ s.stamp < n
    BY DEF TrailInv, FilesInv, SegmentsInv, Past, Before
  <2> QED BY <2>1, <2>2
<1>3. \A n \in acked, m \in Stored : m < n => n \in Stored
  BY DEF TrailInv, FilesInv, AckedInv
<1>4. ASSUME NEW r \in Readers PROVE Ascending(IF listing[r].newest THEN Reverse(seen[r]) ELSE seen[r])
  <2>1. seen[r] \in Seq(Line) /\ ReaderInv(listing[r].left, listing[r].newest, seen[r])
    BY DEF TrailInv, ReadersInv
  <2>2. Descending(seen[r]) => Ascending(Reverse(seen[r]))
    BY <2>1, ReversedLines
  <2>3. IF listing[r].newest THEN Descending(seen[r]) ELSE Ascending(seen[r])
    BY <2>1 DEF ReaderInv
  <2> QED BY <2>2, <2>3
<1> QED BY <1>1, <1>2, <1>3, <1>4 DEF TrailInOrder, TrailInv, FilesInv, ActiveInv

\* An action that leaves a reader alone does not disturb what it will read.
LEMMA ReaderLeftAlone ==
  ASSUME TrailInv, FilesInv', KeepsReaders, written <= written',
         \A e \in EventsOf(active') : e \in EventsOf(active) \/ e = written + 1,
         segments' \subseteq segments \cup (IF active = <<>> THEN {} ELSE {[stamp |-> written, lines |-> active]}),
         NEW r \in Readers
  PROVE  ReaderInv(listing[r].left, listing[r].newest, seen[r])'
<1> HIDE DEF Line, Name
<1> PICK left \in Seq(Name), newest \in BOOLEAN, had \in Seq(Line) :
      /\ left = listing[r].left /\ newest = listing[r].newest /\ had = seen[r]
      /\ left = listing'[r].left /\ newest = listing'[r].newest /\ had = seen'[r]
  BY DEF TrailInv, ReadersInv, KeepsReaders
<1>0. ReaderInv(left, newest, had) /\ FilesInv
  BY DEF TrailInv, ReadersInv
<1>1. /\ written \in Nat /\ written' \in Nat /\ EventsOf(had) \subseteq Nat /\ EventsOf(active) \subseteq Nat
      /\ EventsOf(active') \subseteq Nat /\ \A e \in EventsOf(active) : e <= written
      /\ \A e \in EventsOf(had) : e <= written
  BY <1>0, EventsAreNumbers DEF FilesInv, ActiveInv, ReaderInv
<1>2. ASSUME NEW stamp, Past(stamp) PROVE Past(stamp)'
  <2>1. stamp \in Nat /\ stamp <= written /\ \A e \in EventsOf(active) : stamp < e
    BY <1>2 DEF Past, Before
  <2>2. stamp <= written' /\ \A e \in EventsOf(active') : stamp < e
    BY <2>1, <1>1
  <2> QED BY <2>1, <2>2 DEF Past, Before
<1>3. \A e \in EventsOf(had) : e <= written'
  BY <1>1
<1>4. \A i \in DOMAIN left : left[i].segment => Past(left[i].stamp) /\ Past(left[i].stamp)'
  BY <1>0, <1>2 DEF ReaderInv
<1>5. ASSUME NEW s \in segments', s \notin segments
      PROVE  s.stamp = written /\ s.lines = active /\ active # <<>>
  BY <1>5
<1>6. ASSUME NEW i \in DOMAIN left, NEW j \in DOMAIN left, left[i].segment, left[j].segment,
             left[i].stamp < left[j].stamp, NEW s \in segments', s.stamp = left[j].stamp
      PROVE  Before({left[i].stamp}, EventsOf(s.lines))
  <2>1. CASE s \in segments BY <2>1, <1>0, <1>6 DEF ReaderInv
  <2>2. CASE s \notin segments BY <2>2, <1>4, <1>5, <1>6 DEF Past
  <2> QED BY <2>1, <2>2
<1>7. ASSUME NEW i \in DOMAIN left, ~newest, left[i].segment, NEW s \in segments', s.stamp = left[i].stamp
      PROVE  Before(EventsOf(had), EventsOf(s.lines))
  <2>1. CASE s \in segments BY <2>1, <1>0, <1>7 DEF ReaderInv
  <2>2. CASE s \notin segments
    <3>1. \A e \in EventsOf(active) : written < e
      BY <2>2, <1>4, <1>5, <1>7 DEF Past, Before
    <3>2. EventsOf(active) = {}
      BY <3>1, <1>1
    <3> QED BY <3>2, <2>2, <1>5 DEF Before
  <2> QED BY <2>1, <2>2
<1>8. ASSUME NEW i \in DOMAIN left, ~newest, ~left[i].segment PROVE Before(EventsOf(had), EventsOf(active'))
  <2>1. Before(EventsOf(had), EventsOf(active))
    BY <1>0, <1>8 DEF ReaderInv
  <2>2. \A e \in EventsOf(had), f \in EventsOf(active') : e < f
    BY <2>1, <1>1 DEF Before
  <2> QED BY <2>2 DEF Before
<1>9. \A i, j \in DOMAIN left : left[i].segment /\ left[j].segment /\ left[i].stamp < left[j].stamp =>
       \A s \in segments' : s.stamp = left[j].stamp => Before({left[i].stamp}, EventsOf(s.lines))
  BY <1>6
<1>10. \A i \in DOMAIN left : left[i].segment => Past(left[i].stamp)'
  BY <1>4
<1>11. ReaderInv(left, newest, had)'
  <2>1. CASE newest BY <2>1, <1>0, <1>3, <1>9, <1>10 DEF ReaderInv
  <2>2. CASE ~newest
    <3>1. \A i \in DOMAIN left :
              IF left[i].segment
                THEN \A s \in segments' : s.stamp = left[i].stamp => Before(EventsOf(had), EventsOf(s.lines))
                ELSE Before(EventsOf(had), EventsOf(active'))
      BY <1>7, <1>8, <2>2
    <3> QED BY <2>2, <1>0, <1>3, <1>9, <1>10, <3>1 DEF ReaderInv
  <2> QED BY <2>1, <2>2
<1> QED BY <1>0, <1>11 DEF ReaderInv, Past

LEMMA ReadersLeftAlone ==
  ASSUME TrailInv, FilesInv', KeepsReaders, written <= written',
         \A e \in EventsOf(active') : e \in EventsOf(active) \/ e = written + 1,
         segments' \subseteq segments \cup (IF active = <<>> THEN {} ELSE {[stamp |-> written, lines |-> active]})
  PROVE  ReadersInv'
<1>1. \A r \in Readers : ReaderInv(listing[r].left, listing[r].newest, seen[r])'
  BY ReaderLeftAlone
<1>2. listing' = listing /\ seen' = seen
  BY DEF KeepsReaders
<1> HIDE DEF Line, Name, ReaderInv
<1> QED BY <1>1, <1>2 DEF TrailInv, ReadersInv

\* Whatever the processes write, rotate and trim, and whoever dies on the way: what is
\* stored is the newest of what was acknowledged, in the order of writing, and no reader
\* gets an event twice or out of order.
THEOREM TrailInOrderHolds == TrailSpec => []TrailInOrder
<1> USE TrailAssumption
<1> HIDE DEF Line, Name
<1>1. TrailInit => TrailInv
  <2> SUFFICES ASSUME TrailInit PROVE TrailInv
    OBVIOUS
  <2>1. active = <<>> /\ segments = {} /\ written = 0 /\ acked = {} /\ active \in Seq(Line)
        /\ EventsOf(active) = {} /\ Ascending(active) /\ IsFiniteSet(segments)
    BY NoLines, FS_EmptySet DEF TrailInit
  <2>2. FilesInv
    BY <2>1 DEF FilesInv, ActiveInv, SegmentsInv, AckedInv, Stored
  <2>3. \A r \in Readers : listing[r] = [newest |-> FALSE, left |-> <<>>] /\ seen[r] = <<>>
    BY DEF TrailInit
  <2>4. /\ <<>> \in Seq(Name) /\ DOMAIN <<>> = {} /\ EventsOf(<<>>) = {}
        /\ Ascending(<<>>) /\ Descending(<<>>) /\ <<>> \in Seq(Line)
    BY NoLines
  <2>5. ReaderInv(<<>>, FALSE, <<>>)
    BY <2>4 DEF ReaderInv
  <2>6. listing \in [Readers -> [newest : BOOLEAN, left : Seq(Name)]] /\ seen \in [Readers -> Seq(Line)]
    BY <2>4 DEF TrailInit
  <2>7. ReadersInv
    <3>1. \A r \in Readers : listing[r].left = <<>> /\ listing[r].newest = FALSE /\ seen[r] = <<>>
      BY <2>3
    <3>2. \A r \in Readers : ReaderInv(listing[r].left, listing[r].newest, seen[r])
      BY <3>1, <2>5
    <3> QED BY <3>2, <2>6 DEF ReadersInv
  <2>8. event \in [Appenders -> Nat]
    BY DEF TrailInit
  <2> QED BY <2>2, <2>7, <2>8 DEF TrailInv
<1>2. TrailInv /\ [TrailNext]_trailVars => TrailInv'
  <2> SUFFICES ASSUME TrailInv, [TrailNext]_trailVars PROVE TrailInv'
    OBVIOUS
  <2>0. FilesInv /\ ReadersInv /\ written \in Nat /\ event \in [Appenders -> Nat]
    BY DEF TrailInv, FilesInv
  <2>1. ASSUME UNCHANGED <<active, segments, written, acked>> PROVE FilesInv'
    BY <2>0, <2>1 DEF FilesInv, ActiveInv, SegmentsInv, AckedInv, Past, Stored
  <2>2. ASSUME UNCHANGED <<active, segments, written, acked>>, KeepsReaders PROVE FilesInv' /\ ReadersInv'
    BY <2>1, <2>2, <2>0, ReadersLeftAlone
  <2>3. ASSUME NEW p \in Appenders, Emit(p) PROVE TrailInv'
    <3>1. event' \in [Appenders -> Nat]
      BY <2>0, <2>3 DEF Emit
    <3> QED BY <3>1, <2>2, <2>3 DEF Emit, TrailInv
  <2>4. ASSUME NEW p \in Appenders, TakeLock(p) PROVE TrailInv'
    BY <2>0, <2>2, <2>4 DEF TakeLock, TrailInv
  <2>5. ASSUME NEW p \in Appenders, Rotate(p) PROVE TrailInv'
    <3>1. /\ FilesInv' /\ written' = written /\ EventsOf(active') \subseteq EventsOf(active)
          /\ segments' \subseteq segments \cup (IF active = <<>> THEN {} ELSE {[stamp |-> written, lines |-> active]})
      BY <2>0, <2>5, RotationKeepsFiles
    <3>2. KeepsReaders /\ event' = event
      BY <2>5 DEF Rotate
    <3>3. written <= written' /\ \A e \in EventsOf(active') : e \in EventsOf(active) \/ e = written + 1
      BY <3>1, <2>0
    <3>4. ReadersInv'
      BY <3>1, <3>2, <3>3, ReadersLeftAlone
    <3> QED BY <3>1, <3>2, <3>4, <2>0 DEF TrailInv
  <2>6. ASSUME NEW p \in Appenders, Trim(p) PROVE TrailInv'
    <3>1. FilesInv' /\ written' = written /\ active' = active /\ segments' \subseteq segments
      BY <2>0, <2>6, TrimmingKeepsFiles
    <3>2. KeepsReaders /\ event' = event
      BY <2>6 DEF Trim
    <3>3. written <= written' /\ \A e \in EventsOf(active') : e \in EventsOf(active) \/ e = written + 1
      BY <3>1, <2>0
    <3>4. segments' \subseteq segments \cup (IF active = <<>> THEN {} ELSE {[stamp |-> written, lines |-> active]})
      BY <3>1
    <3>5. ReadersInv'
      BY <3>1, <3>2, <3>3, <3>4, ReadersLeftAlone
    <3> QED BY <3>1, <3>2, <3>5, <2>0 DEF TrailInv
  <2>7. ASSUME NEW p \in Appenders, WriteLine(p) PROVE TrailInv'
    <3>1. event[p] \in Nat
      BY <2>0
    <3>2. /\ FilesInv' /\ segments' = segments /\ written <= written'
          /\ \A e \in EventsOf(active') : e \in EventsOf(active) \/ e = written + 1
      BY <2>0, <2>7, <3>1, LineWrittenKeepsFiles
    <3>3. KeepsReaders /\ event' = [event EXCEPT ![p] = 0]
      BY <2>7 DEF WriteLine, AppendOver
    <3>4. segments' \subseteq segments \cup (IF active = <<>> THEN {} ELSE {[stamp |-> written, lines |-> active]})
      BY <3>2
    <3>5. ReadersInv'
      BY <3>2, <3>3, <3>4, ReadersLeftAlone
    <3>6. event' \in [Appenders -> Nat]
      BY <2>0, <3>3
    <3> QED BY <3>2, <3>5, <3>6 DEF TrailInv
  <2>8. ASSUME NEW p \in Appenders, AppendFails(p) PROVE TrailInv'
    <3>1. event' \in [Appenders -> Nat]
      BY <2>0, <2>8 DEF AppendFails, AppendOver
    <3> QED BY <3>1, <2>2, <2>8 DEF AppendFails, AppendOver, TrailInv
  <2>9. ASSUME NEW r \in Readers, ListFiles(r) PROVE TrailInv'
    <3>1. FilesInv' /\ UNCHANGED <<active, segments, written>> /\ event' = event
      BY <2>1, <2>9 DEF ListFiles
    <3>2. PICK order \in ByAge(segments), newest \in BOOLEAN :
            /\ listing' = [listing EXCEPT ![r] = [newest |-> newest, left |-> Listed(order, newest)]]
            /\ seen' = [seen EXCEPT ![r] = <<>>]
      BY <2>9 DEF ListFiles
    <3>3. PICK left : left = Listed(order, newest)
      OBVIOUS
    <3>4. left \in Seq(Name) /\ ReaderInv(left, newest, <<>>)
      BY <2>0, <3>3, FilesListed
    <3>5. <<>> \in Seq(Line)
      BY NoLines
    <3>6. /\ listing' \in [Readers -> [newest : BOOLEAN, left : Seq(Name)]] /\ seen' \in [Readers -> Seq(Line)]
      BY <2>0, <3>2, <3>3, <3>4, <3>5 DEF ReadersInv
    <3>7. ASSUME NEW q \in Readers PROVE ReaderInv(listing'[q].left, listing'[q].newest, seen'[q])
      <4>1. CASE q = r BY <4>1, <2>0, <3>2, <3>3, <3>4 DEF ReadersInv
      <4>2. CASE q # r BY <4>2, <2>0, <3>2 DEF ReadersInv
      <4> QED BY <4>1, <4>2
    <3>8. ReadersInv'
      BY <3>1, <3>6, <3>7 DEF ReadersInv, ReaderInv, Past
    <3> QED BY <3>1, <3>8, <2>0 DEF TrailInv
  <2>10. ASSUME NEW r \in Readers, ReadFile(r) PROVE TrailInv'
    <3>1. FilesInv' /\ UNCHANGED <<active, segments, written>> /\ event' = event
      BY <2>1, <2>10 DEF ReadFile
    <3>2. PICK left \in Seq(Name), newest \in BOOLEAN, had \in Seq(Line) :
            left = listing[r].left /\ newest = listing[r].newest /\ had = seen[r]
      BY <2>0 DEF ReadersInv
    <3>3. PICK got : got = IF newest THEN Reverse(LinesOf(Head(left))) ELSE LinesOf(Head(left))
      OBVIOUS
    <3>4. /\ left # <<>> /\ seen' = [seen EXCEPT ![r] = had \o got]
          /\ listing' = [listing EXCEPT ![r].left = Tail(@)]
      BY <2>10, <3>2, <3>3 DEF ReadFile
    <3>5. ReaderInv(left, newest, had)
      BY <2>0, <3>2 DEF ReadersInv
    <3>6. /\ had \o got \in Seq(Line) /\ Tail(left) \in Seq(Name)
          /\ ReaderInv(Tail(left), newest, had \o got)
      BY <2>0, <3>3, <3>4, <3>5, FileRead
    <3>7. /\ listing \in [Readers -> [newest : BOOLEAN, left : Seq(Name)]] /\ seen \in [Readers -> Seq(Line)]
      BY <2>0 DEF ReadersInv
    <3>8. /\ listing' \in [Readers -> [newest : BOOLEAN, left : Seq(Name)]]
          /\ listing'[r].left = Tail(left) /\ listing'[r].newest = newest
          /\ \A q \in Readers \ {r} : listing'[q] = listing[q]
      BY <3>2, <3>4, <3>6, <3>7
    <3>9. /\ seen' \in [Readers -> Seq(Line)] /\ seen'[r] = had \o got
          /\ \A q \in Readers \ {r} : seen'[q] = seen[q]
      BY <3>4, <3>6, <3>7
    <3>10. ASSUME NEW q \in Readers PROVE ReaderInv(listing'[q].left, listing'[q].newest, seen'[q])
      <4>1. CASE q = r BY <4>1, <3>6, <3>8, <3>9
      <4>2. CASE q # r BY <4>2, <2>0, <3>8, <3>9 DEF ReadersInv
      <4> QED BY <4>1, <4>2
    <3>11. ReadersInv'
      BY <3>1, <3>8, <3>9, <3>10 DEF ReadersInv, ReaderInv, Past
    <3> QED BY <3>1, <3>11, <2>0 DEF TrailInv
  <2>11. CASE UNCHANGED trailVars BY <2>11, <2>0, <2>2 DEF trailVars, KeepsReaders, TrailInv
  <2> QED BY <2>3, <2>4, <2>5, <2>6, <2>7, <2>8, <2>9, <2>10, <2>11 DEF TrailNext
<1> QED BY <1>1, <1>2, InvariantOrdersTheTrail, PTL DEF TrailSpec

-----------------------------------------------------------------------------
(* The code index. *)

\* The numbers of the rows are bounded, each file that is recorded has the one chunk of
\* the recorded text, and every vector is a chunk's.
RowsInv(db, says) ==
  /\ \E b \in Nat : DOMAIN db.chunks \subseteq 1 .. b
  /\ DOMAIN db.vectors \subseteq DOMAIN db.chunks
  /\ \A f \in Files :
       IF says[f] = Gone THEN \A id \in DOMAIN db.chunks : db.chunks[id].path # f
       ELSE \E x \in DOMAIN db.chunks : /\ db.chunks[x].text = says[f]
                                        /\ \A id \in DOMAIN db.chunks : db.chunks[id].path = f <=> id = x

Fits(db) == \A id \in DOMAIN db.vectors : db.vectors[id].text = db.chunks[id].text

Tables == [chunks |-> chunks, vectors |-> vectors]
IndexInv ==
  /\ listed \in [Indexers -> SUBSET Files]
  /\ RowsInv(Tables, hashed) /\ (~raced => Fits(Tables))

LEMMA LeastNumber ==
  ASSUME NEW T \in SUBSET Nat, T # {}
  PROVE  \E i \in T : \A j \in T : i <= j
<1>1. IsWellFoundedOn(OpToRel(<, Nat), Nat)
  BY NatLessThanWellFounded
<1>2. PICK i \in T : \A j \in T : ~(<<j, i>> \in OpToRel(<, Nat))
  BY <1>1, WFMin
<1>3. \A j \in T : ~(j < i)
  BY <1>2 DEF OpToRel
<1> QED BY <1>3

\* The next number of a row is no row's.
LEMMA NextIdIsNew ==
  ASSUME NEW rows, NEW b \in Nat, DOMAIN rows \subseteq 1 .. b
  PROVE  NextId(rows) \in 1 .. b + 1 /\ NextId(rows) \notin DOMAIN rows
<1> DEFINE S == DOMAIN rows \cup {0}
           T == {n \in Nat : \A y \in S : y <= n}
<1>1. S \subseteq 0 .. b /\ S # {}
  OBVIOUS
<1>2. b \in T
  BY <1>1
<1>3. PICK m \in T : \A n \in T : m <= n
  BY <1>2, LeastNumber
<1>4. m \in S
  <2> SUFFICES ASSUME m \notin S PROVE FALSE
    OBVIOUS
  <2>1. \A y \in S : y < m
    BY <1>1, <1>3
  <2>2. 0 \in S /\ m - 1 \in Nat
    BY <2>1
  <2>3. m - 1 \in T
    BY <1>1, <2>1, <2>2
  <2> QED BY <1>3, <2>3
<1> HIDE DEF S, T
<1>5. \A y \in S : m >= y
  BY <1>1, <1>3 DEF T
<1>6. Max(S) \in S /\ \A y \in S : Max(S) >= y
  BY <1>4, <1>5 DEF Max
<1>7. NextId(rows) = 1 + Max(S)
  BY DEF NextId, S
<1> QED BY <1>1, <1>6, <1>7 DEF S

\* A file that is removed takes its chunk along, and with it the vector.
LEMMA FilesRemoved ==
  ASSUME NEW db, NEW says, NEW gone, RowsInv(db, says),
         NEW left, \A f \in Files : left[f] = IF f \in gone THEN Gone ELSE says[f]
  PROVE  RowsInv(Without(db, gone), left) /\ (Fits(db) => Fits(Without(db, gone)))
<1> DEFINE kept == {id \in DOMAIN db.chunks : db.chunks[id].path \notin gone}
           new == Without(db, gone)
<1>1. /\ DOMAIN new.chunks = kept /\ \A id \in kept : new.chunks[id] = db.chunks[id]
      /\ DOMAIN new.vectors = kept \cap DOMAIN db.vectors
      /\ \A id \in DOMAIN new.vectors : new.vectors[id] = db.vectors[id]
  BY DEF Without, Only
<1> HIDE DEF new
<1>2. \E b \in Nat : DOMAIN new.chunks \subseteq 1 .. b
  BY <1>1 DEF RowsInv
<1>3. DOMAIN new.vectors \subseteq DOMAIN new.chunks
  BY <1>1 DEF RowsInv
<1>4. ASSUME NEW f \in Files, left[f] = Gone, NEW id \in DOMAIN new.chunks PROVE new.chunks[id].path # f
  BY <1>1, <1>4 DEF RowsInv
<1>5. ASSUME NEW f \in Files, left[f] # Gone
      PROVE  \E x \in DOMAIN new.chunks : /\ new.chunks[x].text = left[f]
                                          /\ \A id \in DOMAIN new.chunks : new.chunks[id].path = f <=> id = x
  <2>1. f \notin gone /\ left[f] = says[f]
    BY <1>5
  <2>2. PICK x \in DOMAIN db.chunks : /\ db.chunks[x].text = says[f]
                                      /\ \A id \in DOMAIN db.chunks : db.chunks[id].path = f <=> id = x
    BY <2>1, <1>5 DEF RowsInv
  <2>3. x \in kept
    BY <2>1, <2>2
  <2> QED BY <1>1, <2>1, <2>2, <2>3
<1>6. RowsInv(new, left)
  BY <1>2, <1>3, <1>4, <1>5 DEF RowsInv
<1>7. Fits(db) => Fits(new)
  BY <1>1 DEF Fits
<1> QED BY <1>6, <1>7 DEF new

\* A file that is chunked anew has the one chunk of its text, without a vector: the
\* number may have been a deleted chunk's, but that one's vector is deleted too.
LEMMA FileChunked ==
  ASSUME NEW db, NEW says, NEW f \in Files, disk[f] # Gone, RowsInv(db, says),
         NEW left, \A g \in Files : left[g] = IF g = f THEN disk[f] ELSE says[g]
  PROVE  RowsInv(Rechunked(db, f), left) /\ (Fits(db) => Fits(Rechunked(db, f)))
<1> DEFINE rest == Without(db, {f})
           n == NextId(rest.chunks)
           piece == [path |-> f, text |-> disk[f]]
           new == Rechunked(db, f)
           between == [g \in Files |-> IF g \in {f} THEN Gone ELSE says[g]]
<1>1. RowsInv(rest, between) /\ (Fits(db) => Fits(rest))
  <2>1. \A g \in Files : between[g] = IF g \in {f} THEN Gone ELSE says[g]
    OBVIOUS
  <2> HIDE DEF between
  <2> QED BY <2>1, FilesRemoved
<1>2. PICK b \in Nat : DOMAIN rest.chunks \subseteq 1 .. b
  BY <1>1 DEF RowsInv
<1> HIDE DEF rest
<1>3. n \in 1 .. b + 1 /\ n \notin DOMAIN rest.chunks
  BY <1>2, NextIdIsNew
<1>4. /\ DOMAIN new.chunks = DOMAIN rest.chunks \cup {n} /\ new.chunks[n] = piece
      /\ \A id \in DOMAIN rest.chunks : new.chunks[id] = rest.chunks[id]
      /\ new.vectors = rest.vectors
  <2>1. new = [chunks |-> Inserted([id \in {n} |-> piece], rest.chunks), vectors |-> rest.vectors]
    BY DEF Rechunked, rest
  <2> HIDE DEF new, n, piece
  <2>2. new.chunks = Inserted([id \in {n} |-> piece], rest.chunks) /\ new.vectors = rest.vectors
    BY <2>1
  <2> QED BY <1>3, <2>2 DEF Inserted
<1>5. piece.path = f /\ piece.text = disk[f]
  OBVIOUS
<1>6. /\ between[f] = Gone
      /\ \A g \in Files : g # f => between[g] = left[g]
      /\ left[f] = disk[f]
  OBVIOUS
<1> HIDE DEF new, n, piece, between
<1>7. \E c \in Nat : DOMAIN new.chunks \subseteq 1 .. c
  <2>1. b + 1 \in Nat /\ DOMAIN new.chunks \subseteq 1 .. b + 1
    BY <1>2, <1>3, <1>4
  <2> QED BY <2>1
<1>8. DOMAIN new.vectors \subseteq DOMAIN new.chunks /\ n \notin DOMAIN new.vectors
  BY <1>1, <1>3, <1>4 DEF RowsInv
<1>9. \A id \in DOMAIN rest.chunks : rest.chunks[id].path # f
  BY <1>1, <1>6 DEF RowsInv
<1>10. ASSUME NEW g \in Files, left[g] = Gone, NEW id \in DOMAIN new.chunks PROVE new.chunks[id].path # g
  <2>1. g # f /\ between[g] = Gone
    BY <1>6, <1>10
  <2> QED BY <1>1, <1>4, <1>5, <2>1, <1>10 DEF RowsInv
<1>11. ASSUME NEW g \in Files, left[g] # Gone
       PROVE  \E x \in DOMAIN new.chunks : /\ new.chunks[x].text = left[g]
                                           /\ \A id \in DOMAIN new.chunks : new.chunks[id].path = g <=> id = x
  <2>1. CASE g = f
    <3>1. n \in DOMAIN new.chunks /\ new.chunks[n].text = left[g]
      BY <1>4, <1>5, <1>6, <2>1
    <3>2. \A id \in DOMAIN new.chunks : new.chunks[id].path = g <=> id = n
      BY <1>4, <1>5, <1>9, <2>1
    <3> QED BY <3>1, <3>2
  <2>2. CASE g # f
    <3>1. PICK x \in DOMAIN rest.chunks : /\ rest.chunks[x].text = between[g]
                                          /\ \A id \in DOMAIN rest.chunks : rest.chunks[id].path = g <=> id = x
      BY <1>1, <1>6, <1>11, <2>2 DEF RowsInv
    <3>2. x \in DOMAIN new.chunks /\ new.chunks[x].text = left[g]
      BY <3>1, <1>4, <1>6, <2>2
    <3>3. \A id \in DOMAIN new.chunks : new.chunks[id].path = g <=> id = x
      BY <3>1, <1>3, <1>4, <1>5, <2>2
    <3> QED BY <3>2, <3>3
  <2> QED BY <2>1, <2>2
<1>12. RowsInv(new, left)
  BY <1>7, <1>8, <1>10, <1>11 DEF RowsInv
<1>13. Fits(db) => Fits(new)
  BY <1>1, <1>3, <1>4 DEF Fits, RowsInv
<1> QED BY <1>12, <1>13 DEF new

\* What becomes of the tables at one file of the walk, and the whole walk as a function.
Chunking(db, fresh, n) == IF Paths[n] \in fresh THEN Rechunked(db, Paths[n]) ELSE db
Walk(g, db, fresh, n) == g = [k \in 0 .. n |-> IF k = 0 THEN db ELSE Chunking(g[k - 1], fresh, k)]

\* There is such a function, by way of a shortest walk without one.
LEMMA WalksExist ==
  ASSUME NEW db, NEW fresh, NEW n \in Nat
  PROVE  \E g : Walk(g, db, fresh, n)
<1> DEFINE T == {m \in Nat : ~\E g : Walk(g, db, fresh, m)}
<1> SUFFICES ASSUME T # {} PROVE FALSE
  OBVIOUS
<1>1. PICK m \in T : \A j \in T : m <= j
  BY LeastNumber
<1>2. CASE m = 0
  <2> DEFINE g == [k \in 0 .. 0 |-> db]
  <2>1. g = [k \in 0 .. 0 |-> IF k = 0 THEN db ELSE Chunking(g[k - 1], fresh, k)]
    OBVIOUS
  <2>2. Walk(g, db, fresh, 0)
    BY <2>1 DEF Walk
  <2> QED BY <1>2, <2>2
<1>3. CASE m # 0
  <2>1. m \in Nat /\ m - 1 \in Nat /\ m - 1 \notin T
    BY <1>1, <1>3
  <2>2. PICK g : Walk(g, db, fresh, m - 1)
    BY <2>1
  <2> DEFINE h == [k \in 0 .. m |-> IF k = m THEN Chunking(g[m - 1], fresh, m) ELSE g[k]]
  <2>3. \A k \in 0 .. m - 1 : k \in 0 .. m /\ k # m /\ h[k] = g[k]
    BY <2>1
  <2>4. \A k \in 0 .. m - 1 : g[k] = IF k = 0 THEN db ELSE Chunking(g[k - 1], fresh, k)
    BY <2>2 DEF Walk
  <2>5. ASSUME NEW k \in 0 .. m PROVE h[k] = IF k = 0 THEN db ELSE Chunking(h[k - 1], fresh, k)
    <3>1. CASE k = m
      <4>1. h[k] = Chunking(g[m - 1], fresh, m) /\ m - 1 \in 0 .. m - 1 /\ k # 0
        BY <2>1, <3>1, <1>3
      <4>2. h[k - 1] = g[m - 1]
        BY <4>1, <3>1, <2>3
      <4> HIDE DEF h
      <4> QED BY <3>1, <4>1, <4>2
    <3>2. CASE k # m
      <4>1. k \in 0 .. m - 1 /\ (k # 0 => k - 1 \in 0 .. m - 1)
        BY <2>1, <3>2
      <4> HIDE DEF h
      <4> QED BY <4>1, <2>3, <2>4
    <3> QED BY <3>1, <3>2
  <2>6. h = [k \in 0 .. m |-> h[k]]
    OBVIOUS
  <2> HIDE DEF h
  <2>7. Walk(h, db, fresh, m)
    BY <2>5, <2>6 DEF Walk
  <2> QED BY <2>7, <1>1
<1> QED BY <1>2, <1>3

LEMMA ChunkedInTurn ==
  ASSUME NEW db, NEW says, RowsInv(db, says), NEW fresh, fresh \subseteq Files, \A f \in fresh : disk[f] # Gone,
         NEW left, \A f \in Files : left[f] = IF f \in fresh THEN disk[f] ELSE says[f]
  PROVE  RowsInv(AllRechunked(db, fresh), left) /\ (Fits(db) => Fits(AllRechunked(db, fresh)))
<1> DEFINE N == Len(Paths)
           after == CHOOSE g : Walk(g, db, fresh, N)
           seenBy(n) == {f \in fresh : \E k \in 1 .. n : Paths[k] = f}
           saysAt(n) == [f \in Files |-> IF f \in seenBy(n) THEN disk[f] ELSE says[f]]
           T == {n \in 0 .. N : ~(RowsInv(after[n], saysAt(n)) /\ (Fits(db) => Fits(after[n])))}
<1>1. /\ N \in Nat /\ DOMAIN Paths = 1 .. N /\ \A k \in 1 .. N : Paths[k] \in Files
      /\ \A f \in Files : \E k \in 1 .. N : Paths[k] = f
  BY IndexAssumption, LenProperties DEF Files, ToSet
<1>2. Walk(after, db, fresh, N)
  BY <1>1, WalksExist
<1>3. AllRechunked(db, fresh) = after[N]
  BY DEF AllRechunked, Walk, Chunking
<1> HIDE DEF after, N
<1>4. after[0] = db /\ \A n \in 1 .. N : after[n] = Chunking(after[n - 1], fresh, n)
  BY <1>1, <1>2 DEF Walk
<1>5. T = {}
  <2> SUFFICES ASSUME T # {} PROVE FALSE
    OBVIOUS
  <2>0. T \in SUBSET Nat
    BY <1>1
  <2>1. PICK n \in T : \A j \in T : n <= j
    BY <2>0, LeastNumber
  <2>2. CASE n = 0
    <3>1. \A f \in Files : saysAt(0)[f] = says[f]
      OBVIOUS
    <3>2. RowsInv(db, saysAt(0))
      <4> HIDE DEF saysAt
      <4> QED BY <3>1 DEF RowsInv
    <3> QED BY <3>2, <2>2, <1>4
  <2>3. CASE n # 0
    <3>1. n \in 1 .. N /\ n - 1 \in 0 .. N /\ n - 1 \notin T
      <4>1. n \in 0 .. N /\ \A j \in T : n <= j
        BY <2>1
      <4>2. n \in 1 .. N /\ n - 1 \in 0 .. N /\ ~(n <= n - 1)
        BY <4>1, <1>1, <2>3
      <4> HIDE DEF T
      <4> QED BY <4>1, <4>2
    <3>2. RowsInv(after[n - 1], saysAt(n - 1)) /\ (Fits(db) => Fits(after[n - 1]))
      BY <3>1
    <3>3. \A k \in 1 .. n : k = n \/ k \in 1 .. n - 1
      BY <3>1
    <3>4. /\ \A f \in Files : f \in seenBy(n) <=> (f \in seenBy(n - 1) \/ (f = Paths[n] /\ f \in fresh))
          /\ \A f \in Files : saysAt(n)[f] = IF f \in seenBy(n) THEN disk[f] ELSE says[f]
          /\ \A f \in Files : saysAt(n - 1)[f] = IF f \in seenBy(n - 1) THEN disk[f] ELSE says[f]
      BY <3>1, <3>3
    <3> HIDE DEF saysAt, seenBy
    <3>5. CASE Paths[n] \in fresh
      <4>1. after[n] = Rechunked(after[n - 1], Paths[n]) /\ Paths[n] \in Files /\ disk[Paths[n]] # Gone
        BY <3>1, <3>5, <1>1, <1>4 DEF Chunking
      <4>2. \A f \in Files : saysAt(n)[f] = IF f = Paths[n] THEN disk[f] ELSE saysAt(n - 1)[f]
        BY <3>4, <3>5
      <4>3. RowsInv(after[n], saysAt(n)) /\ (Fits(after[n - 1]) => Fits(after[n]))
        <5>1. PICK f \in Files : f = Paths[n]
          BY <4>1
        <5> PICK was : was = saysAt(n - 1)
          OBVIOUS
        <5> PICK is : is = saysAt(n)
          OBVIOUS
        <5>2. \A g \in Files : is[g] = IF g = f THEN disk[f] ELSE was[g]
          BY <4>2, <5>1
        <5> QED BY <5>1, <5>2, <4>1, <3>2, FileChunked
      <4> QED BY <4>3, <3>2, <2>1
    <3>6. CASE Paths[n] \notin fresh
      <4>1. after[n] = after[n - 1]
        BY <3>1, <3>6, <1>4 DEF Chunking
      <4>2. \A f \in Files : saysAt(n)[f] = saysAt(n - 1)[f]
        BY <3>4, <3>6
      <4>3. RowsInv(after[n], saysAt(n))
        BY <4>1, <4>2, <3>2 DEF RowsInv
      <4> QED BY <4>1, <4>3, <3>2, <2>1
    <3> QED BY <3>5, <3>6
  <2> QED BY <2>2, <2>3
<1>6. RowsInv(after[N], saysAt(N)) /\ (Fits(db) => Fits(after[N]))
  BY <1>1, <1>5
<1>7. \A f \in Files : saysAt(N)[f] = left[f]
  BY <1>1
<1> HIDE DEF saysAt
<1>8. RowsInv(after[N], left)
  BY <1>6, <1>7 DEF RowsInv
<1> QED BY <1>3, <1>6, <1>8

LEMMA InvariantTellsTheChunks == IndexInv => VectorsTellTheChunks
<1> SUFFICES ASSUME IndexInv PROVE VectorsTellTheChunks
  OBVIOUS
<1>1. Tables.chunks = chunks /\ Tables.vectors = vectors
  BY DEF Tables
<1> DEFINE ids(f) == {id \in DOMAIN chunks : chunks[id].path = f}
<1>2. ASSUME NEW f \in Files
      PROVE  /\ Cardinality(ids(f)) = (IF hashed[f] = Gone THEN 0 ELSE 1)
             /\ \A id \in ids(f) : chunks[id].text = hashed[f]
  <2>1. CASE hashed[f] = Gone
    <3>1. ids(f) = {}
      BY <2>1, <1>1 DEF IndexInv, RowsInv
    <3> HIDE DEF ids
    <3> QED BY <2>1, <3>1, FS_EmptySet
  <2>2. CASE hashed[f] # Gone
    <3>1. PICK x \in DOMAIN chunks : /\ chunks[x].text = hashed[f]
                                     /\ \A id \in DOMAIN chunks : chunks[id].path = f <=> id = x
      BY <2>2, <1>1 DEF IndexInv, RowsInv
    <3>2. ids(f) = {x}
      BY <3>1
    <3> HIDE DEF ids
    <3>3. Cardinality(ids(f)) = 1
      BY <3>2, FS_Singleton
    <3> QED BY <2>2, <3>1, <3>2, <3>3
  <2> QED BY <2>1, <2>2
<1> QED BY <1>1, <1>2 DEF IndexInv, RowsInv, Fits, VectorsTellTheChunks

\* Whatever calls chunk, embed, give up and die in whatever order: the recorded files and
\* their chunks agree, no vector is without its chunk, and each is of its chunk's text
\* unless a call stored it under a number that was another chunk's by then.
THEOREM VectorsTellTheChunksHolds == IndexSpec => []VectorsTellTheChunks
<1>1. IndexInit => IndexInv
  <2> SUFFICES ASSUME IndexInit PROVE IndexInv
    OBVIOUS
  <2>1. Tables.chunks = <<>> /\ Tables.vectors = <<>> /\ DOMAIN <<>> = {}
    BY DEF IndexInit, Tables
  <2>2. 0 \in Nat /\ DOMAIN Tables.chunks \subseteq 1 .. 0
    BY <2>1
  <2>3. RowsInv(Tables, hashed)
    BY <2>1, <2>2 DEF RowsInv, IndexInit
  <2>4. Fits(Tables)
    BY <2>1 DEF Fits
  <2>5. listed \in [Indexers -> SUBSET Files]
    BY DEF IndexInit
  <2> QED BY <2>3, <2>4, <2>5 DEF IndexInv
<1>2. IndexInv /\ [IndexNext]_indexVars => IndexInv'
  <2> SUFFICES ASSUME IndexInv, [IndexNext]_indexVars PROVE IndexInv'
    OBVIOUS
  <2>0. listed \in [Indexers -> SUBSET Files] /\ RowsInv(Tables, hashed) /\ (~raced => Fits(Tables))
    BY DEF IndexInv
  <2>1. ASSUME UNCHANGED <<tables, raced>>, listed' \in [Indexers -> SUBSET Files] PROVE IndexInv'
    <3>1. Tables' = Tables /\ hashed' = hashed /\ raced' = raced
      BY <2>1 DEF Tables, tables
    <3> QED BY <3>1, <2>0, <2>1 DEF IndexInv, RowsInv, Fits
  <2>2. ASSUME NEW i \in Indexers, NEW what, Tells(i, what) PROVE listed' \in [Indexers -> SUBSET Files]
    BY <2>0, <2>2 DEF Tells
  <2>3. ASSUME NEW f \in Files, Edit(f) PROVE IndexInv'
    BY <2>0, <2>1, <2>3 DEF Edit
  <2>4. ASSUME NEW i \in Indexers, IndexWalk(i) PROVE IndexInv'
    BY <2>0, <2>1, <2>4 DEF IndexWalk
  <2>5. ASSUME NEW i \in Indexers, ReadKnown(i) PROVE IndexInv'
    BY <2>0, <2>1, <2>5 DEF ReadKnown
  <2>6. ASSUME NEW i \in Indexers, WriteChunks(i) PROVE IndexInv'
    <3> DEFINE readable == {f \in listed[i] : disk[f] # Gone}
    <3>1. PICK force \in BOOLEAN :
            LET fresh == {f \in readable : force \/ known[i][f] # disk[f]}
                lost == {f \in Files \ readable : known[i][f] # Gone}
                db == Without(AllRechunked(Tables, fresh), lost)
            IN /\ chunks' = db.chunks /\ vectors' = db.vectors
               /\ hashed' = [f \in Files |-> IF f \in fresh THEN disk[f] ELSE IF f \in lost THEN Gone ELSE hashed[f]]
      BY <2>6 DEF WriteChunks, Tables
    <3> DEFINE fresh == {f \in readable : force \/ known[i][f] # disk[f]}
               lost == {f \in Files \ readable : known[i][f] # Gone}
               mid == AllRechunked(Tables, fresh)
               db == Without(mid, lost)
               saysMid == [f \in Files |-> IF f \in fresh THEN disk[f] ELSE hashed[f]]
    <3>2. fresh \subseteq Files /\ (\A f \in fresh : disk[f] # Gone) /\ fresh \cap lost = {}
      BY <2>0
    <3>3. /\ chunks' = db.chunks /\ vectors' = db.vectors
          /\ hashed' = [f \in Files |-> IF f \in fresh THEN disk[f] ELSE IF f \in lost THEN Gone ELSE hashed[f]]
      BY <3>1
    <3>4. /\ \A f \in Files : saysMid[f] = IF f \in fresh THEN disk[f] ELSE hashed[f]
          /\ \A f \in Files : hashed'[f] = IF f \in lost THEN Gone ELSE saysMid[f]
      BY <3>2, <3>3
    <3> HIDE DEF fresh, lost, saysMid
    <3>5. RowsInv(mid, saysMid) /\ (Fits(Tables) => Fits(mid))
      BY <3>2, <3>4, <2>0, ChunkedInTurn
    <3> HIDE DEF mid
    <3>6. RowsInv(db, hashed') /\ (Fits(mid) => Fits(db))
      BY <3>4, <3>5, FilesRemoved
    <3> HIDE DEF db
    <3>7. Tables'.chunks = db.chunks /\ Tables'.vectors = db.vectors
      BY <3>3 DEF Tables
    <3>8. raced' = raced /\ listed' = listed
      BY <2>6 DEF WriteChunks
    <3>9. RowsInv(Tables, hashed)'
      BY <3>6, <3>7 DEF RowsInv
    <3>10. Fits(db) => Fits(Tables)'
      BY <3>7 DEF Fits
    <3> QED BY <2>0, <3>5, <3>6, <3>8, <3>9, <3>10 DEF IndexInv
  <2>7. ASSUME NEW i \in Indexers, ReadPending(i) PROVE IndexInv'
    BY <2>0, <2>1, <2>2, <2>7 DEF ReadPending
  <2>8. ASSUME NEW i \in Indexers, EmbedFails(i) PROVE IndexInv'
    BY <2>1, <2>2, <2>8 DEF EmbedFails
  <2>9. ASSUME NEW i \in Indexers, StoreVectors(i) PROVE IndexInv'
    <3>0. listed' \in [Indexers -> SUBSET Files]
      BY <2>2, <2>9 DEF StoreVectors
    <3>1. CASE DOMAIN batch[i] \subseteq DOMAIN chunks
      <4> DEFINE rows == [id \in DOMAIN batch[i] |-> [text |-> batch[i][id], model |-> model[i]]]
      <4>1. /\ hashed' = hashed /\ chunks' = chunks /\ vectors' = Inserted(rows, vectors)
            /\ raced' = (raced \/ \E id \in DOMAIN batch[i] : chunks[id].text # batch[i][id])
        BY <2>9, <3>1 DEF StoreVectors
      <4>2. DOMAIN rows = DOMAIN batch[i] /\ \A id \in DOMAIN rows : rows[id].text = batch[i][id]
        OBVIOUS
      <4> HIDE DEF rows
      <4>3. /\ DOMAIN vectors' = DOMAIN rows \cup DOMAIN vectors
            /\ \A id \in DOMAIN vectors' : vectors'[id] = IF id \in DOMAIN rows THEN rows[id] ELSE vectors[id]
        BY <4>1 DEF Inserted
      <4>4. /\ Tables.chunks = chunks /\ Tables.vectors = vectors
            /\ Tables'.chunks = chunks /\ Tables'.vectors = vectors'
        BY <4>1 DEF Tables
      <4>5. RowsInv(Tables, hashed)'
        BY <2>0, <3>1, <4>1, <4>2, <4>3, <4>4 DEF RowsInv
      <4>6. ASSUME ~raced' PROVE Fits(Tables)'
        <5>1. ~raced /\ \A id \in DOMAIN batch[i] : chunks[id].text = batch[i][id]
          BY <4>1, <4>6
        <5> QED BY <5>1, <2>0, <4>2, <4>3, <4>4 DEF Fits
      <4> QED BY <3>0, <4>5, <4>6 DEF IndexInv
    <3>2. CASE ~(DOMAIN batch[i] \subseteq DOMAIN chunks)
      BY <3>0, <2>1, <2>9, <3>2 DEF StoreVectors, tables
    <3> QED BY <3>1, <3>2
  <2>10. ASSUME NEW i \in Indexers, IndexBreaksOff(i) PROVE IndexInv'
    BY <2>1, <2>2, <2>10 DEF IndexBreaksOff
  <2>11. CASE UNCHANGED indexVars BY <2>11, <2>0, <2>1 DEF indexVars
  <2> QED BY <2>3, <2>4, <2>5, <2>6, <2>7, <2>8, <2>9, <2>10, <2>11 DEF IndexNext
<1> QED BY <1>1, <1>2, InvariantTellsTheChunks, PTL DEF IndexSpec

-----------------------------------------------------------------------------
(* The stores together. *)

\* Each store goes on as if it were alone: a step of the stores is one of its own or
\* leaves it as it is.
THEOREM StoresGoTheirOwnWays == StoresSpec => HubSpec /\ ConfigSpec /\ TrailSpec /\ ContextSpec /\ IndexSpec
<1>1. StoresInit => HubInit /\ ConfigInit /\ TrailInit /\ ContextInit /\ IndexInit
  BY DEF StoresInit
<1>2. [StoresNext]_storesVars =>
        /\ [HubNext]_hubVars /\ [ConfigNext]_configVars /\ [TrailNext]_trailVars
        /\ [ContextNext]_ctxVars /\ [IndexNext]_indexVars
  BY DEF StoresNext, storesVars
<1> QED BY <1>1, <1>2, PTL DEF StoresSpec, HubSpec, ConfigSpec, TrailSpec, ContextSpec, IndexSpec

\* What is derived from other tables agrees with them: the hub's counts with its turns,
\* the vectors of the code index with its chunks.
THEOREM DerivedAgreesHolds == StoresSpec => []DerivedAgrees
<1>1. MetaTellsTheTurns /\ VectorsTellTheChunks => DerivedAgrees
  BY DEF DerivedAgrees
<1> QED BY <1>1, StoresGoTheirOwnWays, MetaTellsTheTurnsHolds, VectorsTellTheChunksHolds, PTL
=============================================================================
