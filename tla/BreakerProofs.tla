--------------------------- MODULE BreakerProofs ---------------------------
(***************************************************************************)
(* What Breaker promises for every window, threshold, cooldown and set of  *)
(* calls, by itself and as OracleRun embeds it.  The invariant that        *)
(* carries the third theorem is Freshness: the window never holds more     *)
(* outcomes than were recorded since the last recovery, once fewer than    *)
(* MinSamples were.                                                        *)
(***************************************************************************)
EXTENDS OracleRun, FiniteSetTheorems, TLAPS

\* A trip is reported in the step that makes it, and closing is reported or
\* leaves the breaker closed.
Freshness == fresh = MinSamples \/ Len(outcomes) <= fresh

\* A live hold was counted: hold_step is the exponent of its escalation.
HoldCounted == held > 0 => step > 0

BreakerInv == TypeOK /\ NoSilentTrip /\ Freshness /\ HoldCounted

\* Push keeps the window a sequence of outcomes, within its bound and at most
\* one longer (health.record, the while loop and the append).
LEMMA PushBounded ==
  ASSUME NEW seq \in Seq(BOOLEAN), Len(seq) <= Window, NEW error \in BOOLEAN
  PROVE  /\ Push(seq, error) \in Seq(BOOLEAN)
         /\ Len(Push(seq, error)) <= Window
         /\ Len(Push(seq, error)) <= Len(seq) + 1
<1> DEFINE drop == AtLeast(Len(seq) - Window + 1, 0)
<1> DEFINE rest == SubSeq(seq, drop + 1, Len(seq))
<1>1. Window \in Nat \ {0} /\ Len(seq) \in Nat
  BY WindowAssumption
<1>2. drop \in 0..1 /\ drop <= Len(seq) /\ Len(seq) - drop <= Window - 1
  BY <1>1 DEF AtLeast
<1>3. rest \in Seq(BOOLEAN) /\ Len(rest) = Len(seq) - drop
  <2> HIDE DEF drop
  <2> QED BY <1>1, <1>2
<1>4. Push(seq, error) = Append(rest, error)
  BY DEF Push
<1> HIDE DEF drop, rest
<1>5. Append(rest, error) \in Seq(BOOLEAN) /\ Len(Append(rest, error)) = Len(rest) + 1
  BY <1>3
<1>6. QED BY <1>1, <1>2, <1>3, <1>4, <1>5

\* The breaker starts closed and empty (health._State).
LEMMA BreakerInit == Init => BreakerInv
<1> SUFFICES ASSUME Init PROVE BreakerInv
  OBVIOUS
<1> USE WindowAssumption, ClockAssumption DEF Init
<1>1. outcomes \in Seq(BOOLEAN) /\ Len(outcomes) = 0
  OBVIOUS
<1>2. Len(outcomes) <= Window
  BY <1>1
<1>3. fresh \in 0..MinSamples /\ streak \in 0..(Window + MinSamples) /\ elapsed \in 0..Cooldown
  OBVIOUS
<1>4. TypeOK
  BY <1>1, <1>2, <1>3 DEF TypeOK
<1>5. QED BY <1>4 DEF BreakerInv, NoSilentTrip, Freshness, HoldCounted

\* record of a success closes the breaker and seeds the window.
LEMMA SuccessKeepsInv ==
  ASSUME BreakerInv, NEW c \in Calls, RecordSuccess(c)
  PROVE  BreakerInv'
<1> USE WindowAssumption, ClockAssumption
<1>1. /\ Push(outcomes, FALSE) \in Seq(BOOLEAN)
      /\ Len(Push(outcomes, FALSE)) <= Window
      /\ Len(Push(outcomes, FALSE)) <= Len(outcomes) + 1
  BY PushBounded DEF BreakerInv, TypeOK
<1>2. <<FALSE>> \in Seq(BOOLEAN) /\ Len(<<FALSE>>) = 1
  OBVIOUS
<1>3. /\ outcomes' \in Seq(BOOLEAN) /\ Len(outcomes') <= Window
      /\ fresh' \in 0..MinSamples
      /\ Freshness'
  <2>1. CASE opened
    <3>1. outcomes' = <<FALSE>> /\ fresh' = 1
      BY <2>1 DEF RecordSuccess
    <3>2. Len(outcomes') = 1
      BY <1>2, <3>1
    <3>3. outcomes' \in Seq(BOOLEAN)
      BY <1>2, <3>1
    <3>4. QED BY <3>1, <3>2, <3>3 DEF Freshness
  <2>2. CASE ~opened
    <3>1. outcomes' = Push(outcomes, FALSE) /\ fresh' = AtMost(fresh + 1, MinSamples)
      BY <2>2 DEF RecordSuccess
    <3> DEFINE pushed == Push(outcomes, FALSE)
    <3> HIDE DEF pushed
    <3>2. /\ outcomes' = pushed /\ pushed \in Seq(BOOLEAN)
          /\ Len(pushed) <= Window /\ Len(pushed) <= Len(outcomes) + 1
      BY <1>1, <3>1 DEF pushed
    <3>3. Len(pushed) \in Nat /\ Len(outcomes) \in Nat
      BY <3>2 DEF BreakerInv, TypeOK
    <3>4. fresh' \in 0..MinSamples
      BY <3>1 DEF BreakerInv, TypeOK, AtMost
    <3>5. fresh' = MinSamples \/ Len(pushed) <= fresh'
      BY <3>1, <3>2, <3>3 DEF BreakerInv, TypeOK, Freshness, AtMost
    <3>6. QED BY <3>2, <3>4, <3>5 DEF Freshness
  <2>3. QED BY <2>1, <2>2
<1>7. call' \in [Calls -> {"idle", "flying", "probing"}]
  BY DEF RecordSuccess, Land, BreakerInv, TypeOK
<1>8. TypeOK'
  <2>1. opened' = FALSE /\ elapsed' = 0 /\ held' = 0 /\ step' = 0 /\ streak' = 0
    BY DEF RecordSuccess
  <2>2. report' \in {"closed", report} /\ enabled' = enabled /\ holdBase' = holdBase
    BY DEF RecordSuccess, settings
  <2>3. streak' \in 0..(Window + MinSamples) /\ elapsed' \in 0..Cooldown
    BY <2>1
  <2>4. report' \in {"none", "opened", "reopened", "closed"}
    BY <2>2 DEF BreakerInv, TypeOK
  <2>5. QED BY <1>3, <1>7, <2>1, <2>2, <2>3, <2>4 DEF BreakerInv, TypeOK
<1>9. NoSilentTrip'
  BY DEF RecordSuccess, NoSilentTrip
<1>10. HoldCounted'
  BY DEF RecordSuccess, HoldCounted
<1>11. QED BY <1>3, <1>8, <1>9, <1>10 DEF BreakerInv

\* record of a health error trips only while the switch is on, and says so.
LEMMA ErrorKeepsInv ==
  ASSUME BreakerInv, NEW c \in Calls, RecordError(c)
  PROVE  BreakerInv' /\ (~opened /\ opened' => fresh' >= MinSamples)
<1> USE WindowAssumption, ClockAssumption
<1> DEFINE window == Push(outcomes, TRUE)
<1> DEFINE trips == enabled /\ Len(window) >= MinSamples /\ RateReached(window)
<1>1. window \in Seq(BOOLEAN) /\ Len(window) <= Window /\ Len(window) <= Len(outcomes) + 1
  BY PushBounded DEF BreakerInv, TypeOK
<1>2. /\ Land(c)
      /\ outcomes' = window
      /\ opened' = (opened \/ trips)
      /\ elapsed' = (IF trips THEN 0 ELSE elapsed)
      /\ report' = (IF trips /\ ~opened THEN "opened"
                    ELSE IF trips /\ Probing THEN "reopened" ELSE report)
      /\ fresh' = AtMost(fresh + 1, MinSamples)
      /\ streak' = IF enabled THEN AtMost(streak + 1, Window + MinSamples) ELSE 0
      /\ UNCHANGED <<held, step, enabled, holdBase>>
  BY DEF RecordError
<1>3. opened' = TRUE /\ ~opened => Len(window) >= MinSamples
  BY <1>2
<1> HIDE DEF trips, window
<1>4. Len(window) \in Nat /\ Len(outcomes) \in Nat
  BY <1>1 DEF BreakerInv, TypeOK
<1>5. Freshness'
  BY <1>1, <1>2, <1>4 DEF BreakerInv, TypeOK, Freshness, AtMost
<1>6. fresh' \in 0..MinSamples /\ streak' \in 0..(Window + MinSamples)
  BY <1>2 DEF BreakerInv, TypeOK, AtMost
<1>7. call' \in [Calls -> {"idle", "flying", "probing"}]
  BY <1>2 DEF Land, BreakerInv, TypeOK
<1>8. opened' \in BOOLEAN /\ elapsed' \in 0..Cooldown /\ report' \in {"none", "opened", "reopened", "closed"}
  BY <1>2 DEF BreakerInv, TypeOK, trips
<1>9. TypeOK'
  BY <1>1, <1>2, <1>6, <1>7, <1>8 DEF BreakerInv, TypeOK
<1>10. NoSilentTrip'
  BY <1>2 DEF BreakerInv, NoSilentTrip
<1>11. ~opened /\ opened' => fresh' >= MinSamples
  BY <1>1, <1>2, <1>3, <1>4 DEF BreakerInv, TypeOK, Freshness, AtMost
<1>12. HoldCounted'
  BY <1>2 DEF BreakerInv, HoldCounted
<1>13. QED BY <1>5, <1>9, <1>10, <1>11, <1>12 DEF BreakerInv

\* A power of two is a natural number: it counts the subsets of an interval.
LEMMA PowerNat ==
  ASSUME NEW n \in Nat
  PROVE  2^n \in Nat
<1>1. IsFiniteSet(1..n) /\ Cardinality(1..n) = n
  BY FS_Interval
<1>2. IsFiniteSet(SUBSET (1..n)) /\ Cardinality(SUBSET (1..n)) = 2^n
  BY <1>1, FS_SUBSET
<1>3. QED BY <1>2, FS_CardinalityType

\* The length of a hold is a natural number at every escalation step.
LEMMA HoldForNat ==
  ASSUME NEW n \in Nat, n > 0, holdBase \in Nat, HoldMax \in Nat
  PROVE  HoldFor(n) \in Nat
<1> DEFINE power == 2^(n - 1)
<1>1. power \in Nat
  <2>1. n - 1 \in Nat
    OBVIOUS
  <2>2. QED BY <2>1, PowerNat
<1>2. HoldFor(n) = AtMost(holdBase * power, HoldMax)
  BY DEF HoldFor
<1> HIDE DEF power
<1>3. QED BY <1>1, <1>2 DEF AtMost

\* A quota hold touches neither the window nor the trip, and never shortens.
LEMMA RateLimitKeepsInv ==
  ASSUME BreakerInv, NEW c \in Calls, RecordRateLimit(c)
  PROVE  BreakerInv' /\ opened' = opened /\ held' >= held
<1>1. step' \in Nat /\ step' > 0
  BY DEF RecordRateLimit, BreakerInv, TypeOK, HoldCounted
<1>2. holdBase \in Nat /\ HoldMax \in Nat
  BY HoldAssumption DEF BreakerInv, TypeOK
<1>3. HoldFor(step') \in Nat
  BY <1>1, <1>2, HoldForNat
<1> DEFINE length == HoldFor(step')
<1>5. PICK j \in -Jitter..Jitter : held' = AtLeast(held, length + j)
  BY DEF RecordRateLimit
<1>6. length \in Nat
  BY <1>3
<1> HIDE DEF length
<1>7. held' \in Nat /\ held' >= held
  BY <1>5, <1>6, ClockAssumption DEF AtLeast, BreakerInv, TypeOK
<1>8. call' \in [Calls -> {"idle", "flying", "probing"}]
  BY DEF RecordRateLimit, Land, BreakerInv, TypeOK
<1>9. UNCHANGED <<outcomes, opened, elapsed, enabled, holdBase, report, fresh, streak>>
  BY DEF RecordRateLimit
<1>10. TypeOK'
  BY <1>1, <1>7, <1>8, <1>9 DEF BreakerInv, TypeOK
<1>11. QED BY <1>1, <1>7, <1>9, <1>10 DEF BreakerInv, NoSilentTrip, Freshness, HoldCounted

\* Admission, an unrecorded end, time and the environment leave window and trip
\* alone.
LEMMA OthersKeepInv ==
  ASSUME BreakerInv,
         (\E c \in Calls : Admit(c) \/ Unrecorded(c)) \/ Tick \/ Configure \/ UNCHANGED vars
  PROVE  BreakerInv' /\ opened' = opened
<1> USE ClockAssumption
    DEF BreakerInv, TypeOK, NoSilentTrip, Freshness, HoldCounted, gateVars, settings, history
<1>1. ASSUME NEW c \in Calls, Admit(c) PROVE BreakerInv' /\ opened' = opened
  BY <1>1 DEF Admit
<1>2. ASSUME NEW c \in Calls, Unrecorded(c) PROVE BreakerInv' /\ opened' = opened
  BY <1>2 DEF Unrecorded, Land
<1>3. CASE Tick
  BY <1>3 DEF Tick, AtMost, AtLeast
<1>4. CASE Configure
  BY <1>4 DEF Configure
<1>5. CASE UNCHANGED vars
  BY <1>5 DEF vars
<1>6. QED BY <1>1, <1>2, <1>3, <1>4, <1>5

\* One step of any kind.
LEMMA BreakerStep ==
  ASSUME BreakerInv, [Next]_vars
  PROVE  BreakerInv' /\ (~opened /\ opened' => fresh' >= MinSamples)
<1>1. CASE \E c \in Calls : RecordSuccess(c)
  BY <1>1, SuccessKeepsInv DEF RecordSuccess
<1>2. CASE \E c \in Calls : RecordError(c)
  BY <1>2, ErrorKeepsInv
<1>3. CASE \E c \in Calls : RecordRateLimit(c)
  BY <1>3, RateLimitKeepsInv
<1>4. CASE (\E c \in Calls : Admit(c) \/ Unrecorded(c)) \/ Tick \/ Configure \/ UNCHANGED vars
  BY <1>4, OthersKeepInv
<1>5. QED BY <1>1, <1>2, <1>3, <1>4 DEF Next, Outcome

LEMMA BreakerInvHolds == Spec => []BreakerInv
<1>1. BreakerInv /\ [Next]_vars => BreakerInv'
  BY BreakerStep
<1>2. QED BY BreakerInit, <1>1, PTL DEF Spec

\* Type correctness of health._State and of the calls under it.
THEOREM BreakerTypeCorrect == Spec => []TypeOK
<1>1. BreakerInv => TypeOK
  BY DEF BreakerInv
<1>2. QED BY BreakerInvHolds, <1>1, PTL

\* Whatever is done with ASK_FABLE_CIRCUIT_BREAKER, an open breaker has told
\* _report_breaker so.
THEOREM NoSilentTripHolds == Spec => []NoSilentTrip
<1>1. BreakerInv => NoSilentTrip
  BY DEF BreakerInv
<1>2. QED BY BreakerInvHolds, <1>1, PTL

\* record never trips a breaker on outcomes from before its last recovery.
THEOREM TripRestsOnFreshSamplesHolds == Spec => TripRestsOnFreshSamples
<1>1. BreakerInv /\ [Next]_vars => [~opened /\ opened' => fresh' >= MinSamples]_vars
  BY BreakerStep
<1>2. QED BY BreakerInvHolds, <1>1, PTL DEF Spec, TripRestsOnFreshSamples

-----------------------------------------------------------------------------
(* A chronically failing backend. *)

\* The errors in a row are the end of the window, as far as it reaches.
FailingTail ==
  /\ AtMost(streak, Window) <= Len(outcomes)
  /\ \A i \in 1..Len(outcomes) : i > Len(outcomes) - streak => outcomes[i]

ChronicInv == BreakerInv /\ FailingTail /\ ChronicFailureTrips

\* Push keeps the order: the outcome is last, those before it move down by what
\* was dropped.
LEMMA PushShape ==
  ASSUME NEW seq \in Seq(BOOLEAN), Len(seq) <= Window, NEW error \in BOOLEAN
  PROVE  /\ Len(Push(seq, error)) = AtMost(Len(seq) + 1, Window)
         /\ Push(seq, error)[Len(Push(seq, error))] = error
         /\ \A i \in 1..(Len(Push(seq, error)) - 1) :
              /\ i + (Len(seq) + 1 - Len(Push(seq, error))) \in 1..Len(seq)
              /\ Push(seq, error)[i] = seq[i + (Len(seq) + 1 - Len(Push(seq, error)))]
<1> DEFINE drop == AtLeast(Len(seq) - Window + 1, 0)
           rest == SubSeq(seq, drop + 1, Len(seq))
<1>1. Window \in Nat \ {0} /\ Len(seq) \in Nat
  BY WindowAssumption
<1>2. drop \in 0..1 /\ drop <= Len(seq)
  BY <1>1 DEF AtLeast
<1>3. Len(seq) - drop + 1 = AtMost(Len(seq) + 1, Window)
  <2>1. \A n \in 0..Window : n - AtLeast(n - Window + 1, 0) + 1 = AtMost(n + 1, Window)
    BY <1>1 DEF AtLeast, AtMost
  <2>2. Len(seq) \in 0..Window
    BY <1>1
  <2>3. QED BY <2>1, <2>2
<1>4. /\ rest \in Seq(BOOLEAN) /\ Len(rest) = Len(seq) - drop
      /\ \A i \in 1..Len(rest) : i + drop \in 1..Len(seq) /\ rest[i] = seq[i + drop]
  <2> HIDE DEF drop
  <2> QED BY <1>1, <1>2
<1>5. Push(seq, error) = Append(rest, error)
  BY DEF Push
<1> HIDE DEF drop, rest
<1>6. /\ Len(Append(rest, error)) = Len(rest) + 1
      /\ Append(rest, error)[Len(rest) + 1] = error
      /\ \A i \in 1..Len(rest) : Append(rest, error)[i] = rest[i]
  BY <1>4
<1>7. /\ Len(Push(seq, error)) = Len(rest) + 1
      /\ Push(seq, error)[Len(rest) + 1] = error
      /\ \A i \in 1..Len(rest) : Push(seq, error)[i] = rest[i]
  BY <1>5, <1>6
<1>8. Len(seq) + 1 - Len(Push(seq, error)) = drop /\ Len(Push(seq, error)) - 1 = Len(rest)
  BY <1>1, <1>2, <1>4, <1>7
<1>9. QED BY <1>2, <1>3, <1>4, <1>7, <1>8

\* A window of nothing but errors is at any threshold.
LEMMA AllErrorsReach ==
  ASSUME NEW seq \in Seq(BOOLEAN), \A i \in 1..Len(seq) : seq[i]
  PROVE  RateReached(seq)
<1>1. Len(seq) \in Nat /\ DOMAIN seq = 1..Len(seq)
  OBVIOUS
<1>2. {i \in DOMAIN seq : seq[i]} = 1..Len(seq)
  BY <1>1
<1>3. Cardinality(1..Len(seq)) = Len(seq)
  BY <1>1, FS_Interval
<1>4. Errors(seq) = Len(seq)
  BY <1>2, <1>3 DEF Errors
<1>5. \A n, a, b \in Nat : a <= b => n * b >= a * n
  OBVIOUS
<1>6. QED BY <1>1, <1>4, <1>5, ThresholdAssumption DEF RateReached

\* An error joins the errors at the end of the window; when they fill it, it trips.
LEMMA ErrorKeepsChronic ==
  ASSUME MinSamples <= Window, ChronicInv, NEW c \in Calls, RecordError(c)
  PROVE  FailingTail' /\ ChronicFailureTrips'
<1> USE WindowAssumption
<1> DEFINE window == Push(outcomes, TRUE)
<1>1. outcomes \in Seq(BOOLEAN) /\ Len(outcomes) <= Window /\ streak \in 0..(Window + MinSamples)
  BY DEF ChronicInv, BreakerInv, TypeOK
<1>2. window \in Seq(BOOLEAN) /\ Len(window) <= Window
  BY <1>1, PushBounded
<1>3. /\ Len(window) = AtMost(Len(outcomes) + 1, Window)
      /\ window[Len(window)] = TRUE
      /\ \A i \in 1..(Len(window) - 1) :
           /\ i + (Len(outcomes) + 1 - Len(window)) \in 1..Len(outcomes)
           /\ window[i] = outcomes[i + (Len(outcomes) + 1 - Len(window))]
  BY <1>1, PushShape
<1>4. /\ outcomes' = window
      /\ streak' = (IF enabled THEN AtMost(streak + 1, Window + MinSamples) ELSE 0)
      /\ opened' = (opened \/ (enabled /\ Len(window) >= MinSamples /\ RateReached(window)))
  BY DEF RecordError
<1> HIDE DEF window
<1>5. Len(window) \in Nat /\ Len(outcomes) \in Nat /\ MinSamples \in Nat /\ Window \in Nat
  BY <1>1, <1>2
<1>6. streak' \in Nat /\ streak' <= streak + 1
  BY <1>1, <1>4, <1>5 DEF AtMost
<1>7. AtMost(streak', Window) <= Len(window)
  BY <1>1, <1>3, <1>5, <1>6 DEF ChronicInv, FailingTail, AtMost
<1>8. ASSUME NEW i \in 1..Len(window), i > Len(window) - streak'
      PROVE  window[i]
  <2>1. CASE i = Len(window)
    BY <1>3, <2>1
  <2>2. CASE i # Len(window)
    <3> DEFINE j == i + (Len(outcomes) + 1 - Len(window))
    <3>1. i \in 1..(Len(window) - 1)
      BY <1>5, <2>2
    <3>2. j \in 1..Len(outcomes) /\ window[i] = outcomes[j]
      BY <1>3, <3>1
    <3>3. j > Len(outcomes) - streak
      BY <1>1, <1>5, <1>6, <1>8
    <3> HIDE DEF j
    <3>4. QED BY <3>2, <3>3 DEF ChronicInv, FailingTail
  <2>3. QED BY <2>1, <2>2
<1>9. FailingTail'
  BY <1>4, <1>7, <1>8 DEF FailingTail
<1>10. ASSUME streak' >= AtLeast(Window, MinSamples)
       PROVE  opened'
  <2>1. streak' >= Window /\ enabled
    BY <1>4, <1>5, <1>10 DEF AtLeast
  <2>2. Len(window) = Window
    BY <1>2, <1>5, <1>6, <1>7, <2>1 DEF AtMost
  <2>3. \A i \in 1..Len(window) : window[i]
    <3> TAKE i \in 1..Len(window)
    <3>1. i \in Nat /\ i >= 1 /\ streak' >= Len(window)
      BY <1>5, <2>1, <2>2
    <3>2. i > Len(window) - streak'
      BY <1>5, <1>6, <3>1
    <3>3. QED BY <1>8, <3>2
  <2>4. RateReached(window)
    BY <1>2, <2>3, AllErrorsReach
  <2>5. QED BY <1>4, <1>5, <2>1, <2>2, <2>4
<1>11. QED BY <1>9, <1>10 DEF ChronicFailureTrips

\* "A chronically-failing backend is auto-skipped" (record): whatever the switch did
\* before, a window full of errors in a row has tripped the breaker, at any threshold.
\* A window below _MIN_SAMPLES never trips, whence the assumption.
THEOREM ChronicFailureTripsHolds ==
  ASSUME MinSamples <= Window PROVE Spec => []ChronicFailureTrips
<1>1. Init => ChronicInv
  <2> SUFFICES ASSUME Init PROVE ChronicInv
    OBVIOUS
  <2>1. outcomes = <<>> /\ streak = 0 /\ Len(outcomes) = 0
    BY DEF Init
  <2>2. FailingTail
    BY <2>1, WindowAssumption DEF FailingTail, AtMost
  <2>3. ChronicFailureTrips
    BY <2>1, WindowAssumption DEF ChronicFailureTrips, AtLeast
  <2>4. QED BY <2>2, <2>3, BreakerInit DEF ChronicInv
<1>2. ChronicInv /\ [Next]_vars => ChronicInv'
  <2> SUFFICES ASSUME ChronicInv, [Next]_vars PROVE FailingTail' /\ ChronicFailureTrips'
    BY BreakerStep DEF ChronicInv
  <2>1. ASSUME NEW c \in Calls, RecordSuccess(c) PROVE FailingTail' /\ ChronicFailureTrips'
    <3>1. streak' = 0 /\ outcomes' \in Seq(BOOLEAN)
      BY <2>1, BreakerStep DEF RecordSuccess, ChronicInv, BreakerInv, TypeOK
    <3>2. QED BY <3>1, WindowAssumption DEF FailingTail, ChronicFailureTrips, AtMost, AtLeast
  <2>2. ASSUME NEW c \in Calls, RecordError(c) PROVE FailingTail' /\ ChronicFailureTrips'
    BY <2>2, ErrorKeepsChronic
  <2>3. ASSUME UNCHANGED <<outcomes, opened, streak>> PROVE FailingTail' /\ ChronicFailureTrips'
    BY <2>3 DEF ChronicInv, FailingTail, ChronicFailureTrips
  <2>4. CASE \E c \in Calls : RecordRateLimit(c) \/ Admit(c) \/ Unrecorded(c)
    BY <2>3, <2>4 DEF RecordRateLimit, Admit, Unrecorded, gateVars, history
  <2>5. CASE Tick \/ Configure \/ UNCHANGED vars
    BY <2>3, <2>5 DEF Tick, Configure, gateVars, history, vars
  <2>6. QED BY <2>1, <2>2, <2>4, <2>5 DEF Next, Outcome
<1>3. ChronicInv => ChronicFailureTrips
  BY DEF ChronicInv
<1>4. QED BY <1>1, <1>2, <1>3, PTL DEF Spec

-----------------------------------------------------------------------------
(* The breaker under oracles.run. *)

\* Before the backend, a call leaves the breaker alone or passes its gate.
LEMMA BeginMaps ==
  ASSUME NEW c \in Calls, Begin(c)
  PROVE  [Next]_vars
<1>1. CASE CallBackend(c)
  BY <1>1 DEF CallBackend, Next
<1>2. CASE Disabled(c) \/ Hit(c) \/ Shed(c)
  BY <1>2 DEF Disabled, Hit, Shed, EndsAtOnce
<1>3. QED BY <1>1, <1>2 DEF Begin

\* After it, it records one outcome, or none.
LEMMA ReturnMaps ==
  ASSUME NEW c \in Calls, Return(c) \/ CancelInFlight(c)
  PROVE  [Next]_vars
<1>1. Outcome(c)
  BY DEF Return, Answer, Refuse, Fail, Raise, CancelInFlight, Outcome
<1>2. QED BY <1>1 DEF Next

\* So every step does to the breaker what Breaker allows, or nothing.
LEMMA RunStepMaps == [RunNext]_allVars => [Next]_vars
<1> SUFFICES ASSUME [RunNext]_allVars PROVE [Next]_vars
  OBVIOUS
<1>1. CASE \E c \in Calls : Begin(c)
  BY <1>1, BeginMaps
<1>2. CASE \E c \in Calls : Return(c) \/ CancelInFlight(c)
  BY <1>2, ReturnMaps
<1>3. CASE \E c \in Calls : Queue(c) \/ CancelQueued(c)
  BY <1>3 DEF Queue, CancelQueued
<1>4. CASE (\E k \in Questions \X Ids : Age(k)) \/ Demote \/ Deny \/ UNCHANGED allVars
  BY <1>4 DEF Age, Demote, Deny, allVars
<1>5. CASE RunTick \/ RunConfigure
  BY <1>5 DEF RunTick, RunConfigure, Next
<1>6. QED BY <1>1, <1>2, <1>3, <1>4, <1>5 DEF RunNext

-----------------------------------------------------------------------------
(* The telemetry of oracles.run. *)

\* What is known of a call from its place: it has touched the backend if it is there,
\* has recorded nothing before its end, and then what its end calls for.
Attempted(c) ==
  /\ phase[c] = "backend" => touched[c]
  /\ phase[c] \in {"new", "queued"} => ~touched[c]
  /\ events[c] = IF phase[c] # "done" \/ end[c] = "disabled" THEN <<>>
                 ELSE IF touched[c] THEN <<"bridge">>
                 ELSE IF end[c] = "hit" THEN <<"cache">> ELSE <<"skipped">>

AttemptTypes ==
  /\ phase \in [Calls -> {"new", "queued", "backend", "done"}]
  /\ touched \in [Calls -> BOOLEAN]
  /\ end \in [Calls -> EndKinds]
  /\ DOMAIN events = Calls

AttemptInv == AttemptTypes /\ \A c \in Calls : Attempted(c)

\* The event that a call's end adds is its first.
LEMMA FirstEvent ==
  ASSUME NEW s \in {<<"cache">>, <<"skipped">>, <<"bridge">>, <<>>}
  PROVE  <<>> \o s = s
OBVIOUS

LEMMA AttemptInit == RunInit => AttemptInv
<1> SUFFICES ASSUME RunInit PROVE AttemptInv
  OBVIOUS
<1>1. AttemptTypes
  BY DEF RunInit, AttemptTypes, EndKinds
<1>2. \A c \in Calls : Attempted(c)
  BY DEF RunInit, Attempted
<1>3. QED BY <1>1, <1>2 DEF AttemptInv

\* A call that ends where it starts.
LEMMA AtOnceKeepsAttempts ==
  ASSUME AttemptInv, NEW c \in Calls, MayRun(c),
         NEW how \in {"disabled", "hit", "shed"}, NEW event,
         event = IF how = "disabled" THEN <<>> ELSE IF how = "hit" THEN <<"cache">> ELSE <<"skipped">>,
         EndsAtOnce(c, how, event)
  PROVE  AttemptInv'
<1> USE DEF AttemptInv
<1>1. phase[c] \in {"new", "queued"} /\ ~touched[c] /\ events[c] = <<>>
  BY DEF MayRun, Attempted
<1>2. events' = [events EXCEPT ![c] = event]
  BY <1>1, FirstEvent DEF EndsAtOnce
<1>3. AttemptTypes'
  BY <1>2 DEF EndsAtOnce, AttemptTypes, EndKinds
<1>4. Attempted(c)'
  BY <1>1, <1>2 DEF EndsAtOnce, AttemptTypes, Attempted
<1>5. ASSUME NEW d \in Calls, d # c PROVE Attempted(d)'
  BY <1>2, <1>5 DEF EndsAtOnce, AttemptTypes, Attempted
<1>6. QED BY <1>3, <1>4, <1>5

\* A call that ends in the queue, or after the backend.
LEMMA EndKeepsAttempts ==
  ASSUME AttemptInv, NEW c \in Calls, phase[c] \in {"queued", "backend"},
         NEW how \in EndKinds \ {"none", "hit", "disabled"}, NEW event,
         event = IF phase[c] = "backend" THEN <<"bridge">> ELSE <<"skipped">>,
         Ends(c, how, event)
  PROVE  AttemptInv'
<1> USE DEF AttemptInv
<1>1. events[c] = <<>> /\ (touched[c] <=> phase[c] = "backend")
  BY DEF Attempted
<1>2. events' = [events EXCEPT ![c] = event]
  BY <1>1, FirstEvent DEF Ends
<1>3. AttemptTypes'
  BY <1>2 DEF Ends, AttemptTypes
<1>4. Attempted(c)'
  BY <1>1, <1>2 DEF Ends, AttemptTypes, Attempted, EndKinds
<1>5. ASSUME NEW d \in Calls, d # c PROVE Attempted(d)'
  BY <1>2, <1>5 DEF Ends, AttemptTypes, Attempted
<1>6. QED BY <1>3, <1>4, <1>5

\* A call that moves on without an end.
LEMMA QueueKeepsAttempts ==
  ASSUME AttemptInv, NEW c \in Calls, Queue(c)
  PROVE  AttemptInv'
<1> USE DEF AttemptInv
<1>1. AttemptTypes'
  BY DEF Queue, AttemptTypes
<1>2. ASSUME NEW d \in Calls PROVE Attempted(d)'
  BY DEF Queue, AttemptTypes, Attempted
<1>3. QED BY <1>1, <1>2

LEMMA BackendKeepsAttempts ==
  ASSUME AttemptInv, NEW c \in Calls, CallBackend(c)
  PROVE  AttemptInv'
<1> USE DEF AttemptInv
<1>1. phase[c] \in {"new", "queued"}
  BY DEF CallBackend, Miss, MayRun
<1>2. AttemptTypes'
  BY DEF CallBackend, AttemptTypes
<1>3. ASSUME NEW d \in Calls PROVE Attempted(d)'
  BY <1>1 DEF CallBackend, AttemptTypes, Attempted
<1>4. QED BY <1>2, <1>3

LEMMA AttemptStep == AttemptInv /\ [RunNext]_allVars => AttemptInv'
<1> SUFFICES ASSUME AttemptInv, [RunNext]_allVars PROVE AttemptInv'
  OBVIOUS
<1>1. ASSUME NEW c \in Calls, Begin(c) PROVE AttemptInv'
  <2>1. CASE Disabled(c)
    BY <2>1, AtOnceKeepsAttempts DEF Disabled
  <2>2. CASE Hit(c)
    BY <2>2, AtOnceKeepsAttempts DEF Hit
  <2>3. CASE Shed(c)
    BY <2>3, AtOnceKeepsAttempts DEF Shed, Miss
  <2>4. CASE CallBackend(c)
    BY <2>4, BackendKeepsAttempts
  <2>5. QED BY <1>1, <2>1, <2>2, <2>3, <2>4 DEF Begin
<1>2. ASSUME NEW c \in Calls, Return(c) \/ CancelInFlight(c) PROVE AttemptInv'
  <2>1. phase[c] = "backend"
    BY <1>2 DEF Return, Answer, Refuse, Fail, Raise, CancelInFlight
  <2>2. \E how \in EndKinds \ {"none", "hit", "disabled"} : Ends(c, how, <<"bridge">>)
    BY <1>2 DEF Return, Answer, Refuse, Fail, Raise, CancelInFlight, EndKinds
  <2>3. QED BY <2>1, <2>2, EndKeepsAttempts
<1>3. ASSUME NEW c \in Calls, CancelQueued(c) PROVE AttemptInv'
  BY <1>3, EndKeepsAttempts DEF CancelQueued, EndKinds
<1>4. ASSUME NEW c \in Calls, Queue(c) PROVE AttemptInv'
  BY <1>4, QueueKeepsAttempts
<1>5. CASE UNCHANGED <<phase, touched, events, end>>
  BY <1>5 DEF AttemptInv, AttemptTypes, Attempted
<1>6. CASE (\E k \in Questions \X Ids : Age(k)) \/ Demote \/ Deny \/ RunTick \/ RunConfigure \/ UNCHANGED allVars
  BY <1>5, <1>6 DEF Age, Demote, Deny, RunTick, RunConfigure, allVars, runVars, callVars
<1>7. QED BY <1>1, <1>2, <1>3, <1>4, <1>6 DEF RunNext

\* "every attempted oracle leaves a provider.completed": whatever is denied, shed,
\* cached, cancelled or raised, one event, of the transport that was used.
THEOREM EveryAttemptRecordedOnceHolds == RunSpec => []EveryAttemptRecordedOnce
<1>1. AttemptInv => EveryAttemptRecordedOnce
  BY DEF AttemptInv, Attempted, EveryAttemptRecordedOnce
<1>2. QED BY AttemptInit, AttemptStep, <1>1, PTL DEF RunSpec

-----------------------------------------------------------------------------
(* Who is in the breaker's window. *)

\* A function names the call of each outcome of a window, by how the calls ended.
Judges(f, window, ended) ==
  /\ f \in [1..Len(window) -> Calls]
  /\ \A i, j \in 1..Len(window) : f[i] = f[j] => i = j
  /\ \A i \in 1..Len(window) :
       IF window[i] THEN ended[f[i]] = "error" ELSE ended[f[i]] \in {"ok", "refused"}

Judged(window, ended) == \E f \in [1..Len(window) -> Calls] : Judges(f, window, ended)

ShedForErrors == opened \/ held > 0 => \E c \in Calls : end[c] = "error"

\* A call that is not over has not ended, so it is in no window.
JudgeInv ==
  /\ BreakerInv /\ Judged(outcomes, end) /\ ShedForErrors
  /\ DOMAIN phase = Calls /\ DOMAIN end = Calls
  /\ \A c \in Calls : phase[c] # "done" => end[c] = "none"

\* A call that had not ended may end.
Later(ended, after, c) == ended[c] = "none" /\ \A d \in Calls \ {c} : after[d] = ended[d]

LEMMA JudgedStays ==
  ASSUME NEW window \in Seq(BOOLEAN), NEW ended, NEW after, NEW c \in Calls,
         Judged(window, ended), Later(ended, after, c)
  PROVE  Judged(window, after)
<1>1. PICK f \in [1..Len(window) -> Calls] : Judges(f, window, ended)
  BY DEF Judged
<1>2. \A i \in 1..Len(window) : after[f[i]] = ended[f[i]]
  BY <1>1 DEF Judges, Later
<1>3. Judges(f, window, after)
  BY <1>1, <1>2 DEF Judges
<1>4. QED BY <1>3 DEF Judged

\* How a call ended is what its outcome says.
Says(error, how) == IF error THEN how = "error" ELSE how \in {"ok", "refused"}

\* The outcome of a call that ends joins the window.
LEMMA JudgedGrows ==
  ASSUME NEW window \in Seq(BOOLEAN), Len(window) <= Window, NEW ended, NEW after, NEW c \in Calls,
         NEW error \in BOOLEAN, Judged(window, ended), Later(ended, after, c), Says(error, after[c])
  PROVE  Judged(Push(window, error), after)
<1> DEFINE more == Push(window, error)
           m == Len(more)
           drop == Len(window) + 1 - m
<1>1. PICK f \in [1..Len(window) -> Calls] : Judges(f, window, ended)
  BY DEF Judged
<1>2. /\ m \in Nat \ {0} /\ m <= Len(window) + 1 /\ Len(window) \in Nat /\ more[m] = error
      /\ \A i \in 1..(m - 1) : i + drop \in 1..Len(window) /\ more[i] = window[i + drop]
  <2>1. Len(window) \in Nat /\ Window \in Nat \ {0}
    BY WindowAssumption
  <2>2. /\ m = AtMost(Len(window) + 1, Window) /\ more[m] = error
        /\ \A i \in 1..(m - 1) : i + drop \in 1..Len(window) /\ more[i] = window[i + drop]
    BY PushShape
  <2> HIDE DEF more, m, drop
  <2>3. QED BY <2>1, <2>2 DEF AtMost
<1>3. drop \in Nat
  BY <1>2
<1> DEFINE g == [i \in 1..m |-> IF i = m THEN c ELSE f[i + drop]]
<1> HIDE DEF more, m, drop
<1>4. /\ \A i \in 1..Len(window) : f[i] \in Calls /\ Says(window[i], ended[f[i]])
      /\ \A i, j \in 1..Len(window) : f[i] = f[j] => i = j
  BY <1>1 DEF Judges, Says
<1>5. \A i \in 1..Len(window) : f[i] # c /\ after[f[i]] = ended[f[i]]
  BY <1>4 DEF Says, Later
<1>6. /\ g \in [1..m -> Calls] /\ g[m] = c
      /\ \A i \in 1..(m - 1) : g[i] = f[i + drop]
  BY <1>2, <1>4
<1> HIDE DEF g
<1>7. \A i \in 1..m : i = m \/ i \in 1..(m - 1)
  BY <1>2
<1>8. ASSUME NEW i \in 1..m, NEW j \in 1..m, g[i] = g[j] PROVE i = j
  <2>1. CASE i = m \/ j = m
    BY <1>2, <1>5, <1>6, <1>7, <1>8, <2>1
  <2>2. CASE i # m /\ j # m
    <3>1. /\ i \in 1..(m - 1) /\ j \in 1..(m - 1)
          /\ i + drop \in 1..Len(window) /\ j + drop \in 1..Len(window)
      BY <1>2, <1>7, <2>2
    <3>2. i + drop = j + drop
      BY <1>4, <1>6, <1>8, <3>1
    <3>3. QED BY <1>2, <1>3, <3>1, <3>2
  <2>3. QED BY <2>1, <2>2
<1>9. ASSUME NEW i \in 1..m PROVE Says(more[i], after[g[i]])
  <2>1. CASE i = m
    BY <1>2, <1>6, <2>1
  <2>2. CASE i # m
    <3>1. i \in 1..(m - 1) /\ i + drop \in 1..Len(window)
      BY <1>2, <1>7, <2>2
    <3>2. QED BY <1>2, <1>4, <1>5, <1>6, <3>1
  <2>3. QED BY <2>1, <2>2
<1>10. Judges(g, more, after)
  BY <1>6, <1>8, <1>9 DEF Judges, Says, m
<1>11. QED BY <1>6, <1>10 DEF Judged, more, m

\* A success that closes the breaker leaves its own outcome alone.
LEMMA JudgedAlone ==
  ASSUME NEW ended, NEW c \in Calls, ended[c] \in {"ok", "refused"}
  PROVE  Judged(<<FALSE>>, ended)
<1> DEFINE one == <<FALSE>>
           f == [i \in 1..1 |-> c]
<1>1. Len(one) = 1 /\ one[1] = FALSE
  OBVIOUS
<1>2. f \in [1..1 -> Calls] /\ f[1] = c
  OBVIOUS
<1>3. \A i \in 1..1 : i = 1
  OBVIOUS
<1> HIDE DEF one, f
<1>4. Judges(f, one, ended)
  BY <1>1, <1>2, <1>3 DEF Judges
<1>5. QED BY <1>1, <1>2, <1>4 DEF Judged, one

\* A call that comes back with an outcome.
LEMMA OutcomeKeepsJudged ==
  ASSUME JudgeInv, NEW c \in Calls, phase[c] = "backend", NEW how \in EndKinds,
         Ends(c, how, <<"bridge">>),
         \/ RecordSuccess(c) /\ how \in {"ok", "refused"}
         \/ (RecordError(c) \/ RecordRateLimit(c)) /\ how = "error"
  PROVE  Judged(outcomes', end') /\ ShedForErrors'
<1>1. /\ Later(end, end', c) /\ end'[c] = how
  BY DEF JudgeInv, Ends, Later
<1>2. outcomes \in Seq(BOOLEAN) /\ Len(outcomes) <= Window /\ Judged(outcomes, end)
  BY DEF JudgeInv, BreakerInv, TypeOK
<1>3. CASE RecordSuccess(c) /\ how \in {"ok", "refused"}
  <2>1. Says(FALSE, end'[c])
    BY <1>1, <1>3 DEF Says
  <2>2. Judged(Push(outcomes, FALSE), end')
    BY <1>1, <1>2, <2>1, JudgedGrows
  <2>3. Judged(<<FALSE>>, end')
    BY <1>1, <1>3, JudgedAlone
  <2>4. ~opened' /\ held' = 0 /\ outcomes' \in {Push(outcomes, FALSE), <<FALSE>>}
    BY <1>3 DEF RecordSuccess
  <2>5. ShedForErrors'
    BY <2>4 DEF ShedForErrors
  <2>6. QED BY <2>2, <2>3, <2>4, <2>5
<1>4. CASE (RecordError(c) \/ RecordRateLimit(c)) /\ how = "error"
  <2>1. Says(TRUE, end'[c])
    BY <1>1, <1>4 DEF Says
  <2>2. Judged(Push(outcomes, TRUE), end')
    BY <1>1, <1>2, <2>1, JudgedGrows
  <2>3. Judged(outcomes, end')
    BY <1>1, <1>2, JudgedStays
  <2>4. outcomes' \in {Push(outcomes, TRUE), outcomes}
    BY <1>4 DEF RecordError, RecordRateLimit
  <2>5. QED BY <1>1, <1>4, <2>2, <2>3, <2>4 DEF ShedForErrors
<1>5. QED BY <1>3, <1>4

\* Any other step records nothing, and unsays no error.
LEMMA QuietKeepsJudged ==
  ASSUME JudgeInv, NEW c \in Calls, Later(end, end', c) \/ end' = end,
         UNCHANGED <<outcomes, opened>>, held' > 0 => held > 0
  PROVE  Judged(outcomes', end') /\ ShedForErrors'
<1>1. Judged(outcomes, end')
  BY JudgedStays DEF JudgeInv, BreakerInv, TypeOK
<1>2. ASSUME NEW d \in Calls, end[d] = "error" PROVE end'[d] = "error"
  BY <1>2 DEF Later
<1>3. QED BY <1>1, <1>2 DEF JudgeInv, ShedForErrors

LEMMA JudgeStep == JudgeInv /\ [RunNext]_allVars => JudgeInv'
<1> SUFFICES ASSUME JudgeInv, [RunNext]_allVars PROVE JudgeInv'
  OBVIOUS
<1>1. BreakerInv'
  BY RunStepMaps, BreakerStep DEF JudgeInv
<1>2. ASSUME NEW c \in Calls, Begin(c) PROVE JudgeInv'
  <2>1. /\ phase[c] # "done" /\ UNCHANGED <<outcomes, opened, held>>
    BY <1>2 DEF Begin, Disabled, Hit, Shed, CallBackend, Miss, MayRun, Admit, EndsAtOnce, vars, gateVars
  <2>2. CASE CallBackend(c)
    <3>1. end' = end /\ phase' = [phase EXCEPT ![c] = "backend"]
      BY <2>2 DEF CallBackend
    <3>2. QED BY <1>1, <2>1, <3>1, QuietKeepsJudged DEF JudgeInv
  <2>3. CASE \E how \in EndKinds, event \in {<<>>, <<"cache">>, <<"skipped">>} : EndsAtOnce(c, how, event)
    <3>1. /\ Later(end, end', c) /\ phase' = [phase EXCEPT ![c] = "done"] /\ DOMAIN end' = Calls
      BY <2>1, <2>3 DEF JudgeInv, EndsAtOnce, Later
    <3>2. QED BY <1>1, <2>1, <3>1, QuietKeepsJudged DEF JudgeInv, Later
  <2>4. QED BY <1>2, <2>2, <2>3 DEF Begin, Disabled, Hit, Shed, EndKinds
<1>3. ASSUME NEW c \in Calls, Return(c) \/ CancelInFlight(c) \/ CancelQueued(c) PROVE JudgeInv'
  <2>1. PICK how \in EndKinds, event \in {<<"bridge">>, <<"skipped">>} : Ends(c, how, event)
    BY <1>3 DEF Return, Answer, Refuse, Fail, Raise, CancelInFlight, CancelQueued, EndKinds
  <2>2. phase[c] \in {"queued", "backend"}
    BY <1>3 DEF Return, Answer, Refuse, Fail, Raise, CancelInFlight, CancelQueued
  <2>3. /\ Later(end, end', c) /\ phase' = [phase EXCEPT ![c] = "done"] /\ DOMAIN end' = Calls
    BY <2>1, <2>2 DEF JudgeInv, Ends, Later
  <2>4. Judged(outcomes', end') /\ ShedForErrors'
    <3>1. CASE Answer(c) \/ Refuse(c)
      BY <3>1, OutcomeKeepsJudged DEF Answer, Refuse, EndKinds
    <3>2. CASE Fail(c) /\ (RecordError(c) \/ RecordRateLimit(c))
      BY <3>2, OutcomeKeepsJudged DEF Fail, EndKinds
    <3>3. CASE UNCHANGED <<outcomes, opened, held>>
      BY <2>3, <3>3, QuietKeepsJudged
    <3>4. QED
      BY <1>3, <3>1, <3>2, <3>3
         DEF Return, Fail, Raise, CancelInFlight, CancelQueued, Unrecorded, gateVars, vars
  <2>5. QED BY <1>1, <2>3, <2>4 DEF JudgeInv, Later
<1>4. ASSUME NEW c \in Calls, Queue(c) PROVE JudgeInv'
  <2>1. end' = end /\ phase' = [phase EXCEPT ![c] = "queued"] /\ phase[c] = "new"
        /\ UNCHANGED <<outcomes, opened, held>>
    BY <1>4 DEF Queue, vars
  <2>2. QED BY <1>1, <2>1 DEF JudgeInv, ShedForErrors
<1>5. ASSUME UNCHANGED <<outcomes, opened, end, phase>>, held' > 0 => held > 0 PROVE JudgeInv'
  BY <1>1, <1>5 DEF JudgeInv, ShedForErrors
<1>6. CASE (\E k \in Questions \X Ids : Age(k)) \/ Demote \/ Deny \/ RunConfigure \/ UNCHANGED allVars
  BY <1>5, <1>6 DEF Age, Demote, Deny, RunConfigure, Configure, allVars, runVars, callVars, vars, gateVars
<1>7. CASE RunTick
  <2>1. held \in Nat
    BY DEF JudgeInv, BreakerInv, TypeOK
  <2>2. held' > 0 => held > 0
    BY <1>7, <2>1 DEF RunTick, Tick, AtLeast
  <2>3. QED BY <1>5, <1>7, <2>2 DEF RunTick, Tick, runVars, callVars
<1>8. QED BY <1>2, <1>3, <1>4, <1>6, <1>7 DEF RunNext

\* "our impatience is not evidence of backend ill-health": whoever is cancelled, shed,
\* denied or served from the cache, and whatever the settings become under a call, the
\* breaker's window holds outcomes of distinct calls that came back from the backend.
THEOREM OnlyAnswersJudgeHolds == RunSpec => []OnlyAnswersJudge
<1>1. RunInit => JudgeInv
  <2> SUFFICES ASSUME RunInit PROVE JudgeInv
    OBVIOUS
  <2>1. outcomes = <<>> /\ Len(outcomes) = 0 /\ ~opened /\ held = 0
    BY DEF RunInit, Init
  <2>2. PICK f : f = [i \in 1..0 |-> "none"]
    OBVIOUS
  <2>3. f \in [1..0 -> Calls] /\ Judges(f, outcomes, end)
    BY <2>1, <2>2 DEF Judges
  <2>4. Judged(outcomes, end)
    BY <2>1, <2>3 DEF Judged
  <2>5. BreakerInv
    BY BreakerInit DEF RunInit
  <2>6. QED BY <2>1, <2>4, <2>5 DEF RunInit, JudgeInv, ShedForErrors
<1>2. JudgeInv => OnlyAnswersJudge
  <2> SUFFICES ASSUME JudgeInv PROVE OnlyAnswersJudge
    OBVIOUS
  <2>1. DOMAIN outcomes = 1..Len(outcomes)
    BY DEF JudgeInv, BreakerInv, TypeOK
  <2>2. PICK f \in [1..Len(outcomes) -> Calls] : Judges(f, outcomes, end)
    BY DEF JudgeInv, Judged
  <2>3. QED BY <2>1, <2>2 DEF JudgeInv, Judges, Reads, ShedForErrors, OnlyAnswersJudge
<1>3. QED BY <1>1, <1>2, JudgeStep, PTL DEF RunSpec

-----------------------------------------------------------------------------
(* The answer cache under oracles.run. *)

\* An entry under a name: whole, and of the model of that name, unless the bridge did
\* not say.
TrueOf(e, name) == e.whole /\ e.by \in {name} \cup (IF Reports THEN {} ELSE {"unreported"})

CacheTypes ==
  /\ cache \in [Questions \X Ids -> Entry \cup {NoEntry}]
  /\ asked \in [Calls -> Questions] /\ named \in [Calls -> Ids]
  /\ rung \in DOMAIN Names
  /\ DOMAIN phase = Calls /\ DOMAIN end = Calls /\ DOMAIN got = Calls

TrueEntries == \A k \in Questions \X Ids : cache[k] # NoEntry => TrueOf(cache[k], k[2])

\* A hit is over, and was given an entry of the name it looked for.
TrueHit(c) == end[c] = "hit" => phase[c] = "done" /\ TrueOf(got[c], named[c])

CacheInv == CacheTypes /\ TrueEntries /\ \A c \in Calls : TrueHit(c)

\* The name an oracle goes by is always one of the ladder's.
LEMMA RungHasName == CacheTypes => Names[rung] \in Ids
BY DEF CacheTypes, Ids

LEMMA CacheInit == RunInit => CacheInv
<1> SUFFICES ASSUME RunInit PROVE CacheInv
  OBVIOUS
<1>1. 1 \in DOMAIN Names
  BY NamesAssumption
<1>2. CacheTypes
  BY <1>1 DEF RunInit, CacheTypes, Ids
<1>3. TrueEntries /\ \A c \in Calls : TrueHit(c)
  BY DEF RunInit, TrueEntries, TrueHit
<1>4. QED BY <1>2, <1>3 DEF CacheInv

\* What a lookup leaves of the cache.
LEMMA LookupKeepsCache ==
  ASSUME CacheInv, NEW c \in Calls, cache' = Looked(c), UNCHANGED rung
  PROVE  cache' \in [Questions \X Ids -> Entry \cup {NoEntry}] /\ TrueEntries'
<1> USE DEF CacheInv
<1>1. Key(c) \in Questions \X Ids
  BY RungHasName DEF CacheTypes, Key
<1>2. cache' \in [Questions \X Ids -> Entry \cup {NoEntry}]
  BY <1>1 DEF Looked, CacheTypes
<1>3. TrueEntries'
  BY <1>1 DEF Looked, CacheTypes, TrueEntries
<1>4. QED BY <1>2, <1>3

\* What an answer leaves of it.
LEMMA AnswerKeepsCache ==
  ASSUME CacheInv, NEW c \in Calls,
         NEW by \in Ids \cup (IF Reports THEN {} ELSE {"unreported"}), NEW whole \in BOOLEAN,
         cache' = Stored(c, by, whole)
  PROVE  cache' \in [Questions \X Ids -> Entry \cup {NoEntry}] /\ TrueEntries'
<1> USE DEF CacheInv
<1>1. CASE ~(whole /\ ServedAsNamed(c, by))
  BY <1>1 DEF Stored, CacheTypes, TrueEntries
<1>2. CASE whole /\ ServedAsNamed(c, by)
  <2> DEFINE k == <<asked[c], named[c]>>
             e == [by |-> by, whole |-> whole, stale |-> FALSE]
  <2>1. k \in Questions \X Ids /\ k[2] = named[c]
    BY DEF CacheTypes
  <2>2. e \in Entry /\ TrueOf(e, named[c])
    BY <1>2, NamesAssumption DEF Entry, Ids, TrueOf, ServedAsNamed
  <2>3. cache' = [cache EXCEPT ![k] = e]
    BY <1>2 DEF Stored
  <2> HIDE DEF k, e
  <2>4. cache' \in [Questions \X Ids -> Entry \cup {NoEntry}]
    BY <2>1, <2>2, <2>3 DEF CacheTypes
  <2>5. TrueEntries'
    BY <2>1, <2>2, <2>3 DEF CacheTypes, TrueEntries
  <2>6. QED BY <2>4, <2>5
<1>3. QED BY <1>1, <1>2

\* Aging changes nothing of an entry but its age.
LEMMA Aged ==
  ASSUME NEW e \in Entry
  PROVE  /\ [e EXCEPT !.stale = TRUE] \in Entry
         /\ [e EXCEPT !.stale = TRUE].by = e.by /\ [e EXCEPT !.stale = TRUE].whole = e.whole
BY DEF Entry

LEMMA AgeKeepsCache ==
  ASSUME CacheInv, NEW k \in Questions \X Ids, Age(k)
  PROVE  CacheInv'
<1> USE DEF CacheInv
<1> DEFINE e == [cache[k] EXCEPT !.stale = TRUE]
<1>1. cache[k] \in Entry
  BY DEF Age, Fresh, CacheTypes
<1>2. e \in Entry /\ e.by = cache[k].by /\ e.whole = cache[k].whole
  BY <1>1, Aged
<1>3. cache' = [cache EXCEPT ![k] = e]
  BY DEF Age
<1>4. TrueOf(cache[k], k[2])
  BY DEF Age, Fresh, TrueEntries
<1> HIDE DEF e
<1>5. cache' \in [Questions \X Ids -> Entry \cup {NoEntry}]
  BY <1>2, <1>3 DEF CacheTypes
<1>6. TrueEntries'
  BY <1>2, <1>3, <1>4 DEF CacheTypes, TrueEntries, TrueOf
<1>7. UNCHANGED <<phase, asked, named, end, got, rung>>
  BY DEF Age, callVars
<1>8. QED BY <1>5, <1>6, <1>7 DEF CacheTypes, TrueHit

\* A hit is given what the cache has under the name it looks for.
LEMMA HitKeepsCache ==
  ASSUME CacheInv, NEW c \in Calls, Hit(c)
  PROVE  CacheInv'
<1> USE DEF CacheInv
<1>1. Key(c) \in Questions \X Ids /\ Key(c)[2] = Names[rung] /\ Names[rung] \in Ids
  BY RungHasName DEF CacheTypes, Key
<1>2. TrueOf(cache[Key(c)], Names[rung])
  BY <1>1 DEF Hit, Fresh, TrueEntries
<1>3. CacheTypes'
  BY <1>1 DEF Hit, EndsAtOnce, CacheTypes
<1>4. TrueEntries'
  BY DEF Hit, TrueEntries
<1>5. TrueHit(c)'
  BY <1>2 DEF Hit, EndsAtOnce, CacheTypes, TrueHit
<1>6. ASSUME NEW d \in Calls, d # c PROVE TrueHit(d)'
  BY <1>6 DEF Hit, EndsAtOnce, CacheTypes, TrueHit
<1>7. QED BY <1>3, <1>4, <1>5, <1>6

\* A call that is shed or denied, or goes on to the backend.
LEMMA OtherBeginsKeepCache ==
  ASSUME CacheInv, NEW c \in Calls, Disabled(c) \/ Shed(c) \/ CallBackend(c)
  PROVE  CacheInv'
<1> USE DEF CacheInv
<1>1. Names[rung] \in Ids
  BY RungHasName
<1>2. phase[c] \in {"new", "queued"} /\ UNCHANGED <<rung, asked, got>>
  BY DEF Disabled, Shed, CallBackend, Miss, MayRun, EndsAtOnce
<1>3. cache' \in [Questions \X Ids -> Entry \cup {NoEntry}] /\ TrueEntries'
  <2>1. CASE Disabled(c)
    BY <2>1 DEF Disabled, CacheTypes, TrueEntries
  <2>2. CASE Shed(c) \/ CallBackend(c)
    BY <1>2, <2>2, LookupKeepsCache DEF Shed, CallBackend, Miss
  <2>3. QED BY <2>1, <2>2
<1>4. CacheTypes'
  BY <1>1, <1>2, <1>3 DEF Disabled, Shed, CallBackend, EndsAtOnce, CacheTypes
<1>5. TrueHit(c)'
  BY <1>2 DEF Disabled, Shed, CallBackend, EndsAtOnce, CacheTypes, TrueHit
<1>6. ASSUME NEW d \in Calls, d # c PROVE TrueHit(d)'
  BY <1>2, <1>6 DEF Disabled, Shed, CallBackend, EndsAtOnce, CacheTypes, TrueHit
<1>7. QED BY <1>3, <1>4, <1>5, <1>6

\* A call that ends later is no hit.
LEMMA EndKeepsHits ==
  ASSUME CacheInv, NEW c \in Calls, phase[c] # "done", NEW how \in EndKinds \ {"hit"},
         NEW event, Ends(c, how, event),
         cache' \in [Questions \X Ids -> Entry \cup {NoEntry}], TrueEntries'
  PROVE  CacheInv'
<1> USE DEF CacheInv
<1>1. CacheTypes'
  BY DEF Ends, CacheTypes
<1>2. TrueHit(c)'
  BY DEF Ends, CacheTypes, TrueHit
<1>3. ASSUME NEW d \in Calls, d # c PROVE TrueHit(d)'
  BY <1>3 DEF Ends, CacheTypes, TrueHit
<1>4. QED BY <1>1, <1>2, <1>3

LEMMA CacheStep == CacheInv /\ [RunNext]_allVars => CacheInv'
<1> SUFFICES ASSUME CacheInv, [RunNext]_allVars PROVE CacheInv'
  OBVIOUS
<1> USE DEF CacheInv
<1>1. ASSUME NEW c \in Calls, Begin(c) PROVE CacheInv'
  BY <1>1, HitKeepsCache, OtherBeginsKeepCache DEF Begin
<1>2. ASSUME NEW c \in Calls, Answer(c) PROVE CacheInv'
  BY <1>2, AnswerKeepsCache, EndKeepsHits DEF Answer, EndKinds
<1>3. ASSUME NEW c \in Calls, Refuse(c) \/ Fail(c) \/ Raise(c) \/ CancelInFlight(c) \/ CancelQueued(c)
      PROVE  CacheInv'
  <2>1. phase[c] # "done" /\ UNCHANGED cache /\ \E how \in EndKinds \ {"hit"}, event \in {<<"bridge">>, <<"skipped">>} :
          Ends(c, how, event)
    BY <1>3 DEF Refuse, Fail, Raise, CancelInFlight, CancelQueued, EndKinds
  <2>2. cache' \in [Questions \X Ids -> Entry \cup {NoEntry}] /\ TrueEntries'
    BY <2>1 DEF CacheTypes, TrueEntries
  <2>3. QED BY <2>1, <2>2, EndKeepsHits
<1>4. ASSUME NEW c \in Calls, Queue(c) PROVE CacheInv'
  BY <1>4 DEF Queue, CacheTypes, TrueEntries, TrueHit
<1>5. ASSUME NEW k \in Questions \X Ids, Age(k) PROVE CacheInv'
  BY <1>5, AgeKeepsCache
<1>6. CASE Demote
  <2>1. rung' \in DOMAIN Names
    BY <1>6, NamesAssumption DEF Demote, CacheTypes
  <2>2. QED BY <1>6, <2>1 DEF Demote, callVars, CacheTypes, TrueEntries, TrueHit
<1>7. CASE Deny \/ RunTick \/ RunConfigure \/ UNCHANGED allVars
  BY <1>7 DEF Deny, RunTick, RunConfigure, allVars, runVars, callVars, CacheTypes, TrueEntries, TrueHit
<1>8. QED BY <1>1, <1>2, <1>3, <1>4, <1>5, <1>6, <1>7 DEF RunNext, Return

\* Whatever the ladder did between the lookup and the store, no call is served a cut-off
\* answer, or one of a model other than the one its key names.
THEOREM CacheTellsTheTruthHolds == RunSpec => []CacheTellsTheTruth
<1>1. CacheInv => CacheTellsTheTruth
  BY DEF CacheInv, TrueHit, TrueOf, CacheTellsTheTruth
<1>2. QED BY CacheInit, CacheStep, <1>1, PTL DEF RunSpec
=============================================================================
