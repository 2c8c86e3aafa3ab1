------------------------------ MODULE Breaker ------------------------------
(***************************************************************************)
(* The circuit breaker of src/ask_fable/health.py, for one oracle key (the *)
(* states of different keys do not touch), with the concurrent calls that  *)
(* oracles._run makes under it: a call looks at the breaker once, before   *)
(* its backend call, and records its outcome once, after it; in between    *)
(* anything may happen to the breaker.                                     *)
(*                                                                         *)
(* The monotonic clock is kept as two counts: ticks since the trip, which  *)
(* stops at the cooldown, and ticks left of the quota hold.  The breaker's *)
(* settings are read from the environment on every call, so the on/off     *)
(* switch and the quota hold may change between any two of them.           *)
(***************************************************************************)
EXTENDS Integers, Sequences, FiniteSets

CONSTANTS
  Calls,        \* calls that may be in flight at once
  Window,       \* ASK_FABLE_BREAKER_WINDOW, at least 1
  MinSamples,   \* _MIN_SAMPLES
  ThrNum,       \* ASK_FABLE_BREAKER_THRESHOLD as a fraction ThrNum / ThrDen
  ThrDen,
  Cooldown,     \* ASK_FABLE_BREAKER_COOLDOWN, in ticks
  Switches,     \* the values ASK_FABLE_CIRCUIT_BREAKER may take
  HoldBases,    \* the values ASK_FABLE_QUOTA_HOLD may take, in ticks
  HoldMax,      \* _QUOTA_HOLD_MAX
  Jitter,       \* ticks the jitter may add to or take from a hold
  StepMax       \* bound of the model on hold_step

ASSUME WindowAssumption == Window \in Nat \ {0} /\ MinSamples \in Nat \ {0}
ASSUME ThresholdAssumption == ThrNum \in Nat /\ ThrDen \in Nat \ {0} /\ ThrNum <= ThrDen
ASSUME ClockAssumption == Cooldown \in Nat \ {0} /\ Jitter \in Nat
ASSUME SwitchAssumption == Switches \subseteq BOOLEAN /\ Switches # {}
ASSUME HoldAssumption == HoldBases \subseteq Nat /\ HoldBases # {} /\ HoldMax \in Nat /\ StepMax \in Nat

VARIABLES
  outcomes,  \* s.outcomes, TRUE for an error
  opened,    \* s.opened_at is not 0.0
  elapsed,   \* ticks since s.opened_at, up to Cooldown
  held,      \* ticks until s.held_until
  step,      \* s.hold_step
  enabled,   \* the breaker is switched on
  holdBase,  \* the base of a quota hold; 0 switches the feature off
  call       \* idle, or in flight: flying, or probing if admitted half-open

gateVars == <<outcomes, opened, elapsed, held, step>>
settings == <<enabled, holdBase>>

\* History, read by the properties only.
VARIABLES
  report,    \* the last transition handed to _report_breaker
  fresh,     \* outcomes recorded since the last recovery, up to MinSamples
  streak     \* health errors in a row with the switch on, up to Window + MinSamples

history == <<report, fresh, streak>>
vars == <<outcomes, opened, elapsed, held, step, enabled, holdBase, call, report, fresh, streak>>

TypeOK ==
  /\ outcomes \in Seq(BOOLEAN) /\ Len(outcomes) <= Window
  /\ opened \in BOOLEAN
  /\ elapsed \in 0..Cooldown
  /\ held \in Nat /\ step \in Nat
  /\ enabled \in Switches /\ holdBase \in HoldBases
  /\ call \in [Calls -> {"idle", "flying", "probing"}]
  /\ report \in {"none", "opened", "reopened", "closed"}
  /\ fresh \in 0..MinSamples
  /\ streak \in 0..(Window + MinSamples)

Init ==
  /\ outcomes = <<>> /\ opened = FALSE /\ elapsed = 0 /\ held = 0 /\ step = 0
  /\ enabled \in Switches /\ holdBase \in HoldBases
  /\ call = [c \in Calls |-> "idle"]
  /\ report = "none" /\ fresh = MinSamples /\ streak = 0

-----------------------------------------------------------------------------
(* What callers read. *)

\* Mutant of State: the cooldown is never looked at.
StateNoHalfOpen == IF ~enabled \/ ~opened THEN "closed" ELSE "open"

State ==
  IF ~enabled \/ ~opened THEN "closed"
  ELSE IF elapsed >= Cooldown THEN "half_open" ELSE "open"

\* should_skip: open, or a live hold while the hold feature is on.
ShouldSkip == State = "open" \/ (holdBase > 0 /\ held > 0)

AtMost(n, bound) == IF n <= bound THEN n ELSE bound
AtLeast(n, bound) == IF n >= bound THEN n ELSE bound

Errors(seq) == Cardinality({i \in DOMAIN seq : seq[i]})

\* The error rate of a window reaches the threshold.
RateReached(seq) == Errors(seq) * ThrDen >= ThrNum * Len(seq)

\* The window after one more outcome: old ones leave until there is room.
Push(seq, error) ==
  LET drop == AtLeast(Len(seq) - Window + 1, 0)
  IN Append(SubSeq(seq, drop + 1, Len(seq)), error)

Probing == opened /\ elapsed >= Cooldown

-----------------------------------------------------------------------------
(* record, by what the outcome is. *)

Land(c) ==
  /\ call[c] # "idle"
  /\ call' = [call EXCEPT ![c] = "idle"]

\* Mutant of RecordSuccess: the window of the outage survives the recovery.
RecordSuccessKeepsWindow(c) ==
  /\ Land(c)
  /\ outcomes' = Push(outcomes, FALSE)
  /\ opened' = FALSE /\ elapsed' = 0 /\ held' = 0 /\ step' = 0
  /\ report' = IF opened /\ enabled THEN "closed" ELSE report
  /\ fresh' = IF opened THEN 1 ELSE AtMost(fresh + 1, MinSamples)
  /\ streak' = 0
  /\ UNCHANGED settings

\* ok and refused: the breaker closes, and the hold is lifted.
RecordSuccess(c) ==
  /\ Land(c)
  /\ outcomes' = IF opened THEN <<FALSE>> ELSE Push(outcomes, FALSE)
  /\ opened' = FALSE /\ elapsed' = 0 /\ held' = 0 /\ step' = 0
  /\ report' = IF opened /\ enabled THEN "closed" ELSE report
  /\ fresh' = IF opened THEN 1 ELSE AtMost(fresh + 1, MinSamples)
  /\ streak' = 0
  /\ UNCHANGED settings

\* Mutants of RecordError, which differ in when it trips.
ErrorTripping(c, window, trips) ==
  /\ Land(c)
  /\ outcomes' = window
  /\ opened' = (opened \/ trips)
  /\ elapsed' = IF trips THEN 0 ELSE elapsed
  /\ report' = IF ~enabled THEN report
               ELSE IF trips /\ ~opened THEN "opened"
               ELSE IF trips /\ Probing THEN "reopened" ELSE report
  /\ fresh' = AtMost(fresh + 1, MinSamples)
  /\ streak' = IF enabled THEN AtMost(streak + 1, Window + MinSamples) ELSE 0
  /\ UNCHANGED <<held, step, enabled, holdBase>>

\* The switch is not asked before a trip.
RecordErrorUnasked(c) ==
  LET window == Push(outcomes, TRUE)
  IN ErrorTripping(c, window, Len(window) >= MinSamples /\ RateReached(window))

\* An oracle that is on hold is not tripped as well.
RecordErrorUnlessHeld(c) ==
  LET window == Push(outcomes, TRUE)
  IN ErrorTripping(c, window,
       enabled /\ held = 0 /\ Len(window) >= MinSamples /\ RateReached(window))

\* An error of the backend's health; a rate_limit too while holds are off.
RecordError(c) ==
  LET window == Push(outcomes, TRUE)
      trips == enabled /\ Len(window) >= MinSamples /\ RateReached(window)
  IN /\ Land(c)
     /\ outcomes' = window
     /\ opened' = (opened \/ trips)
     /\ elapsed' = IF trips THEN 0 ELSE elapsed
     /\ report' = IF trips /\ ~opened THEN "opened"
                  ELSE IF trips /\ Probing THEN "reopened" ELSE report
     /\ fresh' = AtMost(fresh + 1, MinSamples)
     /\ streak' = IF enabled THEN AtMost(streak + 1, Window + MinSamples) ELSE 0
     /\ UNCHANGED <<held, step, enabled, holdBase>>

\* The length of a hold at an escalation step, before the jitter.
HoldFor(n) == AtMost(holdBase * 2^(n - 1), HoldMax)

\* A rate_limit while holds are on: a hold, which escalates once per expiry and
\* is never shortened; the health window is not fed.
RecordRateLimit(c) ==
  /\ holdBase > 0
  /\ Land(c)
  /\ held = 0 => step < StepMax
  /\ step' = IF held = 0 THEN step + 1 ELSE step
  /\ \E j \in -Jitter..Jitter : held' = AtLeast(held, HoldFor(step') + j)
  /\ UNCHANGED <<outcomes, opened, elapsed, enabled, holdBase, report, fresh, streak>>

-----------------------------------------------------------------------------
(* The calls, the clock and the operator. *)

\* _run finds the gate open and awaits the backend.
Admit(c) ==
  /\ call[c] = "idle" /\ ~ShouldSkip
  /\ call' = [call EXCEPT ![c] = IF State = "half_open" THEN "probing" ELSE "flying"]
  /\ UNCHANGED <<gateVars, settings, history>>

\* The call is cancelled, leaks an exception, or ends in an error of a kind in
\* _NON_HEALTH_KINDS: nothing is recorded.
Unrecorded(c) ==
  /\ Land(c)
  /\ UNCHANGED <<gateVars, settings, history>>

Tick ==
  /\ elapsed' = IF opened THEN AtMost(elapsed + 1, Cooldown) ELSE elapsed
  /\ held' = AtLeast(held - 1, 0)
  /\ UNCHANGED <<outcomes, opened, step, settings, call, history>>

\* The environment variables are read anew on every call.
Configure ==
  /\ enabled' \in Switches /\ holdBase' \in HoldBases
  /\ UNCHANGED <<gateVars, call, history>>

Outcome(c) == RecordSuccess(c) \/ RecordError(c) \/ RecordRateLimit(c) \/ Unrecorded(c)

Next == (\E c \in Calls : Admit(c) \/ Outcome(c)) \/ Tick \/ Configure

Spec == Init /\ [][Next]_vars

\* Time passes and every call in flight ends; nobody has to call, and the
\* backend need never succeed.
Fairness == WF_vars(Tick) /\ \A c \in Calls : WF_vars(Outcome(c))

FairSpec == Spec /\ Fairness

-----------------------------------------------------------------------------
(* What the breaker promises. *)

\* health.record: a trip that would "start shedding from a state change that
\* never reached a log or a console" must not happen, although the switch may
\* be flipped between any two calls.
NoSilentTrip == opened => report \in {"opened", "reopened"}

\* record: "a recovered-but-once-flaky backend gets _MIN_SAMPLES fresh calls
\* before it can trip again": no outcome from before the recovery counts.
TripRestsOnFreshSamples == [][~opened /\ opened' => fresh' >= MinSamples]_vars

\* "A chronically-failing backend is auto-skipped": a window full of errors in
\* a row, recorded with the switch on, has opened the breaker.
ChronicFailureTrips == streak >= AtLeast(Window, MinSamples) => opened

\* GUIDE.md: "after the cooldown one probe is allowed".
OneProbe == Cardinality({c \in Calls : call[c] = "probing"}) <= 1

\* However the outcomes in flight keep failing or hitting their quota, an
\* oracle that is shed is let through again.
EveryShedEnds == []<>(~ShouldSkip)
=============================================================================
