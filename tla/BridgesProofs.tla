---------------------------- MODULE BridgesProofs ----------------------------
(* What the bridges promise for every timeout, backoff and number of continuations, *)
(* for any number of panel members that look efforts up, and for any number of kimi *)
(* calls.                                                                            *)
EXTENDS Bridges, TLAPS

(* One deadline for a call and its retries (oracle_common.call_with_transient_retry, *)
(* anthropic_http's continuations).                                                  *)

Span == Timeout + Grace
Bound == (IF research THEN 1 + Continuations ELSE 1) * Span

\* Fewer windows take no longer.
LEMMA Windows ==
  ASSUME NEW n \in Nat, NEW m \in Nat, n <= m, NEW w \in Nat
  PROVE  n * w <= m * w /\ (n + 1) * w = n * w + w /\ n * w \in Nat
OBVIOUS

\* Before its first POST a call has used no time; while it posts, it is in a window
\* that began after as many windows as it has heard turns; and it is always in time.
Unstarted == clock = 0 /\ began = 0 /\ heard = <<>>
InWindow ==
  /\ clock < began + Span
  /\ began <= Len(heard) * Span
  /\ IF research THEN Len(heard) <= Continuations ELSE heard = <<>>

DeadlineInv ==
  /\ clock \in Nat /\ began \in Nat /\ heard \in Seq(Turns) /\ research \in BOOLEAN
  /\ at \in {"route", "process", "returned"} => Unstarted
  /\ at = "post" => InWindow
  /\ OneDeadline

LEMMA SpanIsTime ==
  Span \in Nat \ {0} /\ Timeout \in Nat /\ Grace \in Nat /\ Continuations \in Nat
BY TimesAssumption DEF Span

LEMMA BoundIsTime ==
  ASSUME research \in BOOLEAN
  PROVE  Bound \in Nat /\ Span <= Bound /\ (OneDeadline <=> clock <= Bound)
<1>1. CASE research
  <2>1. 1 * Span <= (1 + Continuations) * Span /\ (1 + Continuations) * Span \in Nat
    BY SpanIsTime, Windows
  <2>2. QED BY <1>1, <2>1, SpanIsTime DEF Bound, OneDeadline, Span
<1>2. CASE ~research
  BY <1>2, SpanIsTime DEF Bound, OneDeadline, Span
<1>3. QED BY <1>1, <1>2

LEMMA DeadlineInit == Init => DeadlineInv
<1> SUFFICES ASSUME Init PROVE DeadlineInv
  OBVIOUS
<1>1. at = "route" /\ Unstarted /\ research = FALSE
  BY DEF Init, DispatchInit, HttpInit, Unstarted
<1>2. research \in BOOLEAN
  BY <1>1, Zenon
<1>3. OneDeadline
  BY <1>1, <1>2, BoundIsTime DEF Unstarted
<1>4. QED BY <1>1, <1>2, <1>3 DEF DeadlineInv, Unstarted

\* A time within the window, and what is left of the bound there.
LEMMA WindowInBound ==
  ASSUME DeadlineInv, at = "post"
  PROVE  Deadline \in Nat /\ clock < Deadline /\ Deadline <= Bound
<1> USE SpanIsTime DEF DeadlineInv
<1>1. Deadline = began + Span /\ Deadline \in Nat /\ clock < Deadline
  BY DEF Deadline, Span, InWindow
<1>2. Len(heard) \in Nat /\ Len(heard) * Span \in Nat /\ (Len(heard) + 1) * Span = Len(heard) * Span + Span
  BY Windows
<1>3. CASE research
  <2>1. Len(heard) + 1 <= 1 + Continuations
    BY <1>2, <1>3 DEF InWindow
  <2>2. (Len(heard) + 1) * Span <= (1 + Continuations) * Span
    BY <1>2, <2>1, Windows
  <2> HIDE DEF DeadlineInv
  <2>3. began <= Len(heard) * Span /\ began \in Nat
    BY DEF InWindow, DeadlineInv
  <2>4. Bound = (1 + Continuations) * Span /\ Bound \in Nat
    BY <1>3, BoundIsTime DEF Bound
  <2>5. QED BY <1>1, <1>2, <2>2, <2>3, <2>4
<1>4. CASE ~research
  <2>1. began = 0
    BY <1>4 DEF InWindow
  <2>2. QED BY <1>1, <1>4, <2>1, BoundIsTime
<1>5. QED BY <1>1, <1>3, <1>4

\* A turn that is heard ends the call, or begins the next window.
LEMMA HeardInTime ==
  ASSUME DeadlineInv, Heard
  PROVE  DeadlineInv'
<1> USE DEF DeadlineInv
<1>1. at = "post" /\ research' = research
  BY DEF Heard
<1>2. PICK t \in Arrival, turn \in Turns :
        /\ ~research => turn.stop # "pause"
        /\ clock' = t /\ heard' = Append(heard, turn)
        /\ \/ Paused(heard') /\ began' = t /\ at' = at
           \/ at' = "done" /\ began' = began
  BY DEF Heard, Done
<1>3. t \in Nat /\ Deadline \in Nat /\ t < Deadline /\ Deadline <= Bound
  BY <1>1, WindowInBound DEF Arrival
<1>4. heard' \in Seq(Turns) /\ Len(heard') = Len(heard) + 1 /\ Len(heard) \in Nat
  BY <1>2
<1>5. OneDeadline'
  <2>1. Bound' = Bound
    BY <1>1 DEF Bound
  <2>2. clock' <= Bound
    BY <1>1, <1>2, <1>3, BoundIsTime
  <2>3. QED BY <1>1, <2>2 DEF OneDeadline, Bound, Span
<1>6. ASSUME Paused(heard') PROVE research /\ Len(heard') <= Continuations
  BY <1>6 DEF Paused
<1>7. at' = "post" => InWindow'
  <2> SUFFICES ASSUME at' = "post" PROVE InWindow'
    OBVIOUS
  <2>1. began' = t /\ clock' = t /\ research' /\ Len(heard') <= Continuations
    BY <1>1, <1>2, <1>6
  <2>2. t < Len(heard) * Span + Span /\ Len(heard) * Span + Span = Len(heard') * Span
    BY <1>1, <1>3, <1>4, SpanIsTime, Windows DEF InWindow, Deadline, Span
  <2>3. QED BY <1>3, <2>1, <2>2, SpanIsTime DEF InWindow, Span
<1>8. at' \in {"post", "done"} /\ clock' \in Nat /\ began' \in Nat
  BY <1>1, <1>2, <1>3
<1>9. QED BY <1>1, <1>4, <1>5, <1>7, <1>8

\* A failed attempt is sent again in the same window, or is the end.
LEMMA FailureInTime ==
  ASSUME DeadlineInv, FieldRejected \/ Retry \/ Fail \/ TimesOut
  PROVE  DeadlineInv'
<1> USE DEF DeadlineInv
<1>1. at = "post" /\ UNCHANGED <<research, began, heard>>
  BY DEF FieldRejected, Retry, Fail, TimesOut
<1>2. Deadline \in Nat /\ clock < Deadline /\ Deadline <= Bound /\ Deadline = began + Span
  BY <1>1, WindowInBound, SpanIsTime DEF DeadlineInv, Deadline, Span
<1>3. \/ at' = "post" /\ clock' \in Nat /\ clock' < Deadline
      \/ at' = "done" /\ clock' \in Nat /\ clock' <= Deadline
  <2>1. CASE FieldRejected \/ Fail
    <3>1. (at' = "post" \/ at' = "done") /\ \E t \in Arrival : clock' = t
      BY <1>1, <2>1 DEF FieldRejected, Fail, Done
    <3>2. QED BY <1>2, <3>1 DEF DeadlineInv, Arrival
  <2>2. CASE Retry
    <3>1. at' = "post" /\ \E t \in Arrival : RetryFits(t) /\ clock' = t + Backoff
      BY <1>1, <2>2 DEF Retry
    <3>2. Backoff \in Nat /\ Window \in Nat \ {0}
      BY TimesAssumption
    <3>3. QED BY <1>2, <3>1, <3>2 DEF DeadlineInv, Arrival, RetryFits
  <2>3. CASE TimesOut
    BY <1>1, <1>2, <2>3 DEF TimesOut, Done
  <2>4. QED BY <2>1, <2>2, <2>3
<1>4. OneDeadline'
  <2>1. clock' <= Bound
    BY <1>1, <1>2, <1>3, BoundIsTime
  <2>2. QED BY <1>1, <2>1 DEF OneDeadline, Bound, Span
<1>5. at' = "post" => InWindow'
  BY <1>1, <1>2, <1>3 DEF InWindow, Span
<1>6. QED BY <1>1, <1>3, <1>4, <1>5

\* Elsewhere no time passes, and the bridge is entered in time.
Routing ==
  /\ UNCHANGED <<clock, began, heard>>
  /\ \/ at' \in {"process", "returned", "done"} /\ UNCHANGED research
     \/ at' = "post" /\ research' \in BOOLEAN

LEMMA RoutingInTime ==
  ASSUME DeadlineInv, at \in {"route", "process", "returned"}, Routing
  PROVE  DeadlineInv'
<1> USE DEF DeadlineInv, Routing
<1>1. Unstarted /\ Unstarted'
  BY DEF Unstarted
<1>2. research' \in BOOLEAN
  OBVIOUS
<1>3. (Bound \in Nat)'
  <2>1. 1 * Span <= (1 + Continuations) * Span /\ (1 + Continuations) * Span \in Nat
    BY SpanIsTime, Windows
  <2>2. QED BY <1>2, <2>1, SpanIsTime DEF Bound, Span
<1>4. OneDeadline'
  BY <1>1, <1>3 DEF OneDeadline, Bound, Span, Unstarted
<1>5. at' = "post" => InWindow'
  BY <1>1, SpanIsTime DEF InWindow, Unstarted, Span
<1>6. QED BY <1>1, <1>2, <1>4, <1>5 DEF Unstarted

LEMMA DeadlineStep == DeadlineInv /\ [Next]_vars => DeadlineInv'
<1> SUFFICES ASSUME DeadlineInv, [Next]_vars PROVE DeadlineInv'
  OBVIOUS
<1>1. CASE UNCHANGED <<at, clock, began, heard, research>>
  BY <1>1 DEF DeadlineInv, Unstarted, InWindow, OneDeadline, Span
<1>2. CASE HttpNext
  BY <1>2, HeardInTime, FailureInTime DEF HttpNext
<1>3. CASE CliNext /\ UNCHANGED <<httpVars, asked, host, reached>>
  <2>1. at = "process" /\ at' = "returned"
    BY <1>3 DEF CliNext, NeverSpawned, CliTimesOut, Exits, SdkRaises, SdkFails, Prints, Returns
  <2>2. QED BY <1>3, <2>1, RoutingInTime DEF Routing, httpVars
<1>4. CASE Gate \/ ToCli \/ ToClaudeApi \/ ToHttp \/ ToNobody \/ ViaLocalCli \/ ViaGateway \/ Returned
  <2>1. at \in {"route", "returned"}
    BY <1>4 DEF Gate, ToCli, ToClaudeApi, ToHttp, ToNobody, ViaLocalCli, ViaGateway, Returned, Admitted
  <2>2. ASSUME NEW c, SendCli(c) PROVE Routing
    BY <2>2 DEF SendCli, CallCli, Routing, httpVars
  <2>3. ASSUME NEW r, Ends(r), UNCHANGED httpVars PROVE Routing
    BY <2>3 DEF Ends, Routing, httpVars
  <2>4. ASSUME NEW b, NEW search \in BOOLEAN, NEW deep, CallHttp(b, search, deep) PROVE Routing
    BY <2>4 DEF CallHttp, Routing
  <2>5. ASSUME NEW b, NEW p, NEW search \in BOOLEAN, SendHttp(b, p, search) PROVE Routing
    BY <2>4, <2>5 DEF SendHttp
  <2>6. ASSUME NEW kind, Unready(kind) PROVE Routing
    BY <2>3, <2>6 DEF Unready
  <2>7. (asked.key = "websearch") \in BOOLEAN /\ FALSE \in BOOLEAN
    OBVIOUS
  <2>8. CASE Gate \/ ToNobody
    BY <2>1, <2>3, <2>6, <2>8, RoutingInTime DEF Gate, ToNobody
  <2>9. CASE ToCli \/ ViaLocalCli
    BY <2>1, <2>2, <2>9, RoutingInTime DEF ToCli, ViaLocalCli
  <2>10. CASE ToClaudeApi \/ ToHttp
    BY <2>1, <2>5, <2>6, <2>7, <2>10, RoutingInTime DEF ToClaudeApi, ToHttp
  <2>11. CASE ViaGateway
    BY <2>1, <2>5, <2>6, <2>7, <2>11, RoutingInTime DEF ViaGateway, ToGateway
  <2>12. CASE Returned
    BY <2>1, <2>3, <2>4, <2>7, <2>12, RoutingInTime DEF Returned
  <2>13. QED BY <1>4, <2>8, <2>9, <2>10, <2>11, <2>12
<1>5. QED BY <1>1, <1>2, <1>3, <1>4 DEF Next, DispatchNext, vars, callVars, httpVars

\* A call and all its retries are over within one deadline, and one more for each
\* continuation of a paused search, whatever fails when.
THEOREM OneDeadlineHolds == Spec => []OneDeadline
<1>1. DeadlineInv => OneDeadline
  BY DEF DeadlineInv
<1>2. QED BY DeadlineInit, DeadlineStep, <1>1, PTL DEF Spec

-----------------------------------------------------------------------------
(* One download per window (openrouter._model_efforts). *)

Record == [by : Members, began : Nat, ended : Nat \cup {-1}, good : BOOLEAN]

\* How long a download keeps the catalog from being fetched again.
Rest(d) == IF d.good THEN Refresh ELSE Again

EffortTypes ==
  /\ lookup \in [Members -> {"idle", "waiting", "loading", "answered"}]
  /\ downloads \in Seq(Record) /\ now \in Nat /\ refreshAt \in Nat
  /\ holder \in Members \cup {Nobody}

\* Only the last download may be under way, by the holder of the lock, whom the window
\* let through; every other has ended and the window is no shorter than it asked for.
EffortInv ==
  /\ EffortTypes
  /\ \A m \in Members : lookup[m] = "loading" => holder = m
  /\ holder # Nobody => refreshAt <= now
  /\ \A i \in DOMAIN downloads :
       IF downloads[i].ended = -1 THEN i = Len(downloads) /\ holder # Nobody
       ELSE downloads[i].ended + Rest(downloads[i]) <= refreshAt
  /\ OneDownloadPerWindow

LEMMA RestIsTime == \A d \in Record : Rest(d) \in Nat
BY RefreshAssumption DEF Rest, Record

LEMMA EffortsInit == Init => EffortInv
BY DEF Init, EffortInit, EffortInv, EffortTypes, OneDownloadPerWindow

\* Looking up, answering from the cache, sending and time leave the downloads alone.
LEMMA QuietKeepsEfforts ==
  ASSUME EffortInv, UNCHANGED <<downloads, holder, refreshAt>>, now' \in {now, now + 1},
         lookup' \in [Members -> {"idle", "waiting", "loading", "answered"}],
         \A m \in Members : lookup'[m] = "loading" => lookup[m] = "loading"
  PROVE  EffortInv'
<1> USE DEF EffortInv
<1>1. EffortTypes' /\ now <= now'
  BY DEF EffortTypes
<1>2. refreshAt <= now => refreshAt <= now'
  BY <1>1 DEF EffortTypes
<1>3. QED BY <1>1, <1>2 DEF OneDownloadPerWindow, Rest

\* A download begins when nobody holds the lock and the window is over.
LEMMA DownloadBegins ==
  ASSUME EffortInv, NEW m \in Members, holder = Nobody, refreshAt <= now,
         holder' = m, lookup' = [lookup EXCEPT ![m] = "loading"],
         downloads' = Append(downloads, [by |-> m, began |-> now, ended |-> -1, good |-> FALSE]),
         UNCHANGED <<now, refreshAt>>
  PROVE  EffortInv'
<1> USE NobodyAssumption
<1> DEFINE d == [by |-> m, began |-> now, ended |-> -1, good |-> FALSE]
           n == Len(downloads)
<1>1. d \in Record /\ d.began = now /\ d.ended = -1 /\ n \in Nat
  BY DEF EffortInv, EffortTypes, Record
<1>2. downloads' = Append(downloads, d) /\ downloads \in Seq(Record)
  BY DEF EffortInv, EffortTypes
<1>3. \A i \in DOMAIN downloads :
        /\ downloads[i] \in Record
        /\ downloads[i].ended # -1 /\ downloads[i].ended + Rest(downloads[i]) <= refreshAt
  BY <1>2 DEF EffortInv
<1> HIDE DEF d
<1>4. /\ downloads' \in Seq(Record) /\ Len(downloads') = n + 1 /\ DOMAIN downloads' = 1..(n + 1)
      /\ DOMAIN downloads = 1..n
      /\ downloads'[n + 1] = d /\ \A i \in 1..n : downloads'[i] = downloads[i]
  BY <1>1, <1>2
<1>5. EffortTypes'
  BY <1>4 DEF EffortInv, EffortTypes
<1>6. \A k \in Members : lookup'[k] = "loading" => holder' = k
  BY DEF EffortInv, EffortTypes
<1>7. \A i \in DOMAIN downloads' :
        IF downloads'[i].ended = -1 THEN i = Len(downloads') /\ holder' # Nobody
        ELSE downloads'[i].ended + Rest(downloads'[i]) <= refreshAt'
  BY <1>1, <1>3, <1>4
<1>8. OneDownloadPerWindow'
  <2> SUFFICES ASSUME NEW i \in DOMAIN downloads', NEW j \in DOMAIN downloads', i < j
               PROVE  /\ downloads'[i].ended # -1
                      /\ downloads'[j].began >= downloads'[i].ended + Rest(downloads'[i])
    BY DEF OneDownloadPerWindow, Rest
  <2>1. i \in DOMAIN downloads /\ downloads'[i] = downloads[i]
    BY <1>1, <1>4
  <2>2. CASE j = n + 1
    <3>1. downloads[i].ended \in Nat /\ Rest(downloads[i]) \in Nat
      BY <1>3, <2>1, RestIsTime DEF Record
    <3>2. downloads[i].ended + Rest(downloads[i]) <= refreshAt
      BY <1>3, <2>1
    <3>3. refreshAt \in Nat /\ now \in Nat
      BY DEF EffortInv, EffortTypes
    <3>4. QED BY <1>1, <1>4, <2>1, <2>2, <3>1, <3>2, <3>3, <1>3
  <2>3. CASE j # n + 1
    <3>1. j \in DOMAIN downloads /\ downloads'[j] = downloads[j]
      BY <1>1, <1>4, <2>3
    <3>2. QED BY <2>1, <3>1 DEF EffortInv, OneDownloadPerWindow, Rest
  <2>4. QED BY <2>2, <2>3
<1>9. QED BY <1>5, <1>6, <1>7, <1>8 DEF EffortInv

\* It ends, well or not, and sets the window from then on.
LEMMA DownloadEnds ==
  ASSUME EffortInv, NEW m \in Members, Downloaded(m)
  PROVE  EffortInv'
<1>1. PICK good \in BOOLEAN, i \in DOMAIN downloads :
        /\ downloads[i].by = m /\ downloads[i].ended = -1
        /\ refreshAt' = now + (IF good THEN Refresh ELSE Again)
        /\ downloads' = [downloads EXCEPT ![i].ended = now, ![i].good = good]
  BY DEF Downloaded
<1>2. holder = m /\ holder' = Nobody /\ now' = now /\ lookup' = [lookup EXCEPT ![m] = "answered"]
  BY DEF Downloaded, Answers, EffortInv
<1> DEFINE d == [[downloads[i] EXCEPT !.ended = now] EXCEPT !.good = good]
<1>3. downloads \in Seq(Record) /\ now \in Nat /\ refreshAt \in Nat /\ refreshAt <= now
  BY <1>2, NobodyAssumption DEF EffortInv, EffortTypes
<1>4. downloads[i] \in Record /\ i = Len(downloads) /\ DOMAIN downloads = 1..Len(downloads)
  BY <1>1, <1>3 DEF EffortInv
<1>5. d \in Record /\ d.ended = now /\ d.good = good /\ d.began = downloads[i].began
  BY <1>3, <1>4 DEF Record
<1>6. downloads' = [downloads EXCEPT ![i] = d]
  BY <1>1
<1> HIDE DEF d
<1>7. /\ downloads' \in Seq(Record) /\ Len(downloads') = Len(downloads) /\ DOMAIN downloads' = DOMAIN downloads
      /\ downloads'[i] = d /\ \A j \in DOMAIN downloads : j # i => downloads'[j] = downloads[j]
  BY <1>3, <1>4, <1>5, <1>6
<1>8. Rest(d) \in Nat /\ refreshAt' = now + Rest(d) /\ refreshAt <= refreshAt' /\ refreshAt' \in Nat
  BY <1>1, <1>3, <1>5, RestIsTime DEF Rest
<1>9. EffortTypes'
  BY <1>2, <1>3, <1>7, <1>8 DEF EffortInv, EffortTypes
<1>10. \A k \in Members : lookup'[k] # "loading"
  BY <1>2 DEF EffortInv, EffortTypes
<1>11. \A j \in DOMAIN downloads : j # i =>
         /\ downloads[j].ended \in Nat /\ Rest(downloads[j]) \in Nat
         /\ downloads[j].ended + Rest(downloads[j]) <= refreshAt
  <2> SUFFICES ASSUME NEW j \in DOMAIN downloads, j # i
               PROVE  /\ downloads[j].ended \in Nat /\ Rest(downloads[j]) \in Nat
                      /\ downloads[j].ended + Rest(downloads[j]) <= refreshAt
    OBVIOUS
  <2>1. downloads[j].ended # -1 /\ downloads[j].ended + Rest(downloads[j]) <= refreshAt
    BY <1>4 DEF EffortInv
  <2>2. downloads[j] \in Record
    BY <1>3
  <2>3. QED BY <2>1, <2>2, RestIsTime DEF Record
<1>12. \A j \in DOMAIN downloads' :
         downloads'[j].ended # -1 /\ downloads'[j].ended + Rest(downloads'[j]) <= refreshAt'
  <2> SUFFICES ASSUME NEW j \in DOMAIN downloads'
               PROVE  downloads'[j].ended # -1 /\ downloads'[j].ended + Rest(downloads'[j]) <= refreshAt'
    OBVIOUS
  <2>1. CASE j = i
    BY <1>3, <1>5, <1>7, <1>8, <2>1
  <2>2. CASE j # i
    BY <1>3, <1>7, <1>8, <1>11, <2>2
  <2>3. QED BY <2>1, <2>2
<1>13. OneDownloadPerWindow'
  <2> SUFFICES ASSUME NEW j \in DOMAIN downloads', NEW k \in DOMAIN downloads', j < k
               PROVE  /\ downloads'[j].ended # -1
                      /\ downloads'[k].began >= downloads'[j].ended + Rest(downloads'[j])
    BY DEF OneDownloadPerWindow, Rest
  <2>1. j # i /\ downloads'[j] = downloads[j] /\ downloads'[k].began = downloads[k].began
    BY <1>3, <1>4, <1>5, <1>7
  <2>2. QED BY <1>7, <2>1 DEF EffortInv, OneDownloadPerWindow, Rest
<1>14. QED BY <1>2, <1>9, <1>10, <1>12, <1>13 DEF EffortInv

LEMMA EffortStep == EffortInv /\ [Next]_vars => EffortInv'
<1> SUFFICES ASSUME EffortInv, [Next]_vars PROVE EffortInv'
  OBVIOUS
<1>1. ASSUME NEW m \in Members, LookUp(m) \/ Sent(m) PROVE EffortInv'
  BY <1>1, QuietKeepsEfforts DEF LookUp, Sent, EffortInv, EffortTypes
<1>2. ASSUME NEW m \in Members, Locked(m) PROVE EffortInv'
  <2>1. CASE Cached(m)
    BY <1>2, <2>1, QuietKeepsEfforts DEF Locked, Answers, EffortInv, EffortTypes
  <2>2. CASE ~Cached(m)
    <3>1. refreshAt <= now
      BY <2>2 DEF Cached, EffortInv, EffortTypes
    <3>2. QED BY <1>2, <2>2, <3>1, DownloadBegins DEF Locked
  <2>3. QED BY <2>1, <2>2
<1>3. ASSUME NEW m \in Members, Downloaded(m) PROVE EffortInv'
  BY <1>3, DownloadEnds
<1>4. CASE EffortTick
  BY <1>4, QuietKeepsEfforts DEF EffortTick, EffortInv, EffortTypes
<1>5. CASE UNCHANGED effortVars
  BY <1>5, QuietKeepsEfforts DEF effortVars, EffortInv, EffortTypes
<1>6. QED BY <1>1, <1>2, <1>3, <1>4, <1>5 DEF Next, EffortNext, vars

\* However many members of a panel miss at once, the catalog is downloaded by one of
\* them, and not again before the window of the last download is over.
THEOREM OneDownloadPerWindowHolds == Spec => []OneDownloadPerWindow
<1>1. EffortInv => OneDownloadPerWindow
  BY DEF EffortInv
<1>2. QED BY EffortsInit, EffortStep, <1>1, PTL DEF Spec

-----------------------------------------------------------------------------
(* Kimi's homes (kimi.build_sandbox). *)

\* A home holds nothing but its own effort, and no process has run with another's.
HomeInv ==
  /\ effort \in [Spawns -> Efforts] /\ DOMAIN ranWith = Spawns /\ DOMAIN config = Efforts
  /\ \A e \in Efforts : config[e] # NoConfig => config[e].effort = e
  /\ RunsItsOwnEffort

LEMMA HomesInit == Init => HomeInv
BY DEF Init, HomeInit, HomeInv, RunsItsOwnEffort

LEMMA HomeStep == HomeInv /\ [Next]_vars => HomeInv'
<1> SUFFICES ASSUME HomeInv, [Next]_vars PROVE HomeInv'
  OBVIOUS
<1> USE DEF HomeInv
<1>1. ASSUME NEW t \in Spawns, Build(t) PROVE HomeInv'
  <2>1. effort[t] \in Efforts /\ Rendered(t).effort = effort[t]
    BY DEF Rendered
  <2>2. config' = [config EXCEPT ![effort[t]] = Rendered(t)] \/ config' = config
    BY <1>1 DEF Build, HomeOf
  <2>3. UNCHANGED <<effort, ranWith>>
    BY <1>1 DEF Build
  <2>4. DOMAIN config' = Efforts /\ \A e \in Efforts : config'[e] # NoConfig => config'[e].effort = e
    BY <2>1, <2>2
  <2>5. QED BY <2>3, <2>4 DEF RunsItsOwnEffort
<1>2. ASSUME NEW t \in Spawns, Start(t) PROVE HomeInv'
  BY <1>2 DEF Start, HomeOf, RunsItsOwnEffort
<1>3. CASE (\E t \in Spawns : ReadBase(t)) \/ Edit \/ UNCHANGED homeVars
  BY <1>3 DEF ReadBase, Edit, homeVars, RunsItsOwnEffort
<1>4. QED BY <1>1, <1>2, <1>3 DEF Next, HomeNext, vars

\* Whatever calls of other efforts write between the building of a home and the start of
\* the process, it starts with its own call's effort.
THEOREM RunsItsOwnEffortHolds == Spec => []RunsItsOwnEffort
<1>1. HomeInv => RunsItsOwnEffort
  BY DEF HomeInv
<1>2. QED BY HomesInit, HomeStep, <1>1, PTL DEF Spec

-----------------------------------------------------------------------------
(* What a call's result says of its answer (anthropic_http.answer_from_turns,       *)
(* oracle_common.shape_stopped and the classifiers).                                 *)

\* The first of the turns that said something, which CHOOSE in Joined takes: it is there
\* for every history, since turns come one by one.
Spoken(turns) == {i \in DOMAIN turns : turns[i].text # "empty"}
HasFirst(turns) == Spoken(turns) = {} \/ \E i \in Spoken(turns) : \A j \in Spoken(turns) : i <= j

LEMMA FirstAfterOne ==
  ASSUME NEW turns \in Seq(Turns), HasFirst(turns), NEW turn \in Turns
  PROVE  HasFirst(Append(turns, turn))
<1> DEFINE later == Append(turns, turn)
<1>1. /\ DOMAIN turns = 1..Len(turns) /\ Len(turns) \in Nat /\ DOMAIN later = 1..(Len(turns) + 1)
      /\ later[Len(turns) + 1] = turn /\ \A i \in 1..Len(turns) : later[i] = turns[i]
  OBVIOUS
<1> HIDE DEF later
<1>2. /\ Spoken(turns) \subseteq 1..Len(turns) /\ Spoken(turns) \subseteq Spoken(later)
      /\ Spoken(later) \subseteq Spoken(turns) \cup {Len(turns) + 1}
  BY <1>1 DEF Spoken
<1>3. ASSUME Spoken(turns) = {} PROVE HasFirst(later)
  <2>1. \A i, j \in Spoken(later) : i = Len(turns) + 1 /\ j = i
    BY <1>2, <1>3
  <2>2. QED BY <1>1, <2>1 DEF HasFirst
<1>4. ASSUME Spoken(turns) # {} PROVE HasFirst(later)
  <2>1. PICK i \in Spoken(turns) : \A j \in Spoken(turns) : i <= j
    BY <1>4 DEF HasFirst
  <2>2. i \in Spoken(later) /\ i \in 1..Len(turns)
    BY <1>2, <2>1
  <2>3. ASSUME NEW j \in Spoken(later) PROVE i <= j
    <3>1. j \in Spoken(turns) \/ j = Len(turns) + 1
      BY <1>2
    <3>2. QED BY <1>1, <2>1, <2>2, <3>1
  <2>4. QED BY <2>2, <2>3 DEF HasFirst
<1>5. HasFirst(later)
  BY <1>3, <1>4
<1>6. QED BY <1>5 DEF later

LEMMA JoinedIsText ==
  ASSUME NEW turns \in Seq(Turns), HasFirst(turns)
  PROVE  Joined(turns) \in Texts
<1>1. CASE Spoken(turns) = {}
  BY <1>1 DEF Joined, Spoken, Texts
<1>2. CASE Spoken(turns) # {}
  <2>1. \E i \in Spoken(turns) : \A j \in Spoken(turns) : i <= j
    BY <1>2 DEF HasFirst
  <2> DEFINE first == CHOOSE i \in Spoken(turns) : \A j \in Spoken(turns) : i <= j
  <2>2. first \in Spoken(turns)
    BY <2>1
  <2>3. Joined(turns) = turns[first].text
    BY <1>2 DEF Joined, Spoken
  <2> HIDE DEF first
  <2>4. turns[first] \in Turns
    BY <2>2 DEF Spoken
  <2>5. QED BY <2>3, <2>4 DEF Turns
<1>3. QED BY <1>1, <1>2

LEMMA Fields ==
  \A kind : /\ Err(kind).status = "error" /\ Err(kind).kind = kind
            /\ Ok(kind).status = "ok" /\ Ok(kind).kind = kind
            /\ Declined(kind).status = "refused" /\ Declined(kind).kind = kind
BY DEF Err, Ok, Declined

\* An answer that passes as whole, and one that declines by itself.
Whole == Ok("")
Refusal == Declined("")

LEMMA Apart ==
  /\ Whole # Ok("truncated") /\ \A kind : Err(kind) # Whole /\ Declined(kind) # Whole
  /\ Refusal # Whole /\ ~Unusable(Whole) /\ ~Unusable(Refusal) /\ ~Unusable(Ok("truncated"))
  /\ ~Counted(Whole) /\ ~Counted(Ok("truncated")) /\ \A kind : ~Counted(Declined(kind))
<1>1. Whole # Ok("truncated")
  <2>1. "" # "truncated"
    BY Zenon
  <2>2. QED BY <2>1, Fields, Zenon DEF Whole
<1>2. \A kind : Err(kind) # Whole /\ Declined(kind) # Whole
  BY Fields, Zenon DEF Whole
<1>3. "" \notin {"context_too_large", "not_configured"}
  BY Zenon
<1>4. ~Unusable(Whole) /\ ~Unusable(Refusal)
  BY <1>3, Fields, Zenon DEF Unusable, Whole, Refusal
<1>5. ~Counted(Whole)
  BY Fields, Zenon DEF Counted, Whole
<1>6. ~Unusable(Ok("truncated")) /\ ~Counted(Ok("truncated")) /\ \A kind : ~Counted(Declined(kind))
  BY Fields DEF Unusable, Counted
<1>7. Refusal # Whole
  BY <1>2 DEF Refusal
<1>8. QED BY <1>1, <1>2, <1>4, <1>5, <1>6, <1>7

LEMMA StoppedIs ==
  ASSUME NEW text \in Texts, NEW stop
  PROVE  ShapeStopped(text, stop) =
           IF text = "declined" THEN Refusal
           ELSE IF text = "answer" THEN (IF stop = "cap" THEN Ok("truncated") ELSE Whole)
           ELSE Err(IF stop = "cap" THEN "budget_exhausted" ELSE "sdk_error")
<1>1. CASE text = "declined"
  BY <1>1 DEF ShapeStopped, Shape, Refusal
<1>2. CASE text = "answer"
  BY <1>2 DEF ShapeStopped, Shape, Whole
<1>3. CASE text = "empty"
  BY <1>3 DEF ShapeStopped, Shape
<1>4. QED BY <1>1, <1>2, <1>3 DEF Texts

\* The failures a classifier tells apart.
LEMMA HttpErrorIs ==
  ASSUME NEW code, NEW says, NEW r, r = HttpError(code, says)
  PROVE  /\ r = Declined("provider_refusal") \/ r = Err("payment_required") \/ r = Err("auth_failed")
            \/ r = Err("model_unavailable") \/ r = Err("rate_limit") \/ r = Err("sdk_error")
         /\ code \in {401, 402, 403} \/ "auth" \in says =>
              r = Declined("provider_refusal") \/ r = Err("payment_required") \/ r = Err("auth_failed")
         /\ r = Err("rate_limit") => code = 429 \/ "rate" \in says
         /\ r = Err("sdk_error") => code # 429 /\ "rate" \notin says
<1> DEFINE kind == HttpKind(code, says)
<1>1. kind \in {"provider_refusal", "payment_required", "auth_failed", "model_unavailable", "rate_limit", "sdk_error"}
  BY DEF HttpKind
<1>2. code \in {401, 402, 403} \/ "auth" \in says => kind \in {"provider_refusal", "payment_required", "auth_failed"}
  BY DEF HttpKind
<1>3. kind = "rate_limit" => code = 429 \/ "rate" \in says
  BY DEF HttpKind
<1>4. kind = "sdk_error" => code # 429 /\ "rate" \notin says
  BY DEF HttpKind
<1>5. r = IF kind = "provider_refusal" THEN Declined(kind) ELSE Err(kind)
  BY DEF HttpError
<1> HIDE DEF kind
<1>6. (r = Err("rate_limit") => kind = "rate_limit") /\ (r = Err("sdk_error") => kind = "sdk_error")
  BY <1>5, Fields
<1>7. QED BY <1>1, <1>2, <1>3, <1>4, <1>5, <1>6

\* What Over promises of an HTTP bridge's result.
HttpSays(r, turns, failure) ==
  /\ ~Unusable(r)
  /\ r = Whole => /\ turns[Len(turns)].stop \notin {"cap", "refusal"}
                  /\ research /\ Searched(turns) # {} => "ok" \in Searched(turns)
  /\ Counted(r) /\ r.kind # "timeout" =>
       \/ failure = None /\ ((turns[Len(turns)].stop = "cap" /\ Joined(turns) = "empty") => research /\ Fruitless(turns))
       \/ /\ failure # None /\ failure.code \notin {401, 402, 403} /\ "auth" \notin failure.says
          /\ r.kind = "rate_limit" <=> failure.code = 429 \/ "rate" \in failure.says

LEMMA ShapedSays ==
  ASSUME NEW turns, Joined(turns) \in Texts
  PROVE  HttpSays(Shaped(turns), turns, None)
<1> DEFINE stop == turns[Len(turns)].stop
           text == Joined(turns)
           r == Shaped(turns)
<1>1. CASE research /\ Fruitless(turns)
  <2>1. r = Err("rate_limit") \/ r = Err("sdk_error")
    BY <1>1 DEF Shaped
  <2>2. QED BY <1>1, <2>1, Fields, Apart DEF HttpSays, Unusable
<1>2. CASE ~(research /\ Fruitless(turns)) /\ stop = "refusal"
  <2>1. r = Declined("provider_refusal")
    BY <1>2 DEF Shaped
  <2>2. QED BY <2>1, Fields, Apart DEF HttpSays, Unusable
<1>3. CASE ~(research /\ Fruitless(turns)) /\ stop # "refusal"
  <2>1. r = ShapeStopped(text, stop)
    BY <1>3 DEF Shaped
  <2>2. research /\ Searched(turns) # {} => "ok" \in Searched(turns)
    BY <1>3 DEF Fruitless
  <2>3. CASE text = "declined"
    BY <2>1, <2>3, StoppedIs, Apart DEF HttpSays, Refusal
  <2>4. CASE text = "answer"
    BY <1>3, <2>1, <2>2, <2>4, StoppedIs, Apart DEF HttpSays
  <2>5. CASE text = "empty"
    <3>1. r = Err(IF stop = "cap" THEN "budget_exhausted" ELSE "sdk_error")
      BY <2>1, <2>5, StoppedIs
    <3>2. ~Unusable(r) /\ (Counted(r) => stop # "cap")
      BY <3>1, Fields DEF Unusable, Counted, NonHealth
    <3>3. QED BY <3>1, <3>2, Apart DEF HttpSays
  <2>6. QED BY <2>3, <2>4, <2>5 DEF Texts
<1>4. QED BY <1>1, <1>2, <1>3

LEMMA FailureSays ==
  ASSUME NEW turns, NEW f \in Failure
  PROVE  HttpSays(HttpError(Transport(f), f.says), turns, f) /\ HttpError(Transport(f), f.says) # Whole
<1> DEFINE code == Transport(f)
           r == HttpError(code, f.says)
<1>1. f # None
  BY NoneAssumption
<1>2. (f.code \in {401, 402, 403} => code = f.code) /\ (code = 429 <=> f.code = 429)
  BY DEF Transport, NoRoute, Dropped
<1> HIDE DEF code
<1>3. r # Whole /\ ~Unusable(r)
  BY HttpErrorIs, Fields, Apart DEF Unusable
<1>4. code \in {401, 402, 403} \/ "auth" \in f.says => ~Counted(r)
  BY HttpErrorIs, Fields DEF Counted, NonHealth
<1>5. Counted(r) => (r.kind = "rate_limit" <=> code = 429 \/ "rate" \in f.says)
  <2> SUFFICES ASSUME Counted(r) PROVE r.kind = "rate_limit" <=> code = 429 \/ "rate" \in f.says
    OBVIOUS
  <2>1. r = Err("rate_limit") \/ r = Err("sdk_error")
    BY HttpErrorIs, Fields, Apart DEF Counted, NonHealth
  <2>2. QED BY <2>1, HttpErrorIs, Fields
<1>6. QED BY <1>1, <1>2, <1>3, <1>4, <1>5 DEF HttpSays, code

\* What it promises of a CLI's.
Quiet(c) == IF c = "claude" THEN {"end", "refusal"} ELSE {"end"}
CliSays(c, r, ran, out) ==
  /\ r = Whole => out.stop \in Quiet(c) /\ ~out.tools
  /\ Counted(r) => ran \/ r.kind = "timeout"

\* A result that says nothing of the backend.
Aside(r) == \E kind \in NonHealth : r = Err(kind)

LEMMA AsideSays == \A r : Aside(r) => r # Whole /\ ~Counted(r)
BY Fields, Apart DEF Aside, Counted

LEMMA CliErrorSays ==
  ASSUME NEW c, NEW says, NEW out
  PROVE  CliSays(c, Err(CliKind(says)), TRUE, out) /\ ~Unusable(Err(CliKind(says)))
BY Fields, Apart DEF CliKind, CliSays, Unusable

LEMMA SdkErrorSays ==
  ASSUME NEW c, NEW says, NEW out
  PROVE  CliSays(c, HttpError(NoRoute, says), TRUE, out) /\ ~Unusable(HttpError(NoRoute, says))
<1> DEFINE r == HttpError(NoRoute, says)
<1>1. r # Whole /\ ~Unusable(r)
  BY HttpErrorIs, Fields, Apart DEF Unusable
<1>2. QED BY <1>1 DEF CliSays

\* A stop that is no cap is the end, or the one that only the print mode knows.
LEMMA StopsOfClis ==
  \A c \in Clis : \A out \in Outputs(c) : out.stop # "cap" => out.stop \in Quiet(c)
BY DEF Outputs, Quiet, Cli, Clis, CliOf, Codex, Gemini, Grok, Kimi, Minimax, ClaudeCli, ClaudeSdk

LEMMA OutputSays ==
  ASSUME NEW c \in Clis, NEW out \in Outputs(c)
  PROVE  CliSays(c, Output(c, out), TRUE, out) /\ ~Unusable(Output(c, out))
<1> DEFINE r == Output(c, out)
<1>1. out.text \in Texts
  BY DEF Outputs
<1>2. CASE out.text # "empty" /\ out.tools
  <2>1. r = Err("sdk_error")
    BY <1>2 DEF Output
  <2>2. QED BY <2>1, Fields, Apart DEF CliSays, Unusable
<1>3. CASE ~(out.text # "empty" /\ out.tools)
  <2>1. r = ShapeStopped(out.text, out.stop)
    BY <1>3 DEF Output
  <2>2. ~Unusable(r) /\ (r = Whole => out.stop # "cap" /\ out.text = "answer")
    BY <1>1, <2>1, StoppedIs, Fields, Apart DEF Unusable, Texts
  <2>3. out.stop # "cap" => out.stop \in Quiet(c)
    BY StopsOfClis
  <2>4. QED BY <1>3, <2>2, <2>3 DEF CliSays
<1>4. QED BY <1>2, <1>3

\* A CLI's step ends in one of these results.
LEMMA CliReturns ==
  ASSUME CliNext, cli \in Clis
  PROVE  /\ at = "process" /\ at' = "returned" /\ cli' = cli
         /\ CliSays(cli', result', spawned', said') /\ ~Unusable(result')
<1>1. CASE NeverSpawned
  <2>1. /\ at = "process" /\ at' = "returned" /\ cli' = cli
        /\ result' = Err("binary_missing") \/ result' = Err("bad_input")
    BY <1>1 DEF NeverSpawned, Returns
  <2>2. Aside(result')
    BY <2>1 DEF Aside, NonHealth
  <2>3. ~Unusable(result')
    BY <2>1, Fields DEF Unusable
  <2>4. QED BY <2>1, <2>2, <2>3, AsideSays DEF CliSays
<1>2. CASE CliTimesOut
  BY <1>2, Fields, Apart DEF CliTimesOut, Returns, CliSays, Unusable
<1>3. CASE Exits
  <2>1. PICK says \in SUBSET (Phrases \ {"field"}) :
          Returns(IF "flagged" \in says THEN Declined("provider_refusal") ELSE Err(CliKind(says)), TRUE, None)
    BY <1>3 DEF Exits
  <2>2. CASE "flagged" \in says
    BY <2>1, <2>2, Fields, Apart DEF Returns, CliSays, Unusable
  <2>3. CASE "flagged" \notin says
    <3>1. /\ at = "process" /\ at' = "returned" /\ result' = Err(CliKind(says)) /\ spawned' = TRUE
          /\ said' = None /\ cli' = cli
      BY <2>1, <2>3 DEF Returns
    <3>2. QED BY <3>1, CliErrorSays
  <2>4. QED BY <2>2, <2>3
<1>4. CASE SdkRaises
  <2>1. PICK says : Returns(HttpError(NoRoute, says), TRUE, None)
    BY <1>4 DEF SdkRaises
  <2>2. /\ at = "process" /\ at' = "returned" /\ result' = HttpError(NoRoute, says) /\ spawned' = TRUE
        /\ said' = None /\ cli' = cli
    BY <2>1 DEF Returns
  <2>3. QED BY <2>2, SdkErrorSays
<1>5. CASE SdkFails
  <2>1. PICK says \in SUBSET Phrases, salvaged \in BOOLEAN :
          Returns(IF salvaged THEN Ok("truncated")
                  ELSE IF "flagged" \in says THEN Declined("provider_refusal")
                  ELSE HttpError(NoRoute, says), TRUE, None)
    BY <1>5 DEF SdkFails
  <2>2. /\ at = "process" /\ at' = "returned" /\ spawned' = TRUE /\ said' = None /\ cli' = cli
        /\ result' \in {Ok("truncated"), Declined("provider_refusal"), HttpError(NoRoute, says)}
    BY <2>1 DEF Returns
  <2>3. CASE result' = HttpError(NoRoute, says)
    BY <2>2, <2>3, SdkErrorSays
  <2>4. CASE result' \in {Ok("truncated"), Declined("provider_refusal")}
    BY <2>2, <2>4, Fields, Apart DEF CliSays, Unusable
  <2>5. QED BY <2>2, <2>3, <2>4
<1>6. CASE Prints
  <2>1. PICK out \in Outputs(cli) : Returns(Output(cli, out), TRUE, out)
    BY <1>6 DEF Prints
  <2>2. /\ at = "process" /\ at' = "returned" /\ result' = Output(cli, out) /\ spawned' = TRUE
        /\ said' = out /\ cli' = cli
    BY <2>1 DEF Returns
  <2>3. QED BY <2>2, OutputSays
<1>7. QED BY <1>1, <1>2, <1>3, <1>4, <1>5, <1>6 DEF CliNext

-----------------------------------------------------------------------------
(* The call as a whole: where it is, what was heard, and what its result says.      *)

\* The router was told to ask a backend that there is not; its calls count nowhere.
Turned == asked.key = "websearch" /\ result = Err("unsupported_model")

CallInv ==
  /\ at \in {"route", "post", "process", "returned", "done"}
  /\ at \in {"route", "process", "returned"} => bridge = None /\ heard = <<>>
  /\ at = "post" => bridge \in HttpBridges
  /\ at = "process" => cli \in Clis
  /\ heard \in Seq(Turns) /\ HasFirst(heard)
  /\ at = "returned" \/ (Over /\ ~ByHttp) => CliSays(cli, result, spawned, said) \/ Turned
  /\ Over /\ ByHttp => HttpSays(result, heard, last)
  /\ Over /\ ByHttp /\ result = Whole => LastTurn.stop \in {"end"} \cup Unflagged

LEMMA CallInit == Init => CallInv
<1> SUFFICES ASSUME Init PROVE CallInv
  OBVIOUS
<1>1. at = "route" /\ bridge = None /\ heard = <<>>
  BY DEF Init, DispatchInit, HttpInit
<1>2. QED BY <1>1 DEF CallInv, HasFirst, Spoken, Over

\* The results a call may end in before any backend is asked.
LEMMA ResultsAside ==
  /\ \A kind \in {"disabled", "not_configured", "unknown_oracle", "binary_missing", "sdk_unavailable",
                  "context_too_large"} : Aside(Err(kind))
  /\ \A c, installed, fits, home :
       LET r == Refused(c, installed, fits, home)
       IN  r = None \/ (Aside(r) /\ (Unusable(r) => ~fits \/ (c = "kimi" /\ ~home)))
<1>1. \A kind \in {"disabled", "not_configured", "unknown_oracle", "binary_missing", "sdk_unavailable",
                   "context_too_large"} : Aside(Err(kind))
  BY DEF Aside, NonHealth
<1>2. ASSUME NEW c, NEW installed, NEW fits, NEW home
      PROVE  LET r == Refused(c, installed, fits, home)
             IN  r = None \/ (Aside(r) /\ (Unusable(r) => ~fits \/ (c = "kimi" /\ ~home)))
  <2> DEFINE r == Refused(c, installed, fits, home)
  <2>1. \/ r = None
        \/ r = Err("sdk_unavailable") \/ r = Err("binary_missing")
        \/ r = Err("context_too_large") /\ ~fits
        \/ r = Err("not_configured") /\ c = "kimi" /\ ~home
    BY DEF Refused
  <2> HIDE DEF r
  <2>2. r = None \/ Aside(r)
    BY <1>1, <2>1
  <2>3. r # None /\ Unusable(r) => ~fits \/ (c = "kimi" /\ ~home)
    BY <2>1, Fields DEF Unusable
  <2>4. QED BY <2>2, <2>3 DEF r
<1>3. QED BY <1>1, <1>2

\* A call that comes to its bridge, or ends without one.
LEMMA EndsAside ==
  ASSUME CallInv, at \in {"route", "returned"}, NEW r, Aside(r), Ends(r), UNCHANGED <<httpVars, cliVars>>
  PROVE  CallInv' /\ ~Counted(result')
<1>1. at' = "done" /\ result' = r /\ bridge' = None /\ heard' = heard
  BY DEF Ends, httpVars, CallInv
<1>2. r # Whole /\ ~Counted(r)
  BY AsideSays
<1>3. ~Over \/ CliSays(cli, result, spawned, said)'
  BY <1>1, <1>2 DEF CliSays
<1>4. QED BY <1>1, <1>2, <1>3 DEF CallInv, Over, ByHttp, CliSays

LEMMA Posting ==
  ASSUME CallInv, at \in {"route", "returned"}, NEW b \in HttpBridges, NEW search, NEW deep, CallHttp(b, search, deep)
  PROVE  CallInv' /\ at' = "post"
<1>1. at' = "post" /\ bridge' = b /\ heard' = heard
  BY DEF CallHttp
<1>2. QED BY <1>1 DEF CallInv, Over

LEMMA Spawning ==
  ASSUME CallInv, at = "route", NEW c \in Clis, SendCli(c)
  PROVE  /\ CallInv' /\ at' \in {"process", "returned"}
         /\ at' = "returned" =>
              ~Counted(result') /\ (Unusable(result') => ~asked.fits \/ (c = "kimi" /\ ~host.sandbox))
<1> DEFINE r == Refused(c, c \in host.installed, asked.fits, host.sandbox)
<1>1. /\ bridge' = None /\ heard' = heard /\ cli' = c
      /\ (r = None /\ at' = "process") \/ (r # None /\ at' = "returned" /\ result' = r)
  BY DEF SendCli, CallCli, httpVars, CallInv
<1>2. r = None \/ (Aside(r) /\ (Unusable(r) => ~asked.fits \/ (c = "kimi" /\ ~host.sandbox)))
  BY ResultsAside
<1> HIDE DEF r
<1>3. at' = "returned" => result' # Whole /\ ~Counted(result')
  BY <1>1, <1>2, AsideSays
<1>4. CallInv'
  BY <1>1, <1>3 DEF CallInv, Over, CliSays
<1>5. QED BY <1>1, <1>2, <1>3, <1>4

\* The words each provider may stop with.
LEMMA StopsOfBridges ==
  /\ \A b \in Gateways : Http(b).stops = {"end", "cap", "filter"}
  /\ Http("anthropic").stops = {"end", "cap", "pause", "refusal"} /\ Http("ollama").stops = {"end", "cap"}
BY DEF Gateways, Http, Anthropic, Atlas, OpenRouter, Ollama

\* A POST that is not the last changes neither what was heard, but by one turn, nor the
\* place; the last one's result says what it may.
LEMMA HttpKeepsCall ==
  ASSUME CallInv, HttpNext
  PROVE  CallInv' /\ at = "post" /\ at' \in {"post", "done"} /\ (at' = "done" => ~Unusable(result'))
<1>1. CASE Heard
  <2>1. PICK t \in Arrival, turn \in Turns :
          /\ turn.stop \in Http(bridge).stops /\ (~research => turn.stop # "pause")
          /\ last' = None /\ heard' = Append(heard, turn)
          /\ IF Paused(heard')
               THEN began' = t /\ retried' = FALSE /\ UNCHANGED <<at, result, told>>
               ELSE Done(Shaped(heard'), retries) /\ UNCHANGED <<began, retried>>
    BY <1>1 DEF Heard
  <2>2. at = "post" /\ bridge' = bridge /\ research' = research
    BY <1>1 DEF Heard
  <2>3. heard' \in Seq(Turns) /\ HasFirst(heard')
    BY <2>1, FirstAfterOne DEF CallInv
  <2>4. CASE Paused(heard')
    BY <2>1, <2>2, <2>3, <2>4 DEF CallInv, Over
  <2>5. CASE ~Paused(heard')
    <3>1. at' = "done" /\ result' = Shaped(heard')
      BY <2>1, <2>5 DEF Done
    <3>2. HttpSays(Shaped(heard'), heard', None)
      BY <2>3, JoinedIsText, ShapedSays
    <3>3. HttpSays(result, heard, last)'
      BY <2>1, <2>2, <3>1, <3>2 DEF HttpSays, Fruitless, Shaped
    <3>4. LastTurn' = turn /\ Len(heard') \in Nat
      BY <2>1 DEF LastTurn, CallInv
    <3>5. turn.stop = "pause" => research /\ Len(heard') > Continuations
      BY <2>1, <2>5, <3>4, TimesAssumption DEF Paused, LastTurn
    <3>6. ASSUME result' = Whole PROVE LastTurn'.stop \in {"end"} \cup Unflagged'
      <4>1. turn.stop \notin {"cap", "refusal"}
        BY <3>3, <3>4, <3>6 DEF HttpSays, LastTurn
      <4>2. bridge' = bridge /\ research' = research /\ bridge \in HttpBridges
        BY <2>2 DEF CallInv
      <4>3. CASE bridge \in Gateways
        <5>1. "filter" \in Unflagged'
          BY <4>2, <4>3 DEF Unflagged, Stops
        <5>2. turn.stop \in {"end", "cap", "filter"}
          BY <2>1, <4>3, StopsOfBridges
        <5>3. QED BY <3>4, <4>1, <5>1, <5>2
      <4>4. CASE bridge = "anthropic"
        <5>1. turn.stop \in {"end", "pause"}
          BY <2>1, <4>1, <4>4, StopsOfBridges
        <5>2. turn.stop = "pause" => "pause" \in Unflagged'
          BY <3>5, <4>2, <4>4 DEF Unflagged, Stops
        <5>3. QED BY <3>4, <5>1, <5>2
      <4>5. CASE bridge = "ollama"
        <5>1. turn.stop \in {"end", "cap"}
          BY <2>1, <4>5, StopsOfBridges
        <5>2. QED BY <3>4, <4>1, <5>1
      <4>6. QED BY <4>2, <4>3, <4>4, <4>5 DEF HttpBridges, Gateways
    <3>7. QED BY <2>2, <2>3, <3>1, <3>3, <3>6, NoneAssumption DEF CallInv, Over, ByHttp, HttpSays
  <2>6. QED BY <2>4, <2>5
<1>2. CASE FieldRejected \/ Retry
  BY <1>2 DEF FieldRejected, Retry, CallInv, Over
<1>3. CASE Fail
  <2>1. PICK f \in Failures :
          last' = f /\ transport' = Transport(f) /\ Done(HttpError(transport', f.says), retries)
    BY <1>3 DEF Fail
  <2>2. at = "post" /\ at' = "done" /\ result' = HttpError(Transport(f), f.says)
        /\ UNCHANGED <<bridge, heard, research>>
    BY <1>3, <2>1 DEF Fail, Done
  <2>3. HttpSays(HttpError(Transport(f), f.says), heard, f) /\ HttpError(Transport(f), f.says) # Whole
    BY FailureSays, FailuresAssumption
  <2>4. HttpSays(result, heard, last)'
    BY <2>1, <2>2, <2>3 DEF HttpSays, Fruitless
  <2>5. QED BY <2>2, <2>3, <2>4, NoneAssumption DEF CallInv, Over, ByHttp, HttpSays
<1>4. CASE TimesOut
  <2>1. at = "post" /\ at' = "done" /\ result' = Err("timeout") /\ UNCHANGED <<bridge, heard>>
    BY <1>4 DEF TimesOut, Done
  <2>2. result' # Whole /\ result'.kind = "timeout"
    BY <2>1, Fields, Apart
  <2>3. ~Unusable(result')
    BY <2>2 DEF Unusable
  <2>4. QED BY <2>1, <2>2, <2>3, NoneAssumption DEF CallInv, Over, ByHttp, HttpSays
<1>5. QED BY <1>1, <1>2, <1>3, <1>4 DEF HttpNext

LEMMA CliKeepsCall ==
  ASSUME CallInv, CliNext, UNCHANGED httpVars
  PROVE  CallInv' /\ at = "process" /\ at' = "returned" /\ ~Unusable(result')
<1>1. bridge' = bridge /\ heard' = heard
  BY DEF httpVars
<1>2. at = "process"
  BY DEF CliNext, NeverSpawned, CliTimesOut, Exits, SdkRaises, SdkFails, Prints, Returns
<1>3. cli \in Clis
  BY <1>2 DEF CallInv
<1>4. QED BY <1>1, <1>3, CliReturns DEF CallInv, Over

-----------------------------------------------------------------------------
(* The way of a call: whom it reached, and what it was turned away with.            *)

\* The operator's own CLI may take the call, and can.
Suits ==
  /\ asked.family \in host.usable \ host.denied
  /\ asked.fits /\ (asked.family = "kimi" => host.sandbox)

RouteInv ==
  /\ scene = "call" => asked \in Requests /\ host \in Hosts(asked)
  /\ scene # "call" => at = "route"
  /\ at = "route" => reached = {}
  /\ at \in {"post", "process"} => reached # {}
  /\ at \in {"post", "process", "returned"} => asked.key \notin host.denied
  /\ at = "returned" => /\ reached # {} \/ ~Counted(result)
                        /\ asked.key \in Gateways /\ Unusable(result) => ~Suits
  /\ asked.key # "websearch" => reached \cap host.denied = {}
  /\ asked.key \in Gateways /\ asked.key \in reached => ~Suits
  /\ Over => /\ asked.key \in Gateways /\ asked.key \in host.ready \ host.denied => ~Unusable(result)
             /\ Counted(result) => reached # {} \/ asked.key = "websearch"

LEMMA RouteInit == Init => RouteInv
BY DEF Init, DispatchInit, RouteInv, Over

\* What a request and its host leave open.
LEMMA Requested ==
  ASSUME asked \in Requests, host \in Hosts(asked)
  PROVE  /\ asked.family \in Families(asked.key)
         /\ asked.key \in Gateways => asked.family \in {"grok", "kimi", "other"}
         /\ host.denied \subseteq {asked.key, asked.family, "atlas"} \cap Keys
         /\ host.usable \subseteq {asked.family} \cap {"grok", "kimi"}
<1>1. asked.family \in Families(asked.key)
  BY DEF Requests
<1>2. asked.key \in Gateways => Families(asked.key) = {"grok", "kimi", "other"}
  BY DEF Families, Gateways
<1>3. host.denied \subseteq {asked.key, asked.family, "atlas"} \cap Keys
  BY DEF Hosts, Keys, Gateways
<1>4. host.usable \subseteq {asked.family} \cap {"grok", "kimi"}
  BY DEF Hosts
<1>5. QED BY <1>1, <1>2, <1>3, <1>4

\* A way that stays what it was.
LEMMA SameWay ==
  ASSUME RouteInv, scene = "call", UNCHANGED <<scene, asked, host, reached>>, at # "route",
         at \in {"post", "process"}, at' \in {at, "returned", "done"},
         at' \in {"returned", "done"} => ~Unusable(result')
  PROVE  RouteInv'
BY DEF RouteInv, Suits, Over

LEMMA EndsInRoute ==
  ASSUME CallInv, RouteInv, scene = "call", UNCHANGED <<scene, asked, host, reached, httpVars, cliVars>>,
         at = "route", NEW r, Aside(r), Ends(r),
         asked.key \in Gateways /\ asked.key \in host.ready => asked.key \in host.denied
  PROVE  CallInv' /\ RouteInv'
<1>1. CallInv' /\ ~Counted(result')
  BY EndsAside
<1>2. at' = "done"
  BY DEF Ends
<1>3. QED BY <1>1, <1>2 DEF RouteInv, Suits, Over

LEMMA CliInRoute ==
  ASSUME CallInv, RouteInv, scene = "call", UNCHANGED scene, Admitted, NEW c \in Clis, SendCli(c),
         asked.key # "websearch" => c \notin host.denied,
         asked.key \in Gateways => c = asked.family
  PROVE  CallInv' /\ RouteInv'
<1>1. /\ CallInv' /\ at' \in {"process", "returned"}
      /\ at' = "returned" => ~Counted(result') /\ (Unusable(result') => ~asked.fits \/ (c = "kimi" /\ ~host.sandbox))
  BY Spawning DEF Admitted
<1>2. UNCHANGED <<asked, host>> /\ reached' = IF at' = "process" THEN {c} ELSE {}
  BY DEF SendCli, RouteInv, Admitted
<1>3. asked.key \notin host.denied
  BY DEF Admitted
<1>4. c \notin Gateways
  BY DEF Clis, Gateways
<1>5. QED BY <1>1, <1>2, <1>3, <1>4 DEF RouteInv, Suits, Over

LEMMA HttpInRoute ==
  ASSUME CallInv, RouteInv, scene = "call", UNCHANGED scene, Admitted, NEW b \in HttpBridges, NEW provider,
         NEW search, SendHttp(b, provider, search),
         asked.key # "websearch" => provider \notin host.denied,
         asked.key \in Gateways => ~Suits
  PROVE  CallInv' /\ RouteInv'
<1>1. CallInv' /\ at' = "post"
  BY Posting DEF SendHttp, Admitted
<1>2. UNCHANGED <<asked, host>> /\ reached' = {provider}
  BY DEF SendHttp, RouteInv, Admitted
<1>3. asked.key \notin host.denied
  BY DEF Admitted
<1>4. QED BY <1>1, <1>2, <1>3 DEF RouteInv, Suits, Over

\* One action at a time.
LEMMA DispatchStep ==
  ASSUME CallInv, RouteInv, scene = "call", UNCHANGED scene, DispatchNext
  PROVE  CallInv' /\ RouteInv'
<1>1. asked \in Requests /\ host \in Hosts(asked)
  BY DEF RouteInv
<1>2. CASE Gate
  BY <1>2, ResultsAside, EndsInRoute DEF Gate
<1>3. CASE ToCli
  <2>1. Admitted /\ asked.family \in Clis /\ asked.key \notin Gateways /\ SendCli(asked.family)
    BY <1>3 DEF ToCli
  <2>2. asked.key # "websearch" => asked.family = asked.key \/ asked.family \in {"claude", "sdk"}
    BY <1>1, <2>1, Requested DEF Families, Clis
  <2>3. asked.key # "websearch" => asked.family \notin host.denied
    BY <1>1, <2>1, <2>2, Requested DEF Admitted, Keys, Gateways
  <2>4. QED BY <2>1, <2>3, CliInRoute
<1>4. CASE ToClaudeApi
  <2>1. Admitted /\ asked.family = "http"
    BY <1>4 DEF ToClaudeApi
  <2>2. asked.key \notin Gateways /\ (asked.key # "websearch" => asked.key = "fable")
    BY <1>1, <2>1, Requested DEF Families, Keys, Requests
  <2>3. CASE "http" \in host.ready
    BY <1>4, <2>1, <2>2, <2>3, HttpInRoute DEF ToClaudeApi, Admitted, HttpBridges
  <2>4. CASE "http" \notin host.ready
    BY <1>4, <2>1, <2>2, <2>4, ResultsAside, EndsInRoute DEF ToClaudeApi, Unready, Admitted
  <2>5. QED BY <2>3, <2>4
<1>5. CASE ToHttp
  <2>1. Admitted /\ asked.key \in {"glm", "deepseek", "ali", "ollama"} /\ asked.key \notin Gateways
    BY <1>5 DEF ToHttp, Gateways
  <2>2. CASE asked.key \in host.ready
    BY <1>5, <2>1, <2>2, HttpInRoute DEF ToHttp, Admitted, HttpBridges
  <2>3. CASE asked.key \notin host.ready /\ FallsBack
    BY <1>5, <2>1, <2>3, HttpInRoute DEF ToHttp, FallsBack, HttpBridges
  <2>4. CASE asked.key \notin host.ready /\ ~FallsBack
    BY <1>5, <2>1, <2>4, ResultsAside, EndsInRoute DEF ToHttp, Unready, Admitted
  <2>5. QED BY <2>2, <2>3, <2>4
<1>6. CASE ToNobody
  <2>1. CASE asked.key = "unknown" /\ Unready("unknown_oracle")
    BY <1>6, <2>1, ResultsAside, EndsInRoute DEF ToNobody, Unready, Admitted, Gateways
  <2>2. CASE asked.key = "websearch" /\ Unready("unsupported_model")
    <3>1. /\ at = "route" /\ at' = "done" /\ result' = Err("unsupported_model")
          /\ UNCHANGED <<asked, host, reached, bridge, heard>>
      BY <1>6, <2>2 DEF ToNobody, Admitted, Unready, Ends, httpVars
    <3>2. QED BY <2>2, <3>1 DEF CallInv, RouteInv, Over, ByHttp, Turned, Suits, Gateways
  <2>3. QED BY <1>6, <2>1, <2>2 DEF ToNobody
<1>7. CASE ViaLocalCli
  <2>1. Admitted /\ asked.key \in Gateways /\ LocalCli # None /\ SendCli(LocalCli)
    BY <1>7 DEF ViaLocalCli
  <2>2. LocalCli = asked.family /\ asked.family \notin host.denied /\ asked.family \in host.usable
    BY <2>1 DEF LocalCli
  <2>3. asked.family \in Clis
    BY <1>1, <2>2, Requested DEF Clis
  <2>4. QED BY <2>1, <2>2, <2>3, CliInRoute
<1>8. CASE ViaGateway
  <2>1. Admitted /\ asked.key \in Gateways /\ (LocalCli = None \/ ~asked.fits) /\ ToGateway
    BY <1>8 DEF ViaGateway
  <2>2. ~Suits
    <3>1. asked.family \in host.usable => asked.family \in Clis
      BY <1>1, Requested DEF Clis
    <3>2. QED BY <2>1, <3>1, NoCliAssumption DEF Suits, LocalCli
  <2>3. CASE GatewayReady
    <3>1. asked.key \in HttpBridges
      BY <2>1 DEF Gateways, HttpBridges
    <3>2. QED BY <2>1, <2>2, <2>3, <3>1, HttpInRoute DEF ToGateway, Admitted
  <2>4. CASE ~GatewayReady
    BY <2>1, <2>4, ResultsAside, EndsInRoute DEF ToGateway, GatewayReady, Unready, Admitted
  <2>5. QED BY <2>3, <2>4
<1>9. CASE Returned
  <2>1. at = "returned"
    BY <1>9 DEF Returned
  <2>2. CASE asked.key \in Gateways /\ Unusable(result) /\ GatewayReady
    <3>1. CallHttp(asked.key, FALSE, asked.deep) /\ reached' = reached \cup {asked.key} /\ UNCHANGED <<asked, host>>
      BY <1>9, <2>2 DEF Returned
    <3>2. asked.key \in HttpBridges
      BY <2>2 DEF Gateways, HttpBridges
    <3>3. CallInv' /\ at' = "post"
      BY <2>1, <3>1, <3>2, Posting
    <3>4. QED BY <2>1, <2>2, <3>1, <3>3 DEF RouteInv, Suits, Over
  <2>3. CASE ~(asked.key \in Gateways /\ Unusable(result) /\ GatewayReady)
    <3>1. at' = "done" /\ result' = result /\ UNCHANGED <<asked, host, reached, bridge, heard, cli, spawned, said>>
      BY <1>9, <2>3 DEF Returned, Ends, httpVars, cliVars
    <3>2. CallInv'
      BY <2>1, <3>1 DEF CallInv, Over, ByHttp, Turned
    <3>3. QED BY <2>1, <2>3, <3>1, <3>2 DEF RouteInv, Suits, Over, GatewayReady
  <2>4. QED BY <2>2, <2>3
<1>10. CASE HttpNext /\ UNCHANGED <<cliVars, asked, host, reached>>
  <2>1. CallInv' /\ at = "post" /\ at' \in {"post", "done"} /\ (at' = "done" => ~Unusable(result'))
    BY <1>10, HttpKeepsCall
  <2>2. RouteInv'
    BY <1>10, <2>1, SameWay
  <2>3. QED BY <2>1, <2>2
<1>11. CASE CliNext /\ UNCHANGED <<httpVars, asked, host, reached>>
  <2>1. CallInv' /\ at = "process" /\ at' = "returned" /\ ~Unusable(result')
    BY <1>11, CliKeepsCall
  <2>2. RouteInv'
    BY <1>11, <2>1, SameWay
  <2>3. QED BY <2>1, <2>2
<1>12. QED BY <1>2, <1>3, <1>4, <1>5, <1>6, <1>7, <1>8, <1>9, <1>10, <1>11 DEF DispatchNext

LEMMA RouteStep == CallInv /\ RouteInv /\ [Next]_vars => CallInv' /\ RouteInv'
<1> SUFFICES ASSUME CallInv, RouteInv, [Next]_vars PROVE CallInv' /\ RouteInv'
  OBVIOUS
<1>1. CASE scene = "call" /\ DispatchNext /\ UNCHANGED scene
  BY <1>1, DispatchStep
<1>2. CASE UNCHANGED <<scene, callVars, httpVars, cliVars>>
  BY <1>2 DEF CallInv, RouteInv, Over, ByHttp, Turned, Suits, HttpSays, CliSays, callVars, httpVars, cliVars,
              Fruitless, LastTurn, Unflagged
<1>3. QED BY <1>1, <1>2 DEF Next, vars

\* An answer that passes as whole is one, whatever the searches and the turns before it:
\* of all the reasons a provider may give for stopping, the end or one of the three that
\* the bridges do not look for (oracle_common.shape_stopped, anthropic_http, kimi).
THEOREM NoFalseAnswerHolds == Spec => []NoFalseAnswer
<1>1. CallInv => NoFalseAnswer
  <2>1. Turned => result # Whole
    BY Apart DEF Turned
  <2>2. SUFFICES ASSUME CallInv, Over, result = Whole
                 PROVE  /\ Stop \in {"end"} \cup Unflagged
                        /\ ByHttp /\ research /\ Searched(heard) # {} => "ok" \in Searched(heard)
                        /\ ~ByHttp => ~said.tools
    BY DEF NoFalseAnswer, Whole
  <2>3. CASE ByHttp
    BY <2>2, <2>3 DEF CallInv, HttpSays, Stop
  <2>4. CASE ~ByHttp
    <3>1. CliSays(cli, result, spawned, said) /\ bridge = None
      BY <2>1, <2>2, <2>4 DEF CallInv, ByHttp
    <3>2. Quiet(cli) \subseteq {"end"} \cup Unflagged
      BY <2>4 DEF Quiet, Unflagged, Stops
    <3>3. QED BY <2>2, <2>4, <3>1, <3>2 DEF CliSays, Stop
  <2>5. QED BY <2>3, <2>4
<1>2. QED BY CallInit, RouteInit, RouteStep, <1>1, PTL DEF Spec

\* What counts against a backend comes from a backend that was asked, on every way from a
\* token to a result, and is classified by the status and the words of the last attempt
\* alone (health.py's kinds, the classifiers, the cleared transport facts).
THEOREM CountedAsLastMetHolds == Spec => []CountedAsLastMet
<1>1. CallInv /\ RouteInv => CountedAsLastMet
  BY DEF CallInv, RouteInv, CountedAsLastMet, HttpSays, CliSays, LastTurn, Stop, Turned
<1>2. QED BY CallInit, RouteInit, RouteStep, <1>1, PTL DEF Spec

\* The denylist holds on every way, also for fallbacks and preferred CLIs, and a gateway
\* is asked only for what the operator's own CLI may not or cannot take
\* (oracles.run, _via_local_cli).
THEOREM RoutedAsAllowedHolds == Spec => []RoutedAsAllowed
<1>1. RouteInv => RoutedAsAllowed
  BY DEF RouteInv, RoutedAsAllowed, Suits, Unusable
<1>2. QED BY CallInit, RouteInit, RouteStep, <1>1, PTL DEF Spec
=============================================================================
