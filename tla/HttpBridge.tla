------------------------------ MODULE HttpBridge ------------------------------
(* One call of an HTTP bridge: anthropic_http (GLM, DeepSeek, Ali, Fable's API    *)
(* transport), atlas, openrouter or ollama, over call_with_transient_retry.       *)
(* A POST and what comes of it is one action: the call has no other thread until  *)
(* its deadline.  Times are in the units of the deadline's parts.                 *)
EXTENDS Bridge

CONSTANTS
  Timeout,        \* the call's timeout, and the socket's
  Grace,          \* what the deadline adds to it
  Backoff,        \* the pause before the retry
  Window,         \* what must be left for a retry to be worth it
  Continuations,  \* _MAX_CONTINUATIONS
  Failures        \* the failures a POST may meet

ASSUME TimesAssumption ==
  /\ {Timeout, Grace, Backoff, Window, Continuations} \subseteq Nat
  /\ Timeout > 0 /\ Window > 0
ASSUME FailuresAssumption == Failures \subseteq Failure

VARIABLES
  bridge,     \* the bridge called; None before
  research,   \* the server-side web search is on
  field,      \* the optional field a gateway may reject: none, sent, or left out
  clock, began,  \* now, and when the deadline's window began
  posts,      \* POSTs made
  retried,    \* the window's one retry was used
  retries,    \* what the bridge counts
  told,       \* what its telemetry reports
  transport,  \* the status the last attempt left behind; NoRoute for none
  last,       \* the last failure
  heard       \* the successful turns

httpVars == <<bridge, research, field, clock, began, posts, retried, retries, told, transport, last, heard>>

\* What sets the bridges apart: whether they send, always or for deep reasoning, an
\* optional field that may be rejected, why their provider may say that it stopped,
\* and whether a call that times out counts the retries of its last turn only.
Anthropic == [field |-> "never", stops |-> {"end", "cap", "pause", "refusal"}, perTurn |-> TRUE]
Atlas == [field |-> "deep", stops |-> {"end", "cap", "filter"}, perTurn |-> FALSE]
OpenRouter == [field |-> "never", stops |-> {"end", "cap", "filter"}, perTurn |-> FALSE]
Ollama == [field |-> "always", stops |-> {"end", "cap"}, perTurn |-> FALSE]

HttpBridges == {"anthropic", "atlas", "openrouter", "ollama"}
ASSUME NoneAssumption == None \notin HttpBridges /\ None \notin Failure

Http(b) ==
  CASE b = "anthropic" -> Anthropic [] b = "atlas" -> Atlas [] b = "openrouter" -> OpenRouter
    [] b = "ollama" -> Ollama

Searches == {"none", "ok", "failed", "limited"}
Turns == [text : Texts, stop : Stops, search : Searches]

HttpInit ==
  /\ bridge = None /\ research = FALSE /\ field = "none"
  /\ clock = 0 /\ began = 0 /\ posts = 0 /\ retried = FALSE /\ retries = 0 /\ told = 0
  /\ transport = NoRoute /\ last = None /\ heard = <<>>

FieldOf(b, deep) ==
  IF Http(b).field = "always" \/ (Http(b).field = "deep" /\ deep) THEN "sent" ELSE "none"

\* The bridge is entered.
CallHttp(b, search, deep) ==
  /\ at' = "post" /\ bridge' = b /\ research' = search /\ field' = FieldOf(b, deep)
  /\ UNCHANGED <<clock, began, posts, retried, retries, told, transport, last, heard>>

\* Mutant of Deadline: a fresh window for every attempt.
DeadlinePerAttempt == clock + Timeout + Grace

\* Both attempts share one deadline.
Deadline == began + Timeout + Grace

\* The times at which a POST may be answered.
Arrival == clock..(Deadline - 1)

Done(r, count) ==
  /\ at' = "done" /\ result' = r /\ told' = count

-----------------------------------------------------------------------------
(* Answers. *)

\* What the search turns say together.
Searched(turns) == {turns[i].search : i \in DOMAIN turns} \ {"none"}

\* Mutant of Fruitless: only the last turn's searches are looked at.
FruitlessLast(turns) == turns[Len(turns)].search \in {"failed", "limited"}

\* Every search that was attempted failed.
Fruitless(turns) == Searched(turns) # {} /\ "ok" \notin Searched(turns)

FirstError(turns) ==
  turns[CHOOSE i \in DOMAIN turns :
          turns[i].search # "none" /\ \A j \in 1..(i - 1) : turns[j].search = "none"].search

\* The texts of the turns, joined.
Joined(turns) ==
  LET spoken == {i \in DOMAIN turns : turns[i].text # "empty"}
  IN IF spoken = {} THEN "empty"
     ELSE turns[CHOOSE i \in spoken : \A j \in spoken : i <= j].text

\* The result of a call whose last turn was heard.
Shaped(turns) ==
  LET stop == turns[Len(turns)].stop
  IN IF research /\ Fruitless(turns)
       THEN Err(IF FirstError(turns) = "limited" THEN "rate_limit" ELSE "sdk_error")
     ELSE IF stop = "refusal" THEN Declined("provider_refusal")
     ELSE ShapeStopped(Joined(turns), stop)

\* A pause of the provider's own search loop, to be continued.
Paused(turns) ==
  research /\ turns[Len(turns)].stop = "pause" /\ Len(turns) <= Continuations

\* A 200 that parses.  A paused turn is re-sent, in a window of its own.
Heard ==
  /\ at = "post"
  /\ \E t \in Arrival, turn \in Turns :
       /\ turn.stop \in Http(bridge).stops
       /\ ~research => turn.search = "none" /\ turn.stop # "pause"
       /\ clock' = t /\ posts' = posts + 1 /\ transport' = NoRoute /\ last' = None
       /\ heard' = Append(heard, turn)
       /\ IF Paused(heard')
            THEN began' = t /\ retried' = FALSE /\ UNCHANGED <<at, result, told>>
            ELSE Done(Shaped(heard'), retries) /\ UNCHANGED <<began, retried>>
  /\ UNCHANGED <<bridge, research, field, retries>>

-----------------------------------------------------------------------------
(* Failures. *)

Transient(f) == f.code \in {Dropped, 429, 500, 502, 503, 504, 529}

\* Mutant of Transport: an attempt without a status leaves the one before it.
TransportStale(f) == IF f.code \in {NoRoute, Dropped, 200} THEN transport ELSE f.code

\* What the attempt leaves for the classifier: cleared, then the HTTP status.
Transport(f) == IF f.code \in {NoRoute, Dropped, 200} THEN NoRoute ELSE f.code

\* A retry is worth it while its window fits under the deadline.
RetryFits(t) == Deadline - t - Backoff >= Window

\* The optional field is rejected: the same attempt re-sends without it.
FieldRejected ==
  /\ at = "post" /\ field = "sent"
  /\ \E t \in Arrival, f \in Failures :
       /\ f.code = 400 /\ "field" \in f.says
       /\ clock' = t /\ posts' = posts + 1 /\ retries' = retries + 1 /\ field' = "left out"
       /\ transport' = Transport(f) /\ last' = f
  /\ UNCHANGED <<at, result, bridge, research, began, retried, told, heard>>

\* Every attempt starts with the field again.
Retry ==
  /\ at = "post" /\ ~retried
  /\ \E t \in Arrival, f \in Failures :
       /\ Transient(f) /\ RetryFits(t)
       /\ clock' = t + Backoff /\ posts' = posts + 1 /\ retries' = retries + 1 /\ retried' = TRUE
       /\ transport' = Transport(f) /\ last' = f
  /\ field' = IF field = "none" THEN "none" ELSE "sent"
  /\ UNCHANGED <<at, result, bridge, research, began, told, heard>>

\* The failure is the answer.
Fail ==
  /\ at = "post"
  /\ \E t \in Arrival, f \in Failures :
       /\ ~(field = "sent" /\ f.code = 400 /\ "field" \in f.says)
       /\ ~(Transient(f) /\ ~retried /\ RetryFits(t))
       /\ clock' = t /\ posts' = posts + 1
       /\ transport' = Transport(f) /\ last' = f
       /\ Done(HttpError(transport', f.says), retries)
  /\ UNCHANGED <<bridge, research, field, began, retried, retries, heard>>

\* The socket or the deadline gives up.
TimesOut ==
  /\ at = "post"
  /\ clock' \in {t \in clock..Deadline : t >= clock + Timeout \/ t = Deadline}
  /\ posts' = posts + 1
  /\ Done(Err("timeout"), IF ~Http(bridge).perTurn THEN retries ELSE IF retried THEN 1 ELSE 0)
  /\ UNCHANGED <<bridge, research, field, began, retried, retries, transport, last, heard>>

HttpNext == Heard \/ FieldRejected \/ Retry \/ Fail \/ TimesOut
=============================================================================
