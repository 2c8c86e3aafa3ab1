-------------------------------- MODULE Bridge --------------------------------
(* What every bridge to a backend returns, and how a reply or a failure becomes *)
(* that: oracle_common.shape and shape_stopped, and the two error classifiers.   *)
(* A reply is reduced to what the bridges branch on: whether there is text, and  *)
(* why the provider stopped; a failure to its status and to the vocabularies     *)
(* found in its text.                                                            *)
EXTENDS Integers, Sequences, FiniteSets

CONSTANT None

VARIABLES
  at,      \* where the call is
  result   \* what the bridge returned; None before

Err(kind) == [status |-> "error", kind |-> kind]
Ok(kind) == [status |-> "ok", kind |-> kind]
Declined(kind) == [status |-> "refused", kind |-> kind]

\* "declined" stands for a text that begins with REFUSED:.
Texts == {"answer", "declined", "empty"}
\* "filter" stands for the provider's moderation and for any other word that is no end.
Stops == {"end", "cap", "pause", "refusal", "filter"}

Shape(text) ==
  CASE text = "empty" -> Err("sdk_error")
    [] text = "declined" -> Declined("")
    [] text = "answer" -> Ok("")

ShapeStopped(text, stop) ==
  CASE stop = "cap" /\ text = "answer" -> Ok("truncated")
    [] stop = "cap" /\ text = "empty" -> Err("budget_exhausted")
    [] OTHER -> Shape(text)

\* The vocabularies the classifiers look for; "field" is a complaint about an
\* optional request field, "flagged" one about the provider's moderation.
Phrases == {"auth", "model", "rate", "flagged", "field"}

\* Status 0 stands for a host that cannot be reached, 1 for a connection dropped
\* in mid-exchange; 200 is a body that is no answer.
NoRoute == 0
Dropped == 1
Statuses == {NoRoute, Dropped, 200, 400, 401, 402, 403, 404, 429, 500, 502, 503, 504, 529}

Failure == [code : Statuses, says : SUBSET Phrases]

HttpKind(code, says) ==
  IF code = 403 /\ "flagged" \in says THEN "provider_refusal"
  ELSE IF code = 402 THEN "payment_required"
  ELSE IF code \in {401, 403} \/ "auth" \in says THEN "auth_failed"
  ELSE IF "model" \in says THEN "model_unavailable"
  ELSE IF code = 429 \/ "rate" \in says THEN "rate_limit"
  ELSE "sdk_error"

\* http_error_detail with error_status.
HttpError(code, says) ==
  LET kind == HttpKind(code, says)
  IN IF kind = "provider_refusal" THEN Declined(kind) ELSE Err(kind)

\* A failed CLI, by what it printed.
CliKind(says) ==
  IF "auth" \in says THEN "auth_failed"
  ELSE IF "model" \in says THEN "model_unavailable"
  ELSE IF "rate" \in says THEN "rate_limit"
  ELSE "sdk_error"

\* health.py: the kinds that say nothing of the backend's health.
NonHealth ==
  {"not_configured", "unknown_oracle", "auth_failed", "circuit_open", "model_unavailable",
   "model_too_large", "payment_required", "budget_exhausted", "context_too_large", "bad_input",
   "binary_missing", "sdk_unavailable", "transport_incapable", "disabled", "bad_args",
   "model_not_found", "context_too_small", "busy"}

\* The breaker counts the result as an error of the backend's.
Counted(r) == r.status = "error" /\ r.kind \notin NonHealth
=============================================================================
