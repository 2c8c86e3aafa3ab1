------------------------------- MODULE Bridges --------------------------------
(* The bridges to the backends: one call from its token to its result, with what  *)
(* comes back from an HTTP backend or a CLI; and the two things that calls of       *)
(* several members and processes share on the way, OpenRouter's catalog of efforts  *)
(* and kimi's home directories.  The scenes have no state in common.                *)
EXTENDS Dispatch, EffortCache

VARIABLE scene

vars == <<scene, callVars, httpVars, cliVars, effortVars, homeVars>>

\* What no call is made of, while another scene is played.
NoRequest == [key |-> "unknown", family |-> "unknown", fits |-> TRUE, deep |-> FALSE]

Init ==
  /\ scene \in {"call", "efforts", "homes"}
  /\ asked \in IF scene = "call" THEN Requests ELSE {NoRequest}
  /\ host \in IF scene = "call" THEN Hosts(asked) ELSE {CHOOSE h \in Hosts(asked) : TRUE}
  /\ DispatchInit /\ EffortInit /\ HomeInit
  /\ scene # "homes" => \A t, u \in Spawns : effort[t] = effort[u]

Next ==
  \/ scene = "call" /\ DispatchNext /\ UNCHANGED <<scene, effortVars, homeVars>>
  \/ scene = "efforts" /\ EffortNext /\ UNCHANGED <<scene, callVars, httpVars, cliVars, homeVars>>
  \/ scene = "homes" /\ HomeNext /\ UNCHANGED <<scene, callVars, httpVars, cliVars, effortVars>>

Spec == Init /\ [][Next]_vars

-----------------------------------------------------------------------------
(* Properties. *)

Over == at = "done"
ByHttp == bridge # None
LastTurn == heard[Len(heard)]

TypeOK ==
  /\ at \in {"route", "post", "process", "returned", "done"}
  /\ asked \in Requests /\ host \in Hosts(asked)
  /\ result = None \/ (result.status \in {"ok", "error", "refused"} /\ DOMAIN result = {"status", "kind"})
  /\ bridge \in HttpBridges \cup {None} /\ cli \in Clis \cup {None}
  /\ field \in {"none", "sent", "left out"}
  /\ \A i \in DOMAIN heard : heard[i] \in Turns
  /\ {clock, began, posts, retries, told} \subseteq Nat
  /\ \A m \in Members : lookup[m] \in {"idle", "waiting", "loading", "answered"}
  /\ known \subseteq Models
  /\ \A t \in Spawns : spawn[t] \in {"new", "read", "built", "running", "failed"}

\* Why the provider says that it stopped.
Stop == IF ByHttp THEN LastTurn.stop ELSE said.stop

\* The stops that come back as whole answers though they are no end: a gateway's
\* content filter, a search still paused when the continuations are used up, and a
\* safeguard of Claude Code's print mode that exits with 0.
Unflagged ==
  {stop \in Stops :
     \/ stop = "filter" /\ bridge \in Gateways
     \/ stop = "pause" /\ bridge = "anthropic" /\ research /\ Len(heard) > Continuations
     \/ stop = "refusal" /\ ~ByHttp /\ cli = "claude"}

\* An answer that passes as whole is one the provider ended by itself, but for the
\* unflagged stops; it does not rest on searches that all failed, in whichever of its
\* turns; and no kimi tool ran for it.
NoFalseAnswer ==
  Over /\ result = Ok("") =>
    /\ Stop \in {"end"} \cup Unflagged
    /\ ByHttp /\ research /\ Searched(heard) # {} => "ok" \in Searched(heard)
    /\ ~ByHttp => ~said.tools

\* The same without the exceptions, which the code does not keep; no run checks it.
NoStopHidden == Over /\ result = Ok("") => Stop = "end"

\* However a call ends, it is over when its deadline is, with all its retries; only a
\* research call that the provider pauses gets another window, as often as agreed.
OneDeadline ==
  clock <= (IF research THEN 1 + Continuations ELSE 1) * (Timeout + Grace)

\* A result that counts against the backend's health is of a backend that was asked,
\* and it tells what the *last* attempt met, whatever the attempts before it left
\* behind: quota if that attempt was told of it, never a login or a payment, and for an
\* answer never one cut off by its budget, unless its searches failed.  A 400 that no
\* vocabulary explains counts as well.  A call that only queued for a CLI's slot is the
\* exception: its timeout counts.  The router's calls never reach the breaker.
CountedAsLastMet ==
  Over /\ asked.key # "websearch" /\ Counted(result) =>
    /\ reached # {}
    /\ ~ByHttp => spawned \/ result.kind = "timeout"
    /\ ByHttp /\ result.kind # "timeout" =>
         \/ last = None /\ (Stop = "cap" /\ Joined(heard) = "empty" => research /\ Fruitless(heard))
         \/ /\ last # None /\ last.code \notin {401, 402, 403} /\ "auth" \notin last.says
            /\ result.kind = "rate_limit" <=> last.code = 429 \/ "rate" \in last.says

\* No backend on the denylist is sent a prompt, not by a fallback and not by the
\* preference for a local CLI; the research router answers for itself.  A gateway is
\* asked only for what the operator's own CLI may not or cannot take, and nothing is
\* turned away that a configured gateway could have carried.
RoutedAsAllowed ==
  /\ asked.key # "websearch" => reached \cap host.denied = {}
  /\ asked.key \in Gateways =>
       /\ asked.key \in reached =>
            ~(/\ asked.family \in host.usable \ host.denied
              /\ asked.fits /\ (asked.family = "kimi" => host.sandbox))
       /\ Over /\ asked.key \in host.ready \ host.denied =>
            result.kind \notin {"context_too_large", "not_configured"}

\* A panel of calls that all miss the cache downloads the catalog once, and no
\* download starts within the window that the last one opened.
OneDownloadPerWindow ==
  \A i, j \in DOMAIN downloads : i < j =>
    /\ downloads[i].ended # -1
    /\ downloads[j].began >= downloads[i].ended + (IF downloads[i].good THEN Refresh ELSE Again)

\* A kimi process starts with the effort its call asked for, whatever calls of other
\* efforts wrote between its building the home and its turn to start.
RunsItsOwnEffort ==
  \A t \in Spawns : ranWith[t] # NoConfig => ranWith[t].effort = effort[t]
=============================================================================
