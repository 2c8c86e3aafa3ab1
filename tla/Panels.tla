------------------------------- MODULE Panels --------------------------------
(* The panel tools of server.py, one request at a time, from the caller's words *)
(* to the payload: ask_council (and its local and hosted forms), ask_chain,     *)
(* ask_debate or ask_conference.  They share the way out, and the answer cache. *)
EXTENDS Admission

vars == <<panelVars, councilVars, chainVars, debateVars, conferenceVars>>

Init ==
  /\ pc = "ask" /\ payload = None /\ stored = FALSE
  /\ CouncilInit /\ ChainInit /\ DebateInit /\ ConferenceInit

Next ==
  \/ AdmissionNext
  \/ CouncilNext /\ UNCHANGED <<chainVars, debateVars, conferenceVars>>
  \/ ChainNext /\ UNCHANGED <<councilVars, debateVars, conferenceVars>>
  \/ DebateNext /\ UNCHANGED <<councilVars, chainVars, conferenceVars>>
  \/ ConferenceNext /\ UNCHANGED <<councilVars, chainVars, debateVars>>

Spec == Init /\ [][Next]_vars

-----------------------------------------------------------------------------

\* What the answers of a request were.
Said(tool) ==
  CASE tool = "council" -> {answers[s] : s \in DOMAIN answers}
    [] tool = "chain" -> {steps[i] : i \in DOMAIN steps}
    [] tool = "debate" -> {turns[i].reply : i \in DOMAIN turns}

\* A cached verdict is served to everyone who asks again, so none that a re-run
\* would better is kept (H1, F5): no answer in it was cut off, and it is what the
\* tool is for, a merge of at least two answers, the last stage's, or one that no
\* failure or timeout stood in for.
VerdictsCachedAreWhole ==
  stored =>
    /\ \A r \in Said(payload.tool) : ~CutOff(r)
    /\ payload.tool = "council" => merger.by # None /\ merger.whole /\ Cardinality(Ok(answers)) >= 2
    /\ payload.tool = "chain" => Answered(steps[length])
    /\ payload.tool = "debate" => \A i \in DOMAIN turns : turns[i].role \in {"refute", "adjudicate"} => Answered(turns[i].reply)

\* Nothing a panel returns, or leaves in the cache for the next to ask, claims more
\* than the answers it rests on.
VerdictsHoldUp == VerdictIsHonest /\ VerdictsCachedAreWhole
=============================================================================
