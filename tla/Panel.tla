-------------------------------- MODULE Panel --------------------------------
(* What the panel tools of server.py share: the answers of the models, what   *)
(* counts as a whole answer, and the handler's way out, a payload and the      *)
(* decision whether the answer cache may keep it.  A model's text is reduced   *)
(* to what the handlers branch on: its recommendation, its confidence, and     *)
(* whether the provider cut it off.                                            *)
EXTENDS Integers, Sequences, FiniteSets

CONSTANTS
  Voices,  \* the answers a stage of a chain or a debater may give
  None

VARIABLES
  pc,        \* where the handler is
  payload,   \* what it returned; None while it runs
  stored     \* the payload went into the answer cache

panelVars == <<pc, payload, stored>>

\* "thin" stands for needs_more_context, "none" for an answer without a usable
\* sidecar; "high" for any confidence that is not low.
Recs == {"apply", "reject", "investigate", "thin", "none"}

Replies == [status : {"ok"}, rec : Recs, conf : {"high", "low"}, whole : BOOLEAN]
ASSUME VoicesAssumption == Voices \subseteq Replies /\ None \notin {"low", "medium", "high"}

Failed(how) == [status |-> how]
Failures == {Failed("refused"), Failed("error")}

Answered(r) == r.status = "ok"
CutOff(r) == Answered(r) /\ ~r.whole

\* One rung down, and low stays low.
Downgraded(conf) == IF conf = "high" THEN "medium" ELSE "low"

Goto(label) == pc' = label /\ UNCHANGED <<payload, stored>>
Return(p, keep) == pc' = "done" /\ payload' = p /\ stored' = keep
=============================================================================
