------------------------------- MODULE Debate --------------------------------
(* _debate of server.py: a proposer argues, an opponent refutes, the proposer  *)
(* revises, the opponent may rebut, and an adjudicator rules on what is still  *)
(* contested.  A timeout may fall at every await.  The claims ledgers are sets *)
(* of claim ids; the predicates on them are debate_ledger.py's.                *)
EXTENDS Panel

CONSTANT Claims  \* the ids of claims, proposed and added

ASSUME LedgersAssumption == None \notin [ids : SUBSET Claims, fresh : SUBSET Claims]

VARIABLES
  rounds,   \* of this debate
  turns,    \* who has spoken: role, reply, ledger
  open,     \* still_open
  ruling    \* the resolution an answer of the adjudicator will have

debateVars == <<rounds, turns, open, ruling>>

DebateInit == rounds = 1 /\ turns = <<>> /\ open = {} /\ ruling = None

\* A ledger that cannot be read, or that of a turn that failed, is None.  Of the
\* refutation: the ids contested or added; of the revision: those closed; of the
\* rebuttal: those contested, and which of them with something new.
Ledgers == {None} \cup [ids : SUBSET Claims, fresh : {{}}]
Rebuttals == Ledgers \cup [ids : SUBSET Claims, fresh : SUBSET Claims]

\* A model's turn, which answered or did not.
Spoke(role, ledgers) ==
  \E r \in Voices \cup Failures, l \in ledgers :
    /\ ~Answered(r) => l = None
    /\ turns' = Append(turns, [role |-> role, reply |-> r, ledger |-> l])

Latest == turns'[Len(turns')]
Spoken(role) == {i \in DOMAIN turns' : turns'[i].role = role /\ Answered(turns'[i].reply)}

\* The proposer's latest position: the revision, else the proposal.
Position == IF Spoken("revise") # {} THEN 3 ELSE 1
Recommended(i) == turns'[i].reply.rec

-----------------------------------------------------------------------------
(* finish *)

\* Nobody neutral decided: the answer does not keep its confidence.
Unruled(resolution) == resolution \in {"stalemate", "adjudicator_unavailable", "degraded_timeout"}

Material(resolution, contested) ==
  \/ resolution \in {"stalemate", "adjudicated", "adjudicator_unavailable"}
  \/ resolution = "degraded_timeout" /\ contested # {}

\* The answer of the turn at, under a resolution, with the contests left.
Finish(at, resolution, contested) ==
  LET reply == turns'[at].reply
      sure == IF reply.rec = "none" THEN None
              ELSE IF Unruled(resolution) THEN Downgraded(reply.conf) ELSE reply.conf
      degraded == resolution \in {"degraded_single_critic", "degraded_timeout", "adjudicator_unavailable"}
  IN Return([tool |-> "debate", status |-> "ok", at |-> at, resolution |-> resolution,
             conf |-> sure, open |-> contested, material |-> Material(resolution, contested)],
            ~degraded /\ \A i \in DOMAIN turns' : ~CutOff(turns'[i].reply))

Adjudicate(contested, resolution) ==
  Goto("adjudicate") /\ ruling' = resolution /\ open' = contested

Settle(at, resolution, contested) ==
  Finish(at, resolution, contested) /\ open' = contested /\ UNCHANGED ruling

-----------------------------------------------------------------------------
(* The turns. *)

DebateOpen ==
  /\ pc = "debate"
  /\ \/ Return([tool |-> "debate", status |-> "refused"], FALSE)
     \/ Goto("propose")
  /\ UNCHANGED debateVars

Propose ==
  /\ pc = "propose" /\ Spoke("propose", {None})
  /\ IF Answered(Latest.reply) THEN Goto("refute")
     ELSE Return([tool |-> "debate", status |-> Latest.reply.status], FALSE)
  /\ UNCHANGED <<rounds, open, ruling>>

\* No critic; an unreadable ledger; everything conceded; or something contested.
Refute ==
  /\ pc = "refute" /\ Spoke("refute", Ledgers)
  /\ IF ~Answered(Latest.reply) THEN Settle(1, "degraded_single_critic", {})
     ELSE IF Latest.ledger = None THEN Adjudicate({}, "adjudicated")
     ELSE IF Latest.ledger.ids = {} THEN Settle(1, "conceded", {})
     ELSE Goto("revise") /\ open' = Latest.ledger.ids /\ UNCHANGED ruling
  /\ UNCHANGED rounds

\* What the revision does not close stays open.
Revise ==
  /\ pc = "revise" /\ Spoke("revise", Ledgers)
  /\ IF Latest.ledger = None THEN Adjudicate(open, "adjudicated")
     ELSE LET still == open \ Latest.ledger.ids
              agreed == Recommended(2) = Recommended(3) /\ Recommended(2) # "none"
          IN IF still = {} /\ agreed THEN Settle(3, "converged", {})
             ELSE IF still # {} /\ rounds = 2 THEN Goto("rebut") /\ open' = still /\ UNCHANGED ruling
             ELSE Adjudicate(still, "adjudicated")
  /\ UNCHANGED rounds

\* Nothing contested any more; only what was said before; or something new.
Rebut ==
  /\ pc = "rebut" /\ Spoke("rebut", Rebuttals)
  /\ LET l == Latest.ledger
     IN IF l = None THEN Adjudicate(open, "adjudicated")
        ELSE IF l.ids = {} THEN Settle(3, "converged", {})
        ELSE IF l.ids \subseteq open /\ l.ids \cap l.fresh = {} THEN Adjudicate(open, "stalemate")
        ELSE Adjudicate(open, "adjudicated")
  /\ UNCHANGED rounds

\* The ruling; without one, the proposer's latest position.
Rule ==
  /\ pc = "adjudicate" /\ Spoke("adjudicate", {None})
  /\ IF Answered(Latest.reply) THEN Settle(Len(turns'), ruling, open)
     ELSE Settle(Position, "adjudicator_unavailable", open)
  /\ UNCHANGED rounds

Awaited == {"propose", "refute", "revise", "rebut", "adjudicate"}

\* The clock runs out at one of the awaits: the proposer's latest position.
DebateTimesOut ==
  /\ pc \in Awaited
  /\ UNCHANGED <<turns, rounds>>
  /\ IF turns = <<>> THEN Return([tool |-> "debate", status |-> "error"], FALSE) /\ UNCHANGED <<open, ruling>>
     ELSE Settle(Position, "degraded_timeout", open)

DebateNext == DebateOpen \/ Propose \/ Refute \/ Revise \/ Rebut \/ Rule \/ DebateTimesOut

-----------------------------------------------------------------------------
(* What the debate promises. *)

Concluded == pc = "done" /\ payload.tool = "debate" /\ payload.status = "ok"
TurnsOf(role) == {i \in DOMAIN turns : turns[i].role = role /\ Answered(turns[i].reply)}
\* The ids an answered, readable turn of a role names.
Named(role) == UNION {turns[i].ledger.ids : i \in {j \in TurnsOf(role) : turns[j].ledger # None}}
Dropped == \E i \in TurnsOf("rebut") : turns[i].ledger # None /\ turns[i].ledger.ids = {}

\* "Carrying the open claims out means the verdict reports them honestly instead of
\* reading like a clean win", and no answer that nobody neutral ruled on carries
\* "the proposer's own (often high) confidence": what the opponent contested, the
\* proposer left open and the opponent upheld is counted and told as a disagreement,
\* wherever the clock or the adjudicator cut the debate short.  The answer is the
\* ruling where there is one, else the proposer's latest position, "never the last
\* ok turn as such: that can be an attack on the answer".
VerdictIsHonest ==
  Concluded =>
    LET contested == IF Dropped THEN {} ELSE Named("refute") \ Named("revise")
        rulings == TurnsOf("adjudicate")
        candidates == IF rulings # {} THEN rulings ELSE TurnsOf("propose") \cup TurnsOf("revise")
    IN /\ payload.open = contested
       /\ contested # {} => payload.material /\ (payload.conf = "high" => payload.at \in rulings)
       /\ payload.at \in candidates /\ \A i \in candidates : i <= payload.at

\* TOOLS.md: "converged (all contests resolved and both sides agree)".
ConvergedIsAgreed ==
  Concluded /\ payload.resolution = "converged" =>
    LET last == CHOOSE i \in TurnsOf("refute") \cup TurnsOf("rebut") :
                  \A j \in TurnsOf("refute") \cup TurnsOf("rebut") : j <= i
    IN turns[last].reply.rec = turns[payload.at].reply.rec
=============================================================================
