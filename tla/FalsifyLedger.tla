---------------------------- MODULE FalsifyLedger ----------------------------
(***************************************************************************)
(* The clerk's book (falsify_ledger.py and the clerk half of falsify.py):  *)
(* what a round of ask_falsify does to a ledger.  Claims have one domain   *)
(* and an id stands for one text.  A receipt is what the clerk made of it: *)
(* "ok" (a cite found in the corpus, a run that passed), "stable" or       *)
(* "unstable" (the metamorph check), or "bad" for every other.             *)
(***************************************************************************)
EXTENDS Integers, FiniteSets, Sequences, SequencesExt

CONSTANTS
  Ids,         \* ids the models give to claims
  Agents,      \* models, one per lab
  K,           \* DEFAULT_K
  MaxReopens,  \* _MAX_REOPENS
  NoClaim

ASSUME LedgerAssumption ==
  K \in Nat \ {0} /\ MaxReopens \in Nat /\ IsFiniteSet(Ids) /\ IsFiniteSet(Agents)

ReceiptKinds == {"ok", "bad", "stable", "unstable"}
Statuses == {"open", "killed", "survived"}

Attempt == [by : Agents, accepted : BOOLEAN, addressed : BOOLEAN]

Claim == [author : Agents, status : Statuses, receipts : Seq(ReceiptKinds),
          kills : Seq(Attempt), attempts : Nat, reopens : Nat]

Score == [kills : Nat, deaths : Nat, survives : Nat]

ASSUME NoClaimAssumption == NoClaim \notin Claim

Ledger == [round : Nat, fixpoint : BOOLEAN, edges : SUBSET (Ids \X Ids),
           claims : [Ids -> Claim \cup {NoClaim}], rep : [Agents -> Score]]

NewLedger ==
  [round |-> 0, fixpoint |-> FALSE, edges |-> {}, claims |-> [id \in Ids |-> NoClaim],
   rep |-> [a \in Agents |-> [kills |-> 0, deaths |-> 0, survives |-> 0]]]

ById(led) == {id \in Ids : led.claims[id] # NoClaim}
WithStatus(led, status) == {id \in ById(led) : led.claims[id].status = status}

----------------------------------------------------------------------------
(* What a claim stands on. *)

HasReceipt(c, kinds) == \E i \in DOMAIN c.receipts : c.receipts[i] \in kinds

Supported(c) == HasReceipt(c, {"ok", "stable"})
Compoundable(c) == c.status # "killed" /\ Supported(c)

\* An accepted kill that no re-assert has answered.
Fatal(kill) == kill.accepted /\ ~kill.addressed
StandsKilled(c) == \E i \in DOMAIN c.kills : Fatal(c.kills[i])

----------------------------------------------------------------------------
(* Asserting. *)

NewClaim(author, receipt) ==
  [author |-> author, status |-> "open", receipts |-> <<receipt>>, kills |-> <<>>,
   attempts |-> 0, reopens |-> 0]

\* Mutant: a claim may be reopened for ever.
MutNoReassert(c, answers) == c.status = "killed" /\ ~answers

NoReassert(c, answers) == c.status = "killed" /\ (c.reopens >= MaxReopens \/ ~answers)

\* A re-assert answers the kills, not the attempts that failed.
Answered(kill) == [kill EXCEPT !.addressed = @ \/ kill.accepted]

\* Mutant: what the claim withstood before its kill still counts.
MutReopened(c) ==
  [c EXCEPT !.status = "open", !.reopens = @ + 1,
            !.kills = [i \in DOMAIN @ |-> Answered(@[i])]]

Reopened(c) ==
  [c EXCEPT !.status = "open", !.attempts = 0, !.reopens = @ + 1,
            !.kills = [i \in DOMAIN @ |-> Answered(@[i])]]

WithReceipt(c, receipt) == [c EXCEPT !.receipts = Append(@, receipt)]

Restated(c, receipt) ==
  IF c.status = "killed" THEN Reopened(WithReceipt(c, receipt)) ELSE WithReceipt(c, receipt)

WithClaim(led, id, c) == [led EXCEPT !.claims[id] = c]

\* One row of an assert turn: a new claim, a restated one, or one rejected.
Asserted(led, id, author, receipt, answers) ==
  IF id \notin ById(led) THEN WithClaim(led, id, NewClaim(author, receipt))
  ELSE IF NoReassert(led.claims[id], answers) THEN led
  ELSE WithClaim(led, id, Restated(led.claims[id], receipt))

\* Claims the metamorph check is for.
Unchecked(led) ==
  {id \in WithStatus(led, "open") : ~Supported(led.claims[id])
                                    /\ ~HasReceipt(led.claims[id], {"stable", "unstable"})}

Checked(led, verdict) ==
  [led EXCEPT !.claims = [id \in Ids |->
     IF id \in DOMAIN verdict THEN WithReceipt(@[id], verdict[id]) ELSE @[id]]]

----------------------------------------------------------------------------
(* Attacking. *)

RecordKill(c, by, accepted) ==
  [c EXCEPT !.kills = Append(@, [by |-> by, accepted |-> accepted, addressed |-> FALSE]),
            !.status = IF accepted THEN "killed" ELSE @,
            !.attempts = IF accepted THEN @ ELSE @ + 1]

Withstood(led, id, killer) == WithClaim(led, id, RecordKill(led.claims[id], killer, FALSE))

Bumped(score, field, n) == [score EXCEPT ![field] = @ + n]
BumpRep(led, agent, field) == [led EXCEPT !.rep[agent] = Bumped(@, field, 1)]

Killed(led, id, killer) ==
  BumpRep(BumpRep(WithClaim(led, id, RecordKill(led.claims[id], killer, TRUE)), killer, "kills"),
          led.claims[id].author, "deaths")

Attackable(led) == {id \in ById(led) : led.claims[id].status # "killed"}

Challenged(led, id, killer) ==
  IF Compoundable(led.claims[id]) THEN Withstood(led, id, killer) ELSE Killed(led, id, killer)

\* A contra whose quote is in the corpus registers its new claim even when the
\* edge is refused.  The edge leaves a new node, so it closes no cycle.
ContraValid(led, target) == led.claims[target].status = "survived"

Contradicted(led, target, new, quoted, killer) ==
  IF ~quoted \/ new \in ById(led) THEN Withstood(led, target, killer)
  ELSE LET registered == WithClaim(led, new, NewClaim(killer, "ok"))
       IN IF ContraValid(registered, target)
          THEN Killed([registered EXCEPT !.edges = @ \cup {<<new, target>>}], target, killer)
          ELSE Withstood(registered, target, killer)

----------------------------------------------------------------------------
(* Closing a round. *)

StatusOf(c) ==
  IF StandsKilled(c) THEN "killed"
  ELSE IF Supported(c) /\ c.attempts >= K THEN "survived"
  ELSE IF c.status # "killed" THEN "open" ELSE "killed"

Resolve(led) ==
  [led EXCEPT !.claims = [id \in Ids |->
     IF id \in ById(led) THEN [@[id] EXCEPT !.status = StatusOf(led.claims[id])] ELSE NoClaim]]

CreditSurvivors(before, led) ==
  LET credits(a) == Cardinality({id \in WithStatus(led, "survived") \ WithStatus(before, "survived") :
                                   led.claims[id].author = a})
  IN [led EXCEPT !.rep = [a \in Agents |-> Bumped(@[a], "survives", credits(a))]]

Signature(led) ==
  <<[id \in ById(led) |-> LET c == led.claims[id] IN <<c.status, c.attempts, Len(c.receipts)>>], led.edges>>

EndOfRound(before, led) ==
  LET after == CreditSurvivors(before, Resolve(led))
  IN [after EXCEPT !.round = before.round + 1, !.fixpoint = Signature(before) = Signature(after)]
=============================================================================
