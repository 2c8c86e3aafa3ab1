---------------------------- MODULE FalsifyProofs ----------------------------
(***************************************************************************)
(* Falsify where keys are not deleted: no run's save forgets what another  *)
(* run has stored.  Two facts carry it.  Whatever the clerk does to a      *)
(* ledger, the ledger grows; and versions only rise, so the run that still *)
(* has the version of the row has grown its ledger from the row's.         *)
(***************************************************************************)
EXTENDS Falsify, SequenceTheorems, FiniteSetTheorems, TLAPS

-----------------------------------------------------------------------------
(* A claim continues another. *)

\* A prefix is a prefix element by element (IsPrefix of the receipts).
LEMMA PrefixByElements ==
  ASSUME NEW S, NEW s \in Seq(S), NEW t \in Seq(S)
  PROVE  IsPrefix(s, t) <=> Len(s) <= Len(t) /\ \A i \in 1..Len(s) : s[i] = t[i]
<1>1. CASE Len(s) <= Len(t)
  <2>1. \A i \in 1..Len(s) : s[i] \in S /\ t[i] \in S BY <1>1, LenProperties, ElementOfSeq
  <2>2. /\ SubSeq(s, 1, Len(s)) \in Seq(S) /\ Len(SubSeq(s, 1, Len(s))) = Len(s)
        /\ \A i \in 1..Len(s) : SubSeq(s, 1, Len(s))[i] = s[i]
    BY <2>1, LenProperties, SubSeqProperties
  <2>3. /\ SubSeq(t, 1, Len(s)) \in Seq(S) /\ Len(SubSeq(t, 1, Len(s))) = Len(s)
        /\ \A i \in 1..Len(s) : SubSeq(t, 1, Len(s))[i] = t[i]
    BY <2>1, LenProperties, SubSeqProperties
  <2>4. SubSeq(s, 1, Len(s)) = SubSeq(t, 1, Len(s)) <=> \A i \in 1..Len(s) : s[i] = t[i]
    BY <2>2, <2>3, SeqEqual
  <2> QED BY <1>1, <2>4 DEF IsPrefix
<1>2. CASE ~(Len(s) <= Len(t)) BY <1>2 DEF IsPrefix
<1> QED BY <1>1, <1>2

\* An unchanged claim continues itself.
LEMMA ContinuesSelf == ASSUME NEW c \in Claim PROVE Continues(c, c)
<1>1. c.receipts \in Seq(ReceiptKinds) /\ c.kills \in Seq(Attempt) /\ c.reopens \in Nat BY DEF Claim
<1>2. IsPrefix(c.receipts, c.receipts) BY <1>1, LenProperties, PrefixByElements
<1>3. Len(c.kills) \in Nat BY <1>1, LenProperties
<1> QED BY <1>1, <1>2, <1>3 DEF Continues, SameAttack

\* To continue is transitive.
LEMMA ContinuesOn ==
  ASSUME NEW c \in Claim, NEW d \in Claim, NEW e \in Claim, Continues(c, d), Continues(d, e)
  PROVE  Continues(c, e)
<1>1. /\ c.receipts \in Seq(ReceiptKinds) /\ d.receipts \in Seq(ReceiptKinds) /\ e.receipts \in Seq(ReceiptKinds)
      /\ c.kills \in Seq(Attempt) /\ d.kills \in Seq(Attempt) /\ e.kills \in Seq(Attempt)
      /\ c.reopens \in Nat /\ d.reopens \in Nat /\ e.reopens \in Nat
  BY DEF Claim
<1>2. IsPrefix(c.receipts, e.receipts)
  <2>1. Len(c.receipts) \in Nat /\ Len(d.receipts) \in Nat /\ Len(e.receipts) \in Nat BY <1>1, LenProperties
  <2>2. /\ Len(c.receipts) <= Len(d.receipts) /\ Len(d.receipts) <= Len(e.receipts)
        /\ \A i \in 1..Len(c.receipts) : c.receipts[i] = d.receipts[i]
        /\ \A i \in 1..Len(d.receipts) : d.receipts[i] = e.receipts[i]
    BY <1>1, PrefixByElements DEF Continues
  <2>3. Len(c.receipts) <= Len(e.receipts) /\ \A i \in 1..Len(c.receipts) : c.receipts[i] = e.receipts[i]
    BY <2>1, <2>2
  <2> QED BY <1>1, <2>3, PrefixByElements
<1>3. /\ DOMAIN c.kills = 1..Len(c.kills) /\ DOMAIN d.kills = 1..Len(d.kills)
      /\ Len(c.kills) \in Nat /\ Len(d.kills) \in Nat /\ Len(e.kills) \in Nat
  BY <1>1, LenProperties
<1>4. Len(c.kills) <= Len(e.kills) BY <1>3 DEF Continues
<1>5. \A i \in DOMAIN c.kills : SameAttack(c.kills[i], e.kills[i])
  <2> SUFFICES ASSUME NEW i \in DOMAIN c.kills PROVE SameAttack(c.kills[i], e.kills[i]) OBVIOUS
  <2>1. i \in DOMAIN d.kills BY <1>3 DEF Continues
  <2> QED BY <2>1 DEF Continues, SameAttack
<1> QED BY <1>1, <1>2, <1>4, <1>5 DEF Continues

\* A receipt is added at the end.
LEMMA ReceiptContinues ==
  ASSUME NEW c \in Claim, NEW receipt \in ReceiptKinds
  PROVE  WithReceipt(c, receipt) \in Claim /\ Continues(c, WithReceipt(c, receipt))
<1> DEFINE d == WithReceipt(c, receipt)
<1>1. c.receipts \in Seq(ReceiptKinds) /\ c.kills \in Seq(Attempt) /\ c.reopens \in Nat BY DEF Claim
<1>2. /\ d.receipts = Append(c.receipts, receipt) /\ d.kills = c.kills /\ d.author = c.author
      /\ d.reopens = c.reopens
  BY DEF Claim, WithReceipt
<1>3. d.receipts \in Seq(ReceiptKinds) BY <1>1, <1>2, AppendProperties
<1>4. d \in Claim BY <1>1, <1>3 DEF Claim, WithReceipt
<1>5. IsPrefix(c.receipts, d.receipts)
  <2>1. Len(d.receipts) = Len(c.receipts) + 1 /\ \A i \in 1..Len(c.receipts) : d.receipts[i] = c.receipts[i]
    BY <1>1, <1>2, AppendProperties
  <2>2. Len(c.receipts) <= Len(d.receipts) BY <1>1, <2>1, LenProperties
  <2> HIDE DEF d
  <2> QED BY <1>1, <1>3, <2>1, <2>2, PrefixByElements
<1>6. Len(c.kills) \in Nat BY <1>1, LenProperties
<1> QED BY <1>1, <1>2, <1>4, <1>5, <1>6 DEF Continues, SameAttack

\* Reopened by an answer, a claim keeps its attacks, the accepted ones answered.
LEMMA ReopenedContinues ==
  ASSUME NEW c \in Claim
  PROVE  Reopened(c) \in Claim /\ Continues(c, Reopened(c))
<1> DEFINE answered == [i \in DOMAIN c.kills |-> Answered(c.kills[i])]
           d == Reopened(c)
<1>1. /\ c.receipts \in Seq(ReceiptKinds) /\ c.kills \in Seq(Attempt) /\ c.reopens \in Nat
      /\ c.author \in Agents
  BY DEF Claim
<1>2. DOMAIN c.kills = 1..Len(c.kills) /\ Len(c.kills) \in Nat BY <1>1, LenProperties
<1>3. /\ d.author = c.author /\ d.status = "open" /\ d.receipts = c.receipts /\ d.kills = answered
      /\ d.attempts = 0 /\ d.reopens = c.reopens + 1
  BY DEF Reopened, Claim
<1>4. \A i \in DOMAIN c.kills : answered[i] \in Attempt /\ SameAttack(c.kills[i], answered[i])
  <2> SUFFICES ASSUME NEW i \in DOMAIN c.kills
               PROVE  answered[i] \in Attempt /\ SameAttack(c.kills[i], answered[i])
    OBVIOUS
  <2>1. c.kills[i] \in Attempt BY <1>1, <1>2, ElementOfSeq
  <2>2. answered[i] = [by |-> c.kills[i].by, accepted |-> c.kills[i].accepted,
                       addressed |-> c.kills[i].addressed \/ c.kills[i].accepted]
    BY <2>1 DEF Attempt, Answered
  <2> QED BY <2>1, <2>2 DEF Attempt, SameAttack
<1>5. answered \in Seq(Attempt) /\ Len(answered) = Len(c.kills)
  <2>1. answered \in [1..Len(c.kills) -> Attempt] BY <1>2, <1>4
  <2> HIDE DEF answered
  <2> QED BY <1>2, <2>1
<1> HIDE DEF answered
<1>6. d \in Claim
  <2>1. ASSUME NEW kills \in Seq(Attempt), NEW reopens \in Nat
        PROVE  [c EXCEPT !.status = "open", !.attempts = 0, !.reopens = reopens, !.kills = kills] \in Claim
    BY <1>1 DEF Claim, Statuses
  <2>2. d = [c EXCEPT !.status = "open", !.attempts = 0, !.reopens = c.reopens + 1, !.kills = answered]
    BY DEF Reopened, answered
  <2>3. c.reopens + 1 \in Nat BY <1>1
  <2> HIDE DEF d
  <2> QED BY <1>5, <2>1, <2>2, <2>3
<1>7. IsPrefix(c.receipts, d.receipts) BY <1>1, <1>3, LenProperties, PrefixByElements
<1>8. /\ d.author = c.author /\ d.reopens >= c.reopens /\ d.kills = answered
      /\ Len(c.kills) <= Len(d.kills)
  BY <1>1, <1>2, <1>3, <1>5
<1> HIDE DEF d
<1>9. Continues(c, d) BY <1>4, <1>7, <1>8 DEF Continues
<1> QED BY <1>6, <1>9 DEF d

\* Restated, with a receipt, and reopened if it was dead (apply_asserts).
LEMMA RestatedContinues ==
  ASSUME NEW c \in Claim, NEW receipt \in ReceiptKinds
  PROVE  Restated(c, receipt) \in Claim /\ Continues(c, Restated(c, receipt))
<1> DEFINE d == WithReceipt(c, receipt)
<1>1. d \in Claim /\ Continues(c, d) BY ReceiptContinues
<1> HIDE DEF d
<1>2. Reopened(d) \in Claim /\ Continues(d, Reopened(d)) BY <1>1, ReopenedContinues
<1>3. Continues(c, Reopened(d)) BY <1>1, <1>2, ContinuesOn
<1>4. Restated(c, receipt) = IF c.status = "killed" THEN Reopened(d) ELSE d BY DEF Restated, d
<1> QED BY <1>1, <1>2, <1>3, <1>4

\* An attack is recorded after the others (record_kill).
LEMMA KillContinues ==
  ASSUME NEW c \in Claim, NEW by \in Agents, NEW accepted \in BOOLEAN
  PROVE  RecordKill(c, by, accepted) \in Claim /\ Continues(c, RecordKill(c, by, accepted))
<1> DEFINE attack == [by |-> by, accepted |-> accepted, addressed |-> FALSE]
           kills == Append(c.kills, attack)
           d == RecordKill(c, by, accepted)
<1>1. /\ c.receipts \in Seq(ReceiptKinds) /\ c.kills \in Seq(Attempt) /\ c.reopens \in Nat
      /\ c.author \in Agents /\ c.attempts \in Nat /\ c.status \in Statuses
  BY DEF Claim
<1>2. attack \in Attempt BY DEF Attempt
<1>3. /\ d.author = c.author /\ d.receipts = c.receipts /\ d.kills = kills /\ d.reopens = c.reopens
  BY DEF RecordKill, Claim
<1> HIDE DEF attack
<1>4. /\ kills \in Seq(Attempt) /\ Len(kills) = Len(c.kills) + 1
      /\ \A i \in 1..Len(c.kills) : kills[i] = c.kills[i]
  BY <1>1, <1>2, AppendProperties
<1> HIDE DEF kills
<1>5. DOMAIN c.kills = 1..Len(c.kills) /\ Len(c.kills) \in Nat BY <1>1, LenProperties
<1>6. d \in Claim
  <2>1. ASSUME NEW ks \in Seq(Attempt), NEW status \in Statuses, NEW attempts \in Nat
        PROVE  [c EXCEPT !.kills = ks, !.status = status, !.attempts = attempts] \in Claim
    BY <1>1 DEF Claim
  <2> DEFINE status == IF accepted THEN "killed" ELSE c.status
             attempts == IF accepted THEN c.attempts ELSE c.attempts + 1
  <2>2. d = [c EXCEPT !.kills = kills, !.status = status, !.attempts = attempts]
    BY DEF RecordKill, kills, attack
  <2>3. status \in Statuses /\ attempts \in Nat BY <1>1 DEF Statuses
  <2> HIDE DEF d, status, attempts
  <2> QED BY <1>4, <2>1, <2>2, <2>3
<1>7. IsPrefix(c.receipts, d.receipts) BY <1>1, <1>3, LenProperties, PrefixByElements
<1>8. /\ d.author = c.author /\ d.reopens >= c.reopens /\ d.kills = kills
      /\ Len(c.kills) <= Len(d.kills)
  BY <1>1, <1>3, <1>4, <1>5
<1> HIDE DEF d
<1>9. Continues(c, d) BY <1>4, <1>5, <1>7, <1>8 DEF Continues, SameAttack
<1> QED BY <1>6, <1>9 DEF d

-----------------------------------------------------------------------------
(* A ledger grows. *)

Grows(led, later) ==
  /\ ById(led) \subseteq ById(later) /\ led.edges \subseteq later.edges
  /\ \A id \in ById(led) : Continues(led.claims[id], later.claims[id])

\* What stands in a ledger under an id is a claim.
LEMMA ClaimsOf == \A led \in Ledger : \A id \in ById(led) : id \in Ids /\ led.claims[id] \in Claim
BY DEF Ledger, ById

LEMMA GrowsSelf == \A led \in Ledger : Grows(led, led)
BY ClaimsOf, ContinuesSelf DEF Grows

LEMMA GrowsOn ==
  ASSUME NEW x \in Ledger, NEW y \in Ledger, NEW z \in Ledger, Grows(x, y), Grows(y, z)
  PROVE  Grows(x, z)
<1>1. ASSUME NEW id \in ById(x) PROVE Continues(x.claims[id], z.claims[id])
  <2>1. id \in ById(y) /\ id \in ById(z) BY DEF Grows
  <2>2. x.claims[id] \in Claim /\ y.claims[id] \in Claim /\ z.claims[id] \in Claim BY <2>1, ClaimsOf
  <2>3. Continues(x.claims[id], y.claims[id]) /\ Continues(y.claims[id], z.claims[id]) BY <2>1 DEF Grows
  <2> QED BY <2>2, <2>3, ContinuesOn
<1> QED BY <1>1 DEF Grows

\* One claim is new, or continues what stood there.
LEMMA ClaimGrows ==
  ASSUME NEW led \in Ledger, NEW id \in Ids, NEW c \in Claim,
         id \in ById(led) => Continues(led.claims[id], c)
  PROVE  WithClaim(led, id, c) \in Ledger /\ Grows(led, WithClaim(led, id, c))
<1> DEFINE later == WithClaim(led, id, c)
<1>1. later \in Ledger BY DEF WithClaim, Ledger
<1>2. later.edges = led.edges /\ later.claims = [led.claims EXCEPT ![id] = c] BY DEF WithClaim, Ledger
<1>3. led.claims \in [Ids -> Claim \cup {NoClaim}] BY DEF Ledger
<1> HIDE DEF later
<1>4. later.claims[id] = c /\ \A i \in Ids \ {id} : later.claims[i] = led.claims[i] BY <1>2, <1>3
<1>5. c # NoClaim BY NoClaimAssumption
<1>6. \A i \in ById(led) : i \in ById(later) /\ Continues(led.claims[i], later.claims[i])
  <2> SUFFICES ASSUME NEW i \in ById(led) PROVE i \in ById(later) /\ Continues(led.claims[i], later.claims[i])
    OBVIOUS
  <2>1. i \in Ids /\ led.claims[i] \in Claim BY ClaimsOf
  <2>2. CASE i = id BY <1>4, <1>5, <2>2 DEF ById
  <2>3. CASE i # id BY <1>4, <2>1, <2>3, ContinuesSelf DEF ById
  <2> QED BY <2>2, <2>3
<1>7. Grows(led, later) BY <1>2, <1>6 DEF Grows
<1> QED BY <1>1, <1>7 DEF later

LEMMA ScoreBumped ==
  ASSUME NEW s \in Score, NEW field \in {"kills", "deaths", "survives"}, NEW n \in Nat
  PROVE  Bumped(s, field, n) \in Score
BY DEF Bumped, Score

\* Reputation is not part of what grows.
LEMMA RepGrows ==
  ASSUME NEW led \in Ledger, NEW a \in Agents, NEW field \in {"kills", "deaths", "survives"}
  PROVE  BumpRep(led, a, field) \in Ledger /\ Grows(led, BumpRep(led, a, field))
<1> DEFINE score == Bumped(led.rep[a], field, 1)
           later == BumpRep(led, a, field)
<1>1. score \in Score BY ScoreBumped DEF Ledger
<1>2. later = [led EXCEPT !.rep[a] = score] BY DEF BumpRep
<1> HIDE DEF score, later
<1>3. later \in Ledger /\ later.claims = led.claims /\ later.edges = led.edges BY <1>1, <1>2 DEF Ledger
<1>4. Grows(led, later) BY <1>3, GrowsSelf DEF Grows, ById
<1> QED BY <1>3, <1>4 DEF later

\* A new claim has no past.
LEMMA NewClaimTyped ==
  \A author \in Agents, receipt \in ReceiptKinds : NewClaim(author, receipt) \in Claim
<1> SUFFICES ASSUME NEW author \in Agents, NEW receipt \in ReceiptKinds PROVE NewClaim(author, receipt) \in Claim
  OBVIOUS
<1>1. <<receipt>> \in Seq(ReceiptKinds) /\ <<>> \in Seq(Attempt) BY EmptySeq
<1> QED BY <1>1 DEF NewClaim, Claim, Statuses

-----------------------------------------------------------------------------
(* Whatever the clerk does to a ledger, it grows. *)

\* apply_asserts, row by row.
LEMMA AssertedGrows ==
  ASSUME NEW led \in Ledger, NEW id \in Ids, NEW author \in Agents, NEW receipt \in ReceiptKinds,
         NEW answers \in BOOLEAN
  PROVE  /\ Asserted(led, id, author, receipt, answers) \in Ledger
         /\ Grows(led, Asserted(led, id, author, receipt, answers))
<1>1. CASE id \notin ById(led)
  <2>1. /\ WithClaim(led, id, NewClaim(author, receipt)) \in Ledger
        /\ Grows(led, WithClaim(led, id, NewClaim(author, receipt)))
    BY <1>1, NewClaimTyped, ClaimGrows
  <2> QED BY <1>1, <2>1 DEF Asserted
<1>2. CASE id \in ById(led)
  <2>1. led.claims[id] \in Claim BY <1>2, ClaimsOf
  <2>2. /\ Restated(led.claims[id], receipt) \in Claim
        /\ Continues(led.claims[id], Restated(led.claims[id], receipt))
    BY <2>1, RestatedContinues
  <2>3. /\ WithClaim(led, id, Restated(led.claims[id], receipt)) \in Ledger
        /\ Grows(led, WithClaim(led, id, Restated(led.claims[id], receipt)))
    BY <2>2, ClaimGrows
  <2> QED BY <1>2, <2>3, GrowsSelf DEF Asserted
<1> QED BY <1>1, <1>2

\* _clerk_metamorph.
LEMMA CheckedGrows ==
  ASSUME NEW led \in Ledger, NEW done \in SUBSET Unchecked(led),
         NEW verdict \in [done -> {"stable", "unstable"}]
  PROVE  Checked(led, verdict) \in Ledger /\ Grows(led, Checked(led, verdict))
<1> DEFINE claims == [id \in Ids |-> IF id \in done THEN WithReceipt(led.claims[id], verdict[id])
                                    ELSE led.claims[id]]
           later == Checked(led, verdict)
<1>1. done \subseteq ById(led) BY DEF Unchecked, WithStatus
<1>2. \A id \in done : verdict[id] \in ReceiptKinds BY DEF ReceiptKinds
<1>3. \A id \in done : /\ WithReceipt(led.claims[id], verdict[id]) \in Claim
                       /\ Continues(led.claims[id], WithReceipt(led.claims[id], verdict[id]))
  BY <1>1, <1>2, ClaimsOf, ReceiptContinues
<1>4. claims \in [Ids -> Claim \cup {NoClaim}] BY <1>3 DEF Ledger
<1>5. \A id \in ById(led) : claims[id] # NoClaim /\ Continues(led.claims[id], claims[id])
  BY <1>3, ClaimsOf, NoClaimAssumption, ContinuesSelf
<1>6. DOMAIN verdict = done OBVIOUS
<1>7. later = [led EXCEPT !.claims = claims] BY <1>6 DEF Checked
<1> HIDE DEF claims, later
<1>8. later \in Ledger /\ later.claims = claims /\ later.edges = led.edges BY <1>4, <1>7 DEF Ledger
<1>9. \A id \in ById(led) : id \in ById(later) BY <1>5, <1>8 DEF ById
<1>10. Grows(led, later) BY <1>5, <1>8, <1>9 DEF Grows
<1> QED BY <1>8, <1>10 DEF later

\* An attempt that failed (record_kill).
LEMMA WithstoodGrows ==
  ASSUME NEW led \in Ledger, NEW id \in ById(led), NEW killer \in Agents
  PROVE  Withstood(led, id, killer) \in Ledger /\ Grows(led, Withstood(led, id, killer))
<1>1. id \in Ids /\ led.claims[id] \in Claim BY ClaimsOf
<1>2. /\ RecordKill(led.claims[id], killer, FALSE) \in Claim
      /\ Continues(led.claims[id], RecordKill(led.claims[id], killer, FALSE))
  BY <1>1, KillContinues
<1> QED BY <1>1, <1>2, ClaimGrows DEF Withstood

\* One that succeeded, and what it does to two reputations.
LEMMA KilledGrows ==
  ASSUME NEW led \in Ledger, NEW id \in ById(led), NEW killer \in Agents
  PROVE  Killed(led, id, killer) \in Ledger /\ Grows(led, Killed(led, id, killer))
<1> DEFINE c == RecordKill(led.claims[id], killer, TRUE)
           x == WithClaim(led, id, c)
           y == BumpRep(x, killer, "kills")
           z == BumpRep(y, led.claims[id].author, "deaths")
<1>1. id \in Ids /\ led.claims[id] \in Claim BY ClaimsOf
<1>2. c \in Claim /\ Continues(led.claims[id], c) BY <1>1, KillContinues
<1>3. led.claims[id].author \in Agents BY <1>1 DEF Claim
<1>4. Killed(led, id, killer) = z BY DEF Killed
<1> HIDE DEF c
<1>5. x \in Ledger /\ Grows(led, x) BY <1>1, <1>2, ClaimGrows
<1> HIDE DEF x
<1>6. y \in Ledger /\ Grows(x, y) BY <1>5, RepGrows
<1> HIDE DEF y
<1>7. z \in Ledger /\ Grows(y, z) BY <1>3, <1>6, RepGrows
<1> HIDE DEF z
<1>8. Grows(led, y) BY <1>5, <1>6, GrowsOn
<1>9. Grows(led, z) BY <1>5, <1>6, <1>7, <1>8, GrowsOn
<1> QED BY <1>4, <1>7, <1>9

LEMMA ChallengedGrows ==
  ASSUME NEW led \in Ledger, NEW id \in ById(led), NEW killer \in Agents
  PROVE  Challenged(led, id, killer) \in Ledger /\ Grows(led, Challenged(led, id, killer))
BY WithstoodGrows, KilledGrows DEF Challenged

\* A contra, with the claim it registers and the edge it may add.
LEMMA ContradictedGrows ==
  ASSUME NEW led \in Ledger, NEW target \in ById(led), NEW new \in Ids, NEW quoted \in BOOLEAN,
         NEW killer \in Agents
  PROVE  /\ Contradicted(led, target, new, quoted, killer) \in Ledger
         /\ Grows(led, Contradicted(led, target, new, quoted, killer))
<1> DEFINE x == WithClaim(led, new, NewClaim(killer, "ok"))
           y == [x EXCEPT !.edges = @ \cup {<<new, target>>}]
<1>1. CASE ~quoted \/ new \in ById(led) BY <1>1, WithstoodGrows DEF Contradicted
<1>2. CASE ~(~quoted \/ new \in ById(led))
  <2>1. x \in Ledger /\ Grows(led, x) BY <1>2, NewClaimTyped, ClaimGrows DEF ReceiptKinds
  <2>2. Contradicted(led, target, new, quoted, killer) =
          IF ContraValid(x, target) THEN Killed(y, target, killer) ELSE Withstood(x, target, killer)
    BY <1>2 DEF Contradicted
  <2> HIDE DEF x
  <2>3. target \in Ids /\ target \in ById(x) BY <2>1, ClaimsOf DEF Grows
  <2>4. /\ Withstood(x, target, killer) \in Ledger
        /\ Grows(led, Withstood(x, target, killer))
    BY <2>1, <2>3, WithstoodGrows, GrowsOn
  <2>5. y \in Ledger /\ y.claims = x.claims /\ x.edges \subseteq y.edges BY <2>1, <2>3 DEF Ledger
  <2> HIDE DEF y
  <2>6. Grows(x, y) /\ target \in ById(y) BY <2>1, <2>3, <2>5, GrowsSelf DEF Grows, ById
  <2>7. Grows(led, y) BY <2>1, <2>5, <2>6, GrowsOn
  <2>8. Killed(y, target, killer) \in Ledger /\ Grows(led, Killed(y, target, killer))
    BY <2>5, <2>6, <2>7, KilledGrows, GrowsOn
  <2> QED BY <2>2, <2>4, <2>8
<1> QED BY <1>1, <1>2

\* resolve changes statuses only.
LEMMA ResolveGrows ==
  ASSUME NEW led \in Ledger
  PROVE  Resolve(led) \in Ledger /\ Grows(led, Resolve(led))
<1> DEFINE settled(id) == [led.claims[id] EXCEPT !.status = StatusOf(led.claims[id])]
           claims == [id \in Ids |-> IF id \in ById(led) THEN settled(id) ELSE NoClaim]
           later == Resolve(led)
<1>1. ASSUME NEW id \in ById(led)
      PROVE  settled(id) \in Claim /\ Continues(led.claims[id], settled(id))
  <2> DEFINE c == led.claims[id]
             d == settled(id)
  <2>1. c \in Claim BY ClaimsOf
  <2>2. StatusOf(c) \in Statuses BY DEF StatusOf, Statuses
  <2> HIDE DEF c
  <2>3. [c EXCEPT !.status = StatusOf(c)] \in Claim BY <2>1, <2>2 DEF Claim
  <2>4. LET e == [c EXCEPT !.status = StatusOf(c)]
        IN  e.author = c.author /\ e.receipts = c.receipts /\ e.kills = c.kills /\ e.reopens = c.reopens
    BY <2>1 DEF Claim
  <2>5. d = [c EXCEPT !.status = StatusOf(c)] BY DEF c
  <2> HIDE DEF d
  <2>6. Continues(c, d) BY <2>1, <2>4, <2>5, ContinuesSelf DEF Continues
  <2> QED BY <2>3, <2>5, <2>6 DEF c, d
<1>2. later = [led EXCEPT !.claims = claims] BY DEF Resolve
<1> HIDE DEF settled
<1>3. claims \in [Ids -> Claim \cup {NoClaim}] BY <1>1
<1>4. \A id \in ById(led) : id \in Ids /\ claims[id] = settled(id) BY ClaimsOf
<1> HIDE DEF claims, later
<1>5. later \in Ledger /\ later.claims = claims /\ later.edges = led.edges BY <1>2, <1>3 DEF Ledger
<1>6. \A id \in ById(led) : id \in ById(later) BY <1>1, <1>4, <1>5, NoClaimAssumption DEF ById
<1>7. Grows(led, later) BY <1>1, <1>4, <1>5, <1>6 DEF Grows
<1> QED BY <1>5, <1>7 DEF later

LEMMA CreditGrows ==
  ASSUME NEW before \in Ledger, NEW led \in Ledger
  PROVE  CreditSurvivors(before, led) \in Ledger /\ Grows(led, CreditSurvivors(before, led))
<1> DEFINE new(a) == {id \in WithStatus(led, "survived") \ WithStatus(before, "survived") :
                        led.claims[id].author = a}
           rep == [a \in Agents |-> Bumped(led.rep[a], "survives", Cardinality(new(a)))]
           later == CreditSurvivors(before, led)
<1>1. later = [led EXCEPT !.rep = rep] BY DEF CreditSurvivors
<1>2. \A a \in Agents : Cardinality(new(a)) \in Nat
  <2>1. \A a \in Agents : new(a) \subseteq Ids BY DEF WithStatus, ById
  <2> HIDE DEF new
  <2> QED BY <2>1, LedgerAssumption, FS_Subset, FS_CardinalityType
<1> HIDE DEF new
<1>3. rep \in [Agents -> Score] BY <1>2, ScoreBumped DEF Ledger
<1> HIDE DEF rep, later
<1>4. later \in Ledger /\ later.claims = led.claims /\ later.edges = led.edges BY <1>1, <1>3 DEF Ledger
<1>5. Grows(led, later) BY <1>4, GrowsSelf DEF Grows, ById
<1> QED BY <1>4, <1>5 DEF later

\* The end of a round, whose number is the next.
LEMMA RoundGrows ==
  ASSUME NEW before \in Ledger, NEW led \in Ledger
  PROVE  /\ EndOfRound(before, led) \in Ledger /\ Grows(led, EndOfRound(before, led))
         /\ EndOfRound(before, led).round = before.round + 1
<1> DEFINE x == Resolve(led)
           after == CreditSurvivors(before, x)
           quiet == Signature(before) = Signature(after)
           later == EndOfRound(before, led)
<1>1. later = [after EXCEPT !.round = before.round + 1, !.fixpoint = quiet] BY DEF EndOfRound
<1>2. x \in Ledger /\ Grows(led, x) BY ResolveGrows
<1> HIDE DEF x
<1>3. after \in Ledger /\ Grows(x, after) BY <1>2, CreditGrows
<1>4. quiet \in BOOLEAN OBVIOUS
<1> HIDE DEF after, quiet, later
<1>5. before.round \in Nat BY DEF Ledger
<1>6. /\ later \in Ledger /\ later.claims = after.claims /\ later.edges = after.edges
      /\ later.round = before.round + 1
  <2>1. ASSUME NEW n \in Nat, NEW q \in BOOLEAN
        PROVE  LET l == [after EXCEPT !.round = n, !.fixpoint = q]
               IN  l \in Ledger /\ l.claims = after.claims /\ l.edges = after.edges /\ l.round = n
    BY <1>3 DEF Ledger
  <2>2. before.round + 1 \in Nat BY <1>5
  <2> QED BY <1>1, <1>4, <2>1, <2>2
<1>7. Grows(led, after) BY <1>2, <1>3, GrowsOn
<1>8. Grows(led, later) BY <1>6, <1>7 DEF Grows, ById
<1> QED BY <1>6, <1>8 DEF later

-----------------------------------------------------------------------------
(* A claim is sound: dead where an accepted kill is unanswered, and a survivor by  *)
(* what it withstood since its last kill.  Its fate: the dead rise only reopened.  *)

Sound(c) ==
  /\ c.status = "killed" <=> StandsKilled(c)
  /\ c.status # "killed" => c.attempts + LastKill(c) <= Len(c.kills)
  /\ c.status = "survived" => Supported(c) /\ c.attempts >= K
  /\ c.reopens <= MaxReopens

Fate(c, d) ==
  /\ d.reopens >= c.reopens
  /\ c.status = "killed" /\ d.status # "killed" => d.reopens > c.reopens
  /\ c.status = "survived" => d.status \in {"survived", "killed"} \/ d.reopens > c.reopens

\* The positions up to the last accepted kill.
Deadly(c) == {i \in DOMAIN c.kills : \E j \in i..Len(c.kills) : c.kills[j].accepted}

LEMMA LastKillBound ==
  ASSUME NEW c \in Claim
  PROVE  LastKill(c) = Cardinality(Deadly(c)) /\ LastKill(c) \in Nat /\ LastKill(c) <= Len(c.kills)
<1>1. Len(c.kills) \in Nat /\ DOMAIN c.kills = 1..Len(c.kills) BY LenProperties DEF Claim
<1>2. Deadly(c) \in SUBSET (1..Len(c.kills)) BY <1>1 DEF Deadly
<1>3. IsFiniteSet(1..Len(c.kills)) /\ Cardinality(1..Len(c.kills)) = Len(c.kills) BY <1>1, FS_Interval
<1>4. LastKill(c) = Cardinality(Deadly(c)) BY DEF LastKill, Deadly
<1> HIDE DEF Deadly
<1>5. IsFiniteSet(Deadly(c)) /\ Cardinality(Deadly(c)) <= Len(c.kills) BY <1>2, <1>3, FS_Subset
<1> QED BY <1>4, <1>5, FS_CardinalityType

LEMMA FateSelf == \A c \in Claim : Fate(c, c)
BY DEF Fate, Claim

LEMMA FateOn ==
  ASSUME NEW c \in Claim, NEW d \in Claim, NEW e \in Claim, Fate(c, d), Fate(d, e)
  PROVE  Fate(c, e)
BY DEF Fate, Claim, Statuses

\* What only depends on the attacks is the same for the same attacks.
LEMMA SameKills ==
  ASSUME NEW c, NEW d, c.kills = d.kills
  PROVE  LastKill(c) = LastKill(d) /\ (StandsKilled(c) <=> StandsKilled(d))
BY DEF LastKill, StandsKilled

LEMMA ReceiptSound ==
  ASSUME NEW c \in Claim, NEW receipt \in ReceiptKinds, Sound(c)
  PROVE  Sound(WithReceipt(c, receipt)) /\ Fate(c, WithReceipt(c, receipt))
<1> DEFINE d == WithReceipt(c, receipt)
<1>1. c.receipts \in Seq(ReceiptKinds) /\ c.reopens \in Nat BY DEF Claim
<1>2. /\ d.receipts = Append(c.receipts, receipt) /\ d.kills = c.kills /\ d.status = c.status
      /\ d.reopens = c.reopens /\ d.attempts = c.attempts
  BY DEF Claim, WithReceipt
<1> HIDE DEF d
<1>3. Supported(c) => Supported(d)
  <2>1. /\ d.receipts \in Seq(ReceiptKinds) /\ Len(d.receipts) = Len(c.receipts) + 1
        /\ \A i \in 1..Len(c.receipts) : d.receipts[i] = c.receipts[i]
    BY <1>1, <1>2, AppendProperties
  <2>2. DOMAIN d.receipts = 1..Len(d.receipts) /\ DOMAIN c.receipts = 1..Len(c.receipts) /\ Len(c.receipts) \in Nat
    BY <1>1, <2>1, LenProperties
  <2>3. DOMAIN c.receipts \subseteq DOMAIN d.receipts BY <2>1, <2>2
  <2> QED BY <2>1, <2>2, <2>3 DEF Supported, HasReceipt
<1>4. LastKill(c) = LastKill(d) /\ (StandsKilled(c) <=> StandsKilled(d)) BY <1>2, SameKills
<1>5. Sound(d) BY <1>2, <1>3, <1>4 DEF Sound
<1>6. Fate(c, d) BY <1>1, <1>2 DEF Fate
<1> QED BY <1>5, <1>6 DEF d

\* Reopened, it has to earn its survival anew, and nothing unanswered is left.
LEMMA ReopenedSound ==
  ASSUME NEW c \in Claim, c.status = "killed", c.reopens < MaxReopens
  PROVE  Sound(Reopened(c)) /\ Fate(c, Reopened(c))
<1> DEFINE d == Reopened(c)
<1>1. c.kills \in Seq(Attempt) /\ c.reopens \in Nat /\ MaxReopens \in Nat BY LedgerAssumption DEF Claim
<1>2. DOMAIN c.kills = 1..Len(c.kills) /\ Len(c.kills) \in Nat BY <1>1, LenProperties
<1>3. /\ d.status = "open" /\ d.kills = [i \in DOMAIN c.kills |-> Answered(c.kills[i])]
      /\ d.attempts = 0 /\ d.reopens = c.reopens + 1
  BY DEF Reopened, Claim
<1>4. d \in Claim BY ReopenedContinues
<1> HIDE DEF d
<1>5. \A i \in DOMAIN d.kills : ~Fatal(d.kills[i])
  <2> SUFFICES ASSUME NEW i \in DOMAIN d.kills PROVE ~Fatal(d.kills[i]) OBVIOUS
  <2>1. i \in DOMAIN c.kills /\ d.kills[i] = Answered(c.kills[i]) BY <1>3
  <2>2. c.kills[i] \in Attempt BY <1>1, <1>2, <2>1, ElementOfSeq
  <2> QED BY <2>1, <2>2 DEF Fatal, Answered, Attempt
<1>6. ~StandsKilled(d) BY <1>5 DEF StandsKilled
<1>7. LastKill(d) \in Nat /\ LastKill(d) <= Len(d.kills) BY <1>4, LastKillBound
<1>8. Sound(d) BY <1>1, <1>3, <1>6, <1>7 DEF Sound
<1>9. Fate(c, d) BY <1>1, <1>3 DEF Fate
<1> QED BY <1>8, <1>9 DEF d

LEMMA RestatedSound ==
  ASSUME NEW c \in Claim, NEW receipt \in ReceiptKinds, Sound(c),
         c.status = "killed" => c.reopens < MaxReopens
  PROVE  Sound(Restated(c, receipt)) /\ Fate(c, Restated(c, receipt))
<1> DEFINE d == WithReceipt(c, receipt)
<1>1. d \in Claim /\ Sound(d) /\ Fate(c, d) BY ReceiptContinues, ReceiptSound
<1>2. d.status = c.status /\ d.reopens = c.reopens BY DEF Claim, WithReceipt
<1>3. Restated(c, receipt) = IF c.status = "killed" THEN Reopened(d) ELSE d BY DEF Restated
<1> HIDE DEF d
<1>4. CASE c.status = "killed"
  <2>1. Sound(Reopened(d)) /\ Fate(d, Reopened(d)) /\ Reopened(d) \in Claim
    BY <1>1, <1>2, <1>4, ReopenedSound, ReopenedContinues
  <2>2. Fate(c, Reopened(d)) BY <1>1, <2>1, FateOn
  <2> QED BY <1>3, <1>4, <2>1, <2>2
<1>5. CASE c.status # "killed" BY <1>1, <1>3, <1>5
<1> QED BY <1>4, <1>5

LEMMA NewClaimSound ==
  ASSUME NEW author \in Agents, NEW receipt \in ReceiptKinds
  PROVE  Sound(NewClaim(author, receipt))
<1> DEFINE c == NewClaim(author, receipt)
<1>1. c \in Claim BY NewClaimTyped
<1>2. c.status = "open" /\ c.kills = <<>> /\ c.attempts = 0 /\ c.reopens = 0 BY DEF NewClaim
<1> HIDE DEF c
<1>3. ~StandsKilled(c) BY <1>2 DEF StandsKilled
<1>4. LastKill(c) \in Nat /\ LastKill(c) <= Len(c.kills) BY <1>1, LastKillBound
<1>5. Sound(c) BY <1>2, <1>3, <1>4, LedgerAssumption DEF Sound
<1> QED BY <1>5 DEF c

\* Who is attacked was alive: an accepted kill is fatal, any other an attempt more.
LEMMA KillSound ==
  ASSUME NEW c \in Claim, NEW by \in Agents, NEW accepted \in BOOLEAN, Sound(c), c.status # "killed"
  PROVE  Sound(RecordKill(c, by, accepted)) /\ Fate(c, RecordKill(c, by, accepted))
<1> DEFINE attack == [by |-> by, accepted |-> accepted, addressed |-> FALSE]
           d == RecordKill(c, by, accepted)
           n == Len(c.kills)
<1>1. /\ c.kills \in Seq(Attempt) /\ c.reopens \in Nat /\ c.attempts \in Nat /\ attack \in Attempt
      /\ K \in Nat
  BY LedgerAssumption DEF Claim, Attempt
<1>2. n \in Nat /\ DOMAIN c.kills = 1..n BY <1>1, LenProperties
<1>3. /\ d.kills = Append(c.kills, attack) /\ d.receipts = c.receipts /\ d.reopens = c.reopens
      /\ d.status = (IF accepted THEN "killed" ELSE c.status)
      /\ d.attempts = (IF accepted THEN c.attempts ELSE c.attempts + 1)
  BY DEF RecordKill, Claim
<1>4. attack.accepted = accepted /\ attack.addressed = FALSE OBVIOUS
<1>5. d \in Claim BY KillContinues
<1> HIDE DEF attack, d
<1>6. /\ Len(d.kills) = n + 1 /\ \A i \in 1..n : d.kills[i] = c.kills[i]
      /\ d.kills[n + 1] = attack
  BY <1>1, <1>3, AppendProperties
<1>7. DOMAIN d.kills = 1..(n + 1) BY <1>5, <1>6, LenProperties DEF Claim
<1> HIDE DEF n
<1>8. Fate(c, d) BY <1>1, <1>3 DEF Fate
<1>9. CASE accepted
  <2>1. Fatal(d.kills[n + 1]) BY <1>4, <1>6, <1>9 DEF Fatal
  <2>2. StandsKilled(d) BY <1>2, <1>7, <2>1 DEF StandsKilled
  <2>3. d.status = "killed" BY <1>3, <1>9
  <2> QED BY <1>3, <1>8, <2>2, <2>3 DEF Sound, d
<1>10. CASE ~accepted
  <2>1. ~StandsKilled(d)
    <3>1. \A i \in 1..n : ~Fatal(d.kills[i]) BY <1>2, <1>6 DEF Sound, StandsKilled
    <3>2. ~Fatal(d.kills[n + 1]) BY <1>4, <1>6, <1>10 DEF Fatal
    <3> QED BY <1>2, <1>7, <3>1, <3>2 DEF StandsKilled
  <2>2. LastKill(d) = LastKill(c)
    <3>1. ASSUME NEW i \in 1..(n + 1)
          PROVE  (\E j \in i..(n + 1) : d.kills[j].accepted) <=> i \in 1..n /\ \E j \in i..n : c.kills[j].accepted
      <4>1. ~d.kills[n + 1].accepted BY <1>4, <1>6, <1>10
      <4>2. \A j \in i..n : j \in 1..n BY <1>2
      <4>3. \A j \in i..(n + 1) : j = n + 1 \/ j \in i..n BY <1>2
      <4>4. \A j \in i..n : i \in 1..n /\ j \in i..(n + 1) BY <1>2
      <4> QED BY <1>6, <4>1, <4>2, <4>3, <4>4
    <3>2. Deadly(d) = {i \in 1..(n + 1) : \E j \in i..(n + 1) : d.kills[j].accepted} BY <1>6, <1>7 DEF Deadly
    <3>3. Deadly(c) = {i \in 1..n : \E j \in i..n : c.kills[j].accepted} BY <1>2 DEF Deadly, n
    <3>4. 1..n \subseteq 1..(n + 1) BY <1>2
    <3>5. Deadly(d) = Deadly(c) BY <3>1, <3>2, <3>3, <3>4
    <3> QED BY <1>5, <3>5, LastKillBound
  <2>3. d.attempts = c.attempts + 1 /\ d.status = c.status BY <1>3, <1>10
  <2>4. Supported(c) => Supported(d) BY <1>3 DEF Supported, HasReceipt
  <2>5. LastKill(c) \in Nat BY LastKillBound
  <2>6. c.attempts + LastKill(c) <= n BY DEF Sound, n
  <2>7. Sound(d) BY <1>1, <1>2, <1>3, <1>6, <2>1, <2>2, <2>3, <2>4, <2>5, <2>6 DEF Sound
  <2> QED BY <1>8, <2>7 DEF d
<1> QED BY <1>9, <1>10

\* resolve names what is so; it wakes nobody and drops no survivor.
LEMMA SettledSound ==
  ASSUME NEW c \in Claim, Sound(c)
  PROVE  LET d == [c EXCEPT !.status = StatusOf(c)]
         IN  Sound(d) /\ Fate(c, d) /\ (d.status = "killed" <=> c.status = "killed")
<1> DEFINE d == [c EXCEPT !.status = StatusOf(c)]
<1>1. /\ d.receipts = c.receipts /\ d.kills = c.kills /\ d.attempts = c.attempts /\ d.reopens = c.reopens
      /\ d.status = StatusOf(c) /\ c.reopens \in Nat
  BY DEF Claim
<1> HIDE DEF d
<1>2. LastKill(c) = LastKill(d) /\ (StandsKilled(c) <=> StandsKilled(d)) BY <1>1, SameKills
<1>3. Supported(c) <=> Supported(d) BY <1>1 DEF Supported, HasReceipt
<1>4. d.status = "killed" <=> c.status = "killed" BY <1>1 DEF StatusOf, Sound
<1>5. d.status = "survived" => Supported(c) /\ c.attempts >= K BY <1>1, <1>4 DEF StatusOf
<1>6. c.status = "survived" => d.status = "survived" BY <1>1 DEF StatusOf, Sound
<1>7. Sound(d) BY <1>1, <1>2, <1>3, <1>4, <1>5 DEF Sound
<1>8. Fate(c, d) BY <1>1, <1>4, <1>6 DEF Fate
<1> QED BY <1>4, <1>7, <1>8 DEF d

-----------------------------------------------------------------------------
(* The books: an accepted kill is one of its killer's, a claim's death one of its  *)
(* author's.                                                                       *)

AcceptedBy(c, a) == {i \in DOMAIN c.kills : c.kills[i].accepted /\ c.kills[i].by = a}
Died(c) == c.reopens + (IF c.status = "killed" THEN 1 ELSE 0)

KillsOf(led, a) == {k \in Ids \X Nat : k[1] \in ById(led) /\ k[2] \in AcceptedBy(led.claims[k[1]], a)}

DeathsOf(led, a) ==
  {d \in Ids \X Nat : d[1] \in ById(led) /\ d[2] \in 1..Died(led.claims[d[1]]) /\ led.claims[d[1]].author = a}

Books(led) ==
  \A a \in Agents :
    /\ IsFiniteSet(KillsOf(led, a)) /\ led.rep[a].kills = Cardinality(KillsOf(led, a))
    /\ IsFiniteSet(DeathsOf(led, a)) /\ led.rep[a].deaths = Cardinality(DeathsOf(led, a))

\* They are the sets RepCountsKillsOnce counts.
LEMMA BooksCount ==
  ASSUME NEW led \in Ledger, NEW a \in Agents
  PROVE  /\ KillsOf(led, a) = {k \in Accepted(led) : led.claims[k[1]].kills[k[2]].by = a}
         /\ DeathsOf(led, a) = {d \in Deaths(led) : led.claims[d[1]].author = a}
<1>1. \A id \in ById(led) : id \in Ids /\ DOMAIN led.claims[id].kills \subseteq Nat
  <2> SUFFICES ASSUME NEW id \in ById(led) PROVE id \in Ids /\ DOMAIN led.claims[id].kills \subseteq Nat
    OBVIOUS
  <2>1. id \in Ids /\ led.claims[id].kills \in Seq(Attempt) BY ClaimsOf DEF Claim
  <2> QED BY <2>1, LenProperties
<1>2. \A id \in ById(led) : Died(led.claims[id]) \in Nat /\ 1..Died(led.claims[id]) \subseteq Nat
  BY ClaimsOf DEF Claim, Died
<1>3. \A k : k \in KillsOf(led, a) <=> k \in Accepted(led) /\ led.claims[k[1]].kills[k[2]].by = a
  <2> SUFFICES ASSUME NEW k
               PROVE  k \in KillsOf(led, a) <=> k \in Accepted(led) /\ led.claims[k[1]].kills[k[2]].by = a
    OBVIOUS
  <2>1. k \in Accepted(led) <=> \E id \in ById(led) : \E i \in DOMAIN led.claims[id].kills :
                                 k = <<id, i>> /\ led.claims[id].kills[i].accepted
    BY DEF Accepted
  <2> QED BY <1>1, <2>1 DEF KillsOf, AcceptedBy
<1>4. \A d : d \in DeathsOf(led, a) <=> d \in Deaths(led) /\ led.claims[d[1]].author = a
  <2> SUFFICES ASSUME NEW d
               PROVE  d \in DeathsOf(led, a) <=> d \in Deaths(led) /\ led.claims[d[1]].author = a
    OBVIOUS
  <2>1. d \in Deaths(led) <=> \E id \in ById(led) : \E i \in 1..Died(led.claims[id]) : d = <<id, i>>
    BY DEF Deaths, Died
  <2> QED BY <1>1, <1>2, <2>1 DEF DeathsOf
<1> QED BY <1>3, <1>4

\* What the books read of a claim.
SameBooks(c, d) ==
  d.author = c.author /\ Died(d) = Died(c) /\ \A a \in Agents : AcceptedBy(d, a) = AcceptedBy(c, a)

Unbooked(c) == Died(c) = 0 /\ \A a \in Agents : AcceptedBy(c, a) = {}

\* As long as that and the reputations stay, the books stay.
LEMMA BooksStay ==
  ASSUME NEW led \in Ledger, NEW later \in Ledger, Books(led),
         \A a \in Agents : later.rep[a].kills = led.rep[a].kills /\ later.rep[a].deaths = led.rep[a].deaths,
         \A id \in ById(led) : id \in ById(later) /\ SameBooks(led.claims[id], later.claims[id]),
         \A id \in ById(later) \ ById(led) : Unbooked(later.claims[id])
  PROVE  Books(later)
<1> SUFFICES ASSUME NEW a \in Agents
             PROVE  KillsOf(later, a) = KillsOf(led, a) /\ DeathsOf(later, a) = DeathsOf(led, a)
  BY DEF Books
<1>1. \A k \in Ids \X Nat : k \in KillsOf(later, a) <=> k \in KillsOf(led, a)
  BY DEF KillsOf, SameBooks, Unbooked
<1>2. \A d \in Ids \X Nat : d \in DeathsOf(later, a) <=> d \in DeathsOf(led, a)
  <2>1. 1..0 = {} OBVIOUS
  <2> QED BY <2>1 DEF DeathsOf, SameBooks, Unbooked
<1> QED BY <1>1, <1>2 DEF KillsOf, DeathsOf

\* A set that gains one element counts one more.
LEMMA OneMore ==
  ASSUME NEW S, IsFiniteSet(S), NEW x, x \notin S
  PROVE  IsFiniteSet(S \cup {x}) /\ Cardinality(S \cup {x}) = Cardinality(S) + 1
BY FS_AddElement

LEMMA KillOfClaim ==
  ASSUME NEW c \in Claim, NEW killer \in Agents, c.status # "killed"
  PROVE  LET d == RecordKill(c, killer, TRUE)
             n == Len(c.kills) + 1
         IN  /\ d \in Claim /\ d.author = c.author /\ n \in Nat
             /\ Died(c) \in Nat /\ Died(d) = Died(c) + 1
             /\ \A a \in Agents : /\ AcceptedBy(d, a) = AcceptedBy(c, a) \cup (IF a = killer THEN {n} ELSE {})
                                  /\ n \notin AcceptedBy(c, a)
<1> DEFINE d == RecordKill(c, killer, TRUE)
           m == Len(c.kills)
           attack == [by |-> killer, accepted |-> TRUE, addressed |-> FALSE]
<1>1. d \in Claim BY KillContinues
<1>2. c.kills \in Seq(Attempt) /\ c.reopens \in Nat /\ attack \in Attempt BY DEF Claim, Attempt
<1>3. m \in Nat /\ DOMAIN c.kills = 1..m BY <1>2, LenProperties
<1>4. d.kills = Append(c.kills, attack) /\ d.author = c.author /\ d.reopens = c.reopens /\ d.status = "killed"
  BY DEF RecordKill, Claim
<1>5. attack.by = killer /\ attack.accepted OBVIOUS
<1> HIDE DEF attack, d
<1>6. /\ Len(d.kills) = m + 1 /\ d.kills[m + 1] = attack
      /\ \A i \in 1..m : d.kills[i] = c.kills[i]
  BY <1>2, <1>4, AppendProperties
<1>7. DOMAIN d.kills = 1..(m + 1) BY <1>1, <1>6, LenProperties DEF Claim
<1> HIDE DEF m
<1>8. Died(c) = c.reopens /\ Died(d) = c.reopens + 1
  <2>1. Died(c) = c.reopens + 0 /\ Died(d) = d.reopens + 1 BY <1>4 DEF Died
  <2> QED BY <1>2, <1>4, <2>1
<1>9. 1..(m + 1) = 1..m \cup {m + 1} /\ m + 1 \notin 1..m BY <1>3
<1>10. ASSUME NEW a \in Agents
       PROVE  /\ AcceptedBy(d, a) = AcceptedBy(c, a) \cup (IF a = killer THEN {m + 1} ELSE {})
              /\ m + 1 \notin AcceptedBy(c, a)
  <2>1. AcceptedBy(d, a) = {i \in 1..m \cup {m + 1} : d.kills[i].accepted /\ d.kills[i].by = a}
    BY <1>7, <1>9 DEF AcceptedBy
  <2>2. AcceptedBy(c, a) = {i \in 1..m : d.kills[i].accepted /\ d.kills[i].by = a} BY <1>3, <1>6 DEF AcceptedBy
  <2> QED BY <1>5, <1>6, <1>9, <2>1, <2>2
<1> DEFINE n == m + 1
<1>11. /\ d \in Claim /\ d.author = c.author /\ n \in Nat
       /\ Died(c) \in Nat /\ Died(d) = Died(c) + 1
  BY <1>1, <1>2, <1>3, <1>4, <1>8
<1>12. \A a \in Agents : /\ AcceptedBy(d, a) = AcceptedBy(c, a) \cup (IF a = killer THEN {n} ELSE {})
                         /\ n \notin AcceptedBy(c, a)
  BY <1>10
<1> HIDE DEF n
<1> QED BY <1>11, <1>12 DEF d, m, n

\* What a death does to the reputations.
Scored(led, later, killer, author) ==
  \A a \in Agents :
    /\ later.rep[a].kills = led.rep[a].kills + (IF a = killer THEN 1 ELSE 0)
    /\ later.rep[a].deaths = led.rep[a].deaths + (IF a = author THEN 1 ELSE 0)

\* A claim alive is killed: one more kill of the killer, one more death of the author.
LEMMA KillIsBooked ==
  ASSUME NEW led \in Ledger, NEW later \in Ledger, NEW id \in ById(led), NEW killer \in Agents, Books(led),
         led.claims[id].status # "killed",
         later.claims[id] = RecordKill(led.claims[id], killer, TRUE),
         \A i \in Ids \ {id} : later.claims[i] = led.claims[i],
         Scored(led, later, killer, led.claims[id].author)
  PROVE  Books(later)
<1> DEFINE c == led.claims[id]
           d == RecordKill(c, killer, TRUE)
           n == Len(c.kills) + 1
           m == Died(c) + 1
<1>1. c \in Claim /\ id \in Ids BY ClaimsOf
<1>2. /\ d \in Claim /\ d.author = c.author /\ n \in Nat
      /\ Died(c) \in Nat /\ Died(d) = m
      /\ \A a \in Agents : /\ AcceptedBy(d, a) = AcceptedBy(c, a) \cup (IF a = killer THEN {n} ELSE {})
                           /\ n \notin AcceptedBy(c, a)
  BY <1>1, KillOfClaim
<1>4. led.claims[id] = c /\ later.claims[id] = d OBVIOUS
<1>5. \A a \in Agents : /\ later.rep[a].kills = led.rep[a].kills + (IF a = killer THEN 1 ELSE 0)
                        /\ later.rep[a].deaths = led.rep[a].deaths + (IF a = c.author THEN 1 ELSE 0)
  BY DEF Scored
<1> HIDE DEF c, d, n
<1>6. later.claims[id] = d /\ \A i \in Ids \ {id} : later.claims[i] = led.claims[i] BY <1>4
<1>7. ById(later) = ById(led) BY <1>1, <1>2, <1>6, NoClaimAssumption DEF ById
<1>8. m \in Nat /\ 1..m = 1..Died(c) \cup {m} /\ m \notin 1..Died(c) BY <1>2
<1> HIDE DEF m
<1> SUFFICES ASSUME NEW a \in Agents
             PROVE  /\ IsFiniteSet(KillsOf(later, a)) /\ later.rep[a].kills = Cardinality(KillsOf(later, a))
                    /\ IsFiniteSet(DeathsOf(later, a)) /\ later.rep[a].deaths = Cardinality(DeathsOf(later, a))
  BY DEF Books
<1>9. led.rep[a].kills \in Nat /\ led.rep[a].deaths \in Nat BY DEF Ledger, Score
<1>10. /\ IsFiniteSet(KillsOf(led, a)) /\ led.rep[a].kills = Cardinality(KillsOf(led, a))
       /\ IsFiniteSet(DeathsOf(led, a)) /\ led.rep[a].deaths = Cardinality(DeathsOf(led, a))
  BY DEF Books
<1>11. IsFiniteSet(KillsOf(later, a)) /\ later.rep[a].kills = Cardinality(KillsOf(later, a))
  <2>1. ASSUME NEW k \in Ids \X Nat
        PROVE  k \in KillsOf(later, a) <=> k \in KillsOf(led, a) \/ (a = killer /\ k = <<id, n>>)
    <3>1. CASE k[1] = id
      <4>1. k \in KillsOf(later, a) <=> k[2] \in AcceptedBy(d, a) BY <1>6, <1>7, <3>1 DEF KillsOf
      <4>2. k \in KillsOf(led, a) <=> k[2] \in AcceptedBy(c, a) BY <1>4, <3>1 DEF KillsOf
      <4>3. k = <<id, n>> <=> k[2] = n BY <3>1
      <4> QED BY <1>2, <4>1, <4>2, <4>3
    <3>2. CASE k[1] # id BY <1>6, <1>7, <3>2 DEF KillsOf
    <3> QED BY <3>1, <3>2
  <2>2. <<id, n>> \in Ids \X Nat /\ <<id, n>> \notin KillsOf(led, a) BY <1>1, <1>2, <1>4 DEF KillsOf
  <2>3. KillsOf(later, a) \subseteq Ids \X Nat /\ KillsOf(led, a) \subseteq Ids \X Nat BY DEF KillsOf
  <2>4. CASE a = killer
    <3>1. KillsOf(later, a) = KillsOf(led, a) \cup {<<id, n>>} BY <2>1, <2>2, <2>3, <2>4
    <3> QED BY <1>5, <1>10, <2>2, <2>4, <3>1, OneMore
  <2>5. CASE a # killer
    <3>1. KillsOf(later, a) = KillsOf(led, a) BY <2>1, <2>3, <2>5
    <3> QED BY <1>5, <1>9, <1>10, <2>5, <3>1
  <2> QED BY <2>4, <2>5
<1>12. IsFiniteSet(DeathsOf(later, a)) /\ later.rep[a].deaths = Cardinality(DeathsOf(later, a))
  <2>1. ASSUME NEW x \in Ids \X Nat
        PROVE  x \in DeathsOf(later, a) <=> x \in DeathsOf(led, a) \/ (a = c.author /\ x = <<id, m>>)
    <3>1. CASE x[1] = id
      <4>1. x \in DeathsOf(later, a) <=> x[2] \in 1..m /\ c.author = a BY <1>2, <1>6, <1>7, <3>1 DEF DeathsOf
      <4>2. x \in DeathsOf(led, a) <=> x[2] \in 1..Died(c) /\ c.author = a BY <1>4, <3>1 DEF DeathsOf
      <4>3. x = <<id, m>> <=> x[2] = m BY <3>1
      <4> QED BY <1>8, <4>1, <4>2, <4>3
    <3>2. CASE x[1] # id BY <1>6, <1>7, <3>2 DEF DeathsOf
    <3> QED BY <3>1, <3>2
  <2>2. <<id, m>> \in Ids \X Nat /\ <<id, m>> \notin DeathsOf(led, a) BY <1>1, <1>4, <1>8 DEF DeathsOf
  <2>3. DeathsOf(later, a) \subseteq Ids \X Nat /\ DeathsOf(led, a) \subseteq Ids \X Nat BY DEF DeathsOf
  <2>4. CASE a = c.author
    <3>1. DeathsOf(later, a) = DeathsOf(led, a) \cup {<<id, m>>} BY <2>1, <2>2, <2>3, <2>4
    <3> QED BY <1>5, <1>10, <2>2, <2>4, <3>1, OneMore
  <2>5. CASE a # c.author
    <3>1. DeathsOf(later, a) = DeathsOf(led, a) BY <2>1, <2>3, <2>5
    <3> QED BY <1>5, <1>9, <1>10, <2>5, <3>1
  <2> QED BY <2>4, <2>5
<1> QED BY <1>11, <1>12

\* A receipt, an answer, a failed attempt and a status leave a claim's books alone.
LEMMA ReceiptBooks ==
  ASSUME NEW c \in Claim, NEW receipt \in ReceiptKinds
  PROVE  SameBooks(c, WithReceipt(c, receipt))
<1> DEFINE d == WithReceipt(c, receipt)
<1>1. d.kills = c.kills /\ d.author = c.author /\ d.reopens = c.reopens /\ d.status = c.status
  BY DEF Claim, WithReceipt
<1> HIDE DEF d
<1>2. SameBooks(c, d) BY <1>1 DEF SameBooks, Died, AcceptedBy
<1> QED BY <1>2 DEF d

LEMMA ReopenedBooks ==
  ASSUME NEW c \in Claim, c.status = "killed"
  PROVE  SameBooks(c, Reopened(c))
<1> DEFINE d == Reopened(c)
<1>1. c.kills \in Seq(Attempt) /\ c.reopens \in Nat BY DEF Claim
<1>2. DOMAIN c.kills = 1..Len(c.kills) BY <1>1, LenProperties
<1>3. /\ d.author = c.author /\ d.status = "open" /\ d.reopens = c.reopens + 1
      /\ d.kills = [i \in DOMAIN c.kills |-> Answered(c.kills[i])]
  BY DEF Reopened, Claim
<1> HIDE DEF d
<1>4. \A i \in DOMAIN c.kills : d.kills[i].accepted = c.kills[i].accepted /\ d.kills[i].by = c.kills[i].by
  <2> SUFFICES ASSUME NEW i \in DOMAIN c.kills
               PROVE  d.kills[i].accepted = c.kills[i].accepted /\ d.kills[i].by = c.kills[i].by
    OBVIOUS
  <2>1. c.kills[i] \in Attempt /\ d.kills[i] = Answered(c.kills[i]) BY <1>1, <1>2, <1>3, ElementOfSeq
  <2> QED BY <2>1 DEF Answered, Attempt
<1>5. DOMAIN d.kills = DOMAIN c.kills BY <1>3
<1>6. \A a : AcceptedBy(d, a) = AcceptedBy(c, a) BY <1>4, <1>5 DEF AcceptedBy
<1>7. Died(c) = c.reopens + 1 BY DEF Died
<1>8. Died(d) = d.reopens + 0 BY <1>3 DEF Died
<1>9. SameBooks(c, d) BY <1>1, <1>3, <1>6, <1>7, <1>8 DEF SameBooks
<1> QED BY <1>9 DEF d

LEMMA RestatedBooks ==
  ASSUME NEW c \in Claim, NEW receipt \in ReceiptKinds
  PROVE  SameBooks(c, Restated(c, receipt))
<1> DEFINE d == WithReceipt(c, receipt)
<1>1. d \in Claim /\ SameBooks(c, d) BY ReceiptContinues, ReceiptBooks
<1>2. d.status = c.status BY DEF Claim, WithReceipt
<1>3. Restated(c, receipt) = IF c.status = "killed" THEN Reopened(d) ELSE d BY DEF Restated
<1> HIDE DEF d
<1>4. c.status = "killed" => SameBooks(d, Reopened(d)) BY <1>1, <1>2, ReopenedBooks
<1> QED BY <1>1, <1>3, <1>4 DEF SameBooks

LEMMA AttemptBooks ==
  ASSUME NEW c \in Claim, NEW by \in Agents
  PROVE  SameBooks(c, RecordKill(c, by, FALSE))
<1> DEFINE d == RecordKill(c, by, FALSE)
           m == Len(c.kills)
           attack == [by |-> by, accepted |-> FALSE, addressed |-> FALSE]
<1>1. d \in Claim BY KillContinues
<1>2. c.kills \in Seq(Attempt) /\ attack \in Attempt BY DEF Claim, Attempt
<1>3. m \in Nat /\ DOMAIN c.kills = 1..m BY <1>2, LenProperties
<1>4. d.kills = Append(c.kills, attack) /\ d.author = c.author /\ d.reopens = c.reopens /\ d.status = c.status
  BY DEF RecordKill, Claim
<1>5. ~attack.accepted OBVIOUS
<1> HIDE DEF attack, d
<1>6. /\ Len(d.kills) = m + 1 /\ d.kills[m + 1] = attack
      /\ \A i \in 1..m : d.kills[i] = c.kills[i]
  BY <1>2, <1>4, AppendProperties
<1>7. DOMAIN d.kills = 1..(m + 1) BY <1>1, <1>6, LenProperties DEF Claim
<1> HIDE DEF m
<1>8. 1..(m + 1) = 1..m \cup {m + 1} BY <1>3
<1>9. ASSUME NEW a PROVE AcceptedBy(d, a) = AcceptedBy(c, a)
  <2>1. AcceptedBy(d, a) = {i \in 1..m \cup {m + 1} : d.kills[i].accepted /\ d.kills[i].by = a}
    BY <1>7, <1>8 DEF AcceptedBy
  <2>2. AcceptedBy(c, a) = {i \in 1..m : d.kills[i].accepted /\ d.kills[i].by = a} BY <1>3, <1>6 DEF AcceptedBy
  <2>3. ~d.kills[m + 1].accepted BY <1>5, <1>6
  <2> QED BY <2>1, <2>2, <2>3
<1>10. SameBooks(c, d) BY <1>4, <1>9 DEF SameBooks, Died
<1> QED BY <1>10 DEF d

LEMMA SettledBooks ==
  ASSUME NEW c \in Claim, Sound(c)
  PROVE  SameBooks(c, [c EXCEPT !.status = StatusOf(c)])
<1> DEFINE d == [c EXCEPT !.status = StatusOf(c)]
<1>1. d.kills = c.kills /\ d.author = c.author /\ d.reopens = c.reopens BY DEF Claim
<1>2. d.status = "killed" <=> c.status = "killed" BY SettledSound
<1> HIDE DEF d
<1>3. SameBooks(c, d) BY <1>1, <1>2 DEF SameBooks, Died, AcceptedBy
<1> QED BY <1>3 DEF d

LEMMA NewClaimUnbooked ==
  ASSUME NEW author \in Agents, NEW receipt \in ReceiptKinds
  PROVE  Unbooked(NewClaim(author, receipt))
<1> DEFINE c == NewClaim(author, receipt)
<1>1. c.status = "open" /\ c.kills = <<>> /\ c.reopens = 0 BY DEF NewClaim
<1> HIDE DEF c
<1>2. Died(c) = 0 + 0 BY <1>1 DEF Died
<1>3. \A a : AcceptedBy(c, a) = {} BY <1>1 DEF AcceptedBy
<1>4. Unbooked(c) BY <1>2, <1>3 DEF Unbooked
<1> QED BY <1>4 DEF c

-----------------------------------------------------------------------------
(* Whatever the clerk does to an orderly ledger, it stays so, claims meet the fates  *)
(* they may, and the books stay right.                                             *)

Orderly(led) == \A id \in ById(led) : Sound(led.claims[id])

Fates(led, later) ==
  ById(led) \subseteq ById(later) /\ \A id \in ById(led) : Fate(led.claims[id], later.claims[id])

Keeps(led, later) == Orderly(later) /\ Fates(led, later) /\ (Books(led) => Books(later))

LEMMA FatesOn ==
  ASSUME NEW x \in Ledger, NEW y \in Ledger, NEW z \in Ledger, Fates(x, y), Fates(y, z)
  PROVE  Fates(x, z)
<1>1. ASSUME NEW id \in ById(x) PROVE Fate(x.claims[id], z.claims[id])
  <2>1. id \in ById(y) /\ id \in ById(z) BY DEF Fates
  <2>2. x.claims[id] \in Claim /\ y.claims[id] \in Claim /\ z.claims[id] \in Claim BY <2>1, ClaimsOf
  <2>3. Fate(x.claims[id], y.claims[id]) /\ Fate(y.claims[id], z.claims[id]) BY <2>1 DEF Fates
  <2> QED BY <2>2, <2>3, FateOn
<1> QED BY <1>1 DEF Fates

LEMMA KeepsOn ==
  ASSUME NEW x \in Ledger, NEW y \in Ledger, NEW z \in Ledger, Keeps(x, y), Keeps(y, z)
  PROVE  Keeps(x, z)
BY FatesOn DEF Keeps

\* Where the claims stay, so does all that is said of them.
LEMMA SameClaims ==
  ASSUME NEW led \in Ledger, NEW later \in Ledger, Orderly(led), later.claims = led.claims
  PROVE  Orderly(later) /\ Fates(led, later)
BY ClaimsOf, FateSelf DEF Orderly, Fates, ById

LEMMA SameClaimsKeep ==
  ASSUME NEW led \in Ledger, NEW later \in Ledger, Orderly(led), later.claims = led.claims,
         \A a \in Agents : later.rep[a].kills = led.rep[a].kills /\ later.rep[a].deaths = led.rep[a].deaths
  PROVE  Keeps(led, later)
<1>1. Orderly(later) /\ Fates(led, later) BY SameClaims
<1>2. ById(later) = ById(led) BY DEF ById
<1>3. Books(led) => Books(later) BY <1>2, BooksStay DEF SameBooks
<1> QED BY <1>1, <1>3 DEF Keeps

\* One claim is new, or meets a fate it may.
LEMMA OneClaim ==
  ASSUME NEW led \in Ledger, Orderly(led), NEW id \in Ids, NEW c \in Claim, Sound(c),
         id \in ById(led) => Fate(led.claims[id], c),
         NEW later \in Ledger, later.claims[id] = c, \A i \in Ids \ {id} : later.claims[i] = led.claims[i]
  PROVE  /\ Orderly(later) /\ Fates(led, later) /\ ById(later) = ById(led) \cup {id}
         /\ \A i \in ById(led) \ {id} : later.claims[i] = led.claims[i]
<1>2. later.claims[id] = c /\ \A i \in Ids \ {id} : later.claims[i] = led.claims[i] OBVIOUS
<1>3. c # NoClaim BY NoClaimAssumption
<1>4. ById(later) = ById(led) \cup {id} BY <1>2, <1>3 DEF ById
<1>5. \A i \in ById(led) \ {id} : later.claims[i] = led.claims[i] BY <1>2, ClaimsOf
<1>6. Orderly(later) BY <1>2, <1>4, <1>5 DEF Orderly
<1>7. Fates(led, later) BY <1>2, <1>4, <1>5, ClaimsOf, FateSelf DEF Fates
<1> QED BY <1>2, <1>4, <1>5, <1>6, <1>7

LEMMA ClaimKeeps ==
  ASSUME NEW led \in Ledger, Orderly(led), NEW id \in Ids, NEW c \in Claim, Sound(c),
         id \in ById(led) => Fate(led.claims[id], c) /\ SameBooks(led.claims[id], c),
         id \notin ById(led) => Unbooked(c)
  PROVE  Keeps(led, WithClaim(led, id, c))
<1> DEFINE later == WithClaim(led, id, c)
<1>1. later \in Ledger BY DEF WithClaim, Ledger
<1>2. /\ later.claims[id] = c /\ \A i \in Ids \ {id} : later.claims[i] = led.claims[i]
      /\ later.rep = led.rep
  BY DEF WithClaim, Ledger
<1> HIDE DEF later
<1>3. /\ Orderly(later) /\ Fates(led, later) /\ ById(later) = ById(led) \cup {id}
      /\ \A i \in ById(led) \ {id} : later.claims[i] = led.claims[i]
  <2>1. id \in ById(led) => Fate(led.claims[id], c) OBVIOUS
  <2> QED BY <1>1, <1>2, <2>1, OneClaim
<1>4. \A i \in ById(led) : i \in ById(later) /\ SameBooks(led.claims[i], later.claims[i])
  BY <1>2, <1>3 DEF SameBooks
<1>5. \A i \in ById(later) \ ById(led) : Unbooked(later.claims[i]) BY <1>2, <1>3
<1>6. Books(led) => Books(later) BY <1>1, <1>2, <1>4, <1>5, BooksStay
<1> QED BY <1>3, <1>6 DEF Keeps, later

LEMMA AssertedKeeps ==
  ASSUME NEW led \in Ledger, Orderly(led), NEW id \in Ids, NEW author \in Agents, NEW receipt \in ReceiptKinds,
         NEW answers \in BOOLEAN
  PROVE  Keeps(led, Asserted(led, id, author, receipt, answers))
<1>1. CASE id \notin ById(led)
  <2>1. Keeps(led, WithClaim(led, id, NewClaim(author, receipt)))
    BY <1>1, NewClaimTyped, NewClaimSound, NewClaimUnbooked, ClaimKeeps
  <2> QED BY <1>1, <2>1 DEF Asserted
<1>2. CASE id \in ById(led)
  <2> DEFINE c == led.claims[id]
  <2>1. c \in Claim /\ Sound(c) BY <1>2, ClaimsOf DEF Orderly
  <2>2. CASE NoReassert(c, answers)
    <3>1. Asserted(led, id, author, receipt, answers) = led BY <1>2, <2>2 DEF Asserted
    <3> QED BY <3>1, SameClaimsKeep
  <2>3. CASE ~NoReassert(c, answers)
    <3>1. c.status = "killed" => c.reopens < MaxReopens
      BY <2>1, <2>3, LedgerAssumption DEF NoReassert, Claim
    <3> HIDE DEF c
    <3> DEFINE d == Restated(c, receipt)
    <3>2. d \in Claim /\ Sound(d) /\ Fate(c, d) /\ SameBooks(c, d)
      BY <2>1, <3>1, RestatedContinues, RestatedSound, RestatedBooks
    <3> HIDE DEF d
    <3>3. Keeps(led, WithClaim(led, id, d)) BY <1>2, <3>2, ClaimKeeps DEF c
    <3> QED BY <1>2, <2>3, <3>3 DEF Asserted, c, d
  <2> QED BY <2>2, <2>3
<1> QED BY <1>1, <1>2

LEMMA CheckedKeeps ==
  ASSUME NEW led \in Ledger, Orderly(led), NEW done \in SUBSET Unchecked(led),
         NEW verdict \in [done -> {"stable", "unstable"}]
  PROVE  Keeps(led, Checked(led, verdict))
<1> DEFINE claims == [id \in Ids |-> IF id \in done THEN WithReceipt(led.claims[id], verdict[id])
                                    ELSE led.claims[id]]
           later == Checked(led, verdict)
<1>1. later \in Ledger /\ Grows(led, later) BY CheckedGrows
<1>2. DOMAIN verdict = done OBVIOUS
<1>3. later.claims = claims /\ later.rep = led.rep BY <1>2 DEF Checked, Ledger
<1>4. done \subseteq ById(led) BY DEF Unchecked, WithStatus
<1>5. \A id \in done : verdict[id] \in ReceiptKinds BY DEF ReceiptKinds
<1> HIDE DEF later
<1>6. ASSUME NEW id \in ById(led)
      PROVE  /\ id \in ById(later) /\ Sound(later.claims[id])
             /\ Fate(led.claims[id], later.claims[id]) /\ SameBooks(led.claims[id], later.claims[id])
  <2>1. id \in Ids /\ led.claims[id] \in Claim /\ Sound(led.claims[id]) BY ClaimsOf DEF Orderly
  <2>2. id \in ById(later) BY <1>1 DEF Grows
  <2>3. CASE id \in done
    <3>1. later.claims[id] = WithReceipt(led.claims[id], verdict[id]) BY <1>3, <2>1, <2>3
    <3> QED BY <1>5, <2>1, <2>2, <2>3, <3>1, ReceiptSound, ReceiptBooks
  <2>4. CASE id \notin done
    <3>1. later.claims[id] = led.claims[id] BY <1>3, <2>1, <2>4
    <3> QED BY <2>1, <2>2, <3>1, FateSelf DEF SameBooks
  <2> QED BY <2>3, <2>4
<1>7. ById(later) = ById(led)
  <2>1. ASSUME NEW id \in ById(later), id \notin ById(led) PROVE FALSE
    <3>1. id \in Ids /\ later.claims[id] = led.claims[id] BY <1>3, <1>4, <2>1 DEF ById
    <3> QED BY <2>1, <3>1 DEF ById
  <2> QED BY <1>6, <2>1
<1>8. Orderly(later) /\ Fates(led, later) BY <1>6, <1>7 DEF Orderly, Fates
<1>9. Books(led) => Books(later) BY <1>1, <1>3, <1>6, <1>7, BooksStay
<1> QED BY <1>8, <1>9 DEF Keeps, later

LEMMA WithstoodKeeps ==
  ASSUME NEW led \in Ledger, Orderly(led), NEW id \in Attackable(led), NEW killer \in Agents
  PROVE  Keeps(led, Withstood(led, id, killer))
<1> DEFINE c == led.claims[id]
           d == RecordKill(c, killer, FALSE)
<1>1. id \in ById(led) /\ c.status # "killed" BY DEF Attackable
<1>2. c \in Claim /\ Sound(c) /\ id \in Ids BY <1>1, ClaimsOf DEF Orderly
<1> HIDE DEF c
<1>3. d \in Claim /\ Sound(d) /\ Fate(c, d) /\ SameBooks(c, d)
  BY <1>1, <1>2, KillContinues, KillSound, AttemptBooks
<1> HIDE DEF d
<1>4. Keeps(led, WithClaim(led, id, d)) BY <1>1, <1>2, <1>3, ClaimKeeps DEF c
<1> QED BY <1>4 DEF Withstood, c, d

LEMMA KilledKeeps ==
  ASSUME NEW led \in Ledger, Orderly(led), NEW id \in Attackable(led), NEW killer \in Agents
  PROVE  Keeps(led, Killed(led, id, killer))
<1> DEFINE c == led.claims[id]
           d == RecordKill(c, killer, TRUE)
           later == Killed(led, id, killer)
<1>1. id \in ById(led) /\ c.status # "killed" BY DEF Attackable
<1>2. c \in Claim /\ Sound(c) /\ id \in Ids /\ c.author \in Agents BY <1>1, ClaimsOf DEF Orderly, Claim
<1>3. later \in Ledger BY <1>1, KilledGrows
<1>4. /\ later.claims[id] = d /\ \A i \in Ids \ {id} : later.claims[i] = led.claims[i]
      /\ Scored(led, later, killer, c.author)
  <2> DEFINE x == WithClaim(led, id, d)
             y == BumpRep(x, killer, "kills")
             z == BumpRep(y, c.author, "deaths")
  <2>1. later = z BY DEF Killed
  <2> HIDE DEF c, d, later
  <2>2. /\ x.claims[id] = d /\ \A i \in Ids \ {id} : x.claims[i] = led.claims[i]
        /\ x.rep = led.rep
    BY <1>2 DEF WithClaim, Ledger
  <2>3. x \in Ledger
    <3>1. d \in Claim BY <1>2, KillContinues DEF d
    <3> QED BY <1>2, <3>1 DEF WithClaim, Ledger
  <2> HIDE DEF x
  <2>4. y \in Ledger /\ y.claims = x.claims /\ y.rep = [x.rep EXCEPT ![killer] = Bumped(@, "kills", 1)]
    <3>1. y \in Ledger BY <2>3, RepGrows
    <3> QED BY <2>3, <3>1 DEF BumpRep, Ledger
  <2> HIDE DEF y
  <2>5. z.claims = y.claims /\ z.rep = [y.rep EXCEPT ![c.author] = Bumped(@, "deaths", 1)]
    BY <2>4 DEF BumpRep, Ledger
  <2> HIDE DEF z
  <2>6. x.rep \in [Agents -> Score] /\ y.rep \in [Agents -> Score] BY <2>3, <2>4 DEF Ledger
  <2>7. ASSUME NEW a \in Agents
        PROVE  /\ z.rep[a].kills = led.rep[a].kills + (IF a = killer THEN 1 ELSE 0)
               /\ z.rep[a].deaths = led.rep[a].deaths + (IF a = c.author THEN 1 ELSE 0)
    <3>1. \A s \in Score : /\ Bumped(s, "kills", 1).kills = s.kills + 1 /\ Bumped(s, "kills", 1).deaths = s.deaths
                           /\ Bumped(s, "deaths", 1).deaths = s.deaths + 1 /\ Bumped(s, "deaths", 1).kills = s.kills
                           /\ s.kills \in Nat /\ s.deaths \in Nat
      BY DEF Bumped, Score
    <3>2. y.rep[a] = (IF a = killer THEN Bumped(x.rep[a], "kills", 1) ELSE x.rep[a]) BY <2>4, <2>6
    <3>3. z.rep[a] = (IF a = c.author THEN Bumped(y.rep[a], "deaths", 1) ELSE y.rep[a]) BY <2>5, <2>6
    <3>4. x.rep[a] \in Score /\ y.rep[a] \in Score /\ x.rep[a] = led.rep[a] BY <2>2, <2>6
    <3>5. /\ y.rep[a].kills = led.rep[a].kills + (IF a = killer THEN 1 ELSE 0)
          /\ y.rep[a].deaths = led.rep[a].deaths
      BY <3>1, <3>2, <3>4
    <3>6. /\ z.rep[a].kills = y.rep[a].kills
          /\ z.rep[a].deaths = y.rep[a].deaths + (IF a = c.author THEN 1 ELSE 0)
      BY <3>1, <3>3, <3>4
    <3> QED BY <3>5, <3>6
  <2>8. Scored(led, z, killer, c.author) BY <2>7 DEF Scored
  <2> QED BY <2>1, <2>2, <2>4, <2>5, <2>8
<1>5. d \in Claim /\ Sound(d) /\ Fate(c, d)
  <2> HIDE DEF c
  <2> QED BY <1>1, <1>2, KillContinues, KillSound
<1> HIDE DEF later
<1>6. ASSUME Books(led) PROVE Books(later)
  <2>1. Scored(led, later, killer, led.claims[id].author) BY <1>4
  <2>2. later.claims[id] = RecordKill(led.claims[id], killer, TRUE) BY <1>4
  <2>3. \A i \in Ids \ {id} : later.claims[i] = led.claims[i] BY <1>4
  <2>4. led.claims[id].status # "killed" /\ id \in ById(led) BY <1>1
  <2> HIDE DEF c, d
  <2> QED BY <1>3, <1>6, <2>1, <2>2, <2>3, <2>4, KillIsBooked
<1> HIDE DEF d
<1>7. Orderly(later) /\ Fates(led, later) BY <1>2, <1>3, <1>4, <1>5, OneClaim
<1> QED BY <1>6, <1>7 DEF Keeps, later

LEMMA ChallengedKeeps ==
  ASSUME NEW led \in Ledger, Orderly(led), NEW id \in Attackable(led), NEW killer \in Agents
  PROVE  Keeps(led, Challenged(led, id, killer))
BY WithstoodKeeps, KilledKeeps DEF Challenged

LEMMA ContradictedKeeps ==
  ASSUME NEW led \in Ledger, Orderly(led), NEW target \in Attackable(led), NEW new \in Ids,
         NEW quoted \in BOOLEAN, NEW killer \in Agents
  PROVE  Keeps(led, Contradicted(led, target, new, quoted, killer))
<1> DEFINE x == WithClaim(led, new, NewClaim(killer, "ok"))
           y == [x EXCEPT !.edges = @ \cup {<<new, target>>}]
<1>1. target \in ById(led) /\ led.claims[target].status # "killed" /\ target \in Ids BY ClaimsOf DEF Attackable
<1>2. CASE ~quoted \/ new \in ById(led) BY <1>2, WithstoodKeeps DEF Contradicted
<1>3. CASE ~(~quoted \/ new \in ById(led))
  <2>1. Contradicted(led, target, new, quoted, killer) =
          IF ContraValid(x, target) THEN Killed(y, target, killer) ELSE Withstood(x, target, killer)
    BY <1>3 DEF Contradicted
  <2>2. "ok" \in ReceiptKinds BY DEF ReceiptKinds
  <2>3. x \in Ledger BY <1>3, <2>2, NewClaimTyped, ClaimGrows
  <2>4. Keeps(led, x) BY <1>3, <2>2, NewClaimTyped, NewClaimSound, NewClaimUnbooked, ClaimKeeps
  <2>5. x.claims[target] = led.claims[target] BY <1>1, <1>3 DEF WithClaim, Ledger
  <2> HIDE DEF x
  <2>6. target \in Attackable(x) BY <1>1, <2>5 DEF Attackable, ById
  <2>7. y \in Ledger /\ y.claims = x.claims /\ y.rep = x.rep BY <1>1, <2>3 DEF Ledger
  <2> HIDE DEF y
  <2>8. Orderly(x) BY <2>4 DEF Keeps
  <2>9. Keeps(x, y) BY <2>3, <2>7, <2>8, SameClaimsKeep
  <2>10. target \in Attackable(y) BY <2>6, <2>7 DEF Attackable, ById
  <2>11. Keeps(x, Withstood(x, target, killer)) /\ Withstood(x, target, killer) \in Ledger
    BY <2>3, <2>6, <2>8, WithstoodKeeps, WithstoodGrows DEF Attackable
  <2>12. Orderly(y) BY <2>9 DEF Keeps
  <2>13. Keeps(y, Killed(y, target, killer)) /\ Killed(y, target, killer) \in Ledger
    BY <2>7, <2>10, <2>12, KilledKeeps, KilledGrows DEF Attackable
  <2>14. Keeps(led, y) BY <2>3, <2>4, <2>7, <2>9, KeepsOn
  <2>15. Keeps(led, Killed(y, target, killer)) BY <2>7, <2>13, <2>14, KeepsOn
  <2>16. Keeps(led, Withstood(x, target, killer)) BY <2>3, <2>4, <2>11, KeepsOn
  <2> QED BY <2>1, <2>15, <2>16
<1> QED BY <1>2, <1>3

LEMMA ResolveKeeps ==
  ASSUME NEW led \in Ledger, Orderly(led)
  PROVE  Keeps(led, Resolve(led))
<1> DEFINE settled(id) == [led.claims[id] EXCEPT !.status = StatusOf(led.claims[id])]
           later == Resolve(led)
<1>1. later \in Ledger /\ Grows(led, later) BY ResolveGrows
<1>2. later.claims = [id \in Ids |-> IF id \in ById(led) THEN settled(id) ELSE NoClaim] /\ later.rep = led.rep
  BY DEF Resolve, Ledger
<1> HIDE DEF later
<1>3. ASSUME NEW id \in ById(led)
      PROVE  Sound(settled(id)) /\ Fate(led.claims[id], settled(id)) /\ SameBooks(led.claims[id], settled(id))
  <2>1. led.claims[id] \in Claim /\ Sound(led.claims[id]) BY ClaimsOf DEF Orderly
  <2> QED BY <2>1, SettledSound, SettledBooks
<1> HIDE DEF settled
<1>4. \A id \in ById(led) : id \in ById(later) /\ later.claims[id] = settled(id)
  BY <1>1, <1>2, ClaimsOf DEF Grows
<1>5. ById(later) = ById(led) BY <1>2, <1>4 DEF ById
<1>6. Orderly(later) /\ Fates(led, later) BY <1>3, <1>4, <1>5 DEF Orderly, Fates
<1>7. Books(led) => Books(later) BY <1>1, <1>2, <1>3, <1>4, <1>5, BooksStay
<1> QED BY <1>6, <1>7 DEF Keeps, later

LEMMA CreditKeeps ==
  ASSUME NEW before \in Ledger, NEW led \in Ledger, Orderly(led)
  PROVE  Keeps(led, CreditSurvivors(before, led))
<1> DEFINE later == CreditSurvivors(before, led)
           new(a) == {id \in WithStatus(led, "survived") \ WithStatus(before, "survived") :
                        led.claims[id].author = a}
<1>1. later \in Ledger BY CreditGrows
<1>2. /\ later.claims = led.claims
      /\ later.rep = [a \in Agents |-> Bumped(led.rep[a], "survives", Cardinality(new(a)))]
  BY DEF CreditSurvivors, Ledger
<1> HIDE DEF later, new
<1>3. \A s \in Score : \A n : Bumped(s, "survives", n).kills = s.kills /\ Bumped(s, "survives", n).deaths = s.deaths
  BY DEF Bumped, Score
<1>4. \A a \in Agents : led.rep[a] \in Score BY DEF Ledger
<1>5. \A a \in Agents : later.rep[a].kills = led.rep[a].kills /\ later.rep[a].deaths = led.rep[a].deaths
  BY <1>2, <1>3, <1>4
<1>6. Keeps(led, later) BY <1>1, <1>2, <1>5, SameClaimsKeep
<1> QED BY <1>6 DEF later

LEMMA RoundKeeps ==
  ASSUME NEW before \in Ledger, NEW led \in Ledger, Orderly(led)
  PROVE  Keeps(led, EndOfRound(before, led))
<1> DEFINE x == Resolve(led)
           after == CreditSurvivors(before, x)
           later == EndOfRound(before, led)
<1>1. x \in Ledger /\ Keeps(led, x) BY ResolveGrows, ResolveKeeps
<1>2. later = [after EXCEPT !.round = before.round + 1, !.fixpoint = Signature(before) = Signature(after)]
  BY DEF EndOfRound
<1>3. later \in Ledger BY RoundGrows
<1> HIDE DEF x
<1>4. after \in Ledger /\ Keeps(x, after) BY <1>1, CreditGrows, CreditKeeps DEF Keeps
<1> HIDE DEF after, later
<1>5. later.claims = after.claims /\ later.rep = after.rep BY <1>2, <1>4 DEF Ledger
<1>6. Keeps(after, later) BY <1>3, <1>4, <1>5, SameClaimsKeep DEF Keeps
<1>7. Keeps(led, after) BY <1>1, <1>4, KeepsOn
<1>8. Keeps(led, later) BY <1>3, <1>4, <1>6, <1>7, KeepsOn
<1> QED BY <1>8 DEF later

-----------------------------------------------------------------------------
(* The state's types.  A run that still plays has a round left. *)

ShapeInv == TypeOK /\ \A p \in Procs : run[p] # NoRun /\ run[p].pc # "report" => run[p].left # 0

\* A step within a turn: only the run's copy of the ledger changes, and it grows.
Turn(p, r) ==
  /\ r \in Run /\ r.pc # "report" /\ r.before = run[p].before /\ r.version = run[p].version
  /\ r.left = run[p].left /\ Grows(run[p].ledger, r.ledger)
  /\ Orderly(run[p].ledger) => Keeps(run[p].ledger, r.ledger)
  /\ run[p] # NoRun /\ run[p].pc # "report"
  /\ SetRun(p, r) /\ UNCHANGED <<row, outcomes, runs, faults, stored>>

LEMMA RunTyped == ASSUME TypeOK, NEW p \in Procs, run[p] # NoRun PROVE run[p] \in Run
BY DEF TypeOK

LEMMA NewLedgerTyped == NewLedger \in Ledger /\ ById(NewLedger) = {}
BY DEF NewLedger, Ledger, ById, Score

\* A row of a block is a turn's step.
LEMMA RowIsTurn ==
  ASSUME TypeOK, NEW p \in Procs, run[p] # NoRun, run[p].pc # "report",
         NEW led \in Ledger, Grows(run[p].ledger, led), SetLedger(p, led),
         Orderly(run[p].ledger) => Keeps(run[p].ledger, led),
         UNCHANGED <<row, outcomes, runs, faults, stored>>
  PROVE  \E r : Turn(p, r)
<1> DEFINE x == run[p]
           rows == x.rows + 1
           r == [x EXCEPT !.ledger = led, !.rows = rows]
<1>1. x \in Run /\ rows \in Nat BY RunTyped DEF Run
<1>2. SetRun(p, r) BY DEF SetLedger
<1> HIDE DEF x, rows
<1>3. r \in Run /\ r.pc = x.pc /\ r.before = x.before /\ r.version = x.version /\ r.left = x.left /\ r.ledger = led
  BY <1>1 DEF Run
<1> HIDE DEF r
<1>4. Turn(p, r) BY <1>2, <1>3 DEF Turn, x
<1> QED BY <1>4

LEMMA EndAssertIsTurn ==
  ASSUME TypeOK, NEW p \in Procs, EndAssert(p)
  PROVE  \E r : Turn(p, r)
<1>1. run[p] \in Run /\ run[p] # NoRun /\ run[p].pc = "assert" BY RunTyped DEF EndAssert, At
<1>2. run[p].ledger \in Ledger BY <1>1 DEF Run
<1>3. PICK led \in Ledger : /\ Grows(run[p].ledger, led) /\ ToAttack(p, led)
                            /\ Orderly(run[p].ledger) => Keeps(run[p].ledger, led)
  <2>1. CASE run[p].metamorph
    <3>1. PICK done \in SUBSET Unchecked(run[p].ledger) :
            \E verdict \in [done -> {"stable", "unstable"}] : ToAttack(p, Checked(run[p].ledger, verdict))
      BY <2>1 DEF EndAssert
    <3>2. PICK verdict \in [done -> {"stable", "unstable"}] : ToAttack(p, Checked(run[p].ledger, verdict))
      BY <3>1
    <3> QED BY <1>2, <3>2, CheckedGrows, CheckedKeeps
  <2>2. CASE ~run[p].metamorph
    <3>1. Orderly(run[p].ledger) => Keeps(run[p].ledger, run[p].ledger) BY <1>2, SameClaimsKeep
    <3> QED BY <1>2, <2>2, <3>1, GrowsSelf DEF EndAssert
  <2> QED BY <2>1, <2>2
<1> DEFINE x == run[p]
           r == [x EXCEPT !.pc = "attack", !.ledger = led, !.rows = 0]
<1>4. SetRun(p, r) BY <1>3 DEF ToAttack
<1> HIDE DEF x
<1>5. r \in Run /\ r.pc = "attack" /\ r.before = x.before /\ r.version = x.version /\ r.left = x.left /\ r.ledger = led
  BY <1>1 DEF Run, x
<1> HIDE DEF r
<1>6. UNCHANGED <<row, outcomes, runs, faults, stored>> BY DEF EndAssert
<1>7. Turn(p, r) BY <1>1, <1>3, <1>4, <1>5, <1>6 DEF Turn, x
<1> QED BY <1>7

LEMMA StepsOfATurn ==
  ASSUME TypeOK, NEW p \in Procs,
         AssertRow(p) \/ EndAssert(p) \/ Challenge(p) \/ Contra(p) \/ RunTest(p)
  PROVE  \E r : Turn(p, r)
<1>1. CASE AssertRow(p)
  <2>1. run[p] \in Run /\ run[p] # NoRun /\ run[p].pc # "report" BY <1>1, RunTyped DEF AssertRow, At
  <2>2. PICK id \in Ids, receipt \in {"ok", "bad"}, answers \in BOOLEAN :
          SetLedger(p, Asserted(run[p].ledger, id, run[p].roles.assertor, receipt, answers))
    BY <1>1 DEF AssertRow
  <2>3. run[p].ledger \in Ledger /\ run[p].roles.assertor \in Agents BY <2>1 DEF Run
  <2>4. receipt \in ReceiptKinds BY DEF ReceiptKinds
  <2>5. /\ Asserted(run[p].ledger, id, run[p].roles.assertor, receipt, answers) \in Ledger
        /\ Grows(run[p].ledger, Asserted(run[p].ledger, id, run[p].roles.assertor, receipt, answers))
    BY <2>3, <2>4, AssertedGrows
  <2>6. Orderly(run[p].ledger) =>
          Keeps(run[p].ledger, Asserted(run[p].ledger, id, run[p].roles.assertor, receipt, answers))
    BY <2>3, <2>4, AssertedKeeps
  <2>7. UNCHANGED <<row, outcomes, runs, faults, stored>> BY <1>1 DEF AssertRow
  <2> QED BY <2>1, <2>2, <2>5, <2>6, <2>7, RowIsTurn
<1>2. CASE EndAssert(p) BY <1>2, EndAssertIsTurn
<1>3. CASE Challenge(p) \/ Contra(p) \/ RunTest(p)
  <2>1. /\ run[p] \in Run /\ run[p] # NoRun /\ run[p].pc # "report"
        /\ UNCHANGED <<row, outcomes, runs, faults, stored>>
    BY <1>3, RunTyped DEF Challenge, Contra, RunTest, At
  <2>2. run[p].ledger \in Ledger /\ run[p].roles.falsifier \in Agents BY <2>1 DEF Run
  <2>3. Attackable(run[p].ledger) \subseteq ById(run[p].ledger) BY DEF Attackable
  <2>4. CASE Challenge(p)
    <3>1. PICK id \in Attackable(run[p].ledger) :
            SetLedger(p, Challenged(run[p].ledger, id, run[p].roles.falsifier))
      BY <2>4 DEF Challenge
    <3> QED BY <2>1, <2>2, <2>3, <3>1, ChallengedGrows, ChallengedKeeps, RowIsTurn
  <2>5. CASE Contra(p)
    <3>1. PICK id \in Attackable(run[p].ledger), new \in Ids, quoted \in BOOLEAN :
            SetLedger(p, Contradicted(run[p].ledger, id, new, quoted, run[p].roles.falsifier))
      BY <2>5 DEF Contra
    <3> QED BY <2>1, <2>2, <2>3, <3>1, ContradictedGrows, ContradictedKeeps, RowIsTurn
  <2>6. CASE RunTest(p)
    <3>1. PICK id \in Attackable(run[p].ledger) :
            \/ SetLedger(p, Withstood(run[p].ledger, id, run[p].roles.falsifier))
            \/ SetLedger(p, Killed(run[p].ledger, id, run[p].roles.falsifier))
      BY <2>6 DEF RunTest
    <3> QED BY <2>1, <2>2, <2>3, <3>1, WithstoodGrows, WithstoodKeeps, KilledGrows, KilledKeeps, RowIsTurn
  <2> QED BY <1>3, <2>4, <2>5, <2>6
<1> QED BY <1>1, <1>2, <1>3

\* How a run goes on after the save of its round.
LEMMA AfterSaveIs ==
  ASSUME NEW x \in Run, x.left # 0, NEW led \in Ledger, NEW saved \in BOOLEAN
  PROVE  LET r == AfterSave(x, led, saved)
         IN  /\ r \in Run /\ r.version = (IF saved THEN x.version + 1 ELSE x.version)
             /\ Grows(led, r.ledger) /\ r.ledger.claims = led.claims /\ r.ledger.rep = led.rep
             /\ r.pc # "report" => r.left # 0 /\ r.before.round = led.round
             /\ r.persistOk => saved
<1> DEFINE version == IF saved THEN x.version + 1 ELSE x.version
           left == x.left - 1
           persistOk == x.persistOk /\ saved
           next == [x EXCEPT !.ledger = led, !.rows = 0, !.left = left, !.version = version,
                             !.persistOk = persistOk]
           again == [led EXCEPT !.fixpoint = FALSE]
           over == [next EXCEPT !.pc = "report"]
           more == [next EXCEPT !.pc = "assert", !.ledger = again, !.before = again]
           r == AfterSave(x, led, saved)
<1>1. r = IF led.fixpoint \/ x.left = 1 THEN over ELSE more BY DEF AfterSave
<1>2. left \in Nat /\ (x.left # 1 => left # 0) /\ version \in Nat /\ persistOk \in BOOLEAN BY DEF Run
<1>3. again \in Ledger /\ again.claims = led.claims /\ again.edges = led.edges /\ again.round = led.round
      /\ again.rep = led.rep
  BY DEF Ledger
<1> HIDE DEF version, left, persistOk, again, r
<1>4. Grows(led, again) /\ Grows(led, led) BY <1>3, GrowsSelf DEF Grows, ById
<1>5. /\ next \in Run /\ next.version = version /\ next.left = left /\ next.ledger = led
      /\ next.persistOk => saved
  BY <1>2 DEF Run, persistOk
<1> HIDE DEF next
<1>6. /\ over \in Run /\ over.version = version /\ over.ledger = led /\ over.pc = "report"
      /\ over.persistOk => saved
  BY <1>5 DEF Run
<1>7. /\ more \in Run /\ more.version = version /\ more.ledger = again /\ more.before = again /\ more.left = left
      /\ more.persistOk => saved
  BY <1>3, <1>5 DEF Run
<1> HIDE DEF over, more
<1>8. CASE led.fixpoint \/ x.left = 1 BY <1>1, <1>4, <1>6, <1>8 DEF version, r
<1>9. CASE ~(led.fixpoint \/ x.left = 1) BY <1>1, <1>2, <1>3, <1>4, <1>7, <1>9 DEF version, r
<1> QED BY <1>8, <1>9

\* The end of a round with a save that succeeded, and with one that did not.
Saved(p) ==
  LET x == run[p]
      led == EndOfRound(x.before, x.ledger)
  IN  /\ Matches(x.version) /\ Save(x.version, led)
      /\ SetRun(p, AfterSave(x, led, TRUE)) /\ UNCHANGED <<faults, outcomes, runs>>

Unsaved(p) ==
  LET x == run[p]
      led == EndOfRound(x.before, x.ledger)
  IN  /\ SetRun(p, AfterSave(x, led, FALSE)) /\ faults' \in 0..MaxFaults
      /\ UNCHANGED <<row, stored, outcomes, runs>>

LEMMA FaultTyped == ASSUME TypeOK, Fault PROVE faults' \in 0..MaxFaults
BY BoundAssumption DEF Fault, TypeOK

LEMMA EndRoundIs ==
  ASSUME ShapeInv, NEW p \in Procs, EndRound(p)
  PROVE  /\ run[p] \in Run /\ run[p] # NoRun /\ run[p].pc # "report" /\ run[p].left # 0
         /\ run[p].before \in Ledger /\ run[p].ledger \in Ledger
         /\ Saved(p) \/ Unsaved(p)
<1>1. run[p] # NoRun /\ run[p].pc = "attack" BY DEF EndRound, At
<1>2. run[p] \in Run /\ run[p].left # 0 BY <1>1, RunTyped DEF ShapeInv
<1>3. run[p].before \in Ledger /\ run[p].ledger \in Ledger BY <1>2 DEF Run
<1>4. Saved(p) \/ Unsaved(p)
  <2>1. UNCHANGED faults => faults' \in 0..MaxFaults BY DEF ShapeInv, TypeOK
  <2>2. Fault => faults' \in 0..MaxFaults BY FaultTyped DEF ShapeInv
  <2> QED BY <2>1, <2>2 DEF EndRound, Saved, Unsaved
<1> QED BY <1>1, <1>2, <1>3, <1>4

\* Only one run's record changes.
LEMMA OneRun ==
  ASSUME TypeOK, NEW p \in Procs, NEW r \in Run \cup {NoRun}, SetRun(p, r)
  PROVE  /\ run' \in [Procs -> Run \cup {NoRun}] /\ run'[p] = r
         /\ \A q \in Procs \ {p} : run'[q] = run[q]
BY DEF TypeOK, SetRun

LEMMA LoadIs ==
  ASSUME TypeOK, NEW p \in Procs, Load(p)
  PROVE  /\ UNCHANGED <<row, outcomes, stored>> /\ runs' \in [Procs -> 0..MaxRuns] /\ faults' \in 0..MaxFaults
         /\ \/ UNCHANGED run
            \/ \E r \in Run :
                 /\ SetRun(p, r) /\ r.left # 0 /\ r.before = r.ledger
                 /\ r.pc = "assert"
                 /\ IF row = NoRow THEN r.version = 0 /\ r.ledger = NewLedger
                    ELSE /\ r.version = row.version /\ r.ledger.round = row.ledger.round
                         /\ Grows(row.ledger, r.ledger)
                         /\ r.ledger.claims = row.ledger.claims /\ r.ledger.rep = row.ledger.rep
<1>1. UNCHANGED <<row, outcomes, stored>> BY DEF Load
<1>2. runs' \in [Procs -> 0..MaxRuns] BY BoundAssumption DEF Load, TypeOK
<1>3. CASE Fault /\ UNCHANGED run BY <1>1, <1>2, <1>3, FaultTyped
<1>4. CASE ~(Fault /\ UNCHANGED run)
  <2> DEFINE led == IF row = NoRow THEN NewLedger ELSE [row.ledger EXCEPT !.fixpoint = FALSE]
             version == IF row = NoRow THEN 0 ELSE row.version
  <2>1. PICK a \in Agents, f \in Agents, n \in Rounds, m \in Metamorph :
          /\ SetRun(p, [pc |-> "assert", roles |-> [assertor |-> a, falsifier |-> f],
                       metamorph |-> m, ledger |-> led, before |-> led,
                       version |-> version, left |-> n, rows |-> 0, persistOk |-> TRUE])
          /\ UNCHANGED faults
    BY <1>4 DEF Load
  <2>2. row # NoRow => row.ledger \in Ledger /\ row.version \in Nat BY DEF TypeOK, Row
  <2>3. row # NoRow => /\ led.claims = row.ledger.claims /\ led.edges = row.ledger.edges
                      /\ led.round = row.ledger.round /\ led.rep = row.ledger.rep
    BY <2>2 DEF Ledger
  <2>4. led \in Ledger /\ version \in Nat BY <2>2, NewLedgerTyped DEF Ledger
  <2>5. row # NoRow => Grows(row.ledger, led) BY <2>2, <2>3, GrowsSelf DEF Grows, ById
  <2>6. n \in Nat /\ n # 0 /\ m \in BOOLEAN BY RunAssumption
  <2>7. row = NoRow => version = 0 /\ led = NewLedger OBVIOUS
  <2>8. row # NoRow => version = row.version OBVIOUS
  <2> HIDE DEF led, version
  <2> DEFINE r == [pc |-> "assert", roles |-> [assertor |-> a, falsifier |-> f],
                   metamorph |-> m, ledger |-> led, before |-> led,
                   version |-> version, left |-> n, rows |-> 0, persistOk |-> TRUE]
  <2>9. r \in Run /\ r.pc = "assert" /\ r.left = n /\ r.before = led /\ r.ledger = led /\ r.version = version
    BY <2>4, <2>6 DEF Run
  <2>10. SetRun(p, r) BY <2>1
  <2> HIDE DEF r
  <2>11. faults' \in 0..MaxFaults BY <2>1 DEF TypeOK
  <2> QED BY <1>1, <1>2, <2>3, <2>5, <2>6, <2>7, <2>8, <2>9, <2>10, <2>11
<1> QED BY <1>3, <1>4

LEMMA ShapeInit == Init => ShapeInv
BY BoundAssumption DEF Init, ShapeInv, TypeOK

LEMMA StoredTyped == ASSUME NEW led \in Ledger PROVE Stored(led) \subseteq Ids \X Statuses
BY ClaimsOf DEF Stored, Claim

\* One action at a time; a save stores a ledger, a report an outcome that is settled.
LEMMA ShapeStep == ShapeInv /\ [Next]_vars => ShapeInv'
<1> SUFFICES ASSUME ShapeInv, [Next]_vars PROVE ShapeInv' OBVIOUS
<1>1. TypeOK BY DEF ShapeInv
<1>2. CASE UNCHANGED vars BY <1>2 DEF vars, ShapeInv, TypeOK
<1>3. CASE Delete BY <1>3 DEF Delete, ShapeInv, TypeOK
<1>4. ASSUME NEW p \in Procs, Step(p) PROVE ShapeInv'
  <2>1. CASE Load(p)
    <3>1. CASE UNCHANGED run BY <2>1, <3>1, LoadIs DEF ShapeInv, TypeOK
    <3>2. CASE ~UNCHANGED run
      <4>1. PICK r \in Run : SetRun(p, r) /\ r.left # 0 BY <1>1, <2>1, <3>2, LoadIs
      <4>2. /\ run' \in [Procs -> Run \cup {NoRun}] /\ run'[p] = r
            /\ \A q \in Procs \ {p} : run'[q] = run[q]
        BY <1>1, <4>1, OneRun
      <4> QED BY <1>1, <2>1, <4>1, <4>2, LoadIs DEF ShapeInv, TypeOK
    <3> QED BY <3>1, <3>2
  <2>2. CASE AssertRow(p) \/ EndAssert(p) \/ Challenge(p) \/ Contra(p) \/ RunTest(p)
    <3>1. PICK r : Turn(p, r) BY <1>1, <2>2, StepsOfATurn
    <3>2. /\ run' \in [Procs -> Run \cup {NoRun}] /\ run'[p] = r
          /\ \A q \in Procs \ {p} : run'[q] = run[q]
      BY <1>1, <3>1, OneRun DEF Turn
    <3> QED BY <1>1, <3>1, <3>2 DEF ShapeInv, TypeOK, Turn
  <2>3. CASE EndRound(p)
    <3> DEFINE x == run[p]
               led == EndOfRound(x.before, x.ledger)
    <3>1. /\ x \in Run /\ x.left # 0 /\ x.before \in Ledger /\ x.ledger \in Ledger
          /\ Saved(p) \/ Unsaved(p)
      BY <2>3, EndRoundIs
    <3>2. led \in Ledger BY <3>1, RoundGrows
    <3>3. PICK saved \in BOOLEAN : SetRun(p, AfterSave(x, led, saved)) BY <3>1 DEF Saved, Unsaved
    <3>4. Saved(p) => row' = [ledger |-> led, version |-> x.version + 1] /\ stored' = stored \cup Stored(led)
      BY DEF Saved, Save
    <3> HIDE DEF led
    <3> DEFINE r == AfterSave(x, led, saved)
    <3>5. r \in Run /\ (r.pc # "report" => r.left # 0) BY <3>1, <3>2, AfterSaveIs
    <3>6. SetRun(p, r) BY <3>3
    <3> HIDE DEF r, x
    <3>7. /\ run' \in [Procs -> Run \cup {NoRun}] /\ run'[p] = r
          /\ \A q \in Procs \ {p} : run'[q] = run[q]
      BY <1>1, <3>5, <3>6, OneRun
    <3>8. Saved(p) => row' \in Row /\ stored' \subseteq Ids \X Statuses
      BY <1>1, <3>1, <3>2, <3>4, StoredTyped DEF TypeOK, Row, Run
    <3>9. row' \in Row \cup {NoRow} /\ stored' \subseteq Ids \X Statuses
      BY <1>1, <3>1, <3>8 DEF TypeOK, Unsaved
    <3>10. faults' \in 0..MaxFaults /\ UNCHANGED <<outcomes, runs>>
      BY <1>1, <3>1 DEF TypeOK, Saved, Unsaved
    <3> QED BY <1>1, <3>5, <3>7, <3>9, <3>10 DEF ShapeInv, TypeOK
  <2>4. CASE Report(p)
    <3>1. run[p] \in Run BY <1>1, <2>4, RunTyped DEF Report, At
    <3>2. run[p].ledger \in Ledger BY <3>1 DEF Run
    <3>3. outcomes' \in [Ids -> Settled \cup {"none"}]
      <4>1. ASSUME NEW done \in SUBSET SettledIn(run[p].ledger)
            PROVE  Recorded(run[p].ledger, done) \in [Ids -> Settled \cup {"none"}]
        BY <1>1 DEF Recorded, SettledIn, TypeOK
      <4> QED BY <1>1, <2>4, <4>1 DEF Report, TypeOK
    <3>4. /\ run' \in [Procs -> Run \cup {NoRun}] /\ run'[p] = NoRun
          /\ \A q \in Procs \ {p} : run'[q] = run[q]
      BY <1>1, <2>4, OneRun DEF Report
    <3> QED BY <1>1, <2>4, <3>3, <3>4 DEF ShapeInv, TypeOK, Report
  <2>5. CASE Quit(p)
    <3>1. /\ run' \in [Procs -> Run \cup {NoRun}] /\ run'[p] = NoRun
          /\ \A q \in Procs \ {p} : run'[q] = run[q]
      BY <1>1, <2>5, OneRun DEF Quit
    <3> QED BY <1>1, <2>5, <3>1 DEF ShapeInv, TypeOK, Quit
  <2> QED BY <1>4, <2>1, <2>2, <2>3, <2>4, <2>5 DEF Step
<1> QED BY <1>2, <1>3, <1>4 DEF Next

\* The stored ledger, every run's copy, the outcomes and the history keep their types
\* (falsify.py, context_store.py, reputation.py).
THEOREM FalsifyTypeCorrect == Spec => []TypeOK
<1>1. ShapeInv => TypeOK BY DEF ShapeInv
<1> QED BY ShapeInit, ShapeStep, <1>1, PTL DEF Spec

-----------------------------------------------------------------------------
(* Versions only rise, and a run that has the row's version has seen the row. *)

Standing == IF row = NoRow THEN 0 ELSE row.version

Seen(p) ==
  /\ run[p].version <= Standing
  /\ row # NoRow /\ run[p].version = row.version =>
       /\ Grows(row.ledger, run[p].ledger)
       /\ run[p].pc # "report" => row.ledger.round <= run[p].before.round

SeenInv == ShapeInv /\ \A p \in Procs : run[p] # NoRun => Seen(p)

LEMMA SeenInit == Init => SeenInv
BY ShapeInit DEF Init, SeenInv

\* The others have seen what they had seen.
LEMMA OthersHaveSeen ==
  ASSUME SeenInv, NEW q \in Procs, UNCHANGED row, run'[q] = run[q]
  PROVE  run'[q] # NoRun => Seen(q)'
BY DEF SeenInv, Seen, Standing

LEMMA TurnKeepsSeen ==
  ASSUME SeenInv, ShapeInv', NEW p \in Procs, NEW r, Turn(p, r)
  PROVE  SeenInv'
<1>1. TypeOK /\ run[p] # NoRun /\ run[p].pc # "report" /\ run[p] \in Run
  BY RunTyped DEF Turn, SeenInv, ShapeInv
<1>2. r \in Run /\ UNCHANGED row BY DEF Turn
<1>3. run'[p] = r /\ \A q \in Procs \ {p} : run'[q] = run[q] BY <1>1, <1>2, OneRun DEF Turn
<1>4. Seen(p)'
  <2>1. r.version = run[p].version /\ r.before = run[p].before /\ Grows(run[p].ledger, r.ledger) BY DEF Turn
  <2>2. run[p].ledger \in Ledger /\ r.ledger \in Ledger BY <1>1, <1>2 DEF Run
  <2>3. row # NoRow => row.ledger \in Ledger BY <1>1 DEF TypeOK, Row
  <2>4. Seen(p) BY <1>1 DEF SeenInv
  <2>5. row # NoRow /\ r.version = row.version => Grows(row.ledger, r.ledger)
    BY <2>1, <2>2, <2>3, <2>4, GrowsOn DEF Seen
  <2> QED BY <1>1, <1>2, <1>3, <2>1, <2>4, <2>5 DEF Seen, Standing
<1> QED BY <1>2, <1>3, <1>4, OthersHaveSeen DEF SeenInv

\* What a save replaces, and by what.
LEMMA SavedIs ==
  ASSUME SeenInv, NEW p \in Procs, EndRound(p), Saved(p)
  PROVE  /\ row' # NoRow /\ row'.version = Standing + 1 /\ run[p].version = Standing
         /\ row'.ledger = EndOfRound(run[p].before, run[p].ledger)
         /\ row # NoRow => Extends(row.ledger, row'.ledger)
<1> DEFINE x == run[p]
           led == EndOfRound(x.before, x.ledger)
<1>1. /\ TypeOK /\ x \in Run /\ x # NoRun /\ x.pc # "report" /\ x.before \in Ledger /\ x.ledger \in Ledger
  BY EndRoundIs DEF SeenInv, ShapeInv
<1>2. Matches(x.version) /\ row' = [ledger |-> led, version |-> x.version + 1] BY DEF Saved, Save
<1>3. x.version \in Nat BY <1>1 DEF Run
<1>4. row # NoRow => row.version \in Nat \ {0} /\ row.ledger \in Ledger BY <1>1 DEF TypeOK, Row
<1>5. x.version = Standing BY <1>2, <1>4 DEF Matches, Standing
<1>6. led \in Ledger /\ Grows(x.ledger, led) /\ led.round = x.before.round + 1 BY <1>1, RoundGrows
<1>7. row' # NoRow
  <2>1. row' \in Row BY <1>2, <1>3, <1>6 DEF Row
  <2> QED BY <2>1, NullAssumption
<1>8. ASSUME row # NoRow PROVE Extends(row.ledger, led)
  <2>1. Seen(p) BY <1>1 DEF SeenInv
  <2>2. x.version = row.version BY <1>5, <1>8 DEF Standing
  <2>3. Grows(row.ledger, x.ledger) /\ row.ledger.round <= x.before.round
    BY <1>1, <1>8, <2>1, <2>2 DEF Seen
  <2>4. Grows(row.ledger, led) BY <1>1, <1>4, <1>6, <1>8, <2>3, GrowsOn
  <2>5. row.ledger.round \in Nat /\ x.before.round \in Nat BY <1>1, <1>4, <1>8 DEF Ledger
  <2> QED BY <1>6, <2>3, <2>4, <2>5 DEF Grows, Extends
<1> QED BY <1>2, <1>5, <1>7, <1>8

LEMMA EndRoundKeepsSeen ==
  ASSUME SeenInv, ShapeInv', NEW p \in Procs, EndRound(p)
  PROVE  SeenInv'
<1> DEFINE x == run[p]
           led == EndOfRound(x.before, x.ledger)
<1>1. /\ TypeOK /\ x \in Run /\ x # NoRun /\ x.pc # "report" /\ x.left # 0
      /\ x.before \in Ledger /\ x.ledger \in Ledger
  BY EndRoundIs DEF SeenInv, ShapeInv
<1>2. led \in Ledger /\ Grows(x.ledger, led) /\ led.round = x.before.round + 1 BY <1>1, RoundGrows
<1>3. row # NoRow => row.version \in Nat \ {0} /\ row.ledger \in Ledger BY <1>1 DEF TypeOK, Row
<1>4. Standing \in Nat /\ x.version \in Nat BY <1>1, <1>3 DEF Standing, Run
<1>5. CASE Saved(p)
  <2> DEFINE r == AfterSave(x, led, TRUE)
  <2>1. SetRun(p, r) BY <1>5 DEF Saved
  <2>2. row' # NoRow /\ row'.version = Standing + 1 /\ x.version = Standing /\ row'.ledger = led
    BY <1>5, SavedIs
  <2> HIDE DEF led
  <2>3. /\ r \in Run /\ r.version = x.version + 1 /\ Grows(led, r.ledger)
        /\ r.pc # "report" => r.before.round = led.round
    BY <1>1, <1>2, AfterSaveIs
  <2> HIDE DEF r, x
  <2>4. run'[p] = r /\ \A q \in Procs \ {p} : run'[q] = run[q] BY <1>1, <2>1, <2>3, OneRun
  <2>5. led.round \in Nat BY <1>2 DEF Ledger
  <2>6. Standing' = Standing + 1 BY <2>2 DEF Standing
  <2>7. Seen(p)' BY <1>4, <2>2, <2>3, <2>4, <2>5, <2>6 DEF Seen
  <2>8. ASSUME NEW q \in Procs \ {p}, run'[q] # NoRun PROVE Seen(q)'
    <3>1. run'[q] = run[q] /\ run[q] # NoRun BY <2>4, <2>8
    <3>2. run[q].version <= Standing /\ run[q].version \in Nat BY <1>1, <3>1, RunTyped DEF SeenInv, Seen, Run
    <3> QED BY <1>4, <2>2, <2>6, <3>1, <3>2 DEF Seen
  <2> QED BY <2>7, <2>8 DEF SeenInv
<1>6. CASE Unsaved(p)
  <2> DEFINE r == AfterSave(x, led, FALSE)
  <2>1. SetRun(p, r) /\ UNCHANGED row BY <1>6 DEF Unsaved
  <2> HIDE DEF led
  <2>2. /\ r \in Run /\ r.version = x.version /\ Grows(led, r.ledger)
        /\ r.pc # "report" => r.before.round = led.round
    BY <1>1, <1>2, AfterSaveIs
  <2>3. Seen(p) BY <1>1 DEF SeenInv
  <2>4. r.ledger \in Ledger BY <2>2 DEF Run
  <2> HIDE DEF r
  <2>5. run'[p] = r /\ \A q \in Procs \ {p} : run'[q] = run[q] BY <1>1, <2>1, <2>2, OneRun
  <2>6. ASSUME row # NoRow, r.version = row.version
        PROVE  Grows(row.ledger, r.ledger) /\ row.ledger.round < led.round
    <3>1. Grows(row.ledger, x.ledger) /\ row.ledger.round <= x.before.round
      BY <1>1, <2>2, <2>3, <2>6 DEF Seen
    <3>2. Grows(row.ledger, led) BY <1>1, <1>2, <1>3, <2>6, <3>1, GrowsOn
    <3>3. Grows(row.ledger, r.ledger) BY <1>2, <1>3, <2>2, <2>4, <2>6, <3>2, GrowsOn
    <3>4. row.ledger.round \in Nat /\ x.before.round \in Nat BY <1>1, <1>3, <2>6 DEF Ledger
    <3> QED BY <1>2, <3>1, <3>3, <3>4
  <2>7. Seen(p)'
    <3>1. row # NoRow => row.ledger.round \in Nat BY <1>3 DEF Ledger
    <3>2. led.round \in Nat BY <1>2 DEF Ledger
    <3>3. r.version <= Standing BY <2>2, <2>3 DEF Seen
    <3> QED BY <2>1, <2>2, <2>5, <2>6, <3>1, <3>2, <3>3 DEF Seen, Standing
  <2> QED BY <2>1, <2>5, <2>7, OthersHaveSeen DEF SeenInv
<1> QED BY <1>5, <1>6, EndRoundIs DEF SeenInv

LEMMA LoadKeepsSeen ==
  ASSUME SeenInv, ShapeInv', NEW p \in Procs, Load(p)
  PROVE  SeenInv'
<1>1. TypeOK BY DEF SeenInv, ShapeInv
<1>2. UNCHANGED row BY <1>1, LoadIs
<1>3. CASE UNCHANGED run BY <1>2, <1>3, OthersHaveSeen DEF SeenInv
<1>4. CASE ~UNCHANGED run
  <2>1. PICK r \in Run :
          /\ SetRun(p, r) /\ r.left # 0 /\ r.before = r.ledger
          /\ IF row = NoRow THEN r.version = 0
             ELSE r.version = row.version /\ Grows(row.ledger, r.ledger) /\ r.ledger.round = row.ledger.round
    BY <1>1, <1>4, LoadIs
  <2>2. run'[p] = r /\ \A q \in Procs \ {p} : run'[q] = run[q] BY <1>1, <2>1, OneRun
  <2>3. r.version \in Nat /\ r.ledger.round \in Nat BY <2>1 DEF Run, Ledger
  <2>4. Seen(p)' BY <1>2, <2>1, <2>2, <2>3 DEF Seen, Standing
  <2> QED BY <1>2, <2>2, <2>4, OthersHaveSeen DEF SeenInv
<1> QED BY <1>3, <1>4

LEMMA SeenStep == ASSUME ~Deletes PROVE SeenInv /\ [Next]_vars => SeenInv'
<1> SUFFICES ASSUME SeenInv, [Next]_vars PROVE SeenInv' OBVIOUS
<1>1. ShapeInv' BY ShapeStep DEF SeenInv
<1>2. TypeOK BY DEF SeenInv, ShapeInv
<1>3. CASE UNCHANGED vars BY <1>1, <1>3, OthersHaveSeen DEF vars, SeenInv
<1>4. CASE Delete BY <1>4 DEF Delete
<1>5. ASSUME NEW p \in Procs, Step(p) PROVE SeenInv'
  <2>1. CASE Load(p) BY <1>1, <2>1, LoadKeepsSeen
  <2>2. CASE AssertRow(p) \/ EndAssert(p) \/ Challenge(p) \/ Contra(p) \/ RunTest(p)
    BY <1>1, <1>2, <2>2, StepsOfATurn, TurnKeepsSeen
  <2>3. CASE EndRound(p) BY <1>1, <2>3, EndRoundKeepsSeen
  <2>4. CASE Report(p) \/ Quit(p)
    <3>1. UNCHANGED row /\ run'[p] = NoRun /\ \A q \in Procs \ {p} : run'[q] = run[q]
      BY <1>2, <2>4, OneRun DEF Report, Quit
    <3> QED BY <1>1, <3>1, OthersHaveSeen DEF SeenInv
  <2> QED BY <1>5, <2>1, <2>2, <2>3, <2>4 DEF Step
<1> QED BY <1>3, <1>4, <1>5 DEF Next

\* The row changes only where a run saves.
LEMMA OnlySavesRewrite ==
  ASSUME SeenInv, [Next]_vars, Rewritten
  PROVE  \E p \in Procs : EndRound(p) /\ Saved(p)
<1>1. ShapeInv /\ TypeOK BY DEF SeenInv, ShapeInv
<1>2. row' # row /\ row # NoRow /\ row' # NoRow BY DEF Rewritten
<1>3. ~UNCHANGED vars /\ ~Delete BY <1>2 DEF vars, Delete
<1>4. PICK p \in Procs : Step(p) BY <1>3 DEF Next
<1>5. EndRound(p)
  BY <1>2, <1>4 DEF Step, Load, AssertRow, EndAssert, Challenge, Contra, RunTest, Report, Quit
<1>6. Saved(p) \/ Unsaved(p) BY <1>1, <1>5, EndRoundIs
<1> QED BY <1>2, <1>5, <1>6 DEF Unsaved

\* Where keys are not deleted, whatever a run saves continues everything stored before:
\* no claim, receipt or kill of an overlapping run is lost, for any number of
\* processes, claims and rounds (expected_version of falsify.py and
\* context_store.put).
THEOREM NothingForgottenHolds == ASSUME ~Deletes PROVE Spec => NothingForgotten
<1>1. SeenInv /\ [Next]_vars => (Rewritten => Extends(row.ledger, row'.ledger))
  BY OnlySavesRewrite, SavedIs DEF Rewritten
<1>2. SeenInv /\ [Next]_vars => [Rewritten => Extends(row.ledger, row'.ledger)]_vars BY <1>1
<1>3. SeenInv /\ [Next]_vars => SeenInv' BY SeenStep
<1> QED BY SeenInit, <1>2, <1>3, PTL DEF Spec, NothingForgotten

-----------------------------------------------------------------------------
(* Every copy of a ledger is orderly and its books are right, whatever is deleted.  *)

Right(led) == Orderly(led) /\ Books(led)

SoundInv ==
  /\ ShapeInv /\ (row # NoRow => Right(row.ledger))
  /\ \A p \in Procs : run[p] # NoRun => Right(run[p].ledger)

LEMMA NewLedgerRight == Right(NewLedger)
<1> DEFINE led == NewLedger
<1>1. ById(led) = {} BY NewLedgerTyped
<1>2. \A a \in Agents : led.rep[a].kills = 0 /\ led.rep[a].deaths = 0 BY DEF NewLedger
<1> HIDE DEF led
<1>3. \A a \in Agents : KillsOf(led, a) = {} /\ DeathsOf(led, a) = {} BY <1>1 DEF KillsOf, DeathsOf
<1>4. Orderly(led) BY <1>1 DEF Orderly
<1>5. Books(led) BY <1>2, <1>3, FS_EmptySet DEF Books
<1> QED BY <1>4, <1>5 DEF Right, led

LEMMA CopyIsRight ==
  ASSUME NEW led \in Ledger, NEW later \in Ledger, Right(led), later.claims = led.claims, later.rep = led.rep
  PROVE  Right(later)
<1>1. Keeps(led, later) BY SameClaimsKeep DEF Right
<1> QED BY <1>1 DEF Right, Keeps

LEMMA KeptRight == \A led, later : Right(led) /\ Keeps(led, later) => Right(later)
BY DEF Right, Keeps

LEMMA SoundInit == Init => SoundInv
BY ShapeInit DEF Init, SoundInv

LEMMA EndRoundKeepsSound ==
  ASSUME SoundInv, ShapeInv', NEW p \in Procs, EndRound(p)
  PROVE  SoundInv'
<1> DEFINE x == run[p]
           led == EndOfRound(x.before, x.ledger)
<1>1. /\ TypeOK /\ x \in Run /\ x # NoRun /\ x.left # 0 /\ x.before \in Ledger /\ x.ledger \in Ledger
  BY EndRoundIs DEF SoundInv, ShapeInv
<1>2. led \in Ledger BY <1>1, RoundGrows
<1>3. Right(x.ledger) BY <1>1 DEF SoundInv
<1>4. Keeps(x.ledger, led) BY <1>1, <1>3, RoundKeeps DEF Right
<1>5. Right(led) BY <1>3, <1>4, KeptRight
<1>6. ASSUME NEW saved \in BOOLEAN PROVE Right(AfterSave(x, led, saved).ledger) /\ AfterSave(x, led, saved) \in Run
  <2> DEFINE r == AfterSave(x, led, saved)
  <2> HIDE DEF led
  <2>1. r \in Run /\ r.ledger.claims = led.claims /\ r.ledger.rep = led.rep BY <1>1, <1>2, AfterSaveIs
  <2> HIDE DEF r, x
  <2>2. r.ledger \in Ledger BY <2>1 DEF Run
  <2>3. Right(r.ledger) BY <1>2, <1>5, <2>1, <2>2, CopyIsRight
  <2> QED BY <2>1, <2>3 DEF r
<1>7. PICK saved \in BOOLEAN : SetRun(p, AfterSave(x, led, saved))
  BY EndRoundIs DEF SoundInv, Saved, Unsaved
<1>8. row' = row \/ row'.ledger = led
  <2>1. Saved(p) \/ Unsaved(p) BY EndRoundIs DEF SoundInv
  <2>2. Saved(p) => row' = [ledger |-> led, version |-> x.version + 1] BY DEF Saved, Save
  <2>3. Unsaved(p) => row' = row BY DEF Unsaved
  <2> HIDE DEF led, x
  <2> QED BY <2>1, <2>2, <2>3
<1> DEFINE r == AfterSave(x, led, saved)
<1>9. r \in Run /\ Right(r.ledger) /\ SetRun(p, r) BY <1>6, <1>7
<1> HIDE DEF r, led, x
<1>10. run'[p] = r /\ \A q \in Procs \ {p} : run'[q] = run[q] BY <1>1, <1>9, OneRun
<1> QED BY <1>5, <1>8, <1>9, <1>10 DEF SoundInv

LEMMA LoadKeepsSound ==
  ASSUME SoundInv, ShapeInv', NEW p \in Procs, Load(p)
  PROVE  SoundInv'
<1>1. TypeOK BY DEF SoundInv, ShapeInv
<1>2. UNCHANGED row BY <1>1, LoadIs
<1>3. CASE UNCHANGED run BY <1>2, <1>3 DEF SoundInv
<1>4. CASE ~UNCHANGED run
  <2>1. PICK r \in Run :
          /\ SetRun(p, r)
          /\ IF row = NoRow THEN r.ledger = NewLedger
             ELSE r.ledger.claims = row.ledger.claims /\ r.ledger.rep = row.ledger.rep
    BY <1>1, <1>4, LoadIs
  <2>2. run'[p] = r /\ \A q \in Procs \ {p} : run'[q] = run[q] BY <1>1, <2>1, OneRun
  <2>3. r.ledger \in Ledger /\ (row # NoRow => row.ledger \in Ledger) BY <1>1, <2>1 DEF Run, TypeOK, Row
  <2>4. Right(r.ledger) BY <2>1, <2>3, NewLedgerRight, CopyIsRight DEF SoundInv
  <2> QED BY <1>2, <2>2, <2>4 DEF SoundInv
<1> QED BY <1>3, <1>4

LEMMA SoundStep == SoundInv /\ [Next]_vars => SoundInv'
<1> SUFFICES ASSUME SoundInv, [Next]_vars PROVE SoundInv' OBVIOUS
<1>1. ShapeInv' BY ShapeStep DEF SoundInv
<1>2. TypeOK BY DEF SoundInv, ShapeInv
<1>3. CASE UNCHANGED vars BY <1>1, <1>3 DEF vars, SoundInv
<1>4. CASE Delete BY <1>1, <1>4 DEF Delete, SoundInv
<1>5. ASSUME NEW p \in Procs, Step(p) PROVE SoundInv'
  <2>1. CASE Load(p) BY <1>1, <2>1, LoadKeepsSound
  <2>2. CASE AssertRow(p) \/ EndAssert(p) \/ Challenge(p) \/ Contra(p) \/ RunTest(p)
    <3>1. PICK r : Turn(p, r) BY <1>2, <2>2, StepsOfATurn
    <3>2. r \in Run /\ UNCHANGED row /\ run[p] # NoRun BY <3>1 DEF Turn
    <3>3. run'[p] = r /\ \A q \in Procs \ {p} : run'[q] = run[q] BY <1>2, <3>1, <3>2, OneRun DEF Turn
    <3>4. Right(run[p].ledger) BY <3>2 DEF SoundInv
    <3>5. Keeps(run[p].ledger, r.ledger) BY <3>1, <3>4 DEF Turn, Right
    <3>6. Right(r.ledger) BY <3>4, <3>5, KeptRight
    <3> QED BY <1>1, <3>2, <3>3, <3>6 DEF SoundInv
  <2>3. CASE EndRound(p) BY <1>1, <2>3, EndRoundKeepsSound
  <2>4. CASE Report(p) \/ Quit(p)
    <3>1. UNCHANGED row /\ run'[p] = NoRun /\ \A q \in Procs \ {p} : run'[q] = run[q]
      BY <1>2, <2>4, OneRun DEF Report, Quit
    <3> QED BY <1>1, <3>1 DEF SoundInv
  <2> QED BY <1>5, <2>1, <2>2, <2>3, <2>4 DEF Step
<1> QED BY <1>3, <1>4, <1>5 DEF Next

\* A stored survivor is supported, stands unkilled and has withstood K attacks since
\* its last kill, for every K, every limit of reopenings and any number of claims and
\* processes (apply_asserts and resolve of falsify_ledger.py).
THEOREM SurvivalIsEarnedHolds == Spec => []SurvivalIsEarned
<1>1. SoundInv => SurvivalIsEarned
  <2> SUFFICES ASSUME SoundInv, row # NoRow, NEW id \in WithStatus(row.ledger, "survived")
               PROVE  LET c == row.ledger.claims[id]
                      IN Supported(c) /\ ~StandsKilled(c) /\ Len(c.kills) - LastKill(c) >= K
    BY DEF SurvivalIsEarned
  <2> DEFINE c == row.ledger.claims[id]
  <2>1. row.ledger \in Ledger BY DEF SoundInv, ShapeInv, TypeOK, Row
  <2>2. id \in ById(row.ledger) /\ c.status = "survived" BY DEF WithStatus
  <2>3. c \in Claim /\ Sound(c) BY <2>1, <2>2, ClaimsOf DEF SoundInv, Right, Orderly
  <2> HIDE DEF c
  <2>4. Len(c.kills) \in Nat /\ c.attempts \in Nat /\ LastKill(c) \in Nat
    BY <2>3, LenProperties, LastKillBound DEF Claim
  <2>5. Supported(c) /\ ~StandsKilled(c) /\ c.attempts >= K /\ c.attempts + LastKill(c) <= Len(c.kills)
    BY <2>2, <2>3 DEF Sound
  <2>6. K \in Nat BY LedgerAssumption
  <2>7. Len(c.kills) - LastKill(c) >= K BY <2>4, <2>5, <2>6
  <2> QED BY <2>5, <2>7 DEF c
<1> QED BY SoundInit, SoundStep, <1>1, PTL DEF Spec

-----------------------------------------------------------------------------
(* What a run that persisted all it did reports, it has stored.                     *)

ToldInv ==
  /\ SoundInv /\ OutcomesWereStored
  /\ \A p \in Procs : At(p, "report") /\ run[p].persistOk => Stored(run[p].ledger) \subseteq stored

LEMMA ToldInit == Init => ToldInv
BY SoundInit DEF Init, ToldInv, OutcomesWereStored, At

LEMMA ToldOfOne ==
  ASSUME ToldInv, SoundInv', NEW p \in Procs, stored \subseteq stored', UNCHANGED outcomes,
         \A q \in Procs \ {p} : run'[q] = run[q],
         (At(p, "report") /\ run[p].persistOk)' => Stored(run'[p].ledger) \subseteq stored'
  PROVE  ToldInv'
BY DEF ToldInv, At, Stored, ById, OutcomesWereStored

LEMMA EndRoundTells ==
  ASSUME ToldInv, SoundInv', NEW p \in Procs, EndRound(p)
  PROVE  ToldInv'
<1> DEFINE x == run[p]
           led == EndOfRound(x.before, x.ledger)
<1>1. /\ TypeOK /\ x \in Run /\ x # NoRun /\ x.left # 0 /\ x.before \in Ledger /\ x.ledger \in Ledger
      /\ Saved(p) \/ Unsaved(p)
  BY EndRoundIs DEF ToldInv, SoundInv, ShapeInv
<1>2. led \in Ledger BY <1>1, RoundGrows
<1>3. CASE Saved(p)
  <2> DEFINE r == AfterSave(x, led, TRUE)
  <2>1. SetRun(p, r) /\ stored' = stored \cup Stored(led) /\ UNCHANGED outcomes BY <1>3 DEF Saved, Save
  <2> HIDE DEF led
  <2>2. r \in Run /\ r.ledger.claims = led.claims BY <1>1, <1>2, AfterSaveIs
  <2> HIDE DEF r, x
  <2>3. run'[p] = r /\ \A q \in Procs \ {p} : run'[q] = run[q] BY <1>1, <2>1, <2>2, OneRun
  <2>4. Stored(r.ledger) = Stored(led) BY <2>2 DEF Stored, ById
  <2> QED BY <2>1, <2>3, <2>4, ToldOfOne
<1>4. CASE Unsaved(p)
  <2> DEFINE r == AfterSave(x, led, FALSE)
  <2>1. SetRun(p, r) /\ UNCHANGED <<stored, outcomes>> BY <1>4 DEF Unsaved
  <2> HIDE DEF led
  <2>2. r \in Run /\ ~r.persistOk
    <3>1. r \in Run /\ (r.persistOk => FALSE) BY <1>1, <1>2, AfterSaveIs
    <3> QED BY <3>1
  <2> HIDE DEF r, x
  <2>3. run'[p] = r /\ \A q \in Procs \ {p} : run'[q] = run[q] BY <1>1, <2>1, <2>2, OneRun
  <2>4. ~run'[p].persistOk BY <2>2, <2>3
  <2> QED BY <2>1, <2>3, <2>4, ToldOfOne
<1> QED BY <1>1, <1>3, <1>4

LEMMA ReportTells ==
  ASSUME ToldInv, SoundInv', NEW p \in Procs, Report(p)
  PROVE  ToldInv'
<1>1. TypeOK BY DEF ToldInv, SoundInv, ShapeInv
<1>2. At(p, "report") /\ UNCHANGED stored BY DEF Report
<1>3. run'[p] = NoRun /\ \A q \in Procs \ {p} : run'[q] = run[q] BY <1>1, OneRun DEF Report
<1>4. OutcomesWereStored'
  <2>1. CASE ~run[p].persistOk BY <1>2, <2>1 DEF Report, ToldInv, OutcomesWereStored
  <2>2. CASE run[p].persistOk
    <3> DEFINE led == run[p].ledger
    <3>1. PICK done \in SUBSET SettledIn(led) : outcomes' = Recorded(led, done) BY <2>2 DEF Report
    <3>2. Stored(led) \subseteq stored BY <1>2, <2>2 DEF ToldInv
    <3> HIDE DEF led
    <3>3. ASSUME NEW id \in Ids, outcomes'[id] # "none" PROVE <<id, outcomes'[id]>> \in stored
      <4>1. CASE id \in done
        <5>1. outcomes'[id] = led.claims[id].status /\ id \in ById(led)
          BY <3>1, <4>1 DEF Recorded, SettledIn
        <5>2. <<id, led.claims[id].status>> \in Stored(led) BY <5>1 DEF Stored
        <5> QED BY <3>2, <5>1, <5>2
      <4>2. CASE id \notin done
        BY <3>1, <3>3, <4>2 DEF Recorded, ToldInv, OutcomesWereStored
      <4> QED BY <4>1, <4>2
    <3> QED BY <1>2, <3>3 DEF OutcomesWereStored
  <2> QED BY <2>1, <2>2
<1> QED BY <1>2, <1>3, <1>4 DEF ToldInv, At

LEMMA ToldStep == ToldInv /\ [Next]_vars => ToldInv'
<1> SUFFICES ASSUME ToldInv, [Next]_vars PROVE ToldInv' OBVIOUS
<1>1. SoundInv' BY SoundStep DEF ToldInv
<1>2. TypeOK BY DEF ToldInv, SoundInv, ShapeInv
<1>3. CASE UNCHANGED vars BY <1>1, <1>3 DEF vars, ToldInv, OutcomesWereStored, At
<1>4. CASE Delete BY <1>1, <1>4 DEF Delete, ToldInv, OutcomesWereStored, At
<1>5. ASSUME NEW p \in Procs, Step(p) PROVE ToldInv'
  <2>1. CASE Load(p)
    <3>1. UNCHANGED <<outcomes, stored>> BY <1>2, <2>1, LoadIs
    <3>2. CASE UNCHANGED run BY <1>1, <3>1, <3>2 DEF ToldInv, OutcomesWereStored, At
    <3>3. CASE ~UNCHANGED run
      <4>1. PICK r \in Run : SetRun(p, r) /\ r.pc = "assert" BY <1>2, <2>1, <3>3, LoadIs
      <4>2. run'[p] = r /\ \A q \in Procs \ {p} : run'[q] = run[q] BY <1>2, <4>1, OneRun
      <4> QED BY <1>1, <3>1, <4>1, <4>2, ToldOfOne DEF At
    <3> QED BY <3>2, <3>3
  <2>2. CASE AssertRow(p) \/ EndAssert(p) \/ Challenge(p) \/ Contra(p) \/ RunTest(p)
    <3>1. PICK r : Turn(p, r) BY <1>2, <2>2, StepsOfATurn
    <3>2. r \in Run /\ r.pc # "report" /\ UNCHANGED <<outcomes, stored>> BY <3>1 DEF Turn
    <3>3. run'[p] = r /\ \A q \in Procs \ {p} : run'[q] = run[q] BY <1>2, <3>1, <3>2, OneRun DEF Turn
    <3> QED BY <1>1, <3>2, <3>3, ToldOfOne DEF At
  <2>3. CASE EndRound(p) BY <1>1, <2>3, EndRoundTells
  <2>4. CASE Report(p) BY <1>1, <2>4, ReportTells
  <2>5. CASE Quit(p)
    <3>1. UNCHANGED <<outcomes, stored>> /\ run'[p] = NoRun /\ \A q \in Procs \ {p} : run'[q] = run[q]
      BY <1>2, <2>5, OneRun DEF Quit
    <3> QED BY <1>1, <3>1, ToldOfOne DEF At
  <2> QED BY <1>5, <2>1, <2>2, <2>3, <2>4, <2>5 DEF Step
<1> QED BY <1>3, <1>4, <1>5 DEF Next

\* The two books agree with the ledger: its own reputation counts each accepted kill
\* and each death once, and the reputation store holds no outcome that was never
\* stored, whichever saves fail or lose to another run's and whatever is deleted
\* (_clerk_attacks and the persist_ok gate of falsify.py, reputation.py).
THEOREM BooksAgreeHolds == Spec => []BooksAgree
<1>1. ToldInv => BooksAgree
  <2> SUFFICES ASSUME ToldInv PROVE RepCountsKillsOnce BY DEF BooksAgree, ToldInv
  <2> SUFFICES ASSUME row # NoRow, NEW a \in Agents
               PROVE  LET led == row.ledger
                      IN /\ led.rep[a].kills =
                              Cardinality({k \in Accepted(led) : led.claims[k[1]].kills[k[2]].by = a})
                         /\ led.rep[a].deaths =
                              Cardinality({d \in Deaths(led) : led.claims[d[1]].author = a})
    BY DEF RepCountsKillsOnce
  <2> DEFINE led == row.ledger
  <2>1. led \in Ledger /\ Books(led) BY DEF ToldInv, SoundInv, ShapeInv, TypeOK, Row, Right
  <2> HIDE DEF led
  <2>2. /\ led.rep[a].kills = Cardinality(KillsOf(led, a))
        /\ led.rep[a].deaths = Cardinality(DeathsOf(led, a))
    BY <2>1 DEF Books
  <2>3. /\ led.rep[a].kills = Cardinality({k \in Accepted(led) : led.claims[k[1]].kills[k[2]].by = a})
        /\ led.rep[a].deaths = Cardinality({d \in Deaths(led) : led.claims[d[1]].author = a})
    BY <2>1, <2>2, BooksCount
  <2> QED BY <2>3 DEF led
<1> QED BY ToldInit, ToldStep, <1>1, PTL DEF Spec

-----------------------------------------------------------------------------
(* A run whose version is the row's has done to the row's claims what may be done. *)

Met(p) == row # NoRow /\ run[p].version = row.version => Fates(row.ledger, run[p].ledger)

FateInv == SeenInv /\ SoundInv /\ \A p \in Procs : run[p] # NoRun => Met(p)

LEMMA FateInit == Init => FateInv
BY SeenInit, SoundInit DEF Init, FateInv

LEMMA OthersHaveMet ==
  ASSUME FateInv, NEW q \in Procs, UNCHANGED row, run'[q] = run[q]
  PROVE  run'[q] # NoRun => Met(q)'
BY DEF FateInv, Met

LEMMA TurnKeepsFate ==
  ASSUME FateInv, SeenInv', SoundInv', NEW p \in Procs, NEW r, Turn(p, r)
  PROVE  FateInv'
<1>1. TypeOK /\ run[p] # NoRun /\ run[p] \in Run BY RunTyped DEF Turn, FateInv, SoundInv, ShapeInv
<1>2. r \in Run /\ UNCHANGED row /\ r.version = run[p].version BY DEF Turn
<1>3. run'[p] = r /\ \A q \in Procs \ {p} : run'[q] = run[q] BY <1>1, <1>2, OneRun DEF Turn
<1>4. Right(run[p].ledger) /\ Met(p) BY <1>1 DEF FateInv, SoundInv
<1>5. Fates(run[p].ledger, r.ledger) BY <1>4 DEF Turn, Right, Keeps
<1>6. run[p].ledger \in Ledger /\ r.ledger \in Ledger BY <1>1, <1>2 DEF Run
<1>7. row # NoRow => row.ledger \in Ledger BY <1>1 DEF TypeOK, Row
<1>8. row # NoRow /\ r.version = row.version => Fates(row.ledger, r.ledger)
  BY <1>2, <1>4, <1>5, <1>6, <1>7, FatesOn DEF Met
<1>9. Met(p)' BY <1>2, <1>3, <1>8 DEF Met
<1> QED BY <1>2, <1>3, <1>9, OthersHaveMet DEF FateInv

\* What a save replaces had its claims' fates in what is saved.
LEMMA SavedFates ==
  ASSUME FateInv, NEW p \in Procs, EndRound(p), Saved(p), row # NoRow
  PROVE  Fates(row.ledger, row'.ledger) /\ Orderly(row'.ledger) /\ row'.ledger \in Ledger
<1> DEFINE x == run[p]
           led == EndOfRound(x.before, x.ledger)
<1>1. /\ TypeOK /\ x \in Run /\ x # NoRun /\ x.before \in Ledger /\ x.ledger \in Ledger
  BY EndRoundIs DEF FateInv, SeenInv, ShapeInv
<1>2. Standing = row.version BY DEF Standing
<1>3. row'.ledger = led /\ x.version = row.version BY <1>2, SavedIs DEF FateInv
<1>4. Right(x.ledger) /\ Fates(row.ledger, x.ledger) BY <1>1, <1>3 DEF FateInv, SoundInv, Met
<1>5. led \in Ledger /\ Keeps(x.ledger, led) BY <1>1, <1>4, RoundGrows, RoundKeeps DEF Right
<1>6. row.ledger \in Ledger BY <1>1 DEF TypeOK, Row
<1>7. Fates(x.ledger, led) /\ Orderly(led) BY <1>5 DEF Keeps
<1>8. Fates(row.ledger, led) BY <1>1, <1>4, <1>5, <1>6, <1>7, FatesOn
<1> QED BY <1>3, <1>5, <1>7, <1>8

LEMMA EndRoundKeepsFate ==
  ASSUME FateInv, SeenInv', SoundInv', NEW p \in Procs, EndRound(p)
  PROVE  FateInv'
<1> DEFINE x == run[p]
           led == EndOfRound(x.before, x.ledger)
<1>1. /\ TypeOK /\ x \in Run /\ x # NoRun /\ x.left # 0 /\ x.before \in Ledger /\ x.ledger \in Ledger
      /\ Saved(p) \/ Unsaved(p)
  BY EndRoundIs DEF FateInv, SeenInv, ShapeInv
<1>2. Right(x.ledger) BY <1>1 DEF FateInv, SoundInv
<1>3. led \in Ledger /\ Keeps(x.ledger, led) BY <1>1, <1>2, RoundGrows, RoundKeeps DEF Right
<1>4. Fates(x.ledger, led) /\ Orderly(led) BY <1>3 DEF Keeps
<1>5. CASE Saved(p)
  <2> DEFINE r == AfterSave(x, led, TRUE)
  <2>1. SetRun(p, r) BY <1>5 DEF Saved
  <2>2. row'.version = Standing + 1 /\ row'.ledger = led BY <1>5, SavedIs DEF FateInv
  <2> HIDE DEF led
  <2>3. r \in Run /\ r.ledger.claims = led.claims BY <1>1, <1>3, AfterSaveIs
  <2> HIDE DEF r, x
  <2>4. run'[p] = r /\ \A q \in Procs \ {p} : run'[q] = run[q] BY <1>1, <2>1, <2>3, OneRun
  <2>5. r.ledger \in Ledger BY <2>3 DEF Run
  <2>6. Fates(led, r.ledger) BY <1>3, <1>4, <2>3, <2>5, SameClaims
  <2>7. Met(p)' BY <2>2, <2>4, <2>6 DEF Met
  <2>8. row # NoRow => row.version \in Nat BY <1>1 DEF TypeOK, Row
  <2>9. ASSUME NEW q \in Procs \ {p}, run'[q] # NoRun PROVE Met(q)'
    <3>1. run'[q] = run[q] /\ run[q] # NoRun BY <2>4, <2>9
    <3>2. run[q].version <= Standing /\ run[q].version \in Nat /\ Standing \in Nat
      BY <1>1, <2>8, <3>1, RunTyped DEF FateInv, SeenInv, Seen, Run, Standing
    <3> QED BY <2>2, <3>1, <3>2 DEF Met
  <2> QED BY <2>7, <2>9 DEF FateInv
<1>6. CASE Unsaved(p)
  <2> DEFINE r == AfterSave(x, led, FALSE)
  <2>1. SetRun(p, r) /\ UNCHANGED row BY <1>6 DEF Unsaved
  <2> HIDE DEF led
  <2>2. r \in Run /\ r.version = x.version /\ r.ledger.claims = led.claims BY <1>1, <1>3, AfterSaveIs
  <2> HIDE DEF r
  <2>3. Met(p) BY <1>1 DEF FateInv
  <2>4. run'[p] = r /\ \A q \in Procs \ {p} : run'[q] = run[q] BY <1>1, <2>1, <2>2, OneRun
  <2>5. r.ledger \in Ledger /\ (row # NoRow => row.ledger \in Ledger) BY <1>1, <2>2 DEF Run, TypeOK, Row
  <2>6. Fates(led, r.ledger) BY <1>3, <1>4, <2>2, <2>5, SameClaims
  <2>7. row # NoRow /\ r.version = row.version => Fates(row.ledger, r.ledger)
    <3> SUFFICES ASSUME row # NoRow, r.version = row.version PROVE Fates(row.ledger, r.ledger) OBVIOUS
    <3>1. Fates(row.ledger, x.ledger) BY <2>2, <2>3 DEF Met
    <3>2. Fates(row.ledger, led) BY <1>1, <1>3, <1>4, <2>5, <3>1, FatesOn
    <3> QED BY <1>3, <2>5, <2>6, <3>2, FatesOn
  <2>8. Met(p)' BY <2>1, <2>4, <2>7 DEF Met
  <2> QED BY <2>1, <2>4, <2>8, OthersHaveMet DEF FateInv
<1> QED BY <1>1, <1>5, <1>6

LEMMA FateStep == ASSUME ~Deletes PROVE FateInv /\ [Next]_vars => FateInv'
<1> SUFFICES ASSUME FateInv, [Next]_vars PROVE FateInv' OBVIOUS
<1>1. SeenInv' /\ SoundInv' BY SeenStep, SoundStep DEF FateInv
<1>2. TypeOK BY DEF FateInv, SoundInv, ShapeInv
<1>3. CASE UNCHANGED vars BY <1>1, <1>3, OthersHaveMet DEF vars, FateInv
<1>4. CASE Delete BY <1>4 DEF Delete
<1>5. ASSUME NEW p \in Procs, Step(p) PROVE FateInv'
  <2>1. CASE Load(p)
    <3>1. UNCHANGED row BY <1>2, <2>1, LoadIs
    <3>2. CASE UNCHANGED run BY <1>1, <3>1, <3>2, OthersHaveMet DEF FateInv
    <3>3. CASE ~UNCHANGED run
      <4>1. PICK r \in Run :
              /\ SetRun(p, r)
              /\ row # NoRow => r.ledger.claims = row.ledger.claims
        BY <1>2, <2>1, <3>3, LoadIs
      <4>2. run'[p] = r /\ \A q \in Procs \ {p} : run'[q] = run[q] BY <1>2, <4>1, OneRun
      <4>3. r.ledger \in Ledger /\ (row # NoRow => row.ledger \in Ledger /\ Orderly(row.ledger))
        BY <1>2, <4>1 DEF Run, TypeOK, Row, FateInv, SoundInv, Right
      <4>4. row # NoRow => Fates(row.ledger, r.ledger) BY <4>1, <4>3, SameClaims
      <4>5. Met(p)' BY <3>1, <4>2, <4>4 DEF Met
      <4> QED BY <1>1, <3>1, <4>2, <4>5, OthersHaveMet DEF FateInv
    <3> QED BY <3>2, <3>3
  <2>2. CASE AssertRow(p) \/ EndAssert(p) \/ Challenge(p) \/ Contra(p) \/ RunTest(p)
    BY <1>1, <1>2, <2>2, StepsOfATurn, TurnKeepsFate
  <2>3. CASE EndRound(p) BY <1>1, <2>3, EndRoundKeepsFate
  <2>4. CASE Report(p) \/ Quit(p)
    <3>1. UNCHANGED row /\ run'[p] = NoRun /\ \A q \in Procs \ {p} : run'[q] = run[q]
      BY <1>2, <2>4, OneRun DEF Report, Quit
    <3> QED BY <1>1, <3>1, OthersHaveMet DEF FateInv
  <2> QED BY <1>5, <2>1, <2>2, <2>3, <2>4 DEF Step
<1> QED BY <1>3, <1>4, <1>5 DEF Next

\* Where keys are not deleted, a killed claim rises between two stored ledgers only
\* by a reopening, of which there are at most MaxReopens, and a survivor falls only to
\* a kill, whichever runs overlap (apply_asserts and resolve of falsify_ledger.py,
\* expected_version of falsify.py).
THEOREM DeadUnlessAnsweredHolds == ASSUME ~Deletes PROVE Spec => DeadUnlessAnswered
<1> DEFINE Answers ==
      Rewritten => \A id \in ById(row.ledger) \cap ById(row'.ledger) :
        LET c == row.ledger.claims[id]
            d == row'.ledger.claims[id]
        IN /\ c.status = "killed" /\ d.status # "killed" => d.reopens \in c.reopens + 1 .. MaxReopens
           /\ c.status = "survived" => d.status \in {"survived", "killed"} \/ d.reopens > c.reopens
<1>1. FateInv /\ [Next]_vars => Answers
  <2> SUFFICES ASSUME FateInv, [Next]_vars, Rewritten,
                      NEW id \in ById(row.ledger) \cap ById(row'.ledger)
               PROVE  LET c == row.ledger.claims[id]
                          d == row'.ledger.claims[id]
                      IN /\ c.status = "killed" /\ d.status # "killed" =>
                              d.reopens \in c.reopens + 1 .. MaxReopens
                         /\ c.status = "survived" =>
                              d.status \in {"survived", "killed"} \/ d.reopens > c.reopens
    OBVIOUS
  <2> DEFINE c == row.ledger.claims[id]
             d == row'.ledger.claims[id]
  <2>1. row # NoRow /\ row.ledger \in Ledger BY DEF Rewritten, FateInv, SoundInv, ShapeInv, TypeOK, Row
  <2>2. PICK p \in Procs : EndRound(p) /\ Saved(p) BY OnlySavesRewrite DEF FateInv
  <2>3. Fates(row.ledger, row'.ledger) /\ Orderly(row'.ledger) /\ row'.ledger \in Ledger
    BY <2>1, <2>2, SavedFates
  <2>4. c \in Claim /\ d \in Claim BY <2>1, <2>3, ClaimsOf
  <2>5. Fate(c, d) /\ Sound(d) BY <2>3 DEF Fates, Orderly
  <2> HIDE DEF c, d
  <2>6. c.reopens \in Nat /\ d.reopens \in Nat /\ d.reopens <= MaxReopens /\ MaxReopens \in Nat
    BY <2>4, <2>5, LedgerAssumption DEF Claim, Sound
  <2>7. /\ c.status = "killed" /\ d.status # "killed" => d.reopens \in c.reopens + 1 .. MaxReopens
        /\ c.status = "survived" => d.status \in {"survived", "killed"} \/ d.reopens > c.reopens
    BY <2>5, <2>6 DEF Fate
  <2> QED BY <2>7 DEF c, d
<1>2. FateInv /\ [Next]_vars => [Answers]_vars BY <1>1
<1>3. FateInv /\ [Next]_vars => FateInv' BY FateStep
<1> QED BY FateInit, <1>2, <1>3, PTL DEF Spec, DeadUnlessAnswered

=============================================================================
