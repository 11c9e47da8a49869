---------------------------- MODULE CatalogueProofs --------------------------
(***************************************************************************)
(* What players and owners find: listed venues have approved owners, one   *)
(* rule sets the price of a slot, the copy of the slot grid shows the      *)
(* bookings that were answered, and a signed URL fits its file; for any    *)
(* number of calls.                                                        *)
(***************************************************************************)
EXTENDS VenueReview, PriceRules, SlotGrid, SignedUrls, SumsProofs, VenueRating,
        FiniteSetTheorems, TLAPS

-----------------------------------------------------------------------------
(***************************************************************************)
(* Reviews of venues by admins                                             *)
(***************************************************************************)

\* Without a race one call at most is under way; when it is about to take the
\* owner's papers for want of a venue, there is none; and the property holds.
RulingInv ==
  ~revRaced =>
    /\ \A c, d \in ReviewCalls : Reviewing(c) /\ Reviewing(d) => c = d
    /\ \A c \in VenueCalls : revPc[c] = "revoking" =>
         \A v \in Venues : ~Listed(v)
    /\ ListedOwnerApprovedUnlessRaced

ReviewInv == ReviewTypeOK /\ RulingInv

LEMMA ReviewTypeStep ==
  ReviewTypeOK /\ [ReviewNext]_reviewVars => ReviewTypeOK'
<1> SUFFICES ASSUME ReviewTypeOK, [ReviewNext]_reviewVars
             PROVE  ReviewTypeOK'
  OBVIOUS
<1> USE DEF ReviewTypeOK, VenueRow, OwnerFlags, ReviewTo
<1>1. CASE UNCHANGED reviewVars
  BY <1>1 DEF reviewVars
<1>2. ASSUME NEW v \in Venues, CreateVenue(v)
      PROVE  ReviewTypeOK'
  BY <1>2 DEF CreateVenue
<1>3. CASE ProveEmail
  BY <1>3 DEF ProveEmail
<1>4. ASSUME NEW c \in ReviewCalls, BeginRuling(c)
      PROVE  ReviewTypeOK'
  BY <1>4 DEF BeginRuling
<1>5. ASSUME NEW c \in ReviewCalls, MarkVerified(c)
      PROVE  ReviewTypeOK'
  BY <1>5 DEF MarkVerified
<1>6. ASSUME NEW c \in ReviewCalls, ApproveOwner(c)
      PROVE  ReviewTypeOK'
  BY <1>6 DEF ApproveOwner
<1>7. ASSUME NEW c \in ReviewCalls, MarkRejected(c)
      PROVE  ReviewTypeOK'
  BY <1>7 DEF MarkRejected
<1>8. ASSUME NEW c \in ReviewCalls, CountApproved(c)
      PROVE  ReviewTypeOK'
  BY <1>8 DEF CountApproved
<1>9. ASSUME NEW c \in ReviewCalls, RevokeOwner(c)
      PROVE  ReviewTypeOK'
  BY <1>9 DEF RevokeOwner
<1> QED
  BY <1>1, <1>2, <1>3, <1>4, <1>5, <1>6, <1>7, <1>8, <1>9
     DEF ReviewNext, RulingStep

LEMMA RulingStepInv ==
  ReviewInv /\ [ReviewNext]_reviewVars => RulingInv'
<1> SUFFICES ASSUME ReviewInv, [ReviewNext]_reviewVars, ~revRaced'
             PROVE  RulingInv'
  BY DEF RulingInv
<1> USE DEF ReviewInv, ReviewTypeOK, VenueRow, OwnerFlags, ReviewTo,
            RulingInv, Reviewing, Listed, ListedOwnerApprovedUnlessRaced,
            ReviewCalls
<1>1. CASE UNCHANGED reviewVars
  BY <1>1 DEF reviewVars
<1>2. ASSUME NEW v \in Venues, CreateVenue(v)
      PROVE  RulingInv'
  BY <1>2 DEF CreateVenue
<1>3. CASE ProveEmail
  BY <1>3 DEF ProveEmail
<1>4. ASSUME NEW c \in ReviewCalls, BeginRuling(c)
      PROVE  RulingInv'
  <2>1. ~revRaced /\ \A d \in ReviewCalls : ~Reviewing(d)
    BY <1>4 DEF BeginRuling
  <2>2. \A d \in ReviewCalls : d # c => revPc'[d] = revPc[d]
    BY <1>4 DEF BeginRuling
  <2>3. c \in VenueCalls => revPc'[c] # "revoking"
    BY <1>4, ReviewAssumption DEF BeginRuling
  <2>4. UNCHANGED <<venue, owner, kycRevoked>>
    BY <1>4 DEF BeginRuling
  <2> QED
    BY <2>1, <2>2, <2>3, <2>4
<1>5. ASSUME NEW c \in ReviewCalls, MarkVerified(c)
      PROVE  RulingInv'
  <2>1. revPc'[c] = "approving" /\ revPc[c] = "verifying"
    BY <1>5 DEF MarkVerified
  <2>2. \A d \in ReviewCalls : d # c => revPc'[d] = revPc[d]
    BY <1>5 DEF MarkVerified
  <2>3. ~revRaced
    BY <1>5 DEF MarkVerified
  <2> QED
    BY <2>1, <2>2, <2>3
<1>6. ASSUME NEW c \in ReviewCalls, ApproveOwner(c)
      PROVE  RulingInv'
  BY <1>6 DEF ApproveOwner
<1>7. ASSUME NEW c \in ReviewCalls, MarkRejected(c)
      PROVE  RulingInv'
  <2>1. ASSUME NEW v \in Venues, Listed(v)'
        PROVE  Listed(v)
    <3>1. ASSUME v \in ruling[c]
          PROVE  FALSE
      <4>1. venue'[v] = [venue[v] EXCEPT !.verified = FALSE, !.active = FALSE]
        BY <1>7, <3>1 DEF MarkRejected
      <4>2. venue'[v].verified = FALSE
        BY <4>1
      <4> QED
        BY <2>1, <4>2
    <3>2. venue'[v] = venue[v]
      BY <1>7, <3>1 DEF MarkRejected
    <3> QED
      BY <2>1, <3>2
  <2>2. /\ revPc[c] = "rejecting" /\ revPc'[c] = "counting"
        /\ \A d \in ReviewCalls : d # c => revPc'[d] = revPc[d]
    BY <1>7 DEF MarkRejected
  <2>3. UNCHANGED <<owner, revRaced, kycRevoked>>
    BY <1>7 DEF MarkRejected
  <2> QED
    BY <2>1, <2>2, <2>3
<1>8. ASSUME NEW c \in ReviewCalls, CountApproved(c)
      PROVE  RulingInv'
  BY <1>8 DEF CountApproved, RemainingApproved
<1>9. ASSUME NEW c \in ReviewCalls, RevokeOwner(c)
      PROVE  RulingInv'
  BY <1>9 DEF RevokeOwner
<1> QED
  BY <1>1, <1>2, <1>3, <1>4, <1>5, <1>6, <1>7, <1>8, <1>9
     DEF ReviewNext, RulingStep

\* ListedOwnerApprovedUnlessRaced: a venue that players find has an owner with
\* approved papers, unless rulings overlapped or rejectKyc came last.
THEOREM ListedOwnersAreApproved ==
  ReviewSpec => []ListedOwnerApprovedUnlessRaced
<1>1. ReviewInit => ReviewInv
  <2>1. ReviewInit => ReviewTypeOK
    <3> SUFFICES ASSUME ReviewInit
                 PROVE  ReviewTypeOK
      OBVIOUS
    <3> USE DEF ReviewInit
    <3>1. venue \in [Venues -> VenueRow] /\ owner \in OwnerFlags
      BY DEF VenueRow, OwnerFlags, NoVenue
    <3>2. ruling \in [ReviewCalls -> SUBSET Venues]
      OBVIOUS
    <3>3. revPc \in [ReviewCalls -> {"idle", "verifying", "approving",
                                    "rejecting", "counting", "revoking",
                                    "done"}]
      OBVIOUS
    <3> QED
      BY <3>1, <3>2, <3>3 DEF ReviewTypeOK
  <2>2. ReviewInit => RulingInv
    BY DEF ReviewInit, RulingInv, Reviewing, Listed, NoVenue, ReviewCalls,
           ListedOwnerApprovedUnlessRaced
  <2> QED
    BY <2>1, <2>2 DEF ReviewInv
<1>2. ReviewInv /\ [ReviewNext]_reviewVars => ReviewInv'
  BY ReviewTypeStep, RulingStepInv DEF ReviewInv
<1>3. ReviewInv => ListedOwnerApprovedUnlessRaced
  BY DEF ReviewInv, RulingInv, ListedOwnerApprovedUnlessRaced
<1> QED
  BY <1>1, <1>2, <1>3, PTL DEF ReviewSpec

-----------------------------------------------------------------------------
(***************************************************************************)
(* Prices                                                                  *)
(***************************************************************************)

\* A row as createRule inserts it.
Drawn(row) == row \in RuleRow /\ row.priority = PriorityOf(row.type)

\* No two stored rules have the same priority, and the base rule stays.
RulesApart ==
  /\ \A r \in Stored : Drawn(rule[r])
  /\ \A r, s \in Stored : rule[r].priority = rule[s].priority => r = s
  /\ BaseRule \in Stored /\ rule[BaseRule].type = "base"
  /\ \A c \in RuleCalls : rulePc[c] = "checked" => Drawn(draft[c])

PriceInv == PriceTypeOK /\ RulesApart /\ ChargesAreSound

LEMMA NoRowIsNoRule == NoRow \notin RuleRow
BY DEF NoRow, RuleRow, RuleTypes

LEMMA PriceByInt ==
  ASSUME PriceTypeOK, NEW r \in Stored, NEW base \in Stored
  PROVE  PriceBy(r, base) \in Int
<1> DEFINE n == rule[r].amount
           b == rule[base].amount
<1>1. rule[r] \in RuleRow /\ rule[base] \in RuleRow
  BY DEF PriceTypeOK, Stored
<1>2. n \in Int /\ b \in Int /\ rule[r].modifier \in Modifiers
  <2>1. \A x \in RuleRow : x.amount \in Amounts /\ x.modifier \in Modifiers
    BY DEF RuleRow
  <2>2. Amounts \subseteq Int
    BY PricingAssumption
  <2> QED
    BY <1>1, <2>1, <2>2
<1>3. b * (100 + n) \in Int /\ b * (100 - n) \in Int
  BY <1>2
<1>4. (b * (100 + n)) \div 100 \in Int /\ (b * (100 - n)) \div 100 \in Int
  <2> HIDE DEF n, b
  <2>1. \A k \in Int : k \div 100 \in Int
    OBVIOUS
  <2> QED
    BY <1>3, <2>1
<1> QED
  BY <1>2, <1>4 DEF PriceBy, Modifiers

LEMMA PriceTypeStep ==
  PriceInv /\ [PriceNext]_priceVars => PriceTypeOK'
<1> SUFFICES ASSUME PriceInv, [PriceNext]_priceVars
             PROVE  PriceTypeOK'
  OBVIOUS
<1> USE DEF PriceInv, PriceTypeOK
<1>1. CASE UNCHANGED priceVars
  BY <1>1 DEF priceVars
<1>2. ASSUME NEW c \in RuleCalls, CheckRule(c)
      PROVE  PriceTypeOK'
  BY <1>2 DEF CheckRule
<1>3. ASSUME NEW c \in RuleCalls, InsertRule(c)
      PROVE  PriceTypeOK'
  BY <1>3 DEF InsertRule, Rules
<1>4. ASSUME NEW r \in Rules, UpdateRule(r)
      PROVE  PriceTypeOK'
  <2>1. rule[r] \in RuleRow
    BY <1>4 DEF UpdateRule, Stored
  <2>2. PICK m \in Modifiers, n \in Amounts,
             fits \in BOOLEAN, on \in BOOLEAN :
          rule' = [rule EXCEPT ![r].modifier = m, ![r].amount = n,
                               ![r].applies = fits, ![r].active = on]
    BY <1>4 DEF UpdateRule
  <2>3. rule' \in [Rules -> RuleRow \union {NoRow}]
    BY <2>1, <2>2 DEF RuleRow
  <2> QED
    BY <1>4, <2>3 DEF UpdateRule
<1>5. ASSUME NEW r \in Rules, DeleteRule(r)
      PROVE  PriceTypeOK'
  BY <1>5 DEF DeleteRule
<1>6. ASSUME NEW b \in Priced, ReadPrice(b)
      PROVE  PriceTypeOK'
  <2>1. charged' \in [Priced -> [price : Int, by : Rules \union {NoRule}]]
    <3>1. CASE ActiveBases = {}
      BY <1>6, <3>1 DEF ReadPrice
    <3>2. CASE ActiveBases # {}
      <4>1. PICK r \in TopRules, base \in ActiveBases :
              charged' = [charged EXCEPT ![b] =
                           [price |-> PriceBy(r, base), by |-> r]]
        BY <1>6, <3>2 DEF ReadPrice
      <4>2. r \in Stored /\ base \in Stored
        BY DEF TopRules, ActiveRules, ActiveBases, BaseRules
      <4>3. PriceBy(r, base) \in Int
        BY <4>2, PriceByInt
      <4> QED
        BY <4>1, <4>2, <4>3 DEF Stored
    <3> QED
      BY <3>1, <3>2
  <2> QED
    BY <1>6, <2>1 DEF ReadPrice
<1>7. ASSUME NEW b \in Priced, InsertPriced(b)
      PROVE  PriceTypeOK'
  <2>1. NoCharge \in [price : Int, by : Rules \union {NoRule}]
    BY DEF NoCharge
  <2>2. charged' \in [Priced -> [price : Int, by : Rules \union {NoRule}]]
    <3>1. \/ charged' = charged
          \/ charged' = [charged EXCEPT ![b] = NoCharge]
      BY <1>7 DEF InsertPriced
    <3> QED
      BY <2>1, <3>1
  <2>3. chargePc' \in [Priced -> {"idle", "priced", "done", "refused"}]
    <3>1. \E s \in {"done", "refused"} :
            chargePc' = [chargePc EXCEPT ![b] = s]
      BY <1>7 DEF InsertPriced
    <3> QED
      BY <3>1
  <2>4. UNCHANGED <<rule, rulePc, draft>>
    BY <1>7 DEF InsertPriced
  <2> QED
    BY <2>2, <2>3, <2>4
<1> QED
  BY <1>1, <1>2, <1>3, <1>4, <1>5, <1>6, <1>7 DEF PriceNext

LEMMA RulesApartStep ==
  PriceInv /\ [PriceNext]_priceVars => RulesApart'
<1> SUFFICES ASSUME PriceInv, [PriceNext]_priceVars
             PROVE  RulesApart'
  OBVIOUS
<1> USE PricingAssumption, NoRowIsNoRule
    DEF PriceInv, PriceTypeOK, RulesApart, Stored
<1>1. CASE UNCHANGED priceVars
  BY <1>1 DEF priceVars, Drawn
<1>2. ASSUME NEW c \in RuleCalls, CheckRule(c)
      PROVE  RulesApart'
  BY <1>2 DEF CheckRule, Drawn
<1>3. ASSUME NEW c \in RuleCalls, InsertRule(c)
      PROVE  RulesApart'
  <2>1. Drawn(draft[c]) /\ c \in Rules /\ c # BaseRule
    BY <1>3 DEF InsertRule, Rules
  <2>2. \A d \in RuleCalls : rulePc'[d] = "checked" =>
          rulePc[d] = "checked" /\ draft'[d] = draft[d]
    BY <1>3 DEF InsertRule
  <2>3. CASE rule' = rule
    BY <2>2, <2>3
  <2>4. CASE /\ PriorityFree(draft[c].priority)
             /\ rule' = [rule EXCEPT ![c] = draft[c]]
    <3>1. /\ rule'[c] = draft[c]
          /\ \A r \in Rules : r # c => rule'[r] = rule[r]
      BY <2>1, <2>4
    <3>2. \A r \in Stored : rule[r].priority # draft[c].priority
      BY <2>4 DEF PriorityFree
    <3>3. \A r \in Stored' : r # c => r \in Stored
      BY <3>1
    <3>4. BaseRule \in Stored' /\ rule'[BaseRule].type = "base"
      BY <2>1, <3>1
    <3>5. \A r \in Stored' : Drawn(rule'[r])
      BY <2>1, <3>1, <3>3
    <3>6. \A r, s \in Stored' :
            rule'[r].priority = rule'[s].priority => r = s
      BY <3>1, <3>2, <3>3
    <3> QED
      BY <2>2, <3>4, <3>5, <3>6
  <2> QED
    BY <1>3, <2>3, <2>4 DEF InsertRule
<1>4. ASSUME NEW r \in Rules, UpdateRule(r)
      PROVE  RulesApart'
  <2>1. rule[r] \in RuleRow
    BY <1>4 DEF UpdateRule
  <2>2. PICK m \in Modifiers, n \in Amounts,
             fits \in BOOLEAN, on \in BOOLEAN :
          rule' = [rule EXCEPT ![r].modifier = m, ![r].amount = n,
                               ![r].applies = fits, ![r].active = on]
    BY <1>4 DEF UpdateRule
  <2>3. /\ rule'[r] \in RuleRow
        /\ rule'[r].type = rule[r].type
        /\ rule'[r].priority = rule[r].priority
        /\ \A s \in Rules : s # r => rule'[s] = rule[s]
    BY <2>1, <2>2 DEF RuleRow
  <2>4. Stored' = Stored
    <3>1. rule[r] # NoRow /\ rule'[r] # NoRow
      BY <2>1, <2>3
    <3>2. \A s \in Rules : rule'[s] # NoRow <=> rule[s] # NoRow
      BY <2>3, <3>1
    <3> QED
      BY <3>2
  <2>5. \A s \in Stored : Drawn(rule'[s])
    BY <2>3 DEF Drawn
  <2>6. UNCHANGED <<rulePc, draft>>
    BY <1>4 DEF UpdateRule
  <2> QED
    BY <2>3, <2>4, <2>5, <2>6
<1>5. ASSUME NEW r \in Rules, DeleteRule(r)
      PROVE  RulesApart'
  <2>1. /\ \A s \in Rules : s # r => rule'[s] = rule[s]
        /\ rule'[r] = NoRow /\ r # BaseRule
    BY <1>5 DEF DeleteRule
  <2>2. UNCHANGED <<rulePc, draft>>
    BY <1>5 DEF DeleteRule
  <2> QED
    BY <2>1, <2>2
<1>6. ASSUME NEW b \in Priced, ReadPrice(b) \/ InsertPriced(b)
      PROVE  RulesApart'
  <2>1. UNCHANGED <<rule, rulePc, draft>>
    BY <1>6 DEF ReadPrice, InsertPriced
  <2> QED
    BY <2>1 DEF Drawn
<1> QED
  BY <1>1, <1>2, <1>3, <1>4, <1>5, <1>6 DEF PriceNext

LEMMA ChargesAreSoundStep ==
  PriceInv /\ [PriceNext]_priceVars => ChargesAreSound'
<1> SUFFICES ASSUME PriceInv, [PriceNext]_priceVars,
                    NEW b \in Priced, chargePc'[b] = "done"
             PROVE  /\ charged'[b].by \in Stored' \union {NoRule}
                    /\ b \in PricedHolds => charged'[b].price >= 0
  BY DEF ChargesAreSound
<1> USE PricingAssumption, NoRowIsNoRule
    DEF PriceInv, PriceTypeOK, ChargesAreSound, Stored
<1>1. CASE UNCHANGED priceVars
  BY <1>1 DEF priceVars
<1>2. ASSUME NEW c \in RuleCalls, CheckRule(c)
      PROVE  UNCHANGED <<rule, charged, chargePc>>
  BY <1>2 DEF CheckRule
<1>3. ASSUME NEW c \in RuleCalls, InsertRule(c)
      PROVE  Stored \subseteq Stored' /\ UNCHANGED <<charged, chargePc>>
  <2>1. Drawn(draft[c])
    BY <1>3 DEF InsertRule, RulesApart
  <2> QED
    BY <1>3, <2>1 DEF InsertRule, Rules, Drawn
<1>4. ASSUME NEW r \in Rules, UpdateRule(r)
      PROVE  Stored \subseteq Stored' /\ UNCHANGED <<charged, chargePc>>
  <2>1. rule[r] \in RuleRow
    BY <1>4 DEF UpdateRule
  <2>2. PICK m \in Modifiers, n \in Amounts,
             fits \in BOOLEAN, on \in BOOLEAN :
          rule' = [rule EXCEPT ![r].modifier = m, ![r].amount = n,
                               ![r].applies = fits, ![r].active = on]
    BY <1>4 DEF UpdateRule
  <2>3. rule'[r] \in RuleRow /\ \A s \in Rules : s # r => rule'[s] = rule[s]
    BY <2>1, <2>2 DEF RuleRow
  <2>4. Stored \subseteq Stored'
    BY <2>3
  <2>5. UNCHANGED <<charged, chargePc>>
    BY <1>4 DEF UpdateRule
  <2> QED
    BY <2>4, <2>5
<1>5. ASSUME NEW r \in Rules, DeleteRule(r)
      PROVE  /\ charged'[b].by \in Stored' \union {NoRule}
             /\ b \in PricedHolds => charged'[b].price >= 0
  <2>1. chargePc[b] = "done" /\ Stored \ {r} \subseteq Stored'
    BY <1>5 DEF DeleteRule
  <2>2. CASE charged[b].by = r
    <3>1. charged'[b] = [charged[b] EXCEPT !.by = NoRule]
      BY <1>5, <2>1, <2>2 DEF DeleteRule
    <3> QED
      BY <2>1, <3>1
  <2>3. CASE charged[b].by # r
    BY <1>5, <2>1, <2>3 DEF DeleteRule
  <2> QED
    BY <2>2, <2>3
<1>6. ASSUME NEW d \in Priced, ReadPrice(d)
      PROVE  /\ charged'[b].by \in Stored' \union {NoRule}
             /\ b \in PricedHolds => charged'[b].price >= 0
  <2>1. b # d /\ chargePc[b] = "done" /\ rule' = rule
    BY <1>6 DEF ReadPrice
  <2>2. charged'[b] = charged[b]
    BY <1>6, <2>1 DEF ReadPrice
  <2> QED
    BY <2>1, <2>2
<1>7. ASSUME NEW d \in Priced, InsertPriced(d)
      PROVE  /\ charged'[b].by \in Stored' \union {NoRule}
             /\ b \in PricedHolds => charged'[b].price >= 0
  BY <1>7 DEF InsertPriced, CanInsert
<1> QED
  BY <1>1, <1>2, <1>3, <1>4, <1>5, <1>6, <1>7 DEF PriceNext

LEMMA PriceInvariant == PriceSpec => []PriceInv
<1>1. PriceInit => PriceInv
  <2> SUFFICES ASSUME PriceInit
               PROVE  PriceInv
    OBVIOUS
  <2> USE PricingAssumption, NoRowIsNoRule DEF PriceInit
  <2> DEFINE First(n) == [type |-> "base", priority |-> 1,
                          modifier |-> "fixed", amount |-> n,
                          applies |-> TRUE, active |-> TRUE]
  <2>1. PICK n \in Amounts :
          rule = [r \in Rules |-> IF r = BaseRule THEN First(n) ELSE NoRow]
    OBVIOUS
  <2>2. Drawn(First(n))
    BY DEF Drawn, RuleRow, RuleTypes, Modifiers, PriorityOf
  <2>3. PriceTypeOK
    <3> HIDE DEF First
    <3>1. rule \in [Rules -> RuleRow \union {NoRow}]
      BY <2>1, <2>2 DEF Drawn
    <3>2. draft \in [RuleCalls -> RuleRow \union {NoRow}]
      OBVIOUS
    <3>3. charged \in [Priced -> [price : Int, by : Rules \union {NoRule}]]
      BY DEF NoCharge
    <3>4. chargePc \in [Priced -> {"idle", "priced", "done", "refused"}]
      OBVIOUS
    <3>5. rulePc \in [RuleCalls -> {"idle", "checked", "done"}]
      OBVIOUS
    <3> QED
      BY <3>1, <3>2, <3>3, <3>4, <3>5 DEF PriceTypeOK
  <2>4. RulesApart
    <3>1. rule[BaseRule] = First(n) /\ Stored = {BaseRule}
      BY <2>1, <2>2 DEF Stored, Drawn, Rules
    <3> QED
      BY <2>2, <3>1 DEF RulesApart
  <2>5. ChargesAreSound
    BY DEF ChargesAreSound
  <2> QED
    BY <2>3, <2>4, <2>5 DEF PriceInv
<1>2. PriceInv /\ [PriceNext]_priceVars => PriceInv'
  BY PriceTypeStep, RulesApartStep, ChargesAreSoundStep DEF PriceInv
<1> QED
  BY <1>1, <1>2, PTL DEF PriceSpec

LEMMA AtMostOne ==
  ASSUME NEW S, \A x, y \in S : x = y
  PROVE  Cardinality(S) \in Nat /\ Cardinality(S) <= 1
<1>1. CASE S = {}
  BY <1>1, FS_EmptySet
<1>2. CASE S # {}
  <2>1. PICK x \in S : TRUE
    BY <1>2
  <2>2. S = {x}
    BY <2>1
  <2> QED
    BY <2>2, FS_Singleton
<1> QED
  BY <1>1, <1>2

\* PriceIsDetermined: a court has one base rule, and one rule at most sets the
\* price, whatever calls of createRule were checked at once.
THEOREM OnePrice == PriceSpec => []PriceIsDetermined
<1>1. PriceInv => PriceIsDetermined
  <2> SUFFICES ASSUME PriceInv
               PROVE  PriceIsDetermined
    OBVIOUS
  <2> USE DEF PriceInv, RulesApart
  <2>1. BaseRules = {BaseRule}
    <3>1. \A r \in BaseRules : rule[r].priority = 1
      BY DEF BaseRules, Drawn, PriorityOf
    <3>2. BaseRule \in BaseRules
      BY DEF BaseRules
    <3> QED
      BY <3>1, <3>2 DEF BaseRules
  <2>2. \A r, s \in TopRules : r = s
    <3>1. \A r \in Stored : rule[r].priority \in Int
      BY DEF Drawn, RuleRow
    <3>2. CASE {r \in ActiveRules : rule[r].applies} = {}
      BY <2>1, <3>2 DEF TopRules, ActiveBases
    <3>3. CASE {r \in ActiveRules : rule[r].applies} # {}
      <4>1. \A r, s \in TopRules :
              /\ r \in Stored /\ s \in Stored
              /\ rule[r].priority <= rule[s].priority
        BY <3>3 DEF TopRules, ActiveRules
      <4> QED
        BY <3>1, <4>1
    <3> QED
      BY <3>2, <3>3
  <2>3. Cardinality(BaseRules) = 1
    BY <2>1, FS_Singleton
  <2>4. Cardinality(TopRules) <= 1
    BY <2>2, AtMostOne
  <2> QED
    BY <2>3, <2>4 DEF PriceIsDetermined
<1> QED
  BY <1>1, PriceInvariant, PTL

\* ChargesAreSound: a booking is charged by a rule that exists, or by none,
\* although rules are deleted between the read and the insert; and no hold is
\* charged less than nothing.
THEOREM SoundCharges == PriceSpec => []ChargesAreSound
<1>1. PriceInv => ChargesAreSound
  BY DEF PriceInv
<1> QED
  BY <1>1, PriceInvariant, PTL

-----------------------------------------------------------------------------
(***************************************************************************)
(* The copy of the slot grid                                               *)
(***************************************************************************)
CallsTyped ==
  /\ changePc \in [AllChanges -> {"idle", "committed", "done"}]
  /\ viewPc \in [AllViewers ->
                   {"idle", "listing", "filling", "drawing", "drawn"}]
  /\ fetched \in [AllViewers -> SUBSET AllChanges]

\* A change that was made is in the database, and in what a viewer is about to
\* store unless it came after the viewer's queries.
WhatIsKnown ==
  /\ \A c \in Changes : changePc[c] # "idle" => c \in committed
  /\ \A v \in Viewers : viewPc[v] = "filling" =>
       committed \intersect Changes \subseteq fetched[v] \union overtaken

GridInv ==
  /\ committed \subseteq AllChanges
  /\ CallsTyped
  /\ WhatIsKnown
  /\ GridIsFreshUnlessRaced

LEMMA CommitChangeStep ==
  ASSUME GridInv, NEW c \in AllChanges, CommitChange(c)
  PROVE  GridInv'
<1> USE DEF GridInv, CallsTyped, AllChanges, AllViewers, viewVars
<1>1. /\ committed' = committed \union {c} /\ grid' = grid
      /\ viewPc' = viewPc /\ fetched' = fetched /\ uncleared' = uncleared
      /\ overtaken \subseteq overtaken'
  BY DEF CommitChange
<1>2. CallsTyped' /\ committed' \subseteq AllChanges
  BY DEF CommitChange
<1>3. \A d \in Changes : changePc'[d] # "idle" => d \in committed'
  BY DEF CommitChange, WhatIsKnown
<1>4. ASSUME NEW v \in Viewers, viewPc'[v] = "filling"
      PROVE  committed' \intersect Changes \subseteq
               fetched'[v] \union overtaken'
  <2>1. c \in overtaken'
    BY <1>1, <1>4 DEF CommitChange
  <2> QED
    BY <1>1, <1>4, <2>1 DEF WhatIsKnown
<1>5. \A d \in Changes : changePc'[d] = "done" => changePc[d] = "done"
  BY DEF CommitChange
<1>6. GridIsFreshUnlessRaced'
  BY <1>1, <1>5 DEF GridIsFreshUnlessRaced
<1> QED
  BY <1>2, <1>3, <1>4, <1>6 DEF WhatIsKnown

LEMMA EndChangeStep ==
  ASSUME GridInv, NEW c \in AllChanges, ClearGrid(c) \/ MissClear(c)
  PROVE  GridInv'
<1> USE DEF GridInv, CallsTyped, AllChanges, AllViewers, viewVars
<1>1. /\ committed' = committed /\ viewPc' = viewPc /\ fetched' = fetched
      /\ overtaken' = overtaken
      /\ changePc[c] = "committed"
      /\ changePc' = [changePc EXCEPT ![c] = "done"]
  BY DEF ClearGrid, MissClear
<1>2. CallsTyped' /\ WhatIsKnown'
  BY <1>1 DEF WhatIsKnown
<1>3. CASE ClearGrid(c)
  BY <1>1, <1>2, <1>3 DEF ClearGrid, Cleared, NoGrid, GridIsFreshUnlessRaced
<1>4. CASE MissClear(c)
  BY <1>1, <1>2, <1>4 DEF MissClear, GridIsFreshUnlessRaced
<1> QED
  BY <1>3, <1>4

LEMMA ViewStepInv ==
  ASSUME GridInv, NEW v \in Viewers, ViewCopy(v) \/ ViewStep(v)
  PROVE  GridInv'
<1> USE DEF GridInv, CallsTyped, AllChanges, AllViewers, viewVars, WhatIsKnown
<1>1. CASE ViewCopy(v) \/ ListSlot(v)
  BY <1>1 DEF ViewCopy, ListSlot, GridIsFreshUnlessRaced
<1>2. CASE BeginView(v)
  BY <1>2 DEF BeginView, GridIsFreshUnlessRaced
<1>3. CASE ReadCalendar(v)
  BY <1>3 DEF ReadCalendar, GridIsFreshUnlessRaced
<1>4. CASE FillGrid(v)
  <2>1. /\ UNCHANGED <<committed, changePc, uncleared, overtaken>>
        /\ viewPc' = [viewPc EXCEPT ![v] = "idle"]
        /\ fetched' = [fetched EXCEPT ![v] = {}]
        /\ viewPc[v] = "filling"
    BY <1>4 DEF FillGrid
  <2>2. CallsTyped' /\ WhatIsKnown'
    BY <2>1
  <2>3. CASE grid' = grid
    BY <2>1, <2>2, <2>3 DEF GridIsFreshUnlessRaced
  <2>4. CASE grid' = [there |-> TRUE, shows |-> fetched[v]]
    BY <2>1, <2>2, <2>4 DEF GridIsFreshUnlessRaced
  <2> QED
    BY <1>4, <2>3, <2>4 DEF FillGrid
<1> QED
  BY <1>1, <1>2, <1>3, <1>4 DEF ViewStep

LEMMA OwnerViewStep ==
  ASSUME GridInv, NEW v \in OwnerViewers,
         BeginCalendar(v) \/ DrawSlot(v) \/ ReadCourt(v) \/ DrawCalendar(v)
  PROVE  GridInv'
<1> USE GridAssumption
    DEF GridInv, CallsTyped, AllChanges, AllViewers, viewVars
<1>1. /\ UNCHANGED <<committed, changePc, grid, uncleared, overtaken>>
      /\ \A u \in Viewers : viewPc'[u] = viewPc[u] /\ fetched'[u] = fetched[u]
  BY DEF BeginCalendar, DrawSlot, ReadCourt, DrawCalendar
<1>2. CallsTyped'
  BY DEF BeginCalendar, DrawSlot, ReadCourt, DrawCalendar
<1>3. WhatIsKnown'
  BY <1>1 DEF WhatIsKnown
<1>4. GridIsFreshUnlessRaced'
  BY <1>1 DEF GridIsFreshUnlessRaced
<1> QED
  BY <1>1, <1>2, <1>3, <1>4

\* GridIsFreshUnlessRaced: a booking that was answered is in every copy of the
\* grid, but for deletes that were swallowed and viewers it overtook.
THEOREM GridIsFresh == GridSpec => []GridIsFreshUnlessRaced
<1>1. GridInit => GridInv
  <2> SUFFICES ASSUME GridInit
               PROVE  GridInv
    OBVIOUS
  <2> USE DEF GridInit
  <2>1. CallsTyped /\ committed \subseteq AllChanges
    BY DEF CallsTyped
  <2>2. WhatIsKnown
    BY DEF WhatIsKnown, AllChanges, AllViewers
  <2>3. GridIsFreshUnlessRaced
    BY DEF GridIsFreshUnlessRaced, NoGrid
  <2> QED
    BY <2>1, <2>2, <2>3 DEF GridInv
<1>2. GridInv /\ [GridNext]_gridVars => GridInv'
  <2> SUFFICES ASSUME GridInv, [GridNext]_gridVars
               PROVE  GridInv'
    OBVIOUS
  <2>1. CASE UNCHANGED gridVars
    BY <2>1
       DEF gridVars, GridInv, CallsTyped, WhatIsKnown, GridIsFreshUnlessRaced
  <2>2. CASE ExpireGrid \/ RestEnds \/ ConnectionFails \/ ConnectionReturns
    <3>1. /\ UNCHANGED <<committed, changePc, viewPc, fetched, uncleared,
                         overtaken>>
          /\ grid' \in {grid, NoGrid}
      BY <2>2 DEF ExpireGrid, RestEnds, ConnectionFails, ConnectionReturns,
                  viewVars
    <3> QED
      BY <3>1 DEF GridInv, CallsTyped, WhatIsKnown, GridIsFreshUnlessRaced,
                  NoGrid
  <2> QED
    BY <2>1, <2>2, CommitChangeStep, EndChangeStep, ViewStepInv, OwnerViewStep
       DEF GridNext
<1>3. GridInv => GridIsFreshUnlessRaced
  BY DEF GridInv
<1> QED
  BY <1>1, <1>2, <1>3, PTL DEF GridSpec
-----------------------------------------------------------------------------
(***************************************************************************)
(* Signed URLs                                                             *)
(***************************************************************************)

\* A URL in the cache of a process that has evicted its file has been signed
\* since, or was being signed as the file was deleted.
CachesAreEvicted ==
  \A p \in Procs : \A u \in cache[p] :
    u.file \in evicted[p] => u.gone \/ u.file \in signRaced

\* The same of the files whose URLs a call is signing.
SigningIsWatched ==
  \A c \in UrlCalls : \A k \in wanted[c] :
    k \in evicted[HostOf[c]] => k \in knew[c] \/ k \in signRaced

UrlInv ==
  UrlTypeOK /\ CachesAreEvicted /\ SigningIsWatched /\ HandedUrlsFitUnlessRaced

\* What a call asks for is files, and what it takes and signs are URLs of them.
LEMMA AskedFiles ==
  ASSUME UrlTypeOK, NEW c \in UrlCalls, NEW files \in AskedFor(c)
  PROVE  files \subseteq Files
<1>1. \A t : LatestOfType(t) \subseteq Papers
  BY DEF LatestOfType
<1>2. ListedPapers \subseteq Papers
  BY <1>1 DEF ListedPapers
<1>3. CASE c \in PaperLists
  <2>1. AskedFor(c) = {ListedPapers}
    BY <1>3, UrlAssumption DEF AskedFor
  <2> QED
    BY <1>2, <2>1 DEF Files, Documents
<1>4. CASE c \in PaperViews
  <2>1. AskedFor(c) = {LatestOfType(TypeOf[d]) : d \in Papers} \ {{}}
    BY <1>4, UrlAssumption DEF AskedFor
  <2> QED
    BY <1>1, <2>1 DEF Files, Documents
<1>5. CASE c \in SheetViews
  <2>1. AskedFor(c) = {{d} : d \in {s \in Sheets : created[s] # 0}}
    BY <1>5, UrlAssumption DEF AskedFor
  <2> QED
    BY <2>1 DEF Files, Documents
<1>6. CASE c \in PictureViews
  <2>1. AskedFor(c) = {{k} : k \in Pictures}
    BY <1>6, UrlAssumption DEF AskedFor
  <2> QED
    BY <2>1 DEF Files
<1> QED
  BY <1>3, <1>4, <1>5, <1>6 DEF UrlCalls

LEMMA UrlKinds ==
  /\ UrlCalls \subseteq StorageCalls /\ Erasures \subseteq StorageCalls
  /\ UrlCalls \intersect Erasures = {}
  /\ \A c \in StorageCalls : HostOf[c] \in Procs
  /\ CacheTtl \in Nat \ {0} /\ Ticks \subseteq Nat
BY UrlAssumption DEF StorageCalls, Ticks

\* What Ask hands out is in the cache, and still kept.
LEMMA AskStep ==
  ASSUME UrlTypeOK, NEW c \in UrlCalls, Ask(c)
  PROVE  \E files \in SUBSET Files, urls \in SUBSET cache[HostOf[c]] :
           /\ \A u \in urls : StillKept(u)
           /\ handed' = [handed EXCEPT ![c] = HandedNow(urls)]
           /\ wanted' = [wanted EXCEPT ![c] = files]
           /\ knew' = [knew EXCEPT ![c] = evicted[HostOf[c]]]
           /\ \E s \in {"done", "signing"} :
                urlStep' = [urlStep EXCEPT ![c] = s]
           /\ UNCHANGED <<ticks, created, cache, evicted, signRaced>>
<1>1. PICK files \in AskedFor(c) :
        LET hits == {file \in files : Cached(c, file) # {}} IN
        /\ handed' = [handed EXCEPT ![c] =
                        HandedNow(UNION {Cached(c, k) : k \in hits})]
        /\ wanted' = [wanted EXCEPT ![c] = files \ hits]
        /\ urlStep' = [urlStep EXCEPT ![c] =
                         IF files = hits THEN "done" ELSE "signing"]
  BY DEF Ask
<1> DEFINE hits == {file \in files : Cached(c, file) # {}}
           urls == UNION {Cached(c, k) : k \in hits}
<1>2. urls \in SUBSET cache[HostOf[c]] /\ \A u \in urls : StillKept(u)
  BY DEF Cached
<1>3. files \ hits \in SUBSET Files
  BY AskedFiles
<1>4. /\ handed' = [handed EXCEPT ![c] = HandedNow(urls)]
      /\ wanted' = [wanted EXCEPT ![c] = files \ hits]
      /\ \E s \in {"done", "signing"} : urlStep' = [urlStep EXCEPT ![c] = s]
  BY <1>1
<1>5. /\ knew' = [knew EXCEPT ![c] = evicted[HostOf[c]]]
      /\ UNCHANGED <<ticks, created, cache, evicted, signRaced>>
  BY DEF Ask
<1> HIDE DEF hits, urls
<1> QED
  BY <1>2, <1>3, <1>4, <1>5

\* What SignUrls keeps and hands out is signed now.
LEMMA SignStep ==
  ASSUME UrlTypeOK, NEW c \in UrlCalls, SignUrls(c)
  PROVE  \E new \in SUBSET Urls :
           /\ \A u \in new : /\ u.file \in wanted[c] /\ u.kept = ticks
                             /\ u.gone <=> u.file \in knew[c]
           /\ \E kept \in SUBSET cache[HostOf[c]] :
                cache' = [cache EXCEPT ![HostOf[c]] = new \union kept]
           /\ handed' = [handed EXCEPT ![c] = handed[c] \union HandedNow(new)]
           /\ wanted' = [wanted EXCEPT ![c] = {}]
           /\ urlStep' = [urlStep EXCEPT ![c] = "done"]
           /\ UNCHANGED <<ticks, created, evicted, knew, signRaced>>
<1>1. PICK ok \in SUBSET wanted[c] :
        LET new == {Signed(c, file) : file \in ok}
            p == HostOf[c] IN
        /\ cache' = [cache EXCEPT ![p] = new \union
             {u \in cache[p] : \A n \in new : ~InSlot(u, n.file, n.life)}]
        /\ handed' = [handed EXCEPT ![c] = handed[c] \union HandedNow(new)]
  BY DEF SignUrls
<1> DEFINE new == {Signed(c, file) : file \in ok}
           kept == {u \in cache[HostOf[c]] :
                      \A n \in new : ~InSlot(u, n.file, n.life)}
<1>2. wanted[c] \subseteq Files
  BY UrlKinds DEF UrlTypeOK
<1>3. ASSUME NEW u \in new
      PROVE  /\ u \in Urls
             /\ u.file \in wanted[c] /\ u.kept = ticks
             /\ u.gone <=> u.file \in knew[c]
  <2>1. PICK k \in wanted[c] : u = Signed(c, k)
    BY <1>3
  <2>2. /\ k \in Files /\ LifeOf(c) \in {DocumentLife, PictureLife}
        /\ ticks \in Ticks /\ (k \in knew[c]) \in BOOLEAN
    BY <1>2 DEF LifeOf, UrlTypeOK
  <2>3. u \in Urls
    BY <2>1, <2>2 DEF Signed, Urls
  <2>4. u.file = k /\ u.kept = ticks /\ u.gone = (k \in knew[c])
    BY <2>1 DEF Signed
  <2> QED
    BY <2>3, <2>4
<1>4. new \in SUBSET Urls
  BY <1>3
<1>5. /\ kept \in SUBSET cache[HostOf[c]]
      /\ cache' = [cache EXCEPT ![HostOf[c]] = new \union kept]
      /\ handed' = [handed EXCEPT ![c] = handed[c] \union HandedNow(new)]
  BY <1>1
<1>6. /\ wanted' = [wanted EXCEPT ![c] = {}]
      /\ urlStep' = [urlStep EXCEPT ![c] = "done"]
      /\ UNCHANGED <<ticks, created, evicted, knew, signRaced>>
  BY DEF SignUrls
<1> HIDE DEF new, kept
<1> QED
  BY <1>3, <1>4, <1>5, <1>6

LEMMA HandedTypes ==
  ASSUME UrlTypeOK, NEW S \in SUBSET Urls
  PROVE  HandedNow(S) \in SUBSET [url : Urls, at : Ticks]
BY DEF HandedNow, UrlTypeOK

LEMMA UrlTypesKept ==
  UrlTypeOK /\ [UrlNext]_urlVars => UrlTypeOK'
<1> SUFFICES ASSUME UrlTypeOK, [UrlNext]_urlVars
             PROVE  UrlTypeOK'
  OBVIOUS
<1>0. /\ cache \in [Procs -> SUBSET Urls]
      /\ urlStep \in [StorageCalls ->
                       {"idle", "signing", "found", "deleted", "done"}]
      /\ wanted \in [StorageCalls -> SUBSET Files]
      /\ handed \in [UrlCalls -> SUBSET [url : Urls, at : Ticks]]
      /\ evicted \in [Procs -> SUBSET Files]
      /\ knew \in [UrlCalls -> SUBSET Files]
      /\ ticks \in Ticks /\ created \in [Documents -> 0..2]
      /\ signRaced \in SUBSET Files
  BY DEF UrlTypeOK
<1>1. CASE UNCHANGED urlVars
  BY <1>1 DEF urlVars, UrlTypeOK
<1>2. ASSUME NEW c \in UrlCalls, Ask(c)
      PROVE  UrlTypeOK'
  <2>1. PICK files \in SUBSET Files, urls \in SUBSET cache[HostOf[c]] :
          /\ \A u \in urls : StillKept(u)
          /\ handed' = [handed EXCEPT ![c] = HandedNow(urls)]
          /\ wanted' = [wanted EXCEPT ![c] = files]
          /\ knew' = [knew EXCEPT ![c] = evicted[HostOf[c]]]
          /\ UNCHANGED <<ticks, created, cache, evicted, signRaced>>
    BY <1>0, <1>2, AskStep
  <2>0. PICK s \in {"done", "signing"} : urlStep' = [urlStep EXCEPT ![c] = s]
    BY <1>2, AskStep
  <2>2. HostOf[c] \in Procs /\ c \in StorageCalls
    BY UrlKinds
  <2>3. HandedNow(urls) \in SUBSET [url : Urls, at : Ticks]
    <3>1. urls \in SUBSET Urls
      BY <1>0, <2>2
    <3> QED
      BY <3>1, HandedTypes
  <2>4. /\ handed' \in [UrlCalls -> SUBSET [url : Urls, at : Ticks]]
        /\ knew' \in [UrlCalls -> SUBSET Files]
    BY <1>0, <2>1, <2>2, <2>3
  <2>5. /\ wanted' \in [StorageCalls -> SUBSET Files]
        /\ urlStep' \in [StorageCalls ->
                          {"idle", "signing", "found", "deleted", "done"}]
    BY <1>0, <2>0, <2>1, <2>2
  <2> QED
    BY <1>0, <2>1, <2>4, <2>5 DEF UrlTypeOK
<1>3. ASSUME NEW c \in UrlCalls, SignUrls(c)
      PROVE  UrlTypeOK'
  <2>1. PICK new \in SUBSET Urls, kept \in SUBSET cache[HostOf[c]] :
          /\ cache' = [cache EXCEPT ![HostOf[c]] = new \union kept]
          /\ handed' = [handed EXCEPT ![c] = handed[c] \union HandedNow(new)]
          /\ wanted' = [wanted EXCEPT ![c] = {}]
          /\ urlStep' = [urlStep EXCEPT ![c] = "done"]
          /\ UNCHANGED <<ticks, created, evicted, knew, signRaced>>
    BY <1>3, SignStep
  <2>2. HostOf[c] \in Procs /\ c \in StorageCalls
    BY UrlKinds
  <2>3. HandedNow(new) \in SUBSET [url : Urls, at : Ticks]
    BY HandedTypes
  <2>4. handed' \in [UrlCalls -> SUBSET [url : Urls, at : Ticks]]
    BY <1>0, <2>1, <2>3
  <2>5. cache' \in [Procs -> SUBSET Urls]
    BY <1>0, <2>1, <2>2
  <2>6. /\ wanted' \in [StorageCalls -> SUBSET Files]
        /\ urlStep' \in [StorageCalls ->
                          {"idle", "signing", "found", "deleted", "done"}]
    BY <1>0, <2>1, <2>2
  <2> QED
    BY <1>0, <2>1, <2>4, <2>5, <2>6 DEF UrlTypeOK
<1>4. ASSUME NEW e \in Erasures, FindAsset(e)
      PROVE  UrlTypeOK'
  <2>1. PICK file \in Files : wanted' = [wanted EXCEPT ![e] = {file}]
    BY <1>4 DEF FindAsset
  <2>2. wanted' \in [StorageCalls -> SUBSET Files]
    BY <1>0, <2>1, UrlKinds
  <2> QED
    BY <1>0, <1>4, <2>2, UrlKinds DEF FindAsset, UrlTypeOK
<1>5. ASSUME NEW e \in Erasures, DeleteFile(e)
      PROVE  UrlTypeOK'
  <2>1. HostOf[e] \in Procs /\ wanted[e] \subseteq Files
    BY <1>0, UrlKinds
  <2>2. cache' \in [Procs -> SUBSET Urls]
    BY <1>0, <1>5, <2>1 DEF DeleteFile
  <2>3. evicted' \in [Procs -> SUBSET Files]
    BY <1>0, <1>5, <2>1 DEF DeleteFile
  <2>4. signRaced' \in SUBSET Files
    BY <1>0, <1>5, <2>1 DEF DeleteFile
  <2>5. urlStep' \in [StorageCalls ->
                       {"idle", "signing", "found", "deleted", "done"}]
    BY <1>0, <1>5, UrlKinds DEF DeleteFile
  <2> QED
    BY <1>0, <1>5, <2>2, <2>3, <2>4, <2>5 DEF DeleteFile, UrlTypeOK
<1>6. ASSUME NEW e \in Erasures, KeepFile(e) \/ DeleteAssetRow(e)
      PROVE  UrlTypeOK'
  <2>1. urlStep' \in [StorageCalls ->
                       {"idle", "signing", "found", "deleted", "done"}]
    BY <1>0, <1>6, UrlKinds DEF KeepFile, DeleteAssetRow
  <2>2. created' \in [Documents -> 0..2]
    BY <1>0, <1>6 DEF KeepFile, DeleteAssetRow
  <2> QED
    BY <1>0, <1>6, <2>1, <2>2 DEF KeepFile, DeleteAssetRow, UrlTypeOK
<1>7. ASSUME NEW p \in Procs, Purge(p)
      PROVE  UrlTypeOK'
  <2>1. cache' \in [Procs -> SUBSET Urls]
    BY <1>0, <1>7 DEF Purge
  <2> QED
    BY <1>0, <1>7, <2>1 DEF Purge, UrlTypeOK
<1>8. CASE PassTime
  <2>1. ticks' \in Ticks
    BY <1>0, <1>8, UrlAssumption DEF PassTime, Ticks
  <2> QED
    BY <1>0, <1>8, <2>1 DEF PassTime, UrlTypeOK
<1> QED
  BY <1>1, <1>2, <1>3, <1>4, <1>5, <1>6, <1>7, <1>8 DEF UrlNext

UrlFacts == CachesAreEvicted /\ SigningIsWatched /\ HandedUrlsFitUnlessRaced

LEMMA UrlFactsKept ==
  UrlInv /\ [UrlNext]_urlVars => UrlFacts'
<1> SUFFICES ASSUME UrlInv, [UrlNext]_urlVars
             PROVE  UrlFacts'
  OBVIOUS
<1>0. /\ UrlTypeOK
      /\ CachesAreEvicted /\ SigningIsWatched /\ HandedUrlsFitUnlessRaced
  BY DEF UrlInv
<1>00. /\ \A p \in Procs : cache[p] \subseteq Urls
       /\ cache \in [Procs -> SUBSET Urls]
       /\ wanted \in [StorageCalls -> SUBSET Files]
       /\ handed \in [UrlCalls -> SUBSET [url : Urls, at : Ticks]]
       /\ evicted \in [Procs -> SUBSET Files]
       /\ knew \in [UrlCalls -> SUBSET Files]
       /\ ticks \in Nat
  BY <1>0, UrlKinds DEF UrlTypeOK
\* Caches that only lose URLs, and a race that is only noticed, change nothing.
<1>1. ASSUME \A p \in Procs : cache'[p] \subseteq cache[p],
             signRaced \subseteq signRaced',
             UNCHANGED <<handed, evicted, knew>>,
             \A c \in UrlCalls : wanted'[c] = wanted[c]
      PROVE  UrlFacts'
  <2>1. CachesAreEvicted'
    BY <1>0, <1>1 DEF CachesAreEvicted
  <2>2. SigningIsWatched'
    BY <1>0, <1>1 DEF SigningIsWatched
  <2>3. HandedUrlsFitUnlessRaced'
    BY <1>0, <1>1 DEF HandedUrlsFitUnlessRaced
  <2> QED
    BY <2>1, <2>2, <2>3 DEF UrlFacts
<1>2. ASSUME NEW c \in UrlCalls, Ask(c)
      PROVE  UrlFacts'
  <2>1. PICK files \in SUBSET Files, urls \in SUBSET cache[HostOf[c]] :
          /\ \A u \in urls : StillKept(u)
          /\ handed' = [handed EXCEPT ![c] = HandedNow(urls)]
          /\ wanted' = [wanted EXCEPT ![c] = files]
          /\ knew' = [knew EXCEPT ![c] = evicted[HostOf[c]]]
          /\ UNCHANGED <<ticks, created, cache, evicted, signRaced>>
    BY <1>0, <1>2, AskStep
  <2>2. /\ HostOf[c] \in Procs /\ c \in StorageCalls
        /\ UrlCalls \subseteq StorageCalls
    BY UrlKinds
  <2>3. CachesAreEvicted'
    BY <1>0, <2>1 DEF CachesAreEvicted
  <2>4. SigningIsWatched'
    BY <1>0, <1>00, <2>1, <2>2 DEF SigningIsWatched
  <2>5. ASSUME NEW h \in handed'[c]
        PROVE  /\ h.at < h.url.kept + CacheTtl
               /\ h.url.file \in knew'[c] =>
                    h.url.gone \/ h.url.file \in signRaced'
    <3>1. h.url \in urls /\ h.at = ticks
      BY <1>00, <2>1, <2>5 DEF HandedNow
    <3> QED
      BY <1>0, <1>00, <2>1, <2>2, <3>1 DEF StillKept, CachesAreEvicted
  <2>6. \A d \in UrlCalls \ {c} : handed'[d] = handed[d] /\ knew'[d] = knew[d]
    BY <1>00, <2>1
  <2>7. HandedUrlsFitUnlessRaced'
    BY <1>0, <2>1, <2>5, <2>6 DEF HandedUrlsFitUnlessRaced
  <2> QED
    BY <2>3, <2>4, <2>7 DEF UrlFacts
<1>3. ASSUME NEW c \in UrlCalls, SignUrls(c)
      PROVE  UrlFacts'
  <2>1. PICK new \in SUBSET Urls, kept \in SUBSET cache[HostOf[c]] :
          /\ \A u \in new : /\ u.file \in wanted[c] /\ u.kept = ticks
                            /\ u.gone <=> u.file \in knew[c]
          /\ cache' = [cache EXCEPT ![HostOf[c]] = new \union kept]
          /\ handed' = [handed EXCEPT ![c] = handed[c] \union HandedNow(new)]
          /\ wanted' = [wanted EXCEPT ![c] = {}]
          /\ UNCHANGED <<ticks, created, evicted, knew, signRaced>>
    BY <1>0, <1>3, SignStep
  <2>2. /\ HostOf[c] \in Procs /\ c \in StorageCalls
        /\ UrlCalls \subseteq StorageCalls /\ CacheTtl \in Nat \ {0}
    BY UrlKinds
  <2>3. CachesAreEvicted'
    <3>1. ASSUME NEW u \in new, u.file \in evicted[HostOf[c]]
          PROVE  u.gone \/ u.file \in signRaced
      BY <1>0, <2>1, <3>1 DEF SigningIsWatched
    <3>2. ASSUME NEW u \in kept, u.file \in evicted[HostOf[c]]
          PROVE  u.gone \/ u.file \in signRaced
      BY <1>0, <2>1, <2>2, <3>2 DEF CachesAreEvicted
    <3>3. cache'[HostOf[c]] = new \union kept
      BY <1>00, <2>1, <2>2
    <3>4. \A p \in Procs \ {HostOf[c]} : cache'[p] = cache[p]
      BY <1>00, <2>1, <2>2
    <3> QED
      BY <1>0, <2>1, <3>1, <3>2, <3>3, <3>4 DEF CachesAreEvicted
  <2>4. SigningIsWatched'
    BY <1>0, <1>00, <2>1, <2>2 DEF SigningIsWatched
  <2>5. ASSUME NEW h \in handed'[c]
        PROVE  /\ h.at < h.url.kept + CacheTtl
               /\ h.url.file \in knew'[c] =>
                    h.url.gone \/ h.url.file \in signRaced'
    <3>1. CASE h \in handed[c]
      BY <1>0, <2>1, <3>1 DEF HandedUrlsFitUnlessRaced
    <3>2. CASE h \in HandedNow(new)
      <4>1. h.url \in new /\ h.at = ticks
        BY <3>2 DEF HandedNow
      <4> QED
        BY <1>00, <2>1, <2>2, <4>1
    <3> QED
      BY <1>00, <2>1, <2>5, <3>1, <3>2
  <2>6. \A d \in UrlCalls \ {c} : handed'[d] = handed[d]
    BY <1>00, <2>1
  <2>7. HandedUrlsFitUnlessRaced'
    BY <1>0, <2>1, <2>5, <2>6 DEF HandedUrlsFitUnlessRaced
  <2> QED
    BY <2>3, <2>4, <2>7 DEF UrlFacts
<1>4. ASSUME NEW e \in Erasures, FindAsset(e)
      PROVE  UrlFacts'
  <2>1. PICK file \in Files : wanted' = [wanted EXCEPT ![e] = {file}]
    BY <1>4 DEF FindAsset
  <2>2. \A c \in UrlCalls : wanted'[c] = wanted[c]
    BY <1>00, <2>1, UrlKinds
  <2>3. UNCHANGED <<cache, signRaced, handed, evicted, knew>>
    BY <1>4 DEF FindAsset
  <2> QED
    BY <1>1, <2>2, <2>3
<1>5. ASSUME NEW e \in Erasures, DeleteFile(e)
      PROVE  UrlFacts'
  <2> DEFINE p == HostOf[e]
             lost == UNION {Evictions(p, k) : k \in wanted[e]}
  <2>1. p \in Procs /\ UrlCalls \subseteq StorageCalls
    BY UrlKinds
  <2>2. /\ cache' = [cache EXCEPT ![p] = cache[p] \ lost]
        /\ evicted' = [evicted EXCEPT ![p] = evicted[p] \union wanted[e]]
        /\ signRaced' = signRaced \union {k \in wanted[e] :
             \E c \in UrlCalls : HostOf[c] = p /\ k \in wanted[c]}
        /\ UNCHANGED <<wanted, handed, knew>>
    BY <1>5 DEF DeleteFile
  <2>3. \A u \in cache[p] : u.file \in wanted[e] => u \in lost
    BY DEF Evictions
  <2> HIDE DEF lost
  <2>4. /\ cache'[p] = cache[p] \ lost
        /\ evicted'[p] = evicted[p] \union wanted[e]
        /\ \A q \in Procs \ {p} :
             cache'[q] = cache[q] /\ evicted'[q] = evicted[q]
    BY <1>00, <2>1, <2>2
  <2>5. CachesAreEvicted'
    <3> SUFFICES ASSUME NEW q \in Procs, NEW u \in cache'[q],
                        u.file \in evicted'[q]
                 PROVE  u.gone \/ u.file \in signRaced'
      BY DEF CachesAreEvicted
    <3>1. u \in cache[q] /\ u.file \in evicted[q]
      BY <2>3, <2>4
    <3> QED
      BY <1>0, <2>2, <3>1 DEF CachesAreEvicted
  <2>6. SigningIsWatched'
    <3> SUFFICES ASSUME NEW c \in UrlCalls, NEW k \in wanted'[c],
                        k \in evicted'[HostOf[c]]
                 PROVE  k \in knew'[c] \/ k \in signRaced'
      BY DEF SigningIsWatched
    <3>1. HostOf[c] \in Procs
      BY <2>1, UrlKinds
    <3>2. CASE k \in evicted[HostOf[c]]
      BY <1>0, <2>2, <3>2 DEF SigningIsWatched
    <3>3. CASE k \notin evicted[HostOf[c]]
      <4>1. HostOf[c] = p /\ k \in wanted[e]
        BY <2>4, <3>1, <3>3
      <4> QED
        BY <2>2, <4>1
    <3> QED
      BY <3>2, <3>3
  <2>7. HandedUrlsFitUnlessRaced'
    BY <1>0, <2>2 DEF HandedUrlsFitUnlessRaced
  <2> QED
    BY <2>5, <2>6, <2>7 DEF UrlFacts
<1>6. ASSUME \/ PassTime \/ UNCHANGED urlVars
             \/ \E e \in Erasures : KeepFile(e) \/ DeleteAssetRow(e)
      PROVE  UrlFacts'
  <2>1. UNCHANGED <<cache, wanted, signRaced, handed, evicted, knew>>
    BY <1>6 DEF PassTime, urlVars, KeepFile, DeleteAssetRow
  <2> QED
    BY <1>1, <2>1
<1>7. ASSUME NEW p \in Procs, Purge(p)
      PROVE  UrlFacts'
  <2>1. \A q \in Procs : cache'[q] \subseteq cache[q]
    BY <1>00, <1>7 DEF Purge
  <2>2. UNCHANGED <<wanted, signRaced, handed, evicted, knew>>
    BY <1>7 DEF Purge
  <2> QED
    BY <1>1, <2>1, <2>2
<1> QED
  BY <1>2, <1>3, <1>4, <1>5, <1>6, <1>7 DEF UrlNext

\* HandedUrlsFitUnlessRaced: a URL that StorageService hands out was signed
\* within CacheTtl, and after the last deletion of its file that the process
\* knew of as it was asked, unless that deletion came during the signing.
THEOREM HandedUrlsFit == UrlSpec => []HandedUrlsFitUnlessRaced
<1>1. UrlInit => UrlInv
  <2> SUFFICES ASSUME UrlInit
               PROVE  UrlInv
    OBVIOUS
  <2>1. ticks \in Ticks /\ created \in [Documents -> 0..2]
    BY UrlAssumption DEF UrlInit, Ticks
  <2>2. UrlTypeOK
    BY <2>1 DEF UrlInit, UrlTypeOK
  <2>3. CachesAreEvicted
    BY DEF UrlInit, CachesAreEvicted
  <2>4. SigningIsWatched
    BY UrlKinds DEF UrlInit, SigningIsWatched
  <2>5. HandedUrlsFitUnlessRaced
    BY DEF UrlInit, HandedUrlsFitUnlessRaced
  <2> QED
    BY <2>2, <2>3, <2>4, <2>5 DEF UrlInv
<1>2. UrlInv /\ [UrlNext]_urlVars => UrlInv'
  BY UrlTypesKept, UrlFactsKept DEF UrlInv, UrlFacts
<1>3. UrlInv => HandedUrlsFitUnlessRaced
  BY DEF UrlInv
<1> QED
  BY <1>1, <1>2, <1>3, PTL DEF UrlSpec
-----------------------------------------------------------------------------
(***************************************************************************)
(* The rating of a venue                                                   *)
(***************************************************************************)

\* A moderation is about one booking, and keeps to the steps of its kind.
ModerationsFit ==
  /\ \A m \in Moderations :
       Underway(m) => \E b \in Played : about[m] = {b}
  /\ \A a \in Approvals : ratePc[a] \in {"idle", "approve", "updated", "done"}
  /\ \A d \in Deletions :
       ratePc[d] \in {"idle", "delete", "deleteCounted", "recalc", "computed",
                      "done"}

\* The steps of a moderation before which the rating is right as it is shown.
Untouched == {"idle", "approve", "delete", "deleteCounted", "done"}

\* While moderations have not overlapped, one is under way at most, and it
\* holds the rating the venue has once it has ended.
RatingInStep ==
  ~rateRaced =>
    /\ \A m, n \in Moderations : Underway(m) /\ Underway(n) => m = n
    /\ (\A m \in Moderations : ratePc[m] \in Untouched) =>
         shown = Aggregate(Approved)
    /\ \A a \in Approvals :
         ratePc[a] = "updated" =>
           /\ about[a] \subseteq Reviewed
           /\ computed[a] = Aggregate(Approved \union about[a])
    /\ \A d \in Deletions :
         /\ ratePc[d] = "delete" => about[d] \intersect Approved = {}
         /\ ratePc[d] = "computed" => computed[d] = Aggregate(Approved)

RatingInv == RatingTypeOK /\ ModerationsFit /\ RatingInStep

StarsOf == [b \in Played |-> review[b].stars]

LEMMA FinitelyMany == \A S \in SUBSET Played : IsFiniteSet(S)
BY RatingAssumption, FS_Subset

LEMMA StarsTyped ==
  ASSUME RatingTypeOK
  PROVE  \A b \in Played : review[b].stars \in Nat /\ StarsOf[b] \in Nat
<1>1. \A b \in Played : review[b].stars \in {0} \union Stars
  BY DEF RatingTypeOK
<1>2. \A n \in {0} \union Stars : n \in Nat
  BY RatingAssumption
<1> QED
  BY <1>1, <1>2 DEF StarsOf

LEMMA AggregateTyped ==
  ASSUME RatingTypeOK, NEW S \in SUBSET Played
  PROVE  /\ Aggregate(S) \in [sum : Nat, total : Nat]
         /\ Aggregate({}) = [sum |-> 0, total |-> 0]
<1>1. IsFiniteSet(S) /\ \A b \in S : StarsOf[b] \in Nat
  BY FinitelyMany, StarsTyped
<1>2. Cardinality(S) \in Nat /\ Cardinality({}) = 0
  BY <1>1, FS_CardinalityType, FS_EmptySet
<1>3. SumFunctionOnSet(StarsOf, S) >= Cardinality({})
  BY <1>1, SumCounts
<1>4. /\ SumFunctionOnSet(StarsOf, S) \in Int
      /\ SumFunctionOnSet(StarsOf, {}) = 0
  BY <1>1, SumInt
<1>5. SumFunctionOnSet(StarsOf, S) \in Nat
  BY <1>2, <1>3, <1>4
<1> QED
  BY <1>2, <1>4, <1>5 DEF Aggregate, StarsOf

\* Reviews that keep their stars keep their rating.
LEMMA AggregateStays ==
  ASSUME RatingTypeOK, NEW S \in SUBSET Played,
         \A b \in S : review'[b].stars = review[b].stars
  PROVE  Aggregate(S)' = Aggregate(S)
<1> DEFINE A == StarsOf
           B == StarsOf'
<1>1. IsFiniteSet(S) /\ \A b \in S : A[b] \in Int
  BY FinitelyMany, StarsTyped
<1>a. \A b \in S : A[b] = B[b]
  BY DEF StarsOf
<1>2. SumFunctionOnSet(A, S) = SumFunctionOnSet(B, S)
  <2> HIDE DEF A, B
  <2> QED
    BY <1>1, <1>a, SumOfSame
<1> QED
  BY <1>2 DEF Aggregate, StarsOf

LEMMA RatingTypes ==
  ASSUME RatingTypeOK, ModerationsFit, [RatingNext]_ratingVars
  PROVE  RatingTypeOK'
<1> USE RatingAssumption DEF RatingTypeOK, RateTo, Moderations
<1>0. Approved \in SUBSET Played
  BY DEF Approved, Reviewed
<1>1. ASSUME NEW w \in Writers, NEW b \in Played, CheckReview(w, b)
      PROVE  RatingTypeOK'
  BY <1>1 DEF CheckReview, Enter
<1>2. ASSUME NEW w \in Writers, WriteReview(w)
      PROVE  RatingTypeOK'
  <2>1. PICK b \in about[w] :
          \/ UNCHANGED review
          \/ \E n \in Stars :
               review' = [review EXCEPT ![b] = [stars |-> n,
                                                approved |-> FALSE]]
    BY <1>2 DEF WriteReview
  <2>2. review' \in [Played -> [stars : {0} \union Stars, approved : BOOLEAN]]
    <3>1. \A n \in Stars : [stars |-> n, approved |-> FALSE]
                             \in [stars : {0} \union Stars, approved : BOOLEAN]
      OBVIOUS
    <3>2. CASE UNCHANGED review
      BY <3>2
    <3>3. ASSUME NEW n \in Stars,
                 review' = [review EXCEPT ![b] = [stars |-> n,
                                                  approved |-> FALSE]]
          PROVE  review' \in [Played -> [stars : {0} \union Stars,
                                         approved : BOOLEAN]]
      BY <3>1, <3>3
    <3> QED
      BY <2>1, <3>2, <3>3
  <2> QED
    BY <1>2, <2>2 DEF WriteReview
<1>3. ASSUME NEW m \in Moderations, NEW b \in Played, BeginModeration(m, b)
      PROVE  RatingTypeOK'
  BY <1>3 DEF BeginModeration, Enter
<1>4. ASSUME NEW a \in Moderations, Approve(a)
      PROVE  RatingTypeOK'
  <2>1. \A b \in about[a] :
          Aggregate(Approved \union {b}) \in [sum : Nat, total : Nat]
    BY <1>0, <1>4, AggregateTyped DEF Approve
  <2>2. computed' \in [Moderations -> [sum : Nat, total : Nat]]
    BY <1>4, <2>1 DEF Approve
  <2> QED
    BY <1>4, <2>2 DEF Approve
<1>5. ASSUME NEW a \in Moderations, CommitApproval(a)
      PROVE  RatingTypeOK'
  <2>1. review' \in [Played -> [stars : {0} \union Stars, approved : BOOLEAN]]
    BY <1>5 DEF CommitApproval
  <2> QED
    BY <1>5, <2>1 DEF CommitApproval
<1>6. ASSUME NEW d \in Moderations, DeleteReview(d)
      PROVE  RatingTypeOK'
  <2>1. review' \in [Played -> [stars : {0} \union Stars, approved : BOOLEAN]]
    <3>1. NoReview \in [stars : {0} \union Stars, approved : BOOLEAN]
      BY DEF NoReview
    <3>2. \/ UNCHANGED review
          \/ review' = [b \in Played |-> IF b \in about[d] THEN NoReview
                                         ELSE review[b]]
      BY <1>6 DEF DeleteReview
    <3> QED
      BY <3>1, <3>2
  <2> QED
    BY <1>6, <2>1 DEF DeleteReview
<1>7. ASSUME NEW d \in Moderations, RecalcAfterDelete(d)
      PROVE  RatingTypeOK'
  <2>1. Aggregate(Approved) \in [sum : Nat, total : Nat]
    BY <1>0, AggregateTyped
  <2> QED
    BY <1>7, <2>1 DEF RecalcAfterDelete
<1>8. ASSUME NEW d \in Moderations, WriteRating(d)
      PROVE  RatingTypeOK'
  BY <1>8 DEF WriteRating
<1>9. CASE UNCHANGED ratingVars
  BY <1>9 DEF ratingVars
<1> QED
  BY <1>1, <1>2, <1>3, <1>4, <1>5, <1>6, <1>7, <1>8, <1>9 DEF RatingNext

LEMMA ModerationsStayFit ==
  ASSUME RatingTypeOK, ModerationsFit, [RatingNext]_ratingVars
  PROVE  ModerationsFit'
<1> USE RatingAssumption
    DEF ModerationsFit, RatingTypeOK, RateTo, Moderations, Underway
<1>1. ASSUME NEW w \in Writers, NEW b \in Played, CheckReview(w, b)
      PROVE  ModerationsFit'
  BY <1>1 DEF CheckReview, Enter
<1>2. ASSUME NEW w \in Writers, WriteReview(w)
      PROVE  ModerationsFit'
  BY <1>2 DEF WriteReview
<1>3. ASSUME NEW m \in Moderations, NEW b \in Played, BeginModeration(m, b)
      PROVE  ModerationsFit'
  BY <1>3 DEF BeginModeration, Enter
<1>4. ASSUME NEW a \in Moderations, Approve(a)
      PROVE  ModerationsFit'
  BY <1>4 DEF Approve
<1>5. ASSUME NEW a \in Moderations, CommitApproval(a)
      PROVE  ModerationsFit'
  BY <1>5 DEF CommitApproval
<1>6. ASSUME NEW d \in Moderations, DeleteReview(d)
      PROVE  ModerationsFit'
  BY <1>6 DEF DeleteReview
<1>7. ASSUME NEW d \in Moderations, RecalcAfterDelete(d)
      PROVE  ModerationsFit'
  BY <1>7 DEF RecalcAfterDelete
<1>8. ASSUME NEW d \in Moderations, WriteRating(d)
      PROVE  ModerationsFit'
  BY <1>8 DEF WriteRating
<1>9. CASE UNCHANGED ratingVars
  BY <1>9 DEF ratingVars
<1> QED
  BY <1>1, <1>2, <1>3, <1>4, <1>5, <1>6, <1>7, <1>8, <1>9 DEF RatingNext

-----------------------------------------------------------------------------
LEMMA InStepInit == RatingInit => RatingInv
<1> SUFFICES ASSUME RatingInit PROVE RatingInv
  OBVIOUS
<1>1. RatingTypeOK
  BY DEF RatingInit, RatingTypeOK, NoReview
<1>2. ModerationsFit
  BY DEF RatingInit, ModerationsFit, Underway, Moderations
<1>3. Approved = {}
  BY DEF RatingInit, Approved, Reviewed, NoReview
<1>4. shown = Aggregate(Approved)
  BY <1>1, <1>3, AggregateTyped DEF RatingInit
<1>5. RatingInStep
  BY <1>4 DEF RatingInit, RatingInStep, Underway, Moderations
<1> QED
  BY <1>1, <1>2, <1>5 DEF RatingInv

\* A step that changes neither the moderations nor an approved review.
LEMMA WritersKeepStep ==
  ASSUME RatingInv, ~rateRaced', rateRaced' = rateRaced,
         UNCHANGED <<shown, computed>>,
         \A m \in Moderations : ratePc'[m] = ratePc[m] /\ about'[m] = about[m],
         Approved' = Approved, Reviewed \subseteq Reviewed',
         \A b \in Reviewed : review'[b].stars = review[b].stars
  PROVE  RatingInStep'
<1> USE DEF RatingInv
<1>0. Approved \in SUBSET Played /\ Approved \subseteq Reviewed
      /\ Reviewed \subseteq Played
  BY DEF Approved, Reviewed
<1>1. ASSUME NEW S \in SUBSET Reviewed
      PROVE  Aggregate(S)' = Aggregate(S)
  BY <1>0, AggregateStays
<1>2. Aggregate(Approved)' = Aggregate(Approved)
  BY <1>0, <1>1
<1>3. ASSUME NEW a \in Approvals, ratePc'[a] = "updated"
      PROVE  /\ about'[a] \subseteq Reviewed'
             /\ computed'[a] = Aggregate(Approved \union about[a])'
  <2>1. /\ a \in Moderations /\ about'[a] = about[a] /\ ratePc[a] = "updated"
        /\ about[a] \subseteq Reviewed
        /\ computed[a] = Aggregate(Approved \union about[a])
    BY <1>3 DEF RatingInStep, Moderations
  <2>2. Approved \union about[a] \in SUBSET Reviewed
    BY <1>0, <2>1
  <2>3. Aggregate(Approved \union about[a])' =
          Aggregate(Approved \union about[a])
    BY <1>1, <2>1, <2>2
  <2> QED
    BY <2>1, <2>3
<1>4. \A m \in Moderations : Underway(m)' = Underway(m)
  BY DEF Underway
<1>5. (\A m \in Moderations : ratePc'[m] \in Untouched) =>
        shown' = Aggregate(Approved)'
  BY <1>2 DEF RatingInStep
<1>6. ASSUME NEW d \in Deletions
      PROVE  /\ ratePc'[d] = "delete" => about'[d] \intersect Approved' = {}
             /\ ratePc'[d] = "computed" => computed'[d] = Aggregate(Approved)'
  BY <1>2 DEF RatingInStep, Moderations
<1> QED
  BY <1>3, <1>4, <1>5, <1>6 DEF RatingInStep

\* The step of the one moderation that is under way.
LEMMA OneModerates ==
  ASSUME RatingInv, RatingTypeOK', ModerationsFit', NEW m \in Moderations,
         Underway(m),
         ~rateRaced, rateRaced' = rateRaced,
         \A n \in Moderations \ {m} : ratePc'[n] = ratePc[n]
  PROVE  \A n \in Moderations \ {m} :
           /\ ratePc[n] \in {"idle", "done"} /\ ratePc'[n] \in {"idle", "done"}
           /\ ~Underway(n)' /\ ratePc'[n] \in Untouched
BY DEF RatingInv, RatingInStep, Underway, Untouched

LEMMA BeginKeepsStep ==
  ASSUME RatingInv, RatingTypeOK', ModerationsFit', NEW m \in Moderations,
         NEW b \in Played,
         BeginModeration(m, b)
  PROVE  RatingInStep'
<1> SUFFICES ASSUME ~rateRaced'
             PROVE  RatingInStep'
  BY DEF RatingInStep
<1> USE RatingAssumption DEF RatingInv
<1>0. /\ ~rateRaced /\ \A n \in Moderations : ~Underway(n)
      /\ UNCHANGED <<review, shown, computed>>
  BY DEF BeginModeration
<1>1. /\ Approved' = Approved /\ Reviewed' = Reviewed
      /\ Aggregate(Approved)' = Aggregate(Approved)
  BY <1>0 DEF Approved, Reviewed, Aggregate
<1>2. /\ \A n \in Moderations \ {m} : ratePc'[n] = ratePc[n]
      /\ about'[m] = {b}
      /\ ratePc'[m] \in {"approve", "delete", "deleteCounted"}
      /\ ratePc'[m] = "delete" => b \notin Approved
      /\ m \in Writers \union Moderations
  BY DEF BeginModeration, Enter, RateTo, RatingTypeOK
<1>3. \A n \in Moderations : ratePc[n] \in {"idle", "done"}
  BY <1>0 DEF Underway
<1>4. shown' = Aggregate(Approved)'
  BY <1>0, <1>1, <1>3 DEF RatingInStep, Untouched
<1>5. \A n, k \in Moderations : Underway(n)' /\ Underway(k)' => n = k
  BY <1>2, <1>3 DEF Underway
<1>6. \A n \in Moderations :
        /\ ratePc'[n] # "updated" /\ ratePc'[n] # "computed"
        /\ ratePc'[n] = "delete" => about'[n] \intersect Approved' = {}
  BY <1>1, <1>2, <1>3
<1> QED
  BY <1>4, <1>5, <1>6 DEF RatingInStep, Moderations

LEMMA ApproveKeepsStep ==
  ASSUME RatingInv, RatingTypeOK', ModerationsFit', NEW a \in Moderations,
         Approve(a) \/ CommitApproval(a)
  PROVE  RatingInStep'
<1> SUFFICES ASSUME ~rateRaced'
             PROVE  RatingInStep'
  BY DEF RatingInStep
<1> USE RatingAssumption DEF RatingInv
<1>0. /\ ~rateRaced /\ Underway(a) /\ a \in Approvals /\ rateRaced' = rateRaced
      /\ about' = about /\ about[a] \in SUBSET Played
      /\ a \in Writers \union Moderations
      /\ \A n \in Moderations \ {a} : ratePc'[n] = ratePc[n]
  BY DEF Approve, CommitApproval, RateTo, Underway, RatingTypeOK
<1>1. \A n \in Moderations \ {a} :
        /\ ratePc[n] \in {"idle", "done"} /\ ratePc'[n] \in {"idle", "done"}
        /\ ~Underway(n)' /\ ratePc'[n] \in Untouched
  BY <1>0, OneModerates
<1>2. \A n, k \in Moderations : Underway(n)' /\ Underway(k)' => n = k
  BY <1>1
<1>3. CASE Approve(a)
  <2>1. /\ UNCHANGED <<review, shown>> /\ ratePc[a] = "approve"
        /\ Approved' = Approved /\ Reviewed' = Reviewed
        /\ \A S : Aggregate(S)' = Aggregate(S)
    BY <1>3 DEF Approve, Approved, Reviewed, Aggregate
  <2>2. shown' = Aggregate(Approved)'
    BY <1>0, <1>1, <2>1 DEF RatingInStep, Untouched
  <2>3. ASSUME ratePc'[a] = "updated"
        PROVE  /\ about'[a] \subseteq Reviewed'
               /\ computed'[a] = Aggregate(Approved \union about[a])'
    <3>1. PICK b \in about[a] :
            IF b \in Reviewed
              THEN computed' = [computed EXCEPT ![a] =
                                  Aggregate(Approved \union {b})]
              ELSE ratePc' = [ratePc EXCEPT ![a] = "done"]
      BY <1>3 DEF Approve, RateTo
    <3>2. b \in Reviewed
      BY <1>0, <2>3, <3>1 DEF RatingTypeOK
    <3>3. about[a] = {b}
      BY <1>0, <3>1 DEF ModerationsFit
    <3>4. computed'[a] = Aggregate(Approved \union {b})
      BY <3>1, <3>2 DEF RatingTypeOK
    <3> QED
      BY <1>0, <2>1, <3>2, <3>3, <3>4
  <2>4. \A n \in Approvals :
          ratePc'[n] = "updated" =>
            /\ about'[n] \subseteq Reviewed'
            /\ computed'[n] = Aggregate(Approved \union about[n])'
    <3> SUFFICES ASSUME NEW n \in Approvals, ratePc'[n] = "updated"
                 PROVE  /\ about'[n] \subseteq Reviewed'
                        /\ computed'[n] = Aggregate(Approved \union about[n])'
      OBVIOUS
    <3>1. n = a
      BY <1>1 DEF Moderations
    <3> QED
      BY <2>3, <3>1
  <2>5. \A d \in Deletions : ratePc'[d] \in {"idle", "done"}
    BY <1>0, <1>1 DEF Moderations
  <2> QED
    BY <1>2, <2>2, <2>4, <2>5 DEF RatingInStep
<1>4. CASE CommitApproval(a)
  <2>1. /\ review' = [b \in Played |-> IF b \in about[a]
                                       THEN [review[b] EXCEPT !.approved =
                                         TRUE]
                                       ELSE review[b]]
        /\ shown' = computed[a] /\ ratePc[a] = "updated" /\ ratePc'[a] = "done"
    BY <1>0, <1>4 DEF CommitApproval, RateTo, RatingTypeOK
  <2>2. /\ computed[a] = Aggregate(Approved \union about[a])
        /\ about[a] \subseteq Reviewed
    BY <1>0, <2>1 DEF RatingInStep
  <2>3. \A b \in Played :
          /\ review'[b].stars = review[b].stars
          /\ review'[b].approved <=> review[b].approved \/ b \in about[a]
    BY <2>1 DEF RatingTypeOK
  <2>4. Approved' = Approved \union about[a]
    BY <2>2, <2>3 DEF Approved, Reviewed
  <2> DEFINE S == Approved \union about[a]
  <2>5. S \in SUBSET Played
    BY <1>0 DEF Approved, Reviewed
  <2>6. Aggregate(S) = Aggregate(Approved)'
    <3>1. ASSUME NEW R \in SUBSET Played
          PROVE  Aggregate(R)' = Aggregate(R)
      BY <2>3, AggregateStays
    <3> QED
      BY <2>4, <2>5, <3>1
  <2>7. shown' = Aggregate(Approved)'
    BY <2>1, <2>2, <2>6
  <2> QED
    BY <1>0, <1>1, <1>2, <2>1, <2>7 DEF RatingInStep, Moderations
<1> QED
  BY <1>3, <1>4

LEMMA DeletionKeepsStep ==
  ASSUME RatingInv, RatingTypeOK', ModerationsFit', NEW d \in Moderations,
         DeleteReview(d) \/ RecalcAfterDelete(d) \/ WriteRating(d)
  PROVE  RatingInStep'
<1> SUFFICES ASSUME ~rateRaced'
             PROVE  RatingInStep'
  BY DEF RatingInStep
<1> USE RatingAssumption DEF RatingInv
<1>0. /\ ~rateRaced /\ Underway(d) /\ rateRaced' = rateRaced
      /\ about' = about /\ about[d] \in SUBSET Played
      /\ d \in Writers \union Moderations
      /\ \A n \in Moderations \ {d} : ratePc'[n] = ratePc[n]
  BY DEF DeleteReview, RecalcAfterDelete, WriteRating, RateTo, Underway,
         RatingTypeOK
<1>1. \A n \in Moderations \ {d} :
        /\ ratePc[n] \in {"idle", "done"} /\ ratePc'[n] \in {"idle", "done"}
        /\ ~Underway(n)' /\ ratePc'[n] \in Untouched
  BY <1>0, OneModerates
<1>2. \A n, k \in Moderations : Underway(n)' /\ Underway(k)' => n = k
  BY <1>1
<1>a. d \in Deletions
  BY DEF DeleteReview, RecalcAfterDelete, WriteRating, ModerationsFit,
         Moderations
<1>3. CASE DeleteReview(d)
  <2>1. /\ ratePc'[d] \in {"recalc", "done"}
        /\ ratePc[d] \in {"delete", "deleteCounted"}
        /\ UNCHANGED <<shown, computed>>
        /\ ratePc'[d] = "done" /\ about[d] \subseteq Reviewed =>
             ratePc[d] = "delete"
        /\ \/ UNCHANGED review /\ ~(about[d] \subseteq Reviewed)
           \/ /\ about[d] \subseteq Reviewed
              /\ review' = [b \in Played |-> IF b \in about[d] THEN NoReview
                                             ELSE review[b]]
    BY <1>0, <1>3 DEF DeleteReview, RateTo, MustRecalc, RatingTypeOK
  <2>2. ASSUME ratePc'[d] = "done"
        PROVE  shown' = Aggregate(Approved)'
    <3>1. CASE UNCHANGED review
      <4>1. shown = Aggregate(Approved)
        BY <1>0, <1>1, <2>1 DEF RatingInStep, Untouched
      <4> QED
        BY <2>1, <3>1, <4>1 DEF Aggregate, Approved, Reviewed
    <3>2. CASE /\ about[d] \subseteq Reviewed
               /\ review' = [b \in Played |-> IF b \in about[d] THEN NoReview
                                              ELSE review[b]]
      <4>1. ratePc[d] = "delete" /\ about[d] \intersect Approved = {}
        BY <1>0, <1>a, <2>1, <2>2, <3>2 DEF RatingInStep
      <4>2. \A b \in Played :
              /\ b \notin about[d] => review'[b] = review[b]
              /\ b \in about[d] => review'[b].stars = 0
        BY <3>2 DEF NoReview
      <4>3. Approved' = Approved
        BY <4>1, <4>2 DEF Approved, Reviewed
      <4>4. Approved \in SUBSET Played
        BY DEF Approved, Reviewed
      <4>5. \A b \in Approved : review'[b].stars = review[b].stars
        BY <4>1, <4>2, <4>4
      <4>6. Aggregate(Approved)' = Aggregate(Approved)
        <5>1. ASSUME NEW R \in SUBSET Approved
              PROVE  Aggregate(R)' = Aggregate(R)
          BY <4>4, <4>5, AggregateStays
        <5> QED
          BY <4>3, <5>1
      <4>7. shown = Aggregate(Approved)
        BY <1>0, <1>1, <4>1 DEF RatingInStep, Untouched
      <4> QED
        BY <2>1, <4>6, <4>7
    <3> QED
      BY <2>1, <3>1, <3>2
  <2> QED
    BY <1>0, <1>1, <1>2, <1>a, <2>1, <2>2
    DEF RatingInStep, Untouched, Moderations
<1>4. CASE RecalcAfterDelete(d)
  <2>1. /\ UNCHANGED <<review, shown>> /\ ratePc'[d] = "computed"
        /\ Approved' = Approved
        /\ Aggregate(Approved)' = Aggregate(Approved)
        /\ computed'[d] = Aggregate(Approved)
    BY <1>0, <1>4
    DEF RecalcAfterDelete, RateTo, Approved, Reviewed, Aggregate, RatingTypeOK
  <2> QED
    BY <1>0, <1>1, <1>2, <1>a, <2>1 DEF RatingInStep, Untouched, Moderations
<1>5. CASE WriteRating(d)
  <2>1. /\ UNCHANGED review /\ shown' = computed[d]
        /\ ratePc[d] = "computed" /\ ratePc'[d] = "done"
        /\ Aggregate(Approved)' = Aggregate(Approved)
    BY <1>0, <1>5
    DEF WriteRating, RateTo, Approved, Reviewed, Aggregate, RatingTypeOK
  <2>2. shown' = Aggregate(Approved)'
    BY <1>0, <1>a, <2>1 DEF RatingInStep
  <2> QED
    BY <1>0, <1>1, <1>2, <1>a, <2>1, <2>2
    DEF RatingInStep, Untouched, Moderations
<1> QED
  BY <1>3, <1>4, <1>5

LEMMA WriterKeepsStep ==
  ASSUME RatingInv, RatingTypeOK', ModerationsFit', NEW w \in Writers,
         (\E b \in Played : CheckReview(w, b)) \/ WriteReview(w)
  PROVE  RatingInStep'
<1> SUFFICES ASSUME ~rateRaced'
             PROVE  RatingInStep'
  BY DEF RatingInStep
<1>0. /\ rateRaced' = rateRaced /\ UNCHANGED <<shown, computed>>
      /\ \A m \in Moderations : ratePc'[m] = ratePc[m] /\ about'[m] = about[m]
  BY RatingAssumption
  DEF CheckReview, WriteReview, Enter, RateTo, RatingInv, RatingTypeOK
<1>1. CASE UNCHANGED review
  BY <1>0, <1>1, WritersKeepStep DEF Approved, Reviewed
<1>2. ASSUME NEW b \in Played, b \notin Reviewed, NEW n \in Stars,
             review' = [review EXCEPT ![b] = [stars |-> n, approved |-> FALSE]]
      PROVE  RatingInStep'
  <2>1. /\ ~review'[b].approved
        /\ \A d \in Played \ {b} : review'[d] = review[d]
    BY <1>2 DEF RatingInv, RatingTypeOK
  <2>2. Approved' = Approved /\ Reviewed \subseteq Reviewed'
        /\ \A d \in Reviewed : review'[d].stars = review[d].stars
    BY <1>2, <2>1 DEF Approved, Reviewed
  <2> QED
    BY <1>0, <2>2, WritersKeepStep
<1> QED
  BY <1>1, <1>2
  DEF CheckReview, WriteReview, RatingInv, RatingTypeOK

\* The rating a venue shows is that of its approved reviews, for any number of
\* games, reviews and moderations of which no two overlap.
THEOREM RatingIsCurrent == RatingSpec => []RatingIsCurrentUnlessRaced
<1>1. RatingInit => RatingInv
  BY InStepInit
<1>2. RatingInv /\ [RatingNext]_ratingVars => RatingInv'
  <2> SUFFICES ASSUME RatingInv, [RatingNext]_ratingVars
               PROVE  RatingInv'
    OBVIOUS
  <2>1. RatingTypeOK' /\ ModerationsFit'
    BY RatingTypes, ModerationsStayFit DEF RatingInv
  <2>2. RatingInStep'
    <3>1. CASE UNCHANGED ratingVars
      BY <3>1 DEF RatingInv, RatingInStep, ratingVars, Underway, Aggregate,
                  Approved, Reviewed
    <3> QED
      BY <2>1, <3>1, WriterKeepsStep, BeginKeepsStep, ApproveKeepsStep,
         DeletionKeepsStep DEF RatingNext
  <2> QED
    BY <2>1, <2>2 DEF RatingInv
<1>3. RatingInv => RatingIsCurrentUnlessRaced
  BY DEF RatingInv, RatingInStep, RatingIsCurrentUnlessRaced, Underway,
         Untouched
<1> QED
  BY <1>1, <1>2, <1>3, PTL DEF RatingSpec
=============================================================================
