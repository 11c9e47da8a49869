----------------------------- MODULE PriceRules -----------------------------
(***************************************************************************)
(* The pricing rules of one court: the base rule that comes with the       *)
(* court, the owner's special rules, and the bookings that are charged by  *)
(* them.                                                                   *)
(*                                                                         *)
(* A rule applies to the slot in question or does not; days, hours and     *)
(* dates are one bit.  Making a rule and charging a booking both read the  *)
(* rules in one statement and insert in a later one.                       *)
(***************************************************************************)
EXTENDS Integers, FiniteSets

CONSTANTS
  BaseRule,     \* the rule createCourt makes
  RuleCalls,    \* calls of createRule, each of which makes one rule
  PricedHolds,  \* calls of holdSlot
  PricedWalkIns,\* calls of createOfflineBooking
  Amounts,      \* what an owner types as a rule's price
  NoRule        \* not a rule

Rules == {BaseRule} \union RuleCalls
Priced == PricedHolds \union PricedWalkIns

ASSUME PricingAssumption ==
  /\ BaseRule \notin RuleCalls
  /\ NoRule \notin Rules
  /\ PricedHolds \intersect PricedWalkIns = {}
  /\ Amounts \subseteq {n \in Nat : n >= 100}    \* @Min(100)

VARIABLES
  rule,       \* the rows of pricing_rules
  rulePc,     \* how far each createRule has come
  draft,      \* the row each createRule is to insert
  charged,    \* the price and the rule each booking is to be charged by
  chargePc    \* how far each booking has come

priceVars == <<rule, rulePc, draft, charged, chargePc>>

-----------------------------------------------------------------------------
RuleTypes == {"base", "peak", "custom"}
Modifiers == {"fixed", "percent_add", "percent_off"}

\* PRIORITY_MAP has a priority for every type, for custom rules too: the one
\* an owner sends with a custom rule is never used.
PriorityOf(type) == CASE type = "base"   -> 1
                      [] type = "peak"   -> 10
                      [] type = "custom" -> 20

RuleRow == [type : RuleTypes, priority : {1, 10, 20}, modifier : Modifiers,
            amount : Amounts, applies : BOOLEAN, active : BOOLEAN]
NoRow == [type |-> "none"]

Stored == {r \in Rules : rule[r] # NoRow}
ActiveRules == {r \in Stored : rule[r].active}
BaseRules == {r \in Stored : rule[r].type = "base"}
ActiveBases == BaseRules \intersect ActiveRules

\* The first rule of the sorted list that applies, or else the base rule;
\* rows of the same priority come in any order.
TopRules ==
  LET apply == {r \in ActiveRules : rule[r].applies} IN
  IF apply = {} THEN ActiveBases
  ELSE {r \in apply : \A s \in apply : rule[s].priority <= rule[r].priority}

\* calculatePriceFromRules: a percentage is of the base price.
PriceBy(r, base) ==
  LET n == rule[r].amount
      b == rule[base].amount IN
  CASE rule[r].modifier = "fixed"       -> n
    [] rule[r].modifier = "percent_add" -> (b * (100 + n)) \div 100
    [] rule[r].modifier = "percent_off" -> (b * (100 - n)) \div 100

NoCharge == [price |-> 0, by |-> NoRule]

-----------------------------------------------------------------------------
\* createCourt inserts the court and its base rule in one transaction.
PriceInit ==
  /\ \E n \in Amounts :
       rule = [r \in Rules |->
                 IF r = BaseRule
                   THEN [type |-> "base", priority |-> 1,
                         modifier |-> "fixed", amount |-> n,
                         applies |-> TRUE, active |-> TRUE]
                   ELSE NoRow]
  /\ rulePc = [c \in RuleCalls |-> "idle"]
  /\ draft = [c \in RuleCalls |-> NoRow]
  /\ charged = [b \in Priced |-> NoCharge]
  /\ chargePc = [b \in Priced |-> "idle"]

\* createRule: no second base rule, and no other without an active one.
CheckRule(c) ==
  /\ rulePc[c] = "idle"
  /\ \E row \in RuleRow :
       /\ row.priority = PriorityOf(row.type)
       /\ row.active
       /\ IF row.type = "base" THEN BaseRules = {} ELSE ActiveBases # {}
       /\ draft' = [draft EXCEPT ![c] = row]
  /\ rulePc' = [rulePc EXCEPT ![c] = "checked"]
  /\ UNCHANGED <<rule, charged, chargePc>>

\* Mutant of PriorityFree: a table without the key.
PriorityAlwaysFree(n) == TRUE

\* The unique key on court_id and priority.
PriorityFree(n) == \A r \in Stored : rule[r].priority # n

InsertRule(c) ==
  /\ rulePc[c] = "checked"
  /\ IF PriorityFree(draft[c].priority)
       THEN rule' = [rule EXCEPT ![c] = draft[c]]
       ELSE UNCHANGED rule
  /\ draft' = [draft EXCEPT ![c] = NoRow]
  /\ rulePc' = [rulePc EXCEPT ![c] = "done"]
  /\ UNCHANGED <<charged, chargePc>>

\* updateRule: anything but the type and the priority, of the base rule too.
UpdateRule(r) ==
  /\ r \in Stored
  /\ \E m \in Modifiers, n \in Amounts, fits, on \in BOOLEAN :
       rule' = [rule EXCEPT ![r].modifier = m, ![r].amount = n,
                            ![r].applies = fits, ![r].active = on]
  /\ UNCHANGED <<rulePc, draft, charged, chargePc>>

\* deleteRule: bookings charged by the rule are left without one.
DeleteRule(r) ==
  /\ r \in Stored
  /\ rule[r].type # "base"
  /\ rule' = [rule EXCEPT ![r] = NoRow]
  /\ charged' = [b \in Priced |-> IF chargePc[b] = "done" /\ charged[b].by = r
                                  THEN [charged[b] EXCEPT !.by = NoRule]
                                  ELSE charged[b]]
  /\ UNCHANGED <<rulePc, draft, chargePc>>

\* calculatePrice throws without a base rule: a hold is refused, and a walk-in
\* is free.
ReadPrice(b) ==
  /\ chargePc[b] = "idle"
  /\ IF ActiveBases = {}
       THEN b \in PricedWalkIns /\ UNCHANGED charged
       ELSE \E r \in TopRules, base \in ActiveBases :
              charged' = [charged EXCEPT ![b] =
                           [price |-> PriceBy(r, base), by |-> r]]
  /\ chargePc' = [chargePc EXCEPT ![b] = "priced"]
  /\ UNCHANGED <<rule, rulePc, draft>>

\* The rule must still be there, by its foreign key; a hold has a deposit
\* between nothing and the price.
CanInsert(b) ==
  /\ charged[b].by # NoRule => charged[b].by \in Stored
  /\ b \in PricedHolds => charged[b].price >= 0

InsertPriced(b) ==
  /\ chargePc[b] = "priced"
  /\ IF CanInsert(b)
       THEN chargePc' = [chargePc EXCEPT ![b] = "done"] /\ UNCHANGED charged
       ELSE /\ chargePc' = [chargePc EXCEPT ![b] = "refused"]
            /\ charged' = [charged EXCEPT ![b] = NoCharge]
  /\ UNCHANGED <<rule, rulePc, draft>>

-----------------------------------------------------------------------------
PriceNext ==
  \/ \E c \in RuleCalls : CheckRule(c) \/ InsertRule(c)
  \/ \E r \in Rules : UpdateRule(r) \/ DeleteRule(r)
  \/ \E b \in Priced : ReadPrice(b) \/ InsertPriced(b)

PriceSpec == PriceInit /\ [][PriceNext]_priceVars

-----------------------------------------------------------------------------
(***************************************************************************)
(* Properties                                                              *)
(***************************************************************************)
PriceTypeOK ==
  /\ rule \in [Rules -> RuleRow \union {NoRow}]
  /\ rulePc \in [RuleCalls -> {"idle", "checked", "done"}]
  /\ draft \in [RuleCalls -> RuleRow \union {NoRow}]
  /\ charged \in [Priced -> [price : Int, by : Rules \union {NoRule}]]
  /\ chargePc \in [Priced -> {"idle", "priced", "done", "refused"}]

\* The price of a slot does not depend on the order the rules come back in:
\* a court has one base rule, whichever calls were checked at once, and one
\* rule at most sets the price.
PriceIsDetermined ==
  /\ Cardinality(BaseRules) = 1
  /\ Cardinality(TopRules) <= 1

\* A booking is charged by a rule that exists, or by none, although the rule
\* may have been deleted since it was read; and a hold is never charged less
\* than nothing, although a percentage off is a hundred or more.
ChargesAreSound ==
  \A b \in Priced : chargePc[b] = "done" =>
    /\ charged[b].by \in Stored \union {NoRule}
    /\ b \in PricedHolds => charged[b].price >= 0
=============================================================================
