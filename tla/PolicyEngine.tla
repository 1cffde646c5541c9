---------------------------- MODULE PolicyEngine ----------------------------
(***************************************************************************)
(* The operator's policy (packages/policy/src): a document of rules, each  *)
(* evaluated against the subject built from the cart and the live items.   *)
(*                                                                         *)
(* A rule is a record with its id, kind, severity and the parameters of    *)
(* its kind. A rule whose kind is not one of RuleCode's does not parse.    *)
(* The messages and details of a violation are left out; the rule it is    *)
(* about is kept.                                                          *)
(***************************************************************************)
EXTENDS Cart

\* The code each kind of rule reports. MAX_FEE has a code of its own for tips.
RuleCode ==
  [MAX_TOTAL |-> "TOTAL_EXCEEDS_LIMIT",
   MAX_UNIT_PRICE |-> "UNIT_PRICE_EXCEEDS_LIMIT",
   MAX_QUANTITY_PER_ITEM |-> "QUANTITY_EXCEEDS_LIMIT",
   MAX_LINE_ITEMS |-> "LINE_ITEM_COUNT_EXCEEDS_LIMIT",
   ALLOWED_CURRENCIES |-> "CURRENCY_NOT_ALLOWED",
   MERCHANT_ALLOWLIST |-> "MERCHANT_NOT_IN_ALLOWLIST",
   MERCHANT_DENYLIST |-> "MERCHANT_IN_DENYLIST",
   MAX_FEE |-> "FEE_EXCEEDS_LIMIT",
   MAX_FEE_RATIO_BPS |-> "FEE_RATIO_EXCEEDS_LIMIT",
   MAX_TOTAL_FEES |-> "FEE_EXCEEDS_LIMIT",
   PROHIBITED_CATEGORIES |-> "CATEGORY_PROHIBITED",
   ALLOWED_CATEGORIES |-> "CATEGORY_NOT_ALLOWED",
   REQUIRE_ATTRIBUTES |-> "ATTRIBUTE_REQUIREMENT_UNMET",
   FORBID_SUBSCRIPTION |-> "SUBSCRIPTION_PROHIBITED",
   MAX_SNAPSHOT_AGE_SECONDS |-> "SNAPSHOT_AGE_EXCEEDS_POLICY"]

CodeOf(rule) ==
  IF rule.kind = "MAX_FEE" /\ rule.type = "TIP" THEN "TIP_EXCEEDS_LIMIT" ELSE RuleCode[rule.kind]

\* PolicyRuleSchema.safeParse succeeds
Parses(rule) == rule.kind \in DOMAIN RuleCode

MoneyRules == {"MAX_TOTAL", "MAX_UNIT_PRICE", "MAX_FEE", "MAX_TOTAL_FEES"}

\* The rules with a numeric limit that is not an amount.
LimitRules == {"MAX_QUANTITY_PER_ITEM", "MAX_LINE_ITEMS", "MAX_FEE_RATIO_BPS", "MAX_SNAPSHOT_AGE_SECONDS"}

\* A money ceiling says nothing of an amount in another currency.
Applicable(rule, subject) == rule.kind \in MoneyRules => rule.max.currency = subject.cart.currency

\* The rule, which parses and applies, is broken by the subject.
Breaks(rule, subject) ==
  LET cart == subject.cart
      SomeLine(Test(_)) == \E i \in DOMAIN subject.lines : Test(subject.lines[i])
  IN CASE rule.kind = "MAX_TOTAL" -> ComputedTotal(cart) > rule.max.amountMinor
       [] rule.kind = "MAX_UNIT_PRICE" ->
            SomeLine(LAMBDA l : l.unitPrice.amountMinor > rule.max.amountMinor)
       [] rule.kind = "MAX_QUANTITY_PER_ITEM" -> SomeLine(LAMBDA l : l.quantity > rule.limit)
       [] rule.kind = "MAX_LINE_ITEMS" -> Len(subject.lines) > rule.limit
       [] rule.kind = "ALLOWED_CURRENCIES" -> cart.currency \notin rule.set
       [] rule.kind = "MERCHANT_ALLOWLIST" -> cart.merchant \notin rule.set
       [] rule.kind = "MERCHANT_DENYLIST" -> cart.merchant \in rule.set
       [] rule.kind = "MAX_FEE" -> FeeByType(cart, rule.type) > rule.max.amountMinor
       [] rule.kind = "MAX_FEE_RATIO_BPS" ->
            FeeByType(cart, rule.type) > BasisPointsOf(ItemSubtotal(cart), rule.limit)
       [] rule.kind = "MAX_TOTAL_FEES" -> FeeTotal(cart) > rule.max.amountMinor
       [] rule.kind = "PROHIBITED_CATEGORIES" -> SomeLine(LAMBDA l : l.category \in rule.set)
       [] rule.kind = "ALLOWED_CATEGORIES" -> SomeLine(LAMBDA l : l.category \notin rule.set)
       [] rule.kind = "REQUIRE_ATTRIBUTES" ->
            SomeLine(LAMBDA l : \E p \in rule.set : ~Satisfies(l.attributes, p))
       [] rule.kind = "FORBID_SUBSCRIPTION" -> cart.recurring
       [] rule.kind = "MAX_SNAPSHOT_AGE_SECONDS" -> subject.snapshotAge > rule.limit

Violation(rule, code, severity) == [code |-> code, severity |-> severity, rule |-> rule.id]

\* Mutant of EvaluateRule: a rule the engine cannot read or apply is skipped.
EvaluateRuleOpen(rule, subject) ==
  IF Parses(rule) /\ Applicable(rule, subject) /\ Breaks(rule, subject)
    THEN {Violation(rule, CodeOf(rule), rule.severity)} ELSE {}

EvaluateRule(rule, subject) ==
  IF ~Parses(rule) THEN {Violation(rule, "POLICY_RULE_UNKNOWN", "DENY")}
  ELSE IF ~Applicable(rule, subject) THEN {Violation(rule, "POLICY_RULE_INAPPLICABLE", "DENY")}
  ELSE IF Breaks(rule, subject) THEN {Violation(rule, CodeOf(rule), rule.severity)}
  ELSE {}

\* evaluatePolicy: the violations, as a set.
EvaluatePolicy(rules, subject) == UNION {EvaluateRule(rules[i], subject) : i \in DOMAIN rules}

=============================================================================
