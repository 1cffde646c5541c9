------------------------------- MODULE Stages -------------------------------
(***************************************************************************)
(* The seven verification stages of the kernel (kernel/src/stages), each a *)
(* function from a context to an outcome, and the runner that turns a      *)
(* thrown error into a finding (pipeline.ts).                              *)
(*                                                                         *)
(* The context (context.ts) is a record; a part the caller could not       *)
(* resolve is Null, and so is a live state that is UNAVAILABLE. A hash of  *)
(* a value is the value, so two hashes agree exactly when what they commit *)
(* to does. A finding keeps its stage, code, severity and, for the policy, *)
(* the rule; a stage's findings are a set.                                 *)
(***************************************************************************)
EXTENDS PolicyEngine

FSM == INSTANCE ReleaseFSM

CONSTANT MaxCartLines  \* MAX_CART_LINES

\* The severities that are not DENY (core/src/reason-codes.ts).
PausingCodes == {"RETRY_VELOCITY_EXCEEDED"}

FindingOf(stage, code) ==
  [stage |-> stage, code |-> code, rule |-> Null,
   severity |-> IF code \in PausingCodes THEN "PAUSE" ELSE "DENY"]

\* The findings of the given stage: of each pair of a condition and a code whose condition holds.
Findings(stage, checks) == {FindingOf(stage, c[2]) : c \in {k \in checks : k[1]}}

Completed(findings) == [status |-> "COMPLETED", findings |-> findings]
Blocked(findings) == [status |-> "SKIPPED_BLOCKED", findings |-> findings]
Errored(stage) == [status |-> "ERRORED", findings |-> {FindingOf(stage, "KERNEL_STAGE_ERROR")}]

Lines(cart) == {cart.lines[i] : i \in DOMAIN cart.lines}
Known(ctx, line) == line.sku \in DOMAIN ctx.live.items
Item(ctx, line) == ctx.live.items[line.sku]

-----------------------------------------------------------------------------

ShapeChecks(cart) ==
  {<<Len(cart.lines) > MaxCartLines, "CART_TOO_LARGE">>,
   <<\E i, j \in DOMAIN cart.lines : i # j /\ cart.lines[i].sku = cart.lines[j].sku,
     "DUPLICATE_LINE_ITEM">>,
   <<~LineCurrenciesAgree(cart) \/ ~AdjustmentCurrenciesAgree(cart), "CART_CURRENCY_INCONSISTENT">>}

SumChecks(cart) ==
  {<<ComputedTotal(cart) # cart.declaredTotal.amountMinor, "CART_ARITHMETIC_MISMATCH">>,
   <<cart.declaredTotal.currency # cart.currency, "CART_CURRENCY_INCONSISTENT">>,
   <<ComputedTotal(cart) < 0, "NEGATIVE_EFFECTIVE_TOTAL">>}

Structural(ctx) ==
  LET cart == ctx.proposal
  IN IF cart.lines = <<>> THEN Completed({FindingOf("STRUCTURAL", "EMPTY_CART")})
     ELSE IF ~LineCurrenciesAgree(cart) \/ ~AdjustmentCurrenciesAgree(cart)
       THEN Completed(Findings("STRUCTURAL", ShapeChecks(cart)))
     ELSE IF ~SumsInRange(cart) THEN Errored("STRUCTURAL")
     ELSE Completed(Findings("STRUCTURAL", ShapeChecks(cart) \cup SumChecks(cart)))

\* Mutant of AuthorityChecks: the window's end is not compared.
AuthorityChecksOpenEnded(ctx) ==
  LET auth == ctx.authorization
  IN {<<auth.state = "REVOKED", "AUTHORIZATION_REVOKED">>,
      <<auth.state = "CONSUMED", "AUTHORIZATION_ALREADY_CONSUMED">>,
      <<auth.user # ctx.principal.user, "USER_MISMATCH">>,
      <<auth.session # ctx.principal.session, "SESSION_MISMATCH">>,
      <<auth.intent # auth.intentHash, "INTENT_HASH_MISMATCH">>}

AuthorityChecks(ctx) ==
  LET auth == ctx.authorization
  IN {<<auth.state = "REVOKED", "AUTHORIZATION_REVOKED">>,
      <<auth.state = "CONSUMED", "AUTHORIZATION_ALREADY_CONSUMED">>,
      <<auth.state = "EXPIRED", "AUTHORIZATION_EXPIRED">>,
      <<ctx.now < auth.intent.notBefore, "AUTHORIZATION_NOT_YET_VALID">>,
      <<ctx.now > auth.intent.notAfter, "AUTHORIZATION_EXPIRED">>,
      <<auth.user # ctx.principal.user, "USER_MISMATCH">>,
      <<auth.session # ctx.principal.session, "SESSION_MISMATCH">>,
      <<auth.intent # auth.intentHash, "INTENT_HASH_MISMATCH">>}

Authority(ctx) ==
  IF ctx.authorization = Null THEN Blocked({FindingOf("AUTHORITY", "AUTHORIZATION_NOT_FOUND")})
  ELSE Completed(Findings("AUTHORITY", AuthorityChecks(ctx)))

\* What a snapshot's hash commits to: everything but who redeemed it.
SnapshotHash(snapshot) ==
  [total |-> snapshot.total, cart |-> CartHash(snapshot.cart), rows |-> snapshot.rows,
   authorization |-> snapshot.authorization, observedAt |-> snapshot.observedAt,
   expiresAt |-> snapshot.expiresAt]

SnapshotChecks(ctx) ==
  LET snapshot == ctx.snapshot
  IN {<<SnapshotHash(snapshot) # snapshot.hash, "SNAPSHOT_HASH_MISMATCH">>,
      <<ComputedTotal(snapshot.cart) # snapshot.total, "SNAPSHOT_TOTALS_INCONSISTENT">>,
      <<ctx.authorization # Null /\ snapshot.authorization # ctx.authorization.id,
        "SNAPSHOT_NOT_BOUND_TO_AUTHORIZATION">>,
      <<snapshot.redeemedBy # Null
          /\ (ctx.release = Null \/ snapshot.redeemedBy # ctx.release.id),
        "SNAPSHOT_ALREADY_REDEEMED">>,
      <<CartHash(ctx.proposal) # CartHash(snapshot.cart), "PROPOSAL_DIVERGES_FROM_SNAPSHOT">>}

Snapshot(ctx) ==
  IF ctx.snapshot = Null THEN Blocked({FindingOf("SNAPSHOT", "SNAPSHOT_NOT_FOUND")})
  ELSE IF ~TotalsComputable(ctx.snapshot.cart) THEN Errored("SNAPSHOT")
  ELSE Completed(Findings("SNAPSHOT", SnapshotChecks(ctx)))

-----------------------------------------------------------------------------

\* The ceilings an intent puts on fees: by type, and "ALL" on their sum.
FeeFor(cart, type) == IF type = "ALL" THEN FeeTotal(cart) ELSE FeeByType(cart, type)

MonetaryChecks(cart, intent) ==
  {<<ComputedTotal(cart) > intent.maxTotal, "INTENT_TOTAL_EXCEEDED">>,
   <<\E t \in DOMAIN intent.fees : FeeFor(cart, t) > intent.fees[t].amountMinor,
     "INTENT_FEE_EXCEEDED">>,
   <<intent.maxUnitPrice # Null
       /\ \E l \in Lines(cart) : l.unitPrice.amountMinor > intent.maxUnitPrice,
     "INTENT_UNIT_PRICE_EXCEEDED">>}

\* checkAgentHonesty: the assertion contradicts the live record.
Misrepresents(line, item) ==
  \/ line.asserted.category # item.category
  \/ \E a \in line.asserted.attributes :
       /\ ValuesOf(item.attributes, a[1]) # {}
       /\ a[2] \notin ValuesOf(item.attributes, a[1])

ItemChecks(line, item, intent) ==
  {<<item.subscriptionOnly /\ intent.recurrence = "ONE_TIME_ONLY", "SUBSCRIPTION_NOT_AUTHORIZED">>,
   <<\/ intent.allowedCategories # {} /\ item.category \notin intent.allowedCategories
     \/ item.category \in intent.forbiddenCategories, "INTENT_CATEGORY_MISMATCH">>,
   <<\E p \in intent.requiredAttributes : ~Satisfies(item.attributes, p),
     "INTENT_ATTRIBUTE_MISSING">>,
   <<\E p \in intent.forbiddenAttributes : Satisfies(item.attributes, p),
     "INTENT_ATTRIBUTE_FORBIDDEN">>,
   <<Misrepresents(line, item), "AGENT_MISREPRESENTED_ITEM">>}

ShipToChecks(cart, intent) ==
  {<<intent.geography # Null /\ (cart.shipTo = Null \/ cart.shipTo \notin intent.geography),
     "SHIP_TO_NOT_AUTHORIZED">>}

\* checkNonMonetary
NonMonetaryChecks(ctx, intent) ==
  LET cart == ctx.proposal
  IN {<<intent.merchants # Null /\ cart.merchant \notin intent.merchants, "MERCHANT_NOT_AUTHORIZED">>,
      <<intent.recurrence = "ONE_TIME_ONLY" /\ cart.recurring, "SUBSCRIPTION_NOT_AUTHORIZED">>,
      <<\E l \in Lines(cart) : l.quantity \notin intent.quantity, "INTENT_QUANTITY_OUT_OF_BAND">>}
     \cup ShipToChecks(cart, intent)
     \cup UNION {ItemChecks(l, Item(ctx, l), intent) : l \in {k \in Lines(cart) : Known(ctx, k)}}

\* A comparison with a ceiling in another currency throws.
CeilingsComparable(cart, intent) ==
  \A t \in DOMAIN intent.fees : intent.fees[t].currency = cart.currency

Intent(ctx) ==
  LET auth == ctx.authorization
      cart == ctx.proposal
  IN IF auth = Null \/ ctx.live = Null THEN Blocked({})
     ELSE IF cart.currency # auth.intent.currency
       THEN Completed({FindingOf("INTENT", "INTENT_CURRENCY_MISMATCH")}
                      \cup Findings("INTENT", NonMonetaryChecks(ctx, auth.intent)))
     ELSE IF ~LineCurrenciesAgree(cart) \/ ~SumsInRange(cart) \/ ~CeilingsComparable(cart, auth.intent)
       THEN Errored("INTENT")
     ELSE Completed(Findings("INTENT",
            MonetaryChecks(cart, auth.intent) \cup NonMonetaryChecks(ctx, auth.intent)))

-----------------------------------------------------------------------------

\* buildSubject: the lines with what the live record says of their items.
Subject(ctx) ==
  [cart |-> ctx.proposal,
   lines |-> [i \in DOMAIN ctx.proposal.lines |->
     LET line == ctx.proposal.lines[i]
     IN [sku |-> line.sku, quantity |-> line.quantity, unitPrice |-> line.unitPrice,
         category |-> IF Known(ctx, line) THEN Item(ctx, line).category ELSE "<unknown>",
         attributes |-> IF Known(ctx, line) THEN Item(ctx, line).attributes ELSE {}]],
   snapshotAge |-> IF ctx.snapshot = Null THEN 0 ELSE Max({0, ctx.now - ctx.snapshot.observedAt})]

Policy(ctx) ==
  IF ctx.policy = Null THEN Blocked({FindingOf("POLICY", "POLICY_NOT_FOUND")})
  ELSE IF ctx.authorization # Null /\ ctx.policy # ctx.authorization.policyHash
    THEN Completed({FindingOf("POLICY", "POLICY_HASH_MISMATCH")})
  ELSE IF ctx.live = Null THEN Blocked({})
  ELSE IF ~TotalsComputable(ctx.proposal) THEN Errored("POLICY")
  ELSE Completed({[stage |-> "POLICY", code |-> v.code, severity |-> v.severity, rule |-> v.rule] :
                    v \in EvaluatePolicy(ctx.policy, Subject(ctx))})

-----------------------------------------------------------------------------

\* checkItem: the live item no longer honours the line.
LiveItemChecks(line, item) ==
  IF item.unitPrice.currency # line.unitPrice.currency
    THEN {<<TRUE, "LIVE_CURRENCY_DIVERGED">>}
    ELSE {<<item.unitPrice.amountMinor # line.unitPrice.amountMinor, "LIVE_PRICE_DIVERGED">>,
          <<~item.available, "LIVE_ITEM_UNAVAILABLE">>,
          <<item.stock < line.quantity, "LIVE_INSUFFICIENT_STOCK">>}

\* sameAttributes: against the first line of the snapshot with the item's sku.
SameAttributes(ctx, sku, item) ==
  LET lines == ctx.snapshot.cart.lines
      same == {i \in DOMAIN lines : lines[i].sku = sku}
  IN same # {} =>
       LET asserted == lines[Min(same)].asserted
       IN asserted.attributes = item.attributes /\ asserted.category = item.category

AttributesDiverged(ctx, line) ==
  LET item == Item(ctx, line)
  IN /\ ctx.snapshot # Null
     /\ line.sku \in DOMAIN ctx.snapshot.rows /\ ctx.snapshot.rows[line.sku] # item
     /\ ~SameAttributes(ctx, line.sku, item)
     /\ item.unitPrice.amountMinor = line.unitPrice.amountMinor

\* checkFees: a Map keyed by type and label keeps the last of equal keys, and its amount alone.
FeeMap(adjustments) ==
  LET Key(i) == <<adjustments[i].type, adjustments[i].label>>
  IN [k \in {Key(i) : i \in DOMAIN adjustments} |->
        adjustments[Max({i \in DOMAIN adjustments : Key(i) = k})].amount.amountMinor]

FeesDiverged(ctx) == FeeMap(ctx.proposal.adjustments) # FeeMap(ctx.live.fees)

LineChecks(ctx, line) ==
  IF ~Known(ctx, line) THEN {<<TRUE, "LIVE_ITEM_NOT_FOUND">>}
  ELSE LiveItemChecks(line, Item(ctx, line))
         \cup {<<AttributesDiverged(ctx, line), "LIVE_ATTRIBUTE_DIVERGED">>}

AgeChecks(ctx) ==
  IF ctx.snapshot = Null THEN {}
  ELSE {<<\/ ctx.now > ctx.snapshot.expiresAt
          \/ /\ ctx.authorization # Null
             /\ ctx.now - ctx.snapshot.observedAt > ctx.authorization.intent.maxSnapshotAge,
          "SNAPSHOT_EXPIRED">>}

FreshnessChecks(ctx) ==
  {<<ctx.live.merchant # ctx.proposal.merchant, "LIVE_MERCHANT_DIVERGED">>,
   <<FeesDiverged(ctx), "LIVE_FEE_DIVERGED">>}
  \cup UNION {LineChecks(ctx, l) : l \in Lines(ctx.proposal)}

Freshness(ctx) ==
  IF ctx.live = Null
    THEN Blocked(Findings("FRESHNESS", {<<TRUE, "LIVE_STATE_UNAVAILABLE">>} \cup AgeChecks(ctx)))
    ELSE Completed(Findings("FRESHNESS", AgeChecks(ctx) \cup FreshnessChecks(ctx)))

-----------------------------------------------------------------------------

Gate == {"ORDER_CREATION", "CAPTURE"}

GateEntryStates ==
  [ORDER_CREATION |-> {"DRAFT", "VERIFYING"},
   CAPTURE |-> {"PAYMENT_AUTHORIZED", "CAPTURE_VERIFYING", "PAUSED"}]

ExecutionChecks(ctx) ==
  LET release == ctx.release
  IN {<<ctx.keyed # Null /\ ctx.keyed # ctx.fingerprint,
        "IDEMPOTENCY_KEY_REUSED_WITH_DIFFERENT_PAYLOAD">>,
      <<release # Null /\ release.state \in FSM!Terminal, "RELEASE_ALREADY_TERMINAL">>,
      <<release # Null /\ release.state \notin FSM!Terminal \cup GateEntryStates[ctx.gate],
        "INVALID_RELEASE_STATE_FOR_GATE">>,
      <<release # Null /\ ctx.snapshot # Null /\ release.amount # ctx.snapshot.total,
        "RELEASE_AMOUNT_DIVERGED">>,
      <<ctx.otherActive, "AUTHORIZATION_HAS_ACTIVE_RELEASE">>,
      <<release # Null /\ release.attempts > ctx.maxAttempts, "RETRY_VELOCITY_EXCEEDED">>}

Execution(ctx) == Completed(Findings("EXECUTION", ExecutionChecks(ctx)))

StageIds == {"STRUCTURAL", "AUTHORITY", "SNAPSHOT", "INTENT", "POLICY", "FRESHNESS", "EXECUTION"}

\* runStages over the PIPELINE
RunStages(ctx) ==
  [STRUCTURAL |-> Structural(ctx), AUTHORITY |-> Authority(ctx), SNAPSHOT |-> Snapshot(ctx),
   INTENT |-> Intent(ctx), POLICY |-> Policy(ctx), FRESHNESS |-> Freshness(ctx),
   EXECUTION |-> Execution(ctx)]

=============================================================================
