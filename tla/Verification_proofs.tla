------------------------- MODULE Verification_proofs -------------------------
(***************************************************************************)
(* What a gate's ALLOW means, for any mandates, policies, catalogues, fees *)
(* and requests, and whatever changes between the quote and the gate.      *)
(*                                                                         *)
(* An evaluation reads the world once, so most of a verdict's meaning is   *)
(* that of the seven stages: one lemma for each says what its silence      *)
(* shows. What they do not read again is the quote: WorldInv says that it  *)
(* is still what was priced.                                               *)
(***************************************************************************)
EXTENDS Verification, FiniteSums, SequenceTheorems

\* No value of the world is Null: a context's parts are told from their absence.
NullIsNoData ==
  /\ \A a, b, c : Null # <<a, b, c>>
  /\ \A m, f, i : Null # [merchant |-> m, fees |-> f, items |-> i]
  /\ \A t, c, a, r, o, e, h, b :
       Null # [total |-> t, cart |-> c, authorization |-> a, rows |-> r, observedAt |-> o,
               expiresAt |-> e, hash |-> h, redeemedBy |-> b]

-----------------------------------------------------------------------------
(* From a verdict to the stages *)

\* Every stage completed without a finding that denies, and what pauses was approved.
LEMMA AllowMeansClean ==
  ASSUME NEW outcomes, DOMAIN outcomes = StageIds, NEW approval, NEW fingerprint,
         Combine(outcomes, approval, fingerprint).verdict = "ALLOW", NEW s \in StageIds
  PROVE  /\ outcomes[s].status = "COMPLETED"
         /\ \A f \in outcomes[s].findings :
              /\ f.severity # "DENY"
              /\ f.severity = "PAUSE" => approval # Null /\ f.code \in approval.codes
<1> DEFINE findings == (UNION {outcomes[t].findings : t \in DOMAIN outcomes}) \cup Incomplete(outcomes)
           denied == \E f \in findings : f.severity = "DENY"
           paused == ~denied /\ Pausing(findings) # {}
           approved_ == paused /\ ApprovalCovers(findings, approval, fingerprint)
           allowed == approved_ \/ (~denied /\ ~paused)
<1>1. Combine(outcomes, approval, fingerprint).verdict
        = IF denied THEN "DENY" ELSE IF allowed THEN "ALLOW" ELSE "PAUSE"
  BY Zenon DEF Combine
<1>2. ~denied /\ allowed
  <2> HIDE DEF denied, allowed
  <2> QED BY <1>1
<1>3. outcomes[s].status = "COMPLETED"
  <2>1. FindingOf(s, "STAGE_DID_NOT_COMPLETE").severity = "DENY"
    BY DEF FindingOf, PausingCodes
  <2>2. outcomes[s].status # "COMPLETED" => FindingOf(s, "STAGE_DID_NOT_COMPLETE") \in findings
    <3>1. outcomes[s].status # "COMPLETED" => s \in {t \in StageIds : t \notin DOMAIN outcomes
                                                      \/ outcomes[t].status # "COMPLETED"}
      OBVIOUS
    <3>2. outcomes[s].status # "COMPLETED" => FindingOf(s, "STAGE_DID_NOT_COMPLETE") \in Incomplete(outcomes)
      BY <3>1, Zenon DEF Incomplete
    <3>3. Incomplete(outcomes) \subseteq findings
      BY Zenon
    <3> HIDE DEF findings
    <3> QED BY <3>2, <3>3
  <2> HIDE DEF findings
  <2> QED BY <1>2, <2>1, <2>2
<1>4. \A f \in outcomes[s].findings : f \in findings
  OBVIOUS
<1>5. ASSUME NEW f \in findings, f.severity = "PAUSE"
      PROVE  approval # Null /\ f.code \in approval.codes
  <2>1. f \in Pausing(findings)
    BY <1>5 DEF Pausing
  <2>2. ApprovalCovers(findings, approval, fingerprint)
    <3> HIDE DEF findings
    <3> QED BY <1>2, <2>1
  <2>3. f.code \in Codes(Pausing(findings))
    BY <2>1, Zenon DEF Codes
  <2> HIDE DEF findings
  <2> QED BY <2>2, <2>3 DEF ApprovalCovers
<1> HIDE DEF findings
<1> QED BY <1>2, <1>3, <1>4, <1>5

\* A check whose condition holds is a finding of its stage.
LEMMA Raised ==
  ASSUME NEW stage, NEW checks, NEW code, <<TRUE, code>> \in checks
  PROVE  FindingOf(stage, code) \in Findings(stage, checks)
<1>1. <<TRUE, code>>[1] /\ <<TRUE, code>>[2] = code
  OBVIOUS
<1>2. <<TRUE, code>> \in {k \in checks : k[1]}
  BY <1>1
<1> QED BY <1>1, <1>2 DEF Findings

\* A stage without a denial raised none of its denying checks.
LEMMA Silent ==
  ASSUME NEW stage, NEW checks, \A f \in Findings(stage, checks) : f.severity # "DENY"
  PROVE  \A code : code \notin PausingCodes => <<TRUE, code>> \notin checks
<1>1. \A code : code \notin PausingCodes => FindingOf(stage, code).severity = "DENY"
  BY Zenon DEF FindingOf
<1> QED BY <1>1, Raised

-----------------------------------------------------------------------------
(* What each stage shows by completing without a denial *)

Clean(outcome) == outcome.status = "COMPLETED" /\ \A f \in outcome.findings : f.severity # "DENY"

LEMMA AuthorityShows ==
  ASSUME NEW ctx, Clean(Authority(ctx))
  PROVE  LET mandate == ctx.authorization
         IN /\ mandate # Null
            /\ mandate.state \notin {"REVOKED", "CONSUMED", "EXPIRED"}
            /\ ~(ctx.now < mandate.intent.notBefore) /\ ~(ctx.now > mandate.intent.notAfter)
            /\ mandate.user = ctx.principal.user /\ mandate.session = ctx.principal.session
            /\ mandate.intent = mandate.intentHash
<1>1. ctx.authorization # Null
  BY DEF Authority, Blocked, Clean
<1>2. Authority(ctx).findings = Findings("AUTHORITY", AuthorityChecks(ctx))
  BY <1>1 DEF Authority, Completed
<1>3. \A code : code \notin PausingCodes => <<TRUE, code>> \notin AuthorityChecks(ctx)
  BY <1>2, Silent DEF Clean
<1> QED BY <1>1, <1>3 DEF AuthorityChecks, PausingCodes

LEMMA SnapshotShows ==
  ASSUME NEW ctx, Clean(Snapshot(ctx))
  PROVE  /\ ctx.snapshot # Null
         /\ TotalsComputable(ctx.snapshot.cart)
         /\ ctx.snapshot.total = ComputedTotal(ctx.snapshot.cart)
         /\ ctx.snapshot.redeemedBy # Null =>
              ctx.release # Null /\ ctx.snapshot.redeemedBy = ctx.release.id
<1>1. ctx.snapshot # Null /\ TotalsComputable(ctx.snapshot.cart)
  BY DEF Snapshot, Blocked, Errored, Clean
<1>2. Snapshot(ctx).findings = Findings("SNAPSHOT", SnapshotChecks(ctx))
  BY <1>1 DEF Snapshot, Completed
<1>3. \A code : code \notin PausingCodes => <<TRUE, code>> \notin SnapshotChecks(ctx)
  BY <1>2, Silent DEF Clean
<1>4. ComputedTotal(ctx.snapshot.cart) = ctx.snapshot.total
  BY <1>3 DEF SnapshotChecks, PausingCodes
<1>5. ctx.snapshot.redeemedBy # Null => ctx.release # Null /\ ctx.snapshot.redeemedBy = ctx.release.id
  <2> DEFINE other == ctx.snapshot.redeemedBy # Null
                        /\ (ctx.release = Null \/ ctx.snapshot.redeemedBy # ctx.release.id)
  <2>1. <<other, "SNAPSHOT_ALREADY_REDEEMED">> \in SnapshotChecks(ctx)
    BY DEF SnapshotChecks
  <2>2. other \in BOOLEAN
    OBVIOUS
  <2>3. other # TRUE
    <3> HIDE DEF other
    <3> QED BY <1>3, <2>1 DEF PausingCodes
  <2> QED BY <2>2, <2>3
<1> QED BY <1>1, <1>4, <1>5

LEMMA ExecutionShows ==
  ASSUME NEW ctx, Clean(Execution(ctx))
  PROVE  /\ ctx.keyed # Null => ctx.keyed = ctx.fingerprint
         /\ ctx.release # Null /\ ctx.snapshot # Null => ctx.release.amount = ctx.snapshot.total
         /\ ctx.otherActive # TRUE
<1>1. Execution(ctx).findings = Findings("EXECUTION", ExecutionChecks(ctx))
  BY DEF Execution, Completed
<1>2. \A code : code \notin PausingCodes => <<TRUE, code>> \notin ExecutionChecks(ctx)
  BY <1>1, Silent DEF Clean
<1>3. ctx.otherActive # TRUE
  <2>1. <<ctx.otherActive, "AUTHORIZATION_HAS_ACTIVE_RELEASE">> \in ExecutionChecks(ctx)
    BY DEF ExecutionChecks
  <2> QED BY <1>2, <2>1 DEF PausingCodes
<1>4. ctx.keyed # Null => ctx.keyed = ctx.fingerprint
  BY <1>2 DEF ExecutionChecks, PausingCodes
<1>5. ctx.release # Null /\ ctx.snapshot # Null => ctx.release.amount = ctx.snapshot.total
  <2> DEFINE other == ctx.release # Null /\ ctx.snapshot # Null
                        /\ ctx.release.amount # ctx.snapshot.total
  <2>1. <<other, "RELEASE_AMOUNT_DIVERGED">> \in ExecutionChecks(ctx)
    BY DEF ExecutionChecks
  <2>2. other # TRUE
    <3> HIDE DEF other
    <3> QED BY <1>2, <2>1 DEF PausingCodes
  <2> QED BY <2>2
<1> QED BY <1>3, <1>4, <1>5

LEMMA StructuralShows ==
  ASSUME NEW ctx, Clean(Structural(ctx))
  PROVE  LET cart == ctx.proposal
         IN /\ cart.lines # <<>>
            /\ LineCurrenciesAgree(cart) /\ AdjustmentCurrenciesAgree(cart) /\ SumsInRange(cart)
            /\ \A i, j \in DOMAIN cart.lines : cart.lines[i].sku = cart.lines[j].sku => i = j
            /\ ~(ComputedTotal(cart) < 0)
<1> DEFINE cart == ctx.proposal
           shape == ShapeChecks(cart)
           sums == SumChecks(cart)
<1>1. cart.lines # <<>>
  <2> SUFFICES ASSUME cart.lines = <<>> PROVE FALSE
    OBVIOUS
  <2>1. FindingOf("STRUCTURAL", "EMPTY_CART") \in Structural(ctx).findings
    BY DEF Structural, Completed
  <2>2. FindingOf("STRUCTURAL", "EMPTY_CART").severity = "DENY"
    BY DEF FindingOf, PausingCodes
  <2> QED BY <2>1, <2>2 DEF Clean
<1>2. LineCurrenciesAgree(cart) /\ AdjustmentCurrenciesAgree(cart)
  <2> SUFFICES ASSUME ~LineCurrenciesAgree(cart) \/ ~AdjustmentCurrenciesAgree(cart) PROVE FALSE
    OBVIOUS
  <2>1. Structural(ctx).findings = Findings("STRUCTURAL", shape)
    BY <1>1 DEF Structural, Completed
  <2>2. \A code : code \notin PausingCodes => <<TRUE, code>> \notin shape
    <3> HIDE DEF shape
    <3> QED BY <2>1, Silent DEF Clean
  <2> QED BY <2>2 DEF ShapeChecks, PausingCodes
<1>3. SumsInRange(cart) /\ Structural(ctx).findings = Findings("STRUCTURAL", shape \cup sums)
  BY <1>1, <1>2 DEF Structural, Completed, Errored, Clean
<1>4. \A code : code \notin PausingCodes => <<TRUE, code>> \notin shape /\ <<TRUE, code>> \notin sums
  <2>1. \A code : code \notin PausingCodes => <<TRUE, code>> \notin shape \cup sums
    <3> HIDE DEF shape, sums
    <3> QED BY <1>3, Silent DEF Clean
  <2> HIDE DEF shape, sums
  <2> QED BY <2>1
<1>5. \A i, j \in DOMAIN cart.lines : cart.lines[i].sku = cart.lines[j].sku => i = j
  <2> DEFINE twice == \E i, j \in DOMAIN cart.lines : i # j /\ cart.lines[i].sku = cart.lines[j].sku
  <2>1. <<twice, "DUPLICATE_LINE_ITEM">> \in shape /\ twice \in BOOLEAN
    BY DEF ShapeChecks
  <2>2. ~twice
    <3> HIDE DEF twice, shape
    <3> QED BY <1>4, <2>1 DEF PausingCodes
  <2> QED BY <2>2
<1>6. ~(ComputedTotal(cart) < 0)
  BY <1>4 DEF SumChecks, PausingCodes
<1> QED BY <1>1, <1>2, <1>3, <1>5, <1>6

LEMMA FreshnessShows ==
  ASSUME NEW ctx, Clean(Freshness(ctx))
  PROVE  /\ ctx.live # Null
         /\ ctx.live.merchant = ctx.proposal.merchant
         /\ \A line \in Lines(ctx.proposal) :
              LET item == Item(ctx, line)
              IN /\ Known(ctx, line)
                 /\ item.unitPrice.currency = line.unitPrice.currency
                 /\ item.unitPrice.amountMinor = line.unitPrice.amountMinor
                 /\ item.available = TRUE
                 /\ ~(item.stock < line.quantity)
                 /\ ~AttributesDiverged(ctx, line)
<1>1. ctx.live # Null
  BY DEF Freshness, Blocked, Clean
<1> DEFINE checks == AgeChecks(ctx) \cup FreshnessChecks(ctx)
<1>2. Freshness(ctx).findings = Findings("FRESHNESS", checks)
  BY <1>1, Zenon DEF Freshness, Completed
<1>3. \A code : code \notin PausingCodes => <<TRUE, code>> \notin FreshnessChecks(ctx)
  <2>1. \A code : code \notin PausingCodes => <<TRUE, code>> \notin checks
    <3> HIDE DEF checks
    <3> QED BY <1>2, Silent DEF Clean
  <2> QED BY <2>1
<1>4. ctx.live.merchant = ctx.proposal.merchant
  BY <1>3 DEF FreshnessChecks, PausingCodes
<1>5. ASSUME NEW line \in Lines(ctx.proposal)
      PROVE  \A code : code \notin PausingCodes => <<TRUE, code>> \notin LineChecks(ctx, line)
  <2>1. LineChecks(ctx, line) \subseteq FreshnessChecks(ctx)
    BY DEF FreshnessChecks
  <2> QED BY <1>3, <2>1
<1>6. ASSUME NEW line \in Lines(ctx.proposal) PROVE Known(ctx, line)
  BY <1>5, <1>6 DEF LineChecks, PausingCodes
<1>7. ASSUME NEW line \in Lines(ctx.proposal)
      PROVE  LET item == Item(ctx, line)
             IN /\ item.unitPrice.currency = line.unitPrice.currency
                /\ item.unitPrice.amountMinor = line.unitPrice.amountMinor
                /\ item.available = TRUE
                /\ ~(item.stock < line.quantity)
                /\ ~AttributesDiverged(ctx, line)
  <2> DEFINE item == Item(ctx, line)
  <2>1. \A code : code \notin PausingCodes =>
           /\ <<TRUE, code>> \notin LiveItemChecks(line, item)
           /\ <<TRUE, code>> # <<AttributesDiverged(ctx, line), "LIVE_ATTRIBUTE_DIVERGED">>
    BY <1>5, <1>6 DEF LineChecks
  <2>2. ~AttributesDiverged(ctx, line)
    <3>1. AttributesDiverged(ctx, line) \in BOOLEAN
      BY DEF AttributesDiverged
    <3> QED BY <2>1, <3>1 DEF PausingCodes
  <2>3. item.unitPrice.currency = line.unitPrice.currency
    BY <2>1 DEF LiveItemChecks, PausingCodes
  <2>4. \A code : code \notin PausingCodes => <<TRUE, code>> \notin
            {<<item.unitPrice.amountMinor # line.unitPrice.amountMinor, "LIVE_PRICE_DIVERGED">>,
             <<~item.available, "LIVE_ITEM_UNAVAILABLE">>,
             <<item.stock < line.quantity, "LIVE_INSUFFICIENT_STOCK">>}
    BY <2>1, <2>3 DEF LiveItemChecks
  <2> HIDE DEF item
  <2>5. item.unitPrice.amountMinor = line.unitPrice.amountMinor
    BY <2>4 DEF PausingCodes
  <2>6. item.available
    BY <2>4 DEF PausingCodes
  <2>7. ~(item.stock < line.quantity)
    BY <2>4 DEF PausingCodes
  <2> QED BY <2>2, <2>3, <2>5, <2>6, <2>7 DEF item
<1> QED BY <1>1, <1>4, <1>6, <1>7

LEMMA IntentShows ==
  ASSUME NEW ctx, Clean(Intent(ctx))
  PROVE  LET intent == ctx.authorization.intent
             cart == ctx.proposal
         IN /\ ctx.live # Null /\ SumsInRange(cart)
            /\ ~(ComputedTotal(cart) > intent.maxTotal)
            /\ \A t \in DOMAIN intent.fees : ~(FeeFor(cart, t) > intent.fees[t].amountMinor)
            /\ intent.recurrence = "ONE_TIME_ONLY" => cart.recurring # TRUE
            /\ \A line \in Lines(cart) :
                 /\ line.quantity \in intent.quantity
                 /\ Known(ctx, line) =>
                      /\ Item(ctx, line).category \notin intent.forbiddenCategories
                      /\ \A q \in intent.requiredAttributes : Satisfies(Item(ctx, line).attributes, q)
<1> DEFINE intent == ctx.authorization.intent
           cart == ctx.proposal
           monetary == MonetaryChecks(cart, intent)
           other == NonMonetaryChecks(ctx, intent)
<1>1. ctx.authorization # Null /\ ctx.live # Null
  BY DEF Intent, Blocked, Clean
<1>2. cart.currency = intent.currency
  <2> SUFFICES ASSUME cart.currency # intent.currency PROVE FALSE
    OBVIOUS
  <2>1. FindingOf("INTENT", "INTENT_CURRENCY_MISMATCH") \in Intent(ctx).findings
    BY <1>1 DEF Intent, Completed
  <2>2. FindingOf("INTENT", "INTENT_CURRENCY_MISMATCH").severity = "DENY"
    BY DEF FindingOf, PausingCodes
  <2> QED BY <2>1, <2>2 DEF Clean
<1>3. SumsInRange(cart) /\ Intent(ctx).findings = Findings("INTENT", monetary \cup other)
  BY <1>1, <1>2, Zenon DEF Intent, Completed, Errored, Clean
<1>4. \A code : code \notin PausingCodes => <<TRUE, code>> \notin monetary /\ <<TRUE, code>> \notin other
  <2>1. \A code : code \notin PausingCodes => <<TRUE, code>> \notin monetary \cup other
    <3> HIDE DEF monetary, other
    <3> QED BY <1>3, Silent DEF Clean
  <2> HIDE DEF monetary, other
  <2> QED BY <2>1
<1>5. ~(ComputedTotal(cart) > intent.maxTotal)
  BY <1>4 DEF MonetaryChecks, PausingCodes
<1>6. \A t \in DOMAIN intent.fees : ~(FeeFor(cart, t) > intent.fees[t].amountMinor)
  <2> DEFINE over == \E t \in DOMAIN intent.fees : FeeFor(cart, t) > intent.fees[t].amountMinor
  <2>1. <<over, "INTENT_FEE_EXCEEDED">> \in monetary /\ over \in BOOLEAN
    BY DEF MonetaryChecks
  <2>2. ~over
    <3> HIDE DEF over, monetary
    <3> QED BY <1>4, <2>1 DEF PausingCodes
  <2> QED BY <2>2
<1>7. intent.recurrence = "ONE_TIME_ONLY" => cart.recurring # TRUE
  <2> DEFINE again == intent.recurrence = "ONE_TIME_ONLY" /\ cart.recurring
  <2>1. <<again, "SUBSCRIPTION_NOT_AUTHORIZED">> \in other
    BY DEF NonMonetaryChecks
  <2>2. again # TRUE
    <3> HIDE DEF again, other
    <3> QED BY <1>4, <2>1 DEF PausingCodes
  <2> QED BY <2>2
<1>8. \A line \in Lines(cart) : line.quantity \in intent.quantity
  <2> DEFINE outside == \E l \in Lines(cart) : l.quantity \notin intent.quantity
  <2>1. <<outside, "INTENT_QUANTITY_OUT_OF_BAND">> \in other /\ outside \in BOOLEAN
    BY DEF NonMonetaryChecks
  <2>2. ~outside
    <3> HIDE DEF outside, other
    <3> QED BY <1>4, <2>1 DEF PausingCodes
  <2> QED BY <2>2
<1>9. ASSUME NEW line \in Lines(cart), Known(ctx, line)
      PROVE  /\ Item(ctx, line).category \notin intent.forbiddenCategories
             /\ \A q \in intent.requiredAttributes : Satisfies(Item(ctx, line).attributes, q)
  <2> DEFINE checks == ItemChecks(line, Item(ctx, line), intent)
             wrong == \/ /\ intent.allowedCategories # {}
                         /\ Item(ctx, line).category \notin intent.allowedCategories
                      \/ Item(ctx, line).category \in intent.forbiddenCategories
             missing == \E p \in intent.requiredAttributes : ~Satisfies(Item(ctx, line).attributes, p)
  <2>1. checks \subseteq other
    BY <1>9 DEF NonMonetaryChecks
  <2>2. /\ <<wrong, "INTENT_CATEGORY_MISMATCH">> \in checks /\ wrong \in BOOLEAN
        /\ <<missing, "INTENT_ATTRIBUTE_MISSING">> \in checks /\ missing \in BOOLEAN
    BY DEF ItemChecks
  <2>3. ~wrong /\ ~missing
    <3> HIDE DEF wrong, missing, checks, other
    <3> QED BY <1>4, <2>1, <2>2 DEF PausingCodes
  <2> QED BY <2>3
<1> QED BY <1>1, <1>3, <1>5, <1>6, <1>7, <1>8, <1>9

LEMMA PolicyShows ==
  ASSUME NEW ctx, Clean(Policy(ctx))
  PROVE  /\ ctx.policy # Null /\ ctx.live # Null
         /\ ctx.authorization # Null => ctx.policy = ctx.authorization.policyHash
         /\ \A i \in DOMAIN ctx.policy : \A v \in EvaluateRule(ctx.policy[i], Subject(ctx)) :
              /\ v.severity # "DENY"
              /\ \E f \in Policy(ctx).findings : f.code = v.code /\ f.severity = v.severity
<1>1. ctx.policy # Null
  BY DEF Policy, Blocked, Clean
<1>2. ctx.authorization # Null => ctx.policy = ctx.authorization.policyHash
  <2> SUFFICES ASSUME ctx.authorization # Null, ctx.policy # ctx.authorization.policyHash PROVE FALSE
    OBVIOUS
  <2>1. FindingOf("POLICY", "POLICY_HASH_MISMATCH") \in Policy(ctx).findings
    BY <1>1 DEF Policy, Completed
  <2>2. FindingOf("POLICY", "POLICY_HASH_MISMATCH").severity = "DENY"
    BY DEF FindingOf, PausingCodes
  <2> QED BY <2>1, <2>2 DEF Clean
<1>3. ctx.live # Null
  BY <1>1, <1>2 DEF Policy, Blocked, Clean
<1> DEFINE violations == EvaluatePolicy(ctx.policy, Subject(ctx))
<1>4. Policy(ctx).findings = {[stage |-> "POLICY", code |-> v.code, severity |-> v.severity, rule |-> v.rule] :
                                v \in violations}
  BY <1>1, <1>2, <1>3, Zenon DEF Policy, Completed, Errored, Clean
<1>5. ASSUME NEW i \in DOMAIN ctx.policy, NEW v \in EvaluateRule(ctx.policy[i], Subject(ctx))
      PROVE  /\ v.severity # "DENY"
             /\ \E f \in Policy(ctx).findings : f.code = v.code /\ f.severity = v.severity
  <2> DEFINE f == [stage |-> "POLICY", code |-> v.code, severity |-> v.severity, rule |-> v.rule]
  <2>1. v \in violations
    BY DEF EvaluatePolicy
  <2>2. f \in Policy(ctx).findings
    <3> HIDE DEF violations
    <3> QED BY <1>4, <2>1
  <2>3. f.code = v.code /\ f.severity = v.severity
    OBVIOUS
  <2> HIDE DEF f
  <2> QED BY <2>2, <2>3 DEF Clean
<1> QED BY <1>1, <1>2, <1>3, <1>5

-----------------------------------------------------------------------------
(* What the world keeps between the quote and a gate *)

\* A quote is still what was priced: its lines name rows it was read from, and assert what they said.
QuoteKept(quote) ==
  /\ quote = [total |-> quote.total, cart |-> quote.cart, authorization |-> quote.authorization,
              rows |-> quote.rows, observedAt |-> quote.observedAt, expiresAt |-> quote.expiresAt,
              hash |-> quote.hash, redeemedBy |-> quote.redeemedBy]
  /\ quote.observedAt \in Nat
  /\ quote.rows = [s \in DOMAIN quote.rows |-> quote.rows[s]]
  /\ FeesAdmitted(quote.cart.adjustments)
  /\ LinesAdmitted(quote.cart.lines)
  /\ \A i \in DOMAIN quote.cart.lines :
       LET line == quote.cart.lines[i]
           row == quote.rows[line.sku]
       IN /\ line.unitPrice = Money(line.unitPrice.currency, line.unitPrice.amountMinor)
          /\ line.unitPrice.amountMinor \in Int
          /\ line.asserted.category = row.category /\ line.asserted.attributes = row.attributes
          /\ line.sku \in DOMAIN quote.rows

AuthKept ==
  /\ auth = [id |-> auth.id, user |-> Owner.user, session |-> Owner.session, state |-> auth.state,
             intent |-> auth.intent, intentHash |-> auth.intentHash, policyHash |-> auth.policyHash]
  /\ auth.state \in {"ACTIVE", "REVOKED", "CONSUMED"}
  /\ \E m \in Mandates : auth.intentHash = m.intent /\ auth.policyHash = m.rules

MerchantKept ==
  /\ merchant = [up |-> merchant.up, id |-> merchant.id, items |-> merchant.items, fees |-> merchant.fees]
  /\ merchant.up \in BOOLEAN
  /\ \A s \in DOMAIN merchant.items : ItemAdmitted(merchant.items[s])
  /\ FeesAdmitted(merchant.fees)

RowKept == release = [id |-> release.id, state |-> release.state, attempts |-> release.attempts,
                      amount |-> release.amount]

WorldInv == /\ now \in Nat
            /\ advice \in Judgement \cup {Null}
            /\ release # Null \/ review # Null => RowKept
            /\ AuthKept
            /\ MerchantKept
            /\ interloper \in Interlopers
            /\ snapshot # Null \/ release # Null \/ review # Null => QuoteKept(snapshot)

LEMMA WorldStart == WorldInit => WorldInv
<1> SUFFICES ASSUME WorldInit PROVE WorldInv
  OBVIOUS
<1>1. AuthKept
  <2>1. PICK m \in Mandates : auth = Authorize(m.intent, m.rules)
    BY DEF WorldInit
  <2> QED BY <2>1 DEF AuthKept, Authorize
<1>2. MerchantKept
  <2>1. PICK fees \in FeeQuotes : merchant = [up |-> TRUE, id |-> "shop", items |-> Catalogue, fees |-> fees]
    BY DEF WorldInit
  <2> QED BY <2>1, WorldAssumption DEF MerchantKept
<1> QED BY <1>1, <1>2, WorldAssumption DEF WorldInit, WorldInv, Interlopers

\* A function on 1 .. n has length n.
LEMMA LengthOf ==
  ASSUME NEW n \in Nat, NEW f, f = [i \in 1 .. n |-> f[i]]
  PROVE  Len(f) = n
<1> DEFINE S == {f[i] : i \in 1 .. n}
<1>1. \A i \in 1 .. n : f[i] \in S
  OBVIOUS
<1> HIDE DEF S
<1>2. f \in [1 .. n -> S]
  BY <1>1
<1>3. f \in Seq(S)
  BY <1>2, SeqDef
<1>4. Len(f) \in Nat /\ DOMAIN f = 1 .. Len(f)
  BY <1>3, LenProperties
<1> QED BY <1>2, <1>4

\* The quote as it is issued.
LEMMA QuoteIsKept ==
  ASSUME WorldInv, NEW r \in Requests, Quote(r)
  PROVE  QuoteKept(snapshot')
<1> DEFINE cart == QuotedCart(r)
           unsealed == [total |-> ComputedTotal(cart), cart |-> cart, authorization |-> auth.id,
                      rows |-> [s \in Skus(r.lines) |-> merchant.items[s]],
                      observedAt |-> now,
                      expiresAt |-> now + Min({SnapshotTtl, auth.intent.maxSnapshotAge})]
<1>1. snapshot' = Sealed(unsealed)
  BY Zenon DEF Quote
<1>2. /\ cart.adjustments = merchant.fees
      /\ cart.lines = [i \in DOMAIN r.lines |->
                 LET item == merchant.items[r.lines[i].sku]
                 IN [sku |-> r.lines[i].sku, quantity |-> r.lines[i].quantity,
                     unitPrice |-> item.unitPrice,
                     asserted |-> [category |-> item.category, attributes |-> item.attributes]]]
  BY DEF QuotedCart
<1>3. LinesAdmitted(r.lines)
  BY WorldAssumption
<1>4. \A i \in DOMAIN r.lines : r.lines[i].sku \in Skus(r.lines) /\ r.lines[i].sku \in DOMAIN merchant.items
  BY DEF Quote, Skus
<1> HIDE DEF cart
<1>5. LinesAdmitted(cart.lines)
  <2>1. DOMAIN cart.lines = 1 .. Len(r.lines) /\ Len(r.lines) \in Nat
    BY <1>2, <1>3 DEF LinesAdmitted
  <2>2. cart.lines = [i \in 1 .. Len(r.lines) |-> cart.lines[i]]
    BY <1>2, <2>1
  <2>3. Len(cart.lines) = Len(r.lines)
    BY <2>1, <2>2, LengthOf
  <2>4. ASSUME NEW i \in DOMAIN cart.lines PROVE cart.lines[i].quantity = r.lines[i].quantity
    <3> DEFINE item == merchant.items[r.lines[i].sku]
               price == item.unitPrice
               said == [category |-> item.category, attributes |-> item.attributes]
    <3>1. cart.lines[i] = [sku |-> r.lines[i].sku, quantity |-> r.lines[i].quantity,
                           unitPrice |-> price, asserted |-> said]
      BY <1>2, <1>3, <2>1 DEF LinesAdmitted
    <3> HIDE DEF price, said
    <3> QED BY <3>1
  <2>5. \A i \in DOMAIN cart.lines : cart.lines[i].quantity \in Nat
    BY <1>2, <1>3, <2>4 DEF LinesAdmitted
  <2> QED BY <2>1, <2>3, <2>5 DEF LinesAdmitted
<1>6. FeesAdmitted(cart.adjustments)
  BY <1>2 DEF WorldInv, MerchantKept
<1>7. /\ snapshot'.cart = cart /\ snapshot'.observedAt = now
      /\ snapshot'.rows = [s \in Skus(r.lines) |-> merchant.items[s]]
  BY <1>1 DEF Sealed
<1>8. ASSUME NEW i \in DOMAIN cart.lines
      PROVE  LET line == cart.lines[i]
                 row == snapshot'.rows[line.sku]
             IN /\ line.unitPrice = Money(line.unitPrice.currency, line.unitPrice.amountMinor)
                /\ line.unitPrice.amountMinor \in Int
                /\ line.asserted.category = row.category /\ line.asserted.attributes = row.attributes
                /\ line.sku \in DOMAIN snapshot'.rows
  <2> DEFINE item == merchant.items[r.lines[i].sku]
  <2>1. /\ i \in DOMAIN r.lines
        /\ cart.lines[i].sku = r.lines[i].sku /\ cart.lines[i].unitPrice = item.unitPrice
        /\ cart.lines[i].asserted.category = item.category
        /\ cart.lines[i].asserted.attributes = item.attributes
    <3>1. DOMAIN cart.lines = DOMAIN r.lines
      BY <1>2
    <3>2. cart.lines[i] = [sku |-> r.lines[i].sku, quantity |-> r.lines[i].quantity,
                           unitPrice |-> item.unitPrice,
                           asserted |-> [category |-> item.category, attributes |-> item.attributes]]
      BY <1>2, <1>8, <3>1
    <3> HIDE DEF item
    <3> QED BY <1>8, <3>1, <3>2
  <2>2. ItemAdmitted(item)
    BY <1>4, <2>1 DEF WorldInv, MerchantKept
  <2>3. r.lines[i].sku \in DOMAIN snapshot'.rows /\ snapshot'.rows[r.lines[i].sku] = item
    BY <1>4, <1>7, <2>1
  <2> HIDE DEF item
  <2> QED BY <2>1, <2>2, <2>3 DEF ItemAdmitted
<1>9. snapshot' = [total |-> snapshot'.total, cart |-> snapshot'.cart,
                   authorization |-> snapshot'.authorization,
              rows |-> snapshot'.rows, observedAt |-> snapshot'.observedAt, expiresAt |-> snapshot'.expiresAt,
              hash |-> snapshot'.hash, redeemedBy |-> snapshot'.redeemedBy]
  BY <1>1, Zenon DEF Sealed
<1> QED BY <1>5, <1>6, <1>7, <1>8, <1>9 DEF QuoteKept, WorldInv

\* Neither a redemption nor an edited total touches what was priced.
LEMMA EditsAreKept ==
  ASSUME NEW quote, QuoteKept(quote), NEW v
  PROVE  /\ QuoteKept([quote EXCEPT !.redeemedBy = v])
         /\ QuoteKept([quote EXCEPT !.total = v])
<1>1. ASSUME NEW edited,
             edited = [quote EXCEPT !.redeemedBy = v] \/ edited = [quote EXCEPT !.total = v]
      PROVE  QuoteKept(edited)
  <2>1. /\ edited.cart = quote.cart /\ edited.rows = quote.rows
        /\ edited.observedAt = quote.observedAt
    BY <1>1 DEF QuoteKept
  <2>2. edited = [total |-> edited.total, cart |-> edited.cart, authorization |-> edited.authorization,
                  rows |-> edited.rows, observedAt |-> edited.observedAt, expiresAt |-> edited.expiresAt,
                  hash |-> edited.hash, redeemedBy |-> edited.redeemedBy]
    BY <1>1 DEF QuoteKept
  <2> QED BY <2>1, <2>2 DEF QuoteKept
<1> QED BY <1>1

\* A row keeps its fields, and a review is of a row.
LEMMA RowIsKept ==
  ASSUME WorldInv, [WorldNext]_worldVars
  PROVE  (release' # Null \/ review' # Null => RowKept') /\ advice' \in Judgement \cup {Null}
<1>1. advice' \in Judgement \cup {Null}
  BY Zenon DEF WorldInv, worldVars, WorldNext, Quote, RequestRelease, Proceed, StartCapture, JudgeCapture,
     Approve, Tick, MerchantChanges, MandateChanges, OtherRequest, Drift
<1>2. CASE RequestRelease
  <2>1. CASE release = Null
    BY <1>1, <1>2, <2>1 DEF RequestRelease, DraftOf, RowKept
  <2>2. CASE release # Null
    BY <1>1, <1>2, <2>2 DEF RequestRelease, Conclude, WorldInv, RowKept
  <2> QED BY <2>1, <2>2
<1>3. CASE Proceed \/ StartCapture \/ JudgeCapture \/ Approve
  <2>1. RowKept
    BY <1>3 DEF Proceed, StartCapture, JudgeCapture, Approve, WorldInv
  <2> QED BY <1>1, <1>3, <2>1 DEF Proceed, StartCapture, JudgeCapture, Conclude, Approve, RowKept
<1>4. CASE UNCHANGED <<release, review>>
  BY <1>1, <1>4 DEF WorldInv, RowKept
<1> QED BY <1>1, <1>2, <1>3, <1>4, Zenon DEF WorldNext, worldVars, Quote, Tick, MerchantChanges,
     MandateChanges, OtherRequest, Drift

LEMMA WorldStep == WorldInv /\ [WorldNext]_worldVars => WorldInv'
<1> SUFFICES ASSUME WorldInv, [WorldNext]_worldVars PROVE WorldInv'
  OBVIOUS
<1> DEFINE rowInv == /\ release # Null \/ review # Null => RowKept
                     /\ advice \in Judgement \cup {Null}
<1>0. rowInv'
  BY RowIsKept
<1> HIDE DEF rowInv
<1>1. ASSUME NEW r \in Requests, Quote(r) PROVE WorldInv'
  <2>1. QuoteKept(snapshot')
    BY <1>1, QuoteIsKept
  <2> QED BY <1>0, <1>1, <2>1 DEF Quote, rowInv, WorldInv, AuthKept, MerchantKept
<1>2. CASE RequestRelease \/ StartCapture \/ JudgeCapture \/ Approve
  <2>1. UNCHANGED <<now, auth, merchant, snapshot, interloper>>
    BY <1>2 DEF RequestRelease, StartCapture, JudgeCapture, Approve
  <2>2. snapshot # Null \/ release # Null \/ review # Null
    BY <1>2 DEF RequestRelease, StartCapture, JudgeCapture, Approve
  <2>3. QuoteKept(snapshot)
    BY <2>2 DEF WorldInv
  <2> QED BY <1>0, <2>1, <2>3 DEF rowInv, WorldInv, AuthKept, MerchantKept
<1>3. CASE Proceed
  <2>1. QuoteKept(snapshot) /\ snapshot' = [snapshot EXCEPT !.redeemedBy = release.id]
    BY <1>3 DEF Proceed, WorldInv
  <2>2. QuoteKept(snapshot')
    BY <2>1, EditsAreKept
  <2> QED BY <1>0, <1>3, <2>2 DEF Proceed, rowInv, WorldInv, AuthKept, MerchantKept
<1>4. CASE Tick
  BY <1>0, <1>4 DEF Tick, rowInv, WorldInv, AuthKept, MerchantKept
<1>5. CASE MerchantChanges
  <2>1. MerchantKept'
    <3> USE DEF WorldInv, MerchantKept
    <3>1. ASSUME NEW s \in Quoted, NEW i \in ItemStates, merchant' = [merchant EXCEPT !.items[s] = i]
          PROVE  MerchantKept'
      <4>1. /\ merchant' = [up |-> merchant.up, id |-> merchant.id, fees |-> merchant.fees,
                            items |-> [merchant.items EXCEPT ![s] = i]]
        BY <3>1
      <4>2. ItemAdmitted(i)
        BY WorldAssumption
      <4> QED BY <4>1, <4>2
    <3>2. ASSUME NEW s \in Quoted,
                 merchant' = [merchant EXCEPT !.items = [t \in DOMAIN @ \ {s} |-> @[t]]]
          PROVE  MerchantKept'
      <4>1. /\ merchant' = [up |-> merchant.up, id |-> merchant.id, fees |-> merchant.fees,
                            items |-> [t \in DOMAIN merchant.items \ {s} |-> merchant.items[t]]]
        BY <3>2
      <4> QED BY <4>1
    <3>3. ASSUME NEW fees \in FeeQuotes, merchant' = [merchant EXCEPT !.fees = fees]
          PROVE  MerchantKept'
      <4>1. merchant' = [up |-> merchant.up, id |-> merchant.id, fees |-> fees, items |-> merchant.items]
        BY <3>3
      <4> QED BY <4>1, WorldAssumption
    <3>4. ASSUME merchant' = [merchant EXCEPT !.up = ~@]
          PROVE  MerchantKept'
      <4>1. merchant' = [up |-> ~merchant.up, id |-> merchant.id, fees |-> merchant.fees,
                         items |-> merchant.items]
        BY <3>4
      <4> QED BY <4>1
    <3> QED BY <1>5, <3>1, <3>2, <3>3, <3>4 DEF MerchantChanges
  <2> QED BY <1>0, <1>5, <2>1 DEF MerchantChanges, rowInv, WorldInv, AuthKept
<1>6. CASE MandateChanges
  <2>1. AuthKept'
    BY <1>6 DEF MandateChanges, WorldInv, AuthKept
  <2>2. QuoteKept(snapshot')
    <3>1. QuoteKept(snapshot)
      BY <1>6 DEF MandateChanges, Drift, WorldInv
    <3>2. QuoteKept([snapshot EXCEPT !.total = snapshot.total - 1])
      BY <3>1, EditsAreKept
    <3>3. QuoteKept([snapshot EXCEPT !.redeemedBy = "another"])
      BY <3>1, EditsAreKept
    <3>4. \/ UNCHANGED snapshot
          \/ snapshot' = [snapshot EXCEPT !.total = snapshot.total - 1]
          \/ snapshot' = [snapshot EXCEPT !.redeemedBy = "another"]
      BY <1>6, Zenon DEF MandateChanges
    <3>5. CASE UNCHANGED snapshot
      BY <3>1, <3>5 DEF QuoteKept
    <3> QED BY <3>2, <3>3, <3>4, <3>5
  <2> QED BY <1>0, <1>6, <2>1, <2>2 DEF MandateChanges, rowInv, WorldInv, MerchantKept
<1>7. CASE OtherRequest
  BY <1>0, <1>7 DEF OtherRequest, Interlopers, rowInv, WorldInv, AuthKept, MerchantKept
<1>8. CASE UNCHANGED worldVars
  BY <1>0, <1>8 DEF worldVars, rowInv, WorldInv, AuthKept, MerchantKept
<1> QED BY <1>1, <1>2, <1>3, <1>4, <1>5, <1>6, <1>7, <1>8 DEF WorldNext

-----------------------------------------------------------------------------
(* What a gate's ALLOW shows of the world *)

\* A gate that allows was silent at every stage but for what its approval lifts.
LEMMA AllowIsClean ==
  ASSUME NEW g, NEW p, NEW known, Allowed(g, p, known)
  PROVE  LET ctx == ResolveContext(g, p, known)
         IN /\ Clean(Structural(ctx)) /\ Clean(Authority(ctx)) /\ Clean(Snapshot(ctx))
            /\ Clean(Intent(ctx)) /\ Clean(Policy(ctx)) /\ Clean(Freshness(ctx)) /\ Clean(Execution(ctx))
            /\ \A f \in Policy(ctx).findings :
                 f.severity = "PAUSE" => approved[g] # Null /\ f.code \in approved[g].codes
<1> DEFINE ctx == ResolveContext(g, p, known)
           outcomes == RunStages(ctx)
<1>1. ctx.approved = approved[g]
  BY DEF ResolveContext
<1> HIDE DEF ctx
<1>2. DOMAIN outcomes = StageIds
  BY DEF RunStages, StageIds
<1>3. /\ outcomes["STRUCTURAL"] = Structural(ctx) /\ outcomes["AUTHORITY"] = Authority(ctx)
      /\ outcomes["SNAPSHOT"] = Snapshot(ctx) /\ outcomes["INTENT"] = Intent(ctx)
      /\ outcomes["POLICY"] = Policy(ctx) /\ outcomes["FRESHNESS"] = Freshness(ctx)
      /\ outcomes["EXECUTION"] = Execution(ctx)
  BY DEF RunStages
<1>4. Combine(outcomes, ctx.approved, ctx.fingerprint).verdict = "ALLOW"
  BY Zenon DEF Allowed, Evaluate, ctx
<1> HIDE DEF outcomes
<1>5. ASSUME NEW s \in StageIds
      PROVE  /\ Clean(outcomes[s])
             /\ \A f \in outcomes[s].findings :
                  f.severity = "PAUSE" => approved[g] # Null /\ f.code \in approved[g].codes
  BY <1>1, <1>2, <1>4, AllowMeansClean DEF Clean
<1> QED BY <1>3, <1>5 DEF StageIds, ctx

\* A gate that allows answers the mandate's owner, of a live mandate and of a row, while nothing else
\* is under way on it.
LEMMA AllowIsOwn ==
  ASSUME NullIsNoData, WorldInv, NEW g \in Gate, NEW p \in Principals, NEW known \in BOOLEAN,
         Allowed(g, p, known)
  PROVE  /\ known = TRUE /\ release # Null /\ snapshot # Null /\ p = Owner /\ merchant.up
         /\ auth.state = "ACTIVE" /\ auth.intent = auth.intentHash
         /\ ~(now < auth.intent.notBefore) /\ ~(now > auth.intent.notAfter)
         /\ interloper = "none" /\ snapshot.redeemedBy \in {Null, release.id}
         /\ release.amount = ComputedTotal(snapshot.cart)
<1> DEFINE ctx == ResolveContext(g, p, known)
<1>1. /\ ctx.now = now /\ ctx.principal = p /\ ctx.snapshot = snapshot
      /\ ctx.authorization = IF known THEN auth ELSE Null
      /\ ctx.live = IF snapshot = Null THEN Null ELSE LiveRead(Skus(snapshot.cart.lines))
      /\ ctx.release = IF release = Null THEN Placeholder ELSE release
      /\ ctx.keyed = IF interloper = "sameKey" THEN <<"other", g, p>> ELSE Null
      /\ ctx.otherActive = (interloper = "activeOnMandate")
      /\ ctx.fingerprint = <<"auth", g, p>>
  BY DEF ResolveContext
<1>2. Clean(Authority(ctx)) /\ Clean(Snapshot(ctx)) /\ Clean(Freshness(ctx)) /\ Clean(Execution(ctx))
  BY AllowIsClean
<1> HIDE DEF ctx
<1>3. /\ ctx.authorization # Null
      /\ ctx.authorization.state \notin {"REVOKED", "CONSUMED", "EXPIRED"}
      /\ ~(now < ctx.authorization.intent.notBefore) /\ ~(now > ctx.authorization.intent.notAfter)
      /\ ctx.authorization.user = p.user /\ ctx.authorization.session = p.session
      /\ ctx.authorization.intent = ctx.authorization.intentHash
  BY <1>1, <1>2, AuthorityShows
<1>4. known = TRUE /\ ctx.authorization = auth
  BY <1>1, <1>3
<1>5. auth.state = "ACTIVE" /\ auth.user = "owner" /\ auth.session = "session"
  BY <1>3, <1>4 DEF WorldInv, AuthKept, Owner
<1>6. p = Owner
  <2>1. p.user = "owner" /\ p.session = "session"
    BY <1>3, <1>4, <1>5
  <2> QED BY <2>1 DEF Principals, Owner
<1>7. /\ snapshot # Null /\ snapshot.total = ComputedTotal(snapshot.cart)
      /\ snapshot.redeemedBy # Null => snapshot.redeemedBy = ctx.release.id
  BY <1>1, <1>2, SnapshotShows
<1>8. release # Null /\ ctx.release = release
  BY <1>1, <1>5, <1>7 DEF Allowed, Judged
<1>9. merchant.up
  <2>1. ctx.live # Null
    BY <1>2, FreshnessShows
  <2> QED BY <1>1, <1>7, <2>1 DEF LiveRead
<1>10. /\ ctx.keyed # Null => ctx.keyed = ctx.fingerprint
       /\ release.amount = snapshot.total
       /\ ctx.otherActive # TRUE
  BY <1>1, <1>2, <1>7, <1>8, ExecutionShows
<1>11. interloper = "none"
  <2>1. interloper # "sameKey"
    BY <1>1, <1>10 DEF NullIsNoData
  <2>2. interloper # "activeOnMandate"
    BY <1>1, <1>10
  <2> QED BY <2>1, <2>2 DEF WorldInv, Interlopers
<1> QED BY <1>3, <1>4, <1>5, <1>6, <1>7, <1>8, <1>9, <1>10, <1>11

\* A gate that allows found every line of the quote at the merchant.
LEMMA AllowIsOfGoods ==
  ASSUME NullIsNoData, WorldInv, NEW g \in Gate, NEW p \in Principals, NEW known \in BOOLEAN,
         Allowed(g, p, known)
  PROVE  LET ctx == ResolveContext(g, p, known)
         IN /\ ctx.proposal = snapshot.cart /\ ctx.snapshot = snapshot /\ ctx.authorization = auth
            /\ ctx.policy = policy /\ ctx.now = now
            /\ ctx.live # Null /\ ctx.live.merchant = merchant.id
            /\ \A line \in QuotedLines :
                 /\ Known(ctx, line) /\ line.sku \in DOMAIN merchant.items
                 /\ Item(ctx, line) = merchant.items[line.sku]
<1> DEFINE ctx == ResolveContext(g, p, known)
<1>1. /\ ctx.proposal = IF snapshot = Null THEN EmptyCart ELSE snapshot.cart
      /\ ctx.snapshot = snapshot /\ ctx.now = now
      /\ ctx.authorization = IF known THEN auth ELSE Null
      /\ ctx.policy = IF known THEN policy ELSE Null
      /\ ctx.live = IF snapshot = Null THEN Null ELSE LiveRead(Skus(snapshot.cart.lines))
  BY DEF ResolveContext
<1>2. Clean(Freshness(ctx))
  BY AllowIsClean
<1>3. known = TRUE /\ snapshot # Null /\ merchant.up
  BY AllowIsOwn
<1> HIDE DEF ctx
<1>4. /\ ctx.proposal = snapshot.cart /\ ctx.snapshot = snapshot /\ ctx.authorization = auth
      /\ ctx.policy = policy /\ ctx.now = now /\ ctx.live = LiveRead(Skus(snapshot.cart.lines))
  BY <1>1, <1>3
<1>5. ctx.live # Null /\ \A line \in QuotedLines : Known(ctx, line)
  BY <1>2, <1>4, FreshnessShows DEF QuotedLines
<1>6. /\ ctx.live.merchant = merchant.id
      /\ ctx.live.items = [s \in Skus(snapshot.cart.lines) \cap DOMAIN merchant.items |-> merchant.items[s]]
  BY <1>3, <1>4 DEF LiveRead
<1>7. ASSUME NEW line \in QuotedLines
      PROVE  line.sku \in DOMAIN merchant.items /\ Item(ctx, line) = merchant.items[line.sku]
  BY <1>5, <1>6 DEF Known, Item
<1> QED BY <1>4, <1>5, <1>6, <1>7 DEF ctx

\* The sums of a quote's cart are integers.
LEMMA SumOfIs == ASSUME NEW f, NEW S PROVE SumOf(f, S) = SumOver(f, S)
  BY Zenon DEF SumOf, SumOver

LEMMA CartAmounts ==
  ASSUME NEW cart, FeesAdmitted(cart.adjustments), LinesAdmitted(cart.lines),
         \A i \in DOMAIN cart.lines : cart.lines[i].unitPrice.amountMinor \in Int
  PROVE  /\ ItemSubtotal(cart) \in Int /\ FeeTotal(cart) \in Int
         /\ \A t : FeeByType(cart, t) \in Int /\ FeeFor(cart, t) \in Int
<1>1. IsFiniteSet(DOMAIN cart.lines) /\ IsFiniteSet(DOMAIN cart.adjustments)
  BY FS_Interval DEF FeesAdmitted, LinesAdmitted
<1>2. ASSUME NEW S \in SUBSET DOMAIN cart.adjustments
      PROVE  SumOf(AmountsOf(cart), S) \in Int
  <2>1. IsFiniteSet(S)
    BY <1>1, FS_Subset
  <2>2. \A i \in S : AmountsOf(cart)[i] \in Int
    BY DEF AmountsOf, FeesAdmitted
  <2> QED BY <2>1, <2>2, SumType, SumOfIs
<1>3. ItemSubtotal(cart) \in Int
  <2>1. ASSUME NEW i \in DOMAIN cart.lines PROVE LineTotals(cart)[i] \in Int
    <3>1. LineTotals(cart)[i] = cart.lines[i].unitPrice.amountMinor * cart.lines[i].quantity
      BY DEF LineTotals, LineTotal
    <3>2. cart.lines[i].quantity \in Int
      BY DEF LinesAdmitted
    <3> QED BY <3>1, <3>2
  <2> QED BY <1>1, <2>1, SumType, SumOfIs DEF ItemSubtotal
<1>4. FeeTotal(cart) \in Int
  <2>1. FeesOf(cart) \in SUBSET DOMAIN cart.adjustments
    BY DEF FeesOf
  <2> QED BY <1>2, <2>1 DEF FeeTotal
<1>5. ASSUME NEW t PROVE FeeByType(cart, t) \in Int
  <2>1. AdjustmentsOf(cart, t) \in SUBSET DOMAIN cart.adjustments
    BY DEF AdjustmentsOf
  <2> QED BY <1>2, <2>1 DEF FeeByType
<1> QED BY <1>3, <1>4, <1>5 DEF FeeFor

LEMMA WithinMandate ==
  ASSUME NullIsNoData, WorldInv
  PROVE  AllowIsWithinMandate
<1> SUFFICES ASSUME NEW g \in Gate, NEW p \in Principals, NEW known \in BOOLEAN, Allowed(g, p, known)
             PROVE  LET mandate == auth.intentHash
                    IN /\ known /\ release # Null /\ p = Owner
                       /\ auth.state = "ACTIVE" /\ now \in mandate.notBefore..mandate.notAfter
                       /\ interloper = "none" /\ snapshot.redeemedBy \in {Null, release.id}
                       /\ release.amount \in 0..mandate.maxTotal
                       /\ release.amount = ComputedTotal(snapshot.cart)
                       /\ \A t \in DOMAIN mandate.fees :
                            FeeFor(snapshot.cart, t) <= mandate.fees[t].amountMinor
                       /\ mandate.recurrence = "ONE_TIME_ONLY" => ~snapshot.cart.recurring
                       /\ \A line \in QuotedLines :
                            /\ line.quantity \in mandate.quantity
                            /\ merchant.items[line.sku].category \notin mandate.forbiddenCategories
                            /\ \A q \in mandate.requiredAttributes :
                                 Satisfies(merchant.items[line.sku].attributes, q)
  BY DEF AllowIsWithinMandate
<1> DEFINE ctx == ResolveContext(g, p, known)
           mandate == auth.intentHash
           cart == snapshot.cart
<1>1. /\ known = TRUE /\ release # Null /\ snapshot # Null /\ p = Owner
      /\ auth.state = "ACTIVE" /\ auth.intent = mandate
      /\ ~(now < auth.intent.notBefore) /\ ~(now > auth.intent.notAfter)
      /\ interloper = "none" /\ snapshot.redeemedBy \in {Null, release.id}
      /\ release.amount = ComputedTotal(cart)
  BY AllowIsOwn
<1>2. IntentAdmitted(mandate)
  BY WorldAssumption DEF WorldInv, AuthKept
<1>3. now \in mandate.notBefore..mandate.notAfter
  BY <1>1, <1>2 DEF IntentAdmitted, WorldInv
<1>4. /\ ctx.proposal = cart /\ ctx.authorization = auth
      /\ \A line \in QuotedLines : Known(ctx, line) /\ Item(ctx, line) = merchant.items[line.sku]
  BY AllowIsOfGoods
<1>5. Clean(Structural(ctx)) /\ Clean(Intent(ctx))
  BY AllowIsClean
<1> HIDE DEF ctx
<1>6. ~(ComputedTotal(cart) < 0)
  BY <1>4, <1>5, StructuralShows
<1>7. /\ SumsInRange(cart)
      /\ ~(ComputedTotal(cart) > mandate.maxTotal)
      /\ \A t \in DOMAIN mandate.fees : ~(FeeFor(cart, t) > mandate.fees[t].amountMinor)
      /\ mandate.recurrence = "ONE_TIME_ONLY" => cart.recurring # TRUE
      /\ \A line \in Lines(cart) :
           /\ line.quantity \in mandate.quantity
           /\ Known(ctx, line) =>
                /\ Item(ctx, line).category \notin mandate.forbiddenCategories
                /\ \A q \in mandate.requiredAttributes : Satisfies(Item(ctx, line).attributes, q)
  BY <1>1, <1>4, <1>5, IntentShows
<1>8. release.amount \in 0..mandate.maxTotal
  <2>1. ComputedTotal(cart) \in Int
    BY <1>7 DEF SumsInRange, InRange
  <2> QED BY <1>1, <1>2, <1>6, <1>7, <2>1 DEF IntentAdmitted
<1>9. ASSUME NEW t \in DOMAIN mandate.fees PROVE FeeFor(cart, t) <= mandate.fees[t].amountMinor
  <2>1. QuoteKept(snapshot)
    BY <1>1 DEF WorldInv
  <2>2. FeeFor(cart, t) \in Int
    BY <2>1, CartAmounts DEF QuoteKept
  <2>3. mandate.fees[t].amountMinor \in Int
    BY <1>2 DEF IntentAdmitted
  <2> QED BY <1>7, <2>2, <2>3
<1>10. mandate.recurrence = "ONE_TIME_ONLY" => ~cart.recurring
  BY <1>7
<1>11. ASSUME NEW line \in QuotedLines
       PROVE  /\ line.quantity \in mandate.quantity
              /\ merchant.items[line.sku].category \notin mandate.forbiddenCategories
              /\ \A q \in mandate.requiredAttributes : Satisfies(merchant.items[line.sku].attributes, q)
  BY <1>4, <1>7 DEF QuotedLines
<1> QED BY <1>1, <1>3, <1>8, <1>9, <1>10, <1>11

LEMMA GoodsAreHonoured ==
  ASSUME NullIsNoData, WorldInv
  PROVE  LinesAreAsHonoured
<1> SUFFICES ASSUME NEW g \in Gate, Allowed(g, Owner, TRUE)
             PROVE  /\ merchant.up
                    /\ \A line \in QuotedLines :
                         /\ line.sku \in DOMAIN merchant.items
                         /\ LET item == merchant.items[line.sku]
                                quoted == snapshot.rows[line.sku]
                                cart == snapshot.cart
                                wanted == SumOf([i \in DOMAIN cart.lines |-> cart.lines[i].quantity],
                                                {i \in DOMAIN cart.lines : cart.lines[i].sku = line.sku})
                            IN /\ item.unitPrice = line.unitPrice /\ item.available /\ item.stock >= wanted
                               /\ item.category = quoted.category /\ item.attributes = quoted.attributes
  BY DEF LinesAreAsHonoured
<1> DEFINE ctx == ResolveContext(g, Owner, TRUE)
           cart == snapshot.cart
<1>1. Owner \in Principals /\ TRUE \in BOOLEAN
  BY DEF Principals
<1>2. snapshot # Null /\ merchant.up
  BY <1>1, AllowIsOwn
<1>3. /\ ctx.proposal = cart /\ ctx.snapshot = snapshot
      /\ \A line \in QuotedLines :
           /\ Known(ctx, line) /\ line.sku \in DOMAIN merchant.items
           /\ Item(ctx, line) = merchant.items[line.sku]
  BY <1>1, AllowIsOfGoods
<1>4. Clean(Structural(ctx)) /\ Clean(Freshness(ctx))
  BY AllowIsClean
<1> HIDE DEF ctx
<1>5. \A i, j \in DOMAIN cart.lines : cart.lines[i].sku = cart.lines[j].sku => i = j
  BY <1>3, <1>4, StructuralShows
<1>6. QuoteKept(snapshot)
  BY <1>2 DEF WorldInv
<1>7. ASSUME NEW line \in QuotedLines
      PROVE  /\ merchant.items[line.sku].unitPrice.currency = line.unitPrice.currency
             /\ merchant.items[line.sku].unitPrice.amountMinor = line.unitPrice.amountMinor
             /\ merchant.items[line.sku].available = TRUE
             /\ ~(merchant.items[line.sku].stock < line.quantity)
             /\ ~AttributesDiverged(ctx, line)
  <2>1. \A l \in Lines(ctx.proposal) :
           /\ Item(ctx, l).unitPrice.currency = l.unitPrice.currency
           /\ Item(ctx, l).unitPrice.amountMinor = l.unitPrice.amountMinor
           /\ Item(ctx, l).available = TRUE
           /\ ~(Item(ctx, l).stock < l.quantity)
           /\ ~AttributesDiverged(ctx, l)
    BY <1>4, FreshnessShows
  <2>2. line \in Lines(ctx.proposal) /\ Item(ctx, line) = merchant.items[line.sku]
    BY <1>3 DEF QuotedLines
  <2> QED BY <2>1, <2>2
<1>8. ASSUME NEW line \in QuotedLines
      PROVE  LET item == merchant.items[line.sku]
                 quoted == snapshot.rows[line.sku]
                 wanted == SumOf([i \in DOMAIN cart.lines |-> cart.lines[i].quantity],
                                 {i \in DOMAIN cart.lines : cart.lines[i].sku = line.sku})
             IN /\ item.unitPrice = line.unitPrice /\ item.available /\ item.stock >= wanted
                /\ item.category = quoted.category /\ item.attributes = quoted.attributes
  <2> DEFINE item == merchant.items[line.sku]
             quoted == snapshot.rows[line.sku]
             quantities == [j \in DOMAIN cart.lines |-> cart.lines[j].quantity]
             same == {j \in DOMAIN cart.lines : cart.lines[j].sku = line.sku}
  <2>1. PICK i \in DOMAIN cart.lines : line = cart.lines[i]
    BY DEF QuotedLines, Lines
  <2>2. same = {i}
    BY <1>5, <2>1
  <2>3. ItemAdmitted(item)
    BY <1>3 DEF WorldInv, MerchantKept
  <2>4. /\ line.unitPrice = Money(line.unitPrice.currency, line.unitPrice.amountMinor)
        /\ line.asserted.category = quoted.category /\ line.asserted.attributes = quoted.attributes
        /\ line.sku \in DOMAIN snapshot.rows /\ line.quantity \in Nat
    BY <1>6, <2>1 DEF QuoteKept, LinesAdmitted
  <2>5. item.unitPrice = line.unitPrice
    BY <1>7, <2>3, <2>4 DEF ItemAdmitted
  <2>6. item.stock >= SumOf(quantities, same)
    <3>1. quantities[i] = line.quantity /\ quantities[i] \in Int
      BY <2>1, <2>4
    <3>2. SumOf(quantities, {i}) = line.quantity
      <4> HIDE DEF quantities
      <4> QED BY <3>1, SumSingleton, SumOfIs
    <3>3. item.stock >= line.quantity
      <4>1. item.stock \in Int /\ line.quantity \in Int
        BY <2>3, <2>4 DEF ItemAdmitted
      <4>2. ~(item.stock < line.quantity)
        BY <1>7
      <4> HIDE DEF item
      <4> QED BY <4>1, <4>2
    <3> HIDE DEF quantities, same, item
    <3> QED BY <2>2, <3>2, <3>3
  <2>7. item.category = quoted.category /\ item.attributes = quoted.attributes
    <3>1. Item(ctx, line) = item
      BY <1>3
    <3>2. quoted = item \/ SameAttributes(ctx, line.sku, item)
      BY <1>2, <1>3, <1>7, <2>4, <3>1 DEF AttributesDiverged
    <3>3. CASE SameAttributes(ctx, line.sku, item)
      <4>1. Min(same) = i
        <5>1. i <= i
          BY <1>6, <2>1 DEF QuoteKept, LinesAdmitted
        <5> QED BY <2>2, <5>1 DEF Min
      <4>2. ctx.snapshot.cart.lines = cart.lines
        BY <1>3
      <4>3. /\ cart.lines[Min(same)].asserted.attributes = item.attributes
            /\ cart.lines[Min(same)].asserted.category = item.category
        <5>1. same # {}
          BY <2>2
        <5> HIDE DEF item
        <5> QED BY <3>3, <4>2, <5>1, Zenon DEF SameAttributes
      <4> QED BY <2>1, <2>4, <4>1, <4>3
    <3> QED BY <3>2, <3>3
  <2> QED BY <1>7, <2>5, <2>6, <2>7
<1> QED BY <1>2, <1>3, <1>8

\* A number is no greater than the greater of it and zero.
LEMMA AtLeast == ASSUME NEW d \in Int PROVE Max({0, d}) \in Int /\ d <= Max({0, d})
<1>1. \E x \in {0, d} : \A y \in {0, d} : x >= y
  OBVIOUS
<1>2. Max({0, d}) \in {0, d} /\ \A y \in {0, d} : Max({0, d}) >= y
  <2> DEFINE S == {0, d}
  <2> HIDE DEF S
  <2>1. \E x \in S : \A y \in S : x >= y
    BY <1>1 DEF S
  <2>2. Max(S) \in S /\ \A y \in S : Max(S) >= y
    BY <2>1, Zenon DEF Max
  <2> QED BY <2>2 DEF S
<1> QED BY <1>2

\* No more skus than lines.
LEMMA FewSkus ==
  ASSUME NEW lines, LinesAdmitted(lines)
  PROVE  Cardinality(Skus(lines)) \in Nat /\ Cardinality(Skus(lines)) <= Len(lines)
<1> DEFINE f == [i \in DOMAIN lines |-> lines[i].sku]
<1>1. f \in Surjection(DOMAIN lines, Skus(lines))
  BY DEF Surjection, Skus
<1>2. IsFiniteSet(DOMAIN lines) /\ Cardinality(DOMAIN lines) = Len(lines)
  <2>1. DOMAIN lines = 1 .. Len(lines) /\ Len(lines) \in Nat
    BY DEF LinesAdmitted
  <2>2. 1 \in Int /\ Len(lines) \in Int
    BY <2>1
  <2>3. Cardinality(1 .. Len(lines)) = IF 1 > Len(lines) THEN 0 ELSE Len(lines) - 1 + 1
    BY <2>2, FS_Interval
  <2>4. IsFiniteSet(1 .. Len(lines))
    BY <2>2, FS_Interval
  <2> QED BY <2>1, <2>3, <2>4
<1> HIDE DEF f
<1>3. IsFiniteSet(Skus(lines)) /\ Cardinality(Skus(lines)) <= Cardinality(DOMAIN lines)
  BY <1>1, <1>2, FS_Surjection
<1> QED BY <1>2, <1>3, FS_CardinalityType

\* What a policy is evaluated against is the charge: its goods as the merchant has them now.
LEMMA SubjectIsTheCharge ==
  ASSUME NullIsNoData, WorldInv, NEW g \in Gate, Allowed(g, Owner, TRUE)
  PROVE  LET subject == Subject(ResolveContext(g, Owner, TRUE))
             cart == snapshot.cart
         IN /\ subject.cart = cart
            /\ DOMAIN subject.lines = DOMAIN cart.lines /\ Len(subject.lines) = Len(cart.lines)
            /\ \A i \in DOMAIN cart.lines :
                 LET item == merchant.items[cart.lines[i].sku]
                 IN /\ subject.lines[i].quantity = cart.lines[i].quantity
                    /\ subject.lines[i].unitPrice.amountMinor = item.unitPrice.amountMinor
                    /\ item.unitPrice.amountMinor \in Int
                    /\ subject.lines[i].category = item.category
                    /\ subject.lines[i].attributes = item.attributes
            /\ subject.snapshotAge \in Int /\ now - snapshot.observedAt <= subject.snapshotAge
            /\ cart.merchant = merchant.id
<1> DEFINE ctx == ResolveContext(g, Owner, TRUE)
           subject == Subject(ctx)
           cart == snapshot.cart
<1>1. Owner \in Principals /\ TRUE \in BOOLEAN
  BY DEF Principals
<1>2. snapshot # Null
  BY <1>1, AllowIsOwn
<1>3. /\ ctx.proposal = cart /\ ctx.snapshot = snapshot /\ ctx.now = now
      /\ ctx.live.merchant = merchant.id
      /\ \A line \in QuotedLines :
           /\ Known(ctx, line) /\ line.sku \in DOMAIN merchant.items
           /\ Item(ctx, line) = merchant.items[line.sku]
  BY <1>1, AllowIsOfGoods
<1>4. Clean(Freshness(ctx))
  BY AllowIsClean
<1>5. QuoteKept(snapshot)
  BY <1>2 DEF WorldInv
<1> HIDE DEF ctx
<1>6. cart.merchant = merchant.id
  BY <1>3, <1>4, FreshnessShows
<1>7. /\ subject.cart = cart
      /\ subject.lines = [i \in DOMAIN ctx.proposal.lines |->
           LET line == ctx.proposal.lines[i]
           IN [sku |-> line.sku, quantity |-> line.quantity, unitPrice |-> line.unitPrice,
               category |-> IF Known(ctx, line) THEN Item(ctx, line).category ELSE "<unknown>",
               attributes |-> IF Known(ctx, line) THEN Item(ctx, line).attributes ELSE {}]]
      /\ subject.snapshotAge = IF ctx.snapshot = Null THEN 0
                               ELSE Max({0, ctx.now - ctx.snapshot.observedAt})
  BY <1>3 DEF Subject
<1> HIDE DEF subject
<1>8. subject.snapshotAge \in Int /\ now - snapshot.observedAt <= subject.snapshotAge
  <2>1. now - snapshot.observedAt \in Int
    BY <1>5 DEF WorldInv, QuoteKept
  <2>2. subject.snapshotAge = Max({0, now - snapshot.observedAt})
    BY <1>2, <1>3, <1>7
  <2> QED BY <2>1, <2>2, AtLeast
<1>9. DOMAIN subject.lines = DOMAIN cart.lines
  BY <1>3, <1>7
<1>10. Len(subject.lines) = Len(cart.lines)
  <2>1. Len(cart.lines) \in Nat /\ DOMAIN cart.lines = 1 .. Len(cart.lines)
    BY <1>5 DEF QuoteKept, LinesAdmitted
  <2>2. subject.lines = [i \in DOMAIN subject.lines |-> subject.lines[i]]
    BY <1>7
  <2> QED BY <1>9, <2>1, <2>2, LengthOf
<1>11. ASSUME NEW i \in DOMAIN cart.lines
       PROVE  LET item == merchant.items[cart.lines[i].sku]
              IN /\ subject.lines[i].quantity = cart.lines[i].quantity
                 /\ subject.lines[i].unitPrice.amountMinor = item.unitPrice.amountMinor
                 /\ item.unitPrice.amountMinor \in Int
                 /\ subject.lines[i].category = item.category
                 /\ subject.lines[i].attributes = item.attributes
  <2> DEFINE line == cart.lines[i]
             item == merchant.items[line.sku]
             price == line.unitPrice
             category == IF Known(ctx, line) THEN Item(ctx, line).category ELSE "<unknown>"
             attributes == IF Known(ctx, line) THEN Item(ctx, line).attributes ELSE {}
  <2>1. line \in QuotedLines /\ line \in Lines(ctx.proposal)
    BY <1>3 DEF QuotedLines, Lines
  <2>2. Known(ctx, line) /\ Item(ctx, line) = item /\ ItemAdmitted(item)
    BY <1>3, <2>1 DEF WorldInv, MerchantKept
  <2>3. subject.lines[i] = [sku |-> line.sku, quantity |-> line.quantity, unitPrice |-> price,
                            category |-> category, attributes |-> attributes]
    BY <1>3, <1>7
  <2>4. category = item.category /\ attributes = item.attributes
    BY <2>2
  <2>5. item.unitPrice.amountMinor = line.unitPrice.amountMinor
    <3>1. \A l \in Lines(ctx.proposal) : Item(ctx, l).unitPrice.amountMinor = l.unitPrice.amountMinor
      BY <1>4, FreshnessShows
    <3> QED BY <2>1, <2>2, <3>1
  <2>6. item.unitPrice.amountMinor \in Int
    BY <2>2 DEF ItemAdmitted
  <2> HIDE DEF line, item, category, attributes
  <2>7. /\ subject.lines[i].quantity = line.quantity
        /\ subject.lines[i].unitPrice = price
        /\ subject.lines[i].category = category
        /\ subject.lines[i].attributes = attributes
    <3> HIDE DEF price
    <3> QED BY <2>3
  <2>8. /\ subject.lines[i].quantity = line.quantity
        /\ subject.lines[i].unitPrice.amountMinor = item.unitPrice.amountMinor
        /\ item.unitPrice.amountMinor \in Int
        /\ subject.lines[i].category = item.category
        /\ subject.lines[i].attributes = item.attributes
    BY <2>4, <2>5, <2>6, <2>7
  <2> QED BY <2>8 DEF line, item
<1> QED BY <1>6, <1>7, <1>8, <1>9, <1>10, <1>11 DEF ctx, subject

\* A rule that the subject does not break holds of the charge.
LEMMA UnbrokenIsUpheld ==
  ASSUME NullIsNoData, WorldInv, NEW g \in Gate, Allowed(g, Owner, TRUE),
         NEW rule, Parses(rule), RuleAdmitted(rule),
         Applicable(rule, Subject(ResolveContext(g, Owner, TRUE))),
         ~Breaks(rule, Subject(ResolveContext(g, Owner, TRUE)))
  PROVE  Upheld(rule)
<1> DEFINE subject == Subject(ResolveContext(g, Owner, TRUE))
           cart == snapshot.cart
<1>1. /\ subject.cart = cart
      /\ DOMAIN subject.lines = DOMAIN cart.lines /\ Len(subject.lines) = Len(cart.lines)
      /\ \A i \in DOMAIN cart.lines :
           LET item == merchant.items[cart.lines[i].sku]
           IN /\ subject.lines[i].quantity = cart.lines[i].quantity
              /\ subject.lines[i].unitPrice.amountMinor = item.unitPrice.amountMinor
              /\ item.unitPrice.amountMinor \in Int
              /\ subject.lines[i].category = item.category
              /\ subject.lines[i].attributes = item.attributes
      /\ subject.snapshotAge \in Int /\ now - snapshot.observedAt <= subject.snapshotAge
      /\ cart.merchant = merchant.id
  BY SubjectIsTheCharge
<1>2. Applicable(rule, subject) /\ ~Breaks(rule, subject)
  OBVIOUS
<1>3. snapshot # Null /\ release.amount = ComputedTotal(cart)
  BY AllowIsOwn DEF Principals
<1>4. QuoteKept(snapshot)
  BY <1>3 DEF WorldInv
<1>5. /\ ItemSubtotal(cart) \in Int /\ FeeTotal(cart) \in Int
      /\ \A t : FeeByType(cart, t) \in Int
      /\ ComputedTotal(cart) \in Int
  <2>1. /\ ItemSubtotal(cart) \in Int /\ FeeTotal(cart) \in Int
        /\ \A t : FeeByType(cart, t) \in Int
    BY <1>4, CartAmounts DEF QuoteKept
  <2>2. Clean(Structural(ResolveContext(g, Owner, TRUE)))
    BY AllowIsClean
  <2>3. ResolveContext(g, Owner, TRUE).proposal = cart
    BY <1>3 DEF ResolveContext
  <2>4. SumsInRange(cart)
    BY <2>2, <2>3, StructuralShows
  <2> QED BY <2>1, <2>4 DEF SumsInRange, InRange
<1>6. \A line \in QuotedLines : \E i \in DOMAIN cart.lines : line = cart.lines[i]
  BY DEF QuotedLines, Lines
<1>7. /\ rule.kind \in MoneyRules => rule.max.amountMinor \in Int /\ rule.max.currency = cart.currency
      /\ rule.kind \in LimitRules => rule.limit \in Nat
  BY <1>1, <1>2 DEF RuleAdmitted, Applicable
<1> HIDE DEF subject
<1>8. CASE rule.kind = "MAX_TOTAL"
  BY <1>1, <1>2, <1>3, <1>5, <1>7, <1>8 DEF Breaks, Upheld, MoneyRules
<1>9. CASE rule.kind = "MAX_UNIT_PRICE"
  <2>1. \A i \in DOMAIN subject.lines : ~(subject.lines[i].unitPrice.amountMinor > rule.max.amountMinor)
    BY <1>2, <1>9 DEF Breaks
  <2>2. \A line \in QuotedLines : merchant.items[line.sku].unitPrice.amountMinor <= rule.max.amountMinor
    BY <1>1, <1>6, <1>7, <1>9, <2>1 DEF MoneyRules
  <2> QED BY <1>7, <1>9, <2>2 DEF Upheld, MoneyRules
<1>10. CASE rule.kind = "MAX_QUANTITY_PER_ITEM"
  <2>1. \A i \in DOMAIN subject.lines : ~(subject.lines[i].quantity > rule.limit)
    BY <1>2, <1>10 DEF Breaks
  <2>2. \A i \in DOMAIN cart.lines : cart.lines[i].quantity \in Nat
    BY <1>4 DEF QuoteKept, LinesAdmitted
  <2>3. \A line \in QuotedLines : line.quantity <= rule.limit
    BY <1>1, <1>6, <1>7, <1>10, <2>1, <2>2 DEF LimitRules
  <2> QED BY <1>10, <2>3 DEF Upheld
<1>11. CASE rule.kind = "MAX_LINE_ITEMS"
  <2>1. ~(Len(cart.lines) > rule.limit)
    BY <1>1, <1>2, <1>11 DEF Breaks
  <2>2. LinesAdmitted(cart.lines)
    BY <1>4 DEF QuoteKept
  <2>3. Cardinality(Skus(cart.lines)) <= rule.limit
    <3>1. Cardinality(Skus(cart.lines)) \in Nat /\ Cardinality(Skus(cart.lines)) <= Len(cart.lines)
      BY <2>2, FewSkus
    <3>2. rule.limit \in Nat /\ Len(cart.lines) \in Nat
      BY <1>7, <1>11, <2>2 DEF LimitRules, LinesAdmitted
    <3> QED BY <2>1, <3>1, <3>2
  <2> QED BY <1>11, <2>3 DEF Upheld
<1>12. CASE rule.kind = "ALLOWED_CURRENCIES"
  BY <1>1, <1>2, <1>12 DEF Breaks, Upheld
<1>13. CASE rule.kind = "MERCHANT_ALLOWLIST"
  BY <1>1, <1>2, <1>13 DEF Breaks, Upheld
<1>14. CASE rule.kind = "MERCHANT_DENYLIST"
  BY <1>1, <1>2, <1>14 DEF Breaks, Upheld
<1>15. CASE rule.kind = "MAX_FEE"
  BY <1>1, <1>2, <1>5, <1>7, <1>15 DEF Breaks, Upheld, MoneyRules
<1>16. CASE rule.kind = "MAX_FEE_RATIO_BPS"
  <2>1. ~(FeeByType(cart, rule.type) > (ItemSubtotal(cart) * rule.limit) \div 10000)
    BY <1>1, <1>2, <1>16 DEF Breaks, BasisPointsOf
  <2>2. FeeByType(cart, rule.type) \in Int /\ ItemSubtotal(cart) \in Int /\ rule.limit \in Int
    BY <1>5, <1>7, <1>16 DEF LimitRules
  <2>3. ASSUME NEW fee \in Int, NEW subtotal \in Int, NEW limit \in Int,
               ~(fee > (subtotal * limit) \div 10000)
        PROVE  10000 * fee <= limit * subtotal
    <3>1. subtotal * limit \in Int /\ limit * subtotal = subtotal * limit
      OBVIOUS
    <3>2. ASSUME NEW product \in Int, ~(fee > product \div 10000) PROVE 10000 * fee <= product
      BY <3>2
    <3> QED BY <2>3, <3>1, <3>2
  <2>4. 10000 * FeeByType(cart, rule.type) <= rule.limit * ItemSubtotal(cart)
    BY <2>1, <2>2, <2>3
  <2> QED BY <1>16, <2>4 DEF Upheld
<1>17. CASE rule.kind = "MAX_TOTAL_FEES"
  BY <1>1, <1>2, <1>5, <1>7, <1>17 DEF Breaks, Upheld, MoneyRules
<1>18. CASE rule.kind = "PROHIBITED_CATEGORIES"
  <2>1. \A i \in DOMAIN subject.lines : ~(subject.lines[i].category \in rule.set)
    BY <1>2, <1>18 DEF Breaks
  <2>2. \A line \in QuotedLines : merchant.items[line.sku].category \notin rule.set
    BY <1>1, <1>6, <2>1
  <2> QED BY <1>18, <2>2 DEF Upheld
<1>19. CASE rule.kind = "ALLOWED_CATEGORIES"
  <2>1. \A i \in DOMAIN subject.lines : ~(subject.lines[i].category \notin rule.set)
    BY <1>2, <1>19 DEF Breaks
  <2>2. \A line \in QuotedLines : merchant.items[line.sku].category \in rule.set
    BY <1>1, <1>6, <2>1
  <2> QED BY <1>19, <2>2 DEF Upheld
<1>20. CASE rule.kind = "REQUIRE_ATTRIBUTES"
  <2>1. \A i \in DOMAIN subject.lines : ~\E q \in rule.set : ~Satisfies(subject.lines[i].attributes, q)
    BY <1>2, <1>20 DEF Breaks
  <2>2. \A line \in QuotedLines, q \in rule.set : Satisfies(merchant.items[line.sku].attributes, q)
    BY <1>1, <1>6, <2>1
  <2> QED BY <1>20, <2>2 DEF Upheld
<1>21. CASE rule.kind = "FORBID_SUBSCRIPTION"
  BY <1>1, <1>2, <1>21 DEF Breaks, Upheld
<1>22. CASE rule.kind = "MAX_SNAPSHOT_AGE_SECONDS"
  <2>1. ~(subject.snapshotAge > rule.limit)
    BY <1>2, <1>22 DEF Breaks
  <2>2. now - snapshot.observedAt \in Int
    BY <1>4 DEF WorldInv, QuoteKept
  <2>3. now - snapshot.observedAt <= rule.limit
    BY <1>1, <1>7, <1>22, <2>1, <2>2 DEF LimitRules
  <2> QED BY <1>22, <2>3 DEF Upheld
<1> QED
  BY <1>8, <1>9, <1>10, <1>11, <1>12, <1>13, <1>14, <1>15, <1>16, <1>17, <1>18, <1>19, <1>20, <1>21,
     <1>22 DEF Parses, RuleCode

LEMMA RulesHold ==
  ASSUME NullIsNoData, WorldInv
  PROVE  PolicyIsHeld
<1> SUFFICES ASSUME NEW g \in Gate, Allowed(g, Owner, TRUE), NEW i \in DOMAIN auth.policyHash
             PROVE  LET rule == auth.policyHash[i]
                    IN Upheld(rule) \/ /\ Parses(rule) /\ rule.severity = "PAUSE"
                                       /\ approved[g] # Null /\ CodeOf(rule) \in approved[g].codes
  BY DEF PolicyIsHeld
<1> DEFINE ctx == ResolveContext(g, Owner, TRUE)
           subject == Subject(ctx)
           rule == auth.policyHash[i]
<1>1. Owner \in Principals /\ TRUE \in BOOLEAN
  BY DEF Principals
<1>2. ctx.authorization = auth /\ ctx.policy = policy
  BY <1>1, AllowIsOfGoods
<1>3. auth # Null
  BY <1>1, AllowIsClean, <1>2, AuthorityShows
<1>4. /\ Clean(Policy(ctx))
      /\ \A f \in Policy(ctx).findings :
           f.severity = "PAUSE" => approved[g] # Null /\ f.code \in approved[g].codes
  BY AllowIsClean
<1> HIDE DEF ctx
<1>5. /\ ctx.policy = auth.policyHash
      /\ \A j \in DOMAIN ctx.policy : \A v \in EvaluateRule(ctx.policy[j], subject) :
           /\ v.severity # "DENY"
           /\ \E f \in Policy(ctx).findings : f.code = v.code /\ f.severity = v.severity
  BY <1>2, <1>3, <1>4, PolicyShows
<1>6. ASSUME NEW v \in EvaluateRule(rule, subject)
      PROVE  /\ v.severity # "DENY"
             /\ v.severity = "PAUSE" => approved[g] # Null /\ v.code \in approved[g].codes
  BY <1>4, <1>5, <1>6
<1>7. Parses(rule) /\ Applicable(rule, subject)
  BY <1>6 DEF EvaluateRule, Violation
<1>8. RuleAdmitted(rule)
  BY <1>7, WorldAssumption DEF WorldInv, AuthKept
<1>9. CASE Breaks(rule, subject)
  <2>1. Violation(rule, CodeOf(rule), rule.severity) \in EvaluateRule(rule, subject)
    BY <1>7, <1>9 DEF EvaluateRule
  <2>2. /\ rule.severity # "DENY"
        /\ rule.severity = "PAUSE" => approved[g] # Null /\ CodeOf(rule) \in approved[g].codes
    BY <1>6, <2>1 DEF Violation
  <2> QED BY <1>7, <1>8, <2>2 DEF RuleAdmitted
<1>10. CASE ~Breaks(rule, subject)
  BY <1>7, <1>8, <1>10, UnbrokenIsUpheld DEF ctx
<1> QED BY <1>9, <1>10

-----------------------------------------------------------------------------
(* What a record keeps, and who allows *)

\* A map is what its pairs say.
LEMMA MapOfPairs ==
  ASSUME NEW map, map = [k \in DOMAIN map |-> map[k]]
  PROVE  MapOf(Pairs(map)) = map
<1> DEFINE pairs == Pairs(map)
<1>1. ASSUME NEW k \in DOMAIN map
      PROVE  (CHOOSE p \in pairs : p[1] = k)[2] = map[k]
  <2>1. <<k, map[k]>> \in pairs /\ <<k, map[k]>>[1] = k
    BY DEF Pairs
  <2>2. \A p \in pairs : p[1] = k => p[2] = map[k]
    BY DEF Pairs
  <2>3. (CHOOSE p \in pairs : p[1] = k) \in pairs /\ (CHOOSE p \in pairs : p[1] = k)[1] = k
    <3> HIDE DEF pairs
    <3> QED BY <2>1, Zenon
  <2> QED BY <2>2, <2>3
<1>2. {p[1] : p \in pairs} = DOMAIN map
  <2>1. \A p \in pairs : p[1] \in DOMAIN map
    BY DEF Pairs
  <2>2. \A k \in DOMAIN map : <<k, map[k]>> \in pairs /\ <<k, map[k]>>[1] = k
    BY DEF Pairs
  <2> HIDE DEF pairs
  <2>3. \A k \in DOMAIN map : \E p \in pairs : p[1] = k
    BY <2>2
  <2> QED BY <2>1, <2>3
<1>3. MapOf(pairs) = [k \in DOMAIN map |-> (CHOOSE p \in pairs : p[1] = k)[2]]
  <2> HIDE DEF pairs
  <2> QED BY <1>2, Zenon DEF MapOf
<1> HIDE DEF pairs
<1>4. MapOf(pairs) = [k \in DOMAIN map |-> map[k]]
  BY <1>1, <1>3
<1> QED BY <1>4 DEF pairs

\* Two parts of a record set aside and put back leave it as it was.
LEMMA Restored ==
  ASSUME NEW ctx, ctx = [k \in DOMAIN ctx |-> ctx[k]], NEW live, NEW quote
  PROVE  [[ctx EXCEPT !.live = live, !.snapshot = quote] EXCEPT !.live = ctx.live, !.snapshot = ctx.snapshot]
           = ctx
  OBVIOUS

LEMMA RecordsReplay ==
  ASSUME NullIsNoData, WorldInv
  PROVE  ReplayReproduces
<1> SUFFICES ASSUME NEW g \in Gate, Judged(g)
             PROVE  DeserializeContext(SerializeContext(ResolveContext(g, Owner, TRUE)))
                      = ResolveContext(g, Owner, TRUE)
  BY Zenon DEF ReplayReproduces
<1> DEFINE ctx == ResolveContext(g, Owner, TRUE)
           written == SerializeContext(ctx)
           read == DeserializeContext(written)
<1>1. ctx = [gate |-> ctx.gate, now |-> ctx.now, principal |-> ctx.principal,
             authorization |-> ctx.authorization, policy |-> ctx.policy, snapshot |-> ctx.snapshot,
             proposal |-> ctx.proposal, live |-> ctx.live, release |-> ctx.release, keyed |-> ctx.keyed,
             otherActive |-> ctx.otherActive, approved |-> ctx.approved,
             fingerprint |-> ctx.fingerprint, maxAttempts |-> ctx.maxAttempts]
  BY Zenon DEF ResolveContext
<1>2. /\ ctx.snapshot = snapshot
      /\ ctx.live = IF snapshot = Null THEN Null ELSE LiveRead(Skus(snapshot.cart.lines))
  BY DEF ResolveContext
<1> HIDE DEF ctx
<1>3. /\ written.live = IF ctx.live = Null THEN Null
                        ELSE [ctx.live EXCEPT !.items = Pairs(ctx.live.items)]
      /\ written.snapshot = IF ctx.snapshot = Null THEN Null
                            ELSE [ctx.snapshot EXCEPT !.rows = Pairs(ctx.snapshot.rows)]
      /\ written = [ctx EXCEPT !.live = written.live, !.snapshot = written.snapshot]
  <2> DEFINE live == IF ctx.live = Null THEN Null ELSE [ctx.live EXCEPT !.items = Pairs(ctx.live.items)]
             quote == IF ctx.snapshot = Null THEN Null
                      ELSE [ctx.snapshot EXCEPT !.rows = Pairs(ctx.snapshot.rows)]
  <2>1. written = [ctx EXCEPT !.live = live, !.snapshot = quote]
    BY Zenon DEF SerializeContext, Rewritten
  <2> HIDE DEF live, quote, written
  <2>2. written.live = live /\ written.snapshot = quote
    BY <1>1, <2>1
  <2> QED BY <2>1, <2>2 DEF live, quote
<1>4. ASSUME ctx.live # Null
      PROVE  written.live # Null /\ [written.live EXCEPT !.items = MapOf(written.live.items)] = ctx.live
  <2>1. /\ ctx.live = [merchant |-> ctx.live.merchant, fees |-> ctx.live.fees, items |-> ctx.live.items]
        /\ ctx.live.items = [s \in DOMAIN ctx.live.items |-> ctx.live.items[s]]
    BY <1>2, <1>4 DEF LiveRead
  <2>2. written.live = [merchant |-> ctx.live.merchant, fees |-> ctx.live.fees,
                        items |-> Pairs(ctx.live.items)]
    BY <1>3, <1>4, <2>1
  <2>3. written.live # Null
    BY <2>2 DEF NullIsNoData
  <2>4. MapOf(written.live.items) = ctx.live.items
    BY <2>1, <2>2, MapOfPairs
  <2> QED BY <2>1, <2>2, <2>3, <2>4
<1>5. ASSUME ctx.snapshot # Null
      PROVE  /\ written.snapshot # Null
             /\ [written.snapshot EXCEPT !.rows = MapOf(written.snapshot.rows)] = ctx.snapshot
  <2> DEFINE s == ctx.snapshot
  <2>1. /\ s = [total |-> s.total, cart |-> s.cart, authorization |-> s.authorization, rows |-> s.rows,
                observedAt |-> s.observedAt, expiresAt |-> s.expiresAt, hash |-> s.hash,
                redeemedBy |-> s.redeemedBy]
        /\ s.rows = [k \in DOMAIN s.rows |-> s.rows[k]]
    <3>1. QuoteKept(s)
      BY <1>2, <1>5 DEF WorldInv
    <3> HIDE DEF s
    <3> QED BY <3>1 DEF QuoteKept
  <2>2. written.snapshot = [s EXCEPT !.rows = Pairs(s.rows)]
    BY <1>3, <1>5
  <2> HIDE DEF s
  <2>3. written.snapshot = [total |-> s.total, cart |-> s.cart, authorization |-> s.authorization,
                            rows |-> Pairs(s.rows), observedAt |-> s.observedAt,
                            expiresAt |-> s.expiresAt, hash |-> s.hash, redeemedBy |-> s.redeemedBy]
    BY <2>1, <2>2
  <2> HIDE DEF written
  <2>4. written.snapshot # Null
    BY <2>3 DEF NullIsNoData
  <2>5. MapOf(written.snapshot.rows) = s.rows
    BY <2>1, <2>3, MapOfPairs
  <2>6. [written.snapshot EXCEPT !.rows = MapOf(written.snapshot.rows)] = s
    BY <2>1, <2>3, <2>5
  <2> QED BY <2>4, <2>6 DEF s
<1>6. written = [gate |-> ctx.gate, now |-> ctx.now, principal |-> ctx.principal,
             authorization |-> ctx.authorization, policy |-> ctx.policy, snapshot |-> written.snapshot,
             proposal |-> ctx.proposal, live |-> written.live, release |-> ctx.release, keyed |-> ctx.keyed,
             otherActive |-> ctx.otherActive, approved |-> ctx.approved,
             fingerprint |-> ctx.fingerprint, maxAttempts |-> ctx.maxAttempts]
  <2> HIDE DEF written
  <2> QED BY <1>1, <1>3
<1>7. read = [written EXCEPT
                !.live = IF written.live = Null THEN Null
                         ELSE [written.live EXCEPT !.items = MapOf(written.live.items)],
                !.snapshot = IF written.snapshot = Null THEN Null
                             ELSE [written.snapshot EXCEPT !.rows = MapOf(written.snapshot.rows)]]
  BY Zenon DEF DeserializeContext, Rewritten
<1>8. (IF written.live = Null THEN Null
       ELSE [written.live EXCEPT !.items = MapOf(written.live.items)]) = ctx.live
  <2>1. ctx.live = Null => written.live = Null
    BY <1>3
  <2> HIDE DEF written
  <2> QED BY <1>4, <2>1
<1>9. (IF written.snapshot = Null THEN Null
        ELSE [written.snapshot EXCEPT !.rows = MapOf(written.snapshot.rows)]) = ctx.snapshot
  <2>1. ctx.snapshot = Null => written.snapshot = Null
    BY <1>3
  <2> HIDE DEF written
  <2> QED BY <1>5, <2>1
<1> HIDE DEF written, read
<1>10. read = [written EXCEPT !.live = ctx.live, !.snapshot = ctx.snapshot]
  BY <1>7, <1>8, <1>9
<1>11. read = ctx
  <2>1. ctx = [k \in DOMAIN ctx |-> ctx[k]]
    <3>1. ASSUME NEW a1, NEW a2, NEW a3, NEW a4, NEW a5, NEW a6, NEW a7, NEW a8, NEW a9, NEW a10, NEW a11,
                 NEW a12, NEW a13, NEW a14, NEW r,
                 r = [gate |-> a1, now |-> a2, principal |-> a3, authorization |-> a4, policy |-> a5,
                      snapshot |-> a6, proposal |-> a7, live |-> a8, release |-> a9, keyed |-> a10,
                      otherActive |-> a11, approved |-> a12, fingerprint |-> a13, maxAttempts |-> a14]
          PROVE  r = [k \in DOMAIN r |-> r[k]]
      BY <3>1
    <3> QED BY <1>1, <3>1
  <2>2. read = [[ctx EXCEPT !.live = written.live, !.snapshot = written.snapshot]
                  EXCEPT !.live = ctx.live, !.snapshot = ctx.snapshot]
    BY <1>3, <1>10
  <2> QED BY <2>1, <2>2, Restored
<1> QED BY <1>11 DEF read, written, ctx

\* A verdict is one of three.
LEMMA VerdictIsOne ==
  ASSUME NEW ctx
  PROVE  LET decision == Evaluate(ctx)
         IN /\ decision = [verdict |-> decision.verdict, findings |-> decision.findings,
                           codes |-> decision.codes]
            /\ decision.verdict \in {"ALLOW", "PAUSE", "DENY"}
  BY DEF Evaluate, Combine

\* No reviewer raises a verdict to ALLOW.
LEMMA ReviewersOnlyRestrict ==
  ASSUME NEW ctx, NEW judgement \in Judgement \cup {Null},
         ApplyAdvisory(Evaluate(ctx), judgement).verdict = "ALLOW"
  PROVE  Evaluate(ctx).verdict = "ALLOW"
<1> DEFINE decision == Evaluate(ctx)
<1>1. /\ decision = [verdict |-> decision.verdict, findings |-> decision.findings, codes |-> decision.codes]
      /\ decision.verdict \in {"ALLOW", "PAUSE", "DENY"}
  BY VerdictIsOne
<1> HIDE DEF decision
<1>2. judgement \in {"ALIGNED", "MARGINAL", "DIVERGED", Null}
  BY DEF Judgement, Restriction
<1>3. ApplyAdvisory(decision, judgement).verdict = "ALLOW"
  BY DEF decision
<1>4. decision.verdict = "ALLOW"
  BY <1>1, <1>2, <1>3 DEF ApplyAdvisory, Restriction, Rank
<1> QED BY <1>4 DEF decision

\* So is the verdict a gate acts on.
LEMMA EffectiveIsOne ==
  ASSUME WorldInv, NEW g \in Gate
  PROVE  EffectiveDecision(g).verdict \in {"ALLOW", "PAUSE", "DENY"}
<1> DEFINE kernels == Decision(g, Owner)
<1>1. /\ kernels = [verdict |-> kernels.verdict, findings |-> kernels.findings, codes |-> kernels.codes]
      /\ kernels.verdict \in {"ALLOW", "PAUSE", "DENY"}
  BY VerdictIsOne DEF Decision
<1>2. advice \in {"ALIGNED", "MARGINAL", "DIVERGED", Null}
  BY DEF WorldInv, Judgement, Restriction
<1> HIDE DEF kernels
<1>3. ApplyAdvisory(kernels, advice).verdict \in {"ALLOW", "PAUSE", "DENY"}
  BY <1>1, <1>2 DEF ApplyAdvisory, Restriction, Rank
<1> QED BY <1>3 DEF EffectiveDecision, kernels

\* A conclusion that lets a row through is the kernel's.
LEMMA ConclusionsAreTheKernels ==
  ASSUME WorldInv, release # Null, NEW g \in Gate, NEW allowedState,
         allowedState \notin {"PAUSED", "DENIED"},
         Conclude(g, release, EffectiveDecision(g), allowedState), release'.state = allowedState
  PROVE  Decision(g, Owner).verdict = "ALLOW"
<1> DEFINE decision == EffectiveDecision(g)
<1>1. decision.verdict \in {"ALLOW", "PAUSE", "DENY"}
  BY EffectiveIsOne
<1> HIDE DEF decision
<1>2. release' = [release EXCEPT !.state =
                    [ALLOW |-> allowedState, PAUSE |-> "PAUSED", DENY |-> "DENIED"][decision.verdict]]
  BY Zenon DEF Conclude, decision
<1>3. release'.state = [ALLOW |-> allowedState, PAUSE |-> "PAUSED", DENY |-> "DENIED"][decision.verdict]
  BY <1>2 DEF WorldInv, RowKept
<1>4. decision.verdict = "ALLOW"
  BY <1>1, <1>3
<1> QED BY <1>4, ReviewersOnlyRestrict DEF decision, EffectiveDecision, Decision, WorldInv

\* A step that lets a row past a gate is one the kernel allowed.
LEMMA StepsAreTheKernels ==
  ASSUME WorldInv, WorldNext
  PROVE  \A g \in Gate :
           /\ release # Null /\ release'.state # release.state
           /\ release'.state = [ORDER_CREATION |-> "VERIFIED", CAPTURE |-> "CAPTURE_APPROVED"][g]
           => Decision(g, Owner).verdict = "ALLOW"
<1> SUFFICES ASSUME NEW g \in Gate, release # Null, release'.state # release.state,
                    release'.state = [ORDER_CREATION |-> "VERIFIED", CAPTURE |-> "CAPTURE_APPROVED"][g]
             PROVE  Decision(g, Owner).verdict = "ALLOW"
  OBVIOUS
<1>1. /\ g \in {"ORDER_CREATION", "CAPTURE"}
      /\ g = "ORDER_CREATION" => release'.state = "VERIFIED"
      /\ g = "CAPTURE" => release'.state = "CAPTURE_APPROVED"
  BY DEF Gate
<1>2. RowKept
  BY DEF WorldInv
<1>3. CASE RequestRelease
  <2>1. Conclude("ORDER_CREATION", release, EffectiveDecision("ORDER_CREATION"), "VERIFIED")
    BY <1>3 DEF RequestRelease
  <2>2. release'.state \in {"VERIFIED", "PAUSED", "DENIED"}
    <3> DEFINE decision == EffectiveDecision("ORDER_CREATION")
    <3>1. release' = [release EXCEPT !.state =
             [ALLOW |-> "VERIFIED", PAUSE |-> "PAUSED", DENY |-> "DENIED"][decision.verdict]]
      BY <2>1, Zenon DEF Conclude
    <3>2. decision.verdict \in {"ALLOW", "PAUSE", "DENY"}
      BY EffectiveIsOne DEF Gate
    <3> HIDE DEF decision
    <3> QED BY <1>2, <3>1, <3>2 DEF RowKept
  <2>3. g = "ORDER_CREATION" /\ release'.state = "VERIFIED"
    BY <1>1, <2>2
  <2> QED BY <2>1, <2>3, ConclusionsAreTheKernels
<1>4. CASE JudgeCapture
  <2>1. Conclude("CAPTURE", release, EffectiveDecision("CAPTURE"), "CAPTURE_APPROVED")
    BY <1>4 DEF JudgeCapture
  <2>2. release'.state \in {"CAPTURE_APPROVED", "PAUSED", "DENIED"}
    <3> DEFINE decision == EffectiveDecision("CAPTURE")
    <3>1. release' = [release EXCEPT !.state =
             [ALLOW |-> "CAPTURE_APPROVED", PAUSE |-> "PAUSED", DENY |-> "DENIED"][decision.verdict]]
      BY <2>1, Zenon DEF Conclude
    <3>2. decision.verdict \in {"ALLOW", "PAUSE", "DENY"}
      BY EffectiveIsOne DEF Gate
    <3> HIDE DEF decision
    <3> QED BY <1>2, <3>1, <3>2 DEF RowKept
  <2>3. g = "CAPTURE" /\ release'.state = "CAPTURE_APPROVED"
    BY <1>1, <2>2
  <2> QED BY <2>1, <2>3, ConclusionsAreTheKernels
<1>5. CASE Proceed
  BY <1>1, <1>2, <1>5 DEF Proceed, RowKept
<1>6. CASE StartCapture
  BY <1>1, <1>2, <1>6 DEF StartCapture, RowKept
<1>7. CASE Approve
  BY <1>1, <1>2, <1>7 DEF Approve, RowKept
<1>8. CASE UNCHANGED release
  BY <1>8
<1> QED BY <1>3, <1>4, <1>5, <1>6, <1>7, <1>8, Zenon DEF WorldNext, Quote, Tick, MerchantChanges,
     MandateChanges, OtherRequest, Drift

-----------------------------------------------------------------------------
(* The properties of the kernel *)

\* What the world keeps between a quote and a gate is so in every reachable state: the quote is what
\* was priced (quote-service.ts, snapshots), and the mandate's hashes are those of its creation.
THEOREM WorldInvariant == WorldSpec => []WorldInv
<1>1. WorldInit => WorldInv
  BY WorldStart
<1>2. WorldInv /\ [WorldNext]_worldVars => WorldInv'
  BY WorldStep
<1> QED BY <1>1, <1>2, PTL DEF WorldSpec

\* Whatever a gate lets through is inside the mandate as the user gave it: the seven stages and
\* combine.ts together, for any mandates, policies, catalogues and requests.
THEOREM AllowsAreWithinMandate ==
  ASSUME NullIsNoData
  PROVE  WorldSpec => []AllowIsWithinMandate
<1>1. WorldInv => AllowIsWithinMandate
  BY WithinMandate
<1> QED BY <1>1, WorldInvariant, PTL

\* When a gate would let a charge through, the merchant still sells every line of it as it was quoted
\* (stages/freshness.ts with the duplicate check of stages/structural.ts).
THEOREM LinesAreHonoured ==
  ASSUME NullIsNoData
  PROVE  WorldSpec => []LinesAreAsHonoured
<1>1. WorldInv => LinesAreAsHonoured
  BY GoodsAreHonoured
<1> QED BY <1>1, WorldInvariant, PTL

\* A charge a gate lets through keeps every rule of the policy its mandate was bound to, but a pausing
\* one whose reason an operator approved (policy/src/evaluate.ts, combine.ts's approvalCovers).
THEOREM PoliciesAreHeld ==
  ASSUME NullIsNoData
  PROVE  WorldSpec => []PolicyIsHeld
<1>1. WorldInv => PolicyIsHeld
  BY RulesHold
<1> QED BY <1>1, WorldInvariant, PTL

\* An evaluation replayed from its record gives the same decision (serialize.ts).
THEOREM ReplaysReproduce ==
  ASSUME NullIsNoData
  PROVE  WorldSpec => []ReplayReproduces
<1>1. WorldInv => ReplayReproduces
  BY RecordsReplay
<1> QED BY <1>1, WorldInvariant, PTL

\* A release is let past a gate only by the kernel, whatever the reviewer answers (advisory.ts).
THEOREM TheKernelAllows == WorldSpec => OnlyTheKernelAllows
<1> DEFINE step == \A g \in Gate :
              /\ release # Null /\ release'.state # release.state
              /\ release'.state = [ORDER_CREATION |-> "VERIFIED", CAPTURE |-> "CAPTURE_APPROVED"][g]
              => Decision(g, Owner).verdict = "ALLOW"
<1>1. WorldInv /\ [WorldNext]_worldVars => [step]_worldVars
  BY StepsAreTheKernels
<1> HIDE DEF step
<1>2. WorldSpec => [][step]_worldVars
  BY <1>1, WorldInvariant, PTL DEF WorldSpec
<1> QED BY <1>2, Zenon DEF step, OnlyTheKernelAllows
=============================================================================
