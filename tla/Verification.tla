---------------------------- MODULE Verification ----------------------------
(***************************************************************************)
(* The world the kernel judges: one mandate, one quote, one release, and   *)
(* everything that may change between the quote and each of the two gates  *)
(* while they do: the merchant's catalogue and fees, the clock, the        *)
(* mandate, the policy, the stored rows, and the operator's approvals.     *)
(*                                                                         *)
(* The provider and the rest of the release's life are ReleaseService's;   *)
(* here a verified release becomes a paid order in one step (Proceed).     *)
(***************************************************************************)
EXTENDS Verdict

CONSTANTS Mandates,     \* the intents a user may give, each with the rules it is bound to
          Catalogue,    \* sku -> the item at the start
          ItemStates,   \* what an item may become
          FeeQuotes,    \* what the merchant may quote: sequences of adjustments
          Requests,     \* what the agent may ask a quote for
          Judgements,   \* what an advisory reviewer may answer
          SnapshotTtl,  \* snapshotTtlSeconds
          MaxAttempts,  \* maxAttemptsInWindow
          MaxDrift,     \* bound on the changes after the quote
          Horizon       \* bound on the clock

VARIABLES now, auth, policy, merchant, snapshot, release, interloper, review, approved, drift, advice

worldVars == <<now, auth, policy, merchant, snapshot, release, interloper, review, approved, drift, advice>>

Owner == [user |-> "owner", session |-> "session"]
Principals == {Owner, [Owner EXCEPT !.user = "other"], [Owner EXCEPT !.session = "other"]}

\* A release of another request on the same mandate, or on the same client key.
Interlopers == {"none", "activeOnMandate", "sameKey"}

\* AuthorizationService.create: the mandate is bound to a policy by hash.
Authorize(intent, rules) ==
  [id |-> "auth", user |-> Owner.user, session |-> Owner.session, state |-> "ACTIVE",
   intent |-> intent, intentHash |-> intent, policyHash |-> rules]

WorldInit ==
  /\ now = 0 /\ drift = 0
  /\ \E m \in Mandates : auth = Authorize(m.intent, m.rules) /\ policy = m.rules
  /\ \E fees \in FeeQuotes :
       merchant = [up |-> TRUE, id |-> "shop", items |-> Catalogue, fees |-> fees]
  /\ snapshot = Null /\ release = Null /\ review = Null /\ interloper = "none"
  /\ approved = [g \in Gate |-> Null]
  /\ advice \in Judgements

-----------------------------------------------------------------------------

\* merchant.read of the lines' items
LiveRead(skus) ==
  IF ~merchant.up THEN Null
  ELSE [merchant |-> merchant.id, fees |-> merchant.fees,
        items |-> [s \in skus \cap DOMAIN merchant.items |-> merchant.items[s]]]

\* QuoteService.issue prices the request from the live catalogue.
QuotedCart(request) ==
  LET cart == [merchant |-> "shop", currency |-> auth.intent.currency,
               lines |-> [i \in DOMAIN request.lines |->
                 LET item == merchant.items[request.lines[i].sku]
                 IN [sku |-> request.lines[i].sku, quantity |-> request.lines[i].quantity,
                     unitPrice |-> item.unitPrice,
                     asserted |-> [category |-> item.category, attributes |-> item.attributes]]],
               adjustments |-> merchant.fees, declaredTotal |-> Money(auth.intent.currency, 0),
               recurring |-> request.recurring, shipTo |-> request.shipTo]
  IN [cart EXCEPT !.declaredTotal.amountMinor = ComputedTotal(cart)]

\* QuoteService.issue: the row with its hash, redeemed by nobody.
Sealed(s) == [total |-> s.total, cart |-> s.cart, authorization |-> s.authorization, rows |-> s.rows,
              observedAt |-> s.observedAt, expiresAt |-> s.expiresAt,
              hash |-> SnapshotHash(s), redeemedBy |-> Null]

Skus(lines) == {lines[i].sku : i \in DOMAIN lines}

\* What the schemas admit of an item, a fee, a line and a rule: amounts, counts and limits are numbers.
ItemAdmitted(item) == /\ item.unitPrice = Money(item.unitPrice.currency, item.unitPrice.amountMinor)
                      /\ item.unitPrice.amountMinor \in Int /\ item.stock \in Int

FeesAdmitted(fees) == /\ DOMAIN fees = 1 .. Len(fees) /\ Len(fees) \in Nat
                      /\ \A i \in DOMAIN fees : fees[i].amount.amountMinor \in Int

LinesAdmitted(lines) == /\ DOMAIN lines = 1 .. Len(lines) /\ Len(lines) \in Nat
                        /\ \A i \in DOMAIN lines : lines[i].quantity \in Nat

RuleAdmitted(rule) == /\ rule.severity \in {"DENY", "PAUSE"}
                      /\ rule.kind \in MoneyRules => rule.max.amountMinor \in Int
                      /\ rule.kind \in LimitRules => rule.limit \in Nat

IntentAdmitted(intent) == /\ intent.maxTotal \in Int
                          /\ intent.notBefore \in Int /\ intent.notAfter \in Int
                          /\ \A t \in DOMAIN intent.fees : intent.fees[t].amountMinor \in Int

ASSUME WorldAssumption ==
  /\ \A m \in Mandates : /\ IntentAdmitted(m.intent)
                         /\ \A i \in DOMAIN m.rules : Parses(m.rules[i]) => RuleAdmitted(m.rules[i])
  /\ \A s \in DOMAIN Catalogue : ItemAdmitted(Catalogue[s])
  /\ \A item \in ItemStates : ItemAdmitted(item)
  /\ \A fees \in FeeQuotes : FeesAdmitted(fees)
  /\ \A r \in Requests : LinesAdmitted(r.lines)
  /\ Judgements \subseteq Judgement \cup {Null}
  /\ SnapshotTtl \in Nat /\ MaxAttempts \in Nat /\ Horizon \in Nat

\* The quote is refused while the merchant is down or lacks an item, and throws on a foreign currency.
Quote(request) ==
  /\ snapshot = Null /\ merchant.up /\ Skus(request.lines) \subseteq DOMAIN merchant.items
  /\ LET cart == QuotedCart(request)
         unsealed == [total |-> ComputedTotal(cart), cart |-> cart, authorization |-> auth.id,
                      rows |-> [s \in Skus(request.lines) |-> merchant.items[s]],
                      observedAt |-> now,
                      expiresAt |-> now + Min({SnapshotTtl, auth.intent.maxSnapshotAge})]
     IN /\ TotalsComputable(cart)
        /\ snapshot' = Sealed(unsealed)
  /\ UNCHANGED <<now, auth, policy, merchant, release, interloper, review, approved, drift, advice>>

-----------------------------------------------------------------------------

EmptyCart ==
  [merchant |-> "unknown", currency |-> "INR", lines |-> <<>>, adjustments |-> <<>>,
   declaredTotal |-> Money("INR", 0), recurring |-> FALSE, shipTo |-> Null]

\* The release a refusal before any row is evaluated with (createDraftRelease).
Placeholder == [id |-> "placeholder", state |-> "DRAFT", attempts |-> 0, amount |-> 0]

\* Mutant of ResolveContext: live state is what the snapshot was issued with.
ResolveFromSnapshot(gate, principal, known) ==
  [gate |-> gate, now |-> now, principal |-> principal, authorization |-> auth, policy |-> policy,
   snapshot |-> snapshot, proposal |-> IF snapshot = Null THEN EmptyCart ELSE snapshot.cart,
   live |-> IF snapshot = Null THEN Null
            ELSE [merchant |-> merchant.id, fees |-> snapshot.cart.adjustments,
                  items |-> snapshot.rows],
   release |-> IF release = Null THEN Placeholder ELSE release,
   keyed |-> Null, otherActive |-> interloper = "activeOnMandate",
   approved |-> approved[gate], fingerprint |-> <<"auth", gate, principal>>,
   maxAttempts |-> MaxAttempts]

\* resolveContext: everything a gate is judged on, read when the gate is asked. The request may
\* name a mandate that does not exist.
ResolveContext(gate, principal, known) ==
  LET fingerprint == <<"auth", gate, principal>>
  IN [gate |-> gate, now |-> now, principal |-> principal,
      authorization |-> IF known THEN auth ELSE Null,
      policy |-> IF known THEN policy ELSE Null, snapshot |-> snapshot,
      proposal |-> IF snapshot = Null THEN EmptyCart ELSE snapshot.cart,
      live |-> IF snapshot = Null THEN Null ELSE LiveRead(Skus(snapshot.cart.lines)),
      release |-> IF release = Null THEN Placeholder ELSE release,
      keyed |-> IF interloper = "sameKey" THEN <<"other", gate, principal>> ELSE Null,
      otherActive |-> interloper = "activeOnMandate",
      approved |-> approved[gate],
      fingerprint |-> fingerprint,
      maxAttempts |-> MaxAttempts]

Decision(gate, principal) == Evaluate(ResolveContext(gate, principal, TRUE))

\* evaluateGate: the reviewer answers the same of the same cart; one that is not configured does
\* what one that answers ALIGNED does.
EffectiveDecision(gate) == ApplyAdvisory(Decision(gate, Owner), advice)

\* refuse: a pause opens a review of exactly this request and these reasons.
Conclude(gate, row, decision, allowedState) ==
  /\ release' = [row EXCEPT !.state =
       [ALLOW |-> allowedState, PAUSE |-> "PAUSED", DENY |-> "DENIED"][decision.verdict]]
  /\ review' = IF decision.verdict = "PAUSE"
                 THEN [boundTo |-> <<"auth", gate, Owner>>, gate |-> gate, codes |-> decision.codes,
                       findings |-> decision.findings]
                 ELSE review

\* createDraftRelease: a new row, for the quote's total.
DraftOf(quote) == [id |-> "release", state |-> "VERIFYING", attempts |-> 1, amount |-> quote.total]

RequestRelease ==
  /\ snapshot # Null
  /\ IF release = Null
       THEN /\ auth.state = "ACTIVE" /\ interloper = "none"
            /\ release' = DraftOf(snapshot) /\ UNCHANGED review
       ELSE /\ release.state = "VERIFYING"
            /\ Conclude("ORDER_CREATION", release, EffectiveDecision("ORDER_CREATION"), "VERIFIED")
  /\ UNCHANGED <<now, auth, policy, merchant, snapshot, interloper, approved, drift, advice>>

\* The order is created and paid: the snapshot is redeemed by this release.
Proceed ==
  /\ release # Null /\ release.state = "VERIFIED"
  /\ release' = [release EXCEPT !.state = "PAYMENT_AUTHORIZED"]
  /\ snapshot' = [snapshot EXCEPT !.redeemedBy = release.id]
  /\ UNCHANGED <<now, auth, policy, merchant, interloper, review, approved, drift, advice>>

StartCapture ==
  /\ release # Null /\ FSM!Declares(release.state, "CAPTURE_REQUESTED")
  /\ release.attempts <= MaxAttempts
  /\ release' = [release EXCEPT !.state = "CAPTURE_VERIFYING", !.attempts = @ + 1]
  /\ UNCHANGED <<now, auth, policy, merchant, snapshot, interloper, review, approved, drift, advice>>

JudgeCapture ==
  /\ release # Null /\ release.state = "CAPTURE_VERIFYING"
  /\ Conclude("CAPTURE", release, EffectiveDecision("CAPTURE"), "CAPTURE_APPROVED")
  /\ UNCHANGED <<now, auth, policy, merchant, snapshot, interloper, approved, drift, advice>>

\* ReviewService.resolve with APPROVED
Approve ==
  /\ review # Null /\ release.state = "PAUSED"
  /\ approved' = [approved EXCEPT ![review.gate] = review]
  /\ release' = [release EXCEPT
       !.state = IF review.gate = "ORDER_CREATION" THEN "VERIFYING" ELSE "CAPTURE_VERIFYING"]
  /\ review' = Null
  /\ UNCHANGED <<now, auth, policy, merchant, snapshot, interloper, drift, advice>>

-----------------------------------------------------------------------------
(* What changes between the quote and a gate, at most MaxDrift times.      *)

\* Nothing more is decided of a release that was refused or approved at the last gate.
Undecided == release # Null => release.state \notin FSM!Terminal \cup {"CAPTURE_APPROVED"}

Tick ==
  /\ now < Horizon /\ Undecided
  /\ now' = now + 1
  /\ UNCHANGED <<auth, policy, merchant, snapshot, release, interloper, review, approved, drift, advice>>

Drift == snapshot # Null /\ Undecided /\ drift < MaxDrift /\ drift' = drift + 1

\* The quoted items the merchant still has: no gate reads another.
Quoted == Skus(snapshot.cart.lines) \cap DOMAIN merchant.items

MerchantChanges ==
  /\ Drift
  /\ \/ \E s \in Quoted, i \in ItemStates : merchant' = [merchant EXCEPT !.items[s] = i]
     \/ \E s \in Quoted :
          merchant' = [merchant EXCEPT !.items = [t \in DOMAIN @ \ {s} |-> @[t]]]
     \/ \E fees \in FeeQuotes : merchant' = [merchant EXCEPT !.fees = fees]
     \/ merchant' = [merchant EXCEPT !.up = ~@]
  /\ UNCHANGED <<now, auth, policy, snapshot, release, interloper, review, approved, advice>>

\* The mandate is revoked, expires or is spent; a stored row is edited behind the services' back.
MandateChanges ==
  /\ Drift
  /\ \/ auth' = [auth EXCEPT !.state = "REVOKED"] /\ UNCHANGED <<policy, snapshot>>
     \/ auth' = [auth EXCEPT !.state = "CONSUMED"] /\ UNCHANGED <<policy, snapshot>>
     \/ auth' = [auth EXCEPT !.intent.maxTotal = @ + 100] /\ UNCHANGED <<policy, snapshot>>
     \/ policy' = <<>> /\ UNCHANGED <<auth, snapshot>>
     \/ snapshot' = [snapshot EXCEPT !.total = @ - 1] /\ UNCHANGED <<auth, policy>>
     \/ snapshot' = [snapshot EXCEPT !.redeemedBy = "another"] /\ UNCHANGED <<auth, policy>>
  /\ UNCHANGED <<now, merchant, release, interloper, review, approved, advice>>

OtherRequest ==
  /\ Drift /\ interloper = "none"
  /\ interloper' \in Interlopers \ {"none"}
  /\ UNCHANGED <<now, auth, policy, merchant, snapshot, release, review, approved, advice>>

WorldNext ==
  \/ \E r \in Requests : Quote(r)
  \/ RequestRelease \/ Proceed \/ StartCapture \/ JudgeCapture \/ Approve
  \/ Tick \/ MerchantChanges \/ MandateChanges \/ OtherRequest

WorldSpec == WorldInit /\ [][WorldNext]_worldVars

-----------------------------------------------------------------------------

\* A world in which the services evaluate this gate: for a row, or before refusing to make one.
Judged(gate) ==
  \/ release # Null
  \/ gate = "ORDER_CREATION" /\ (snapshot = Null \/ auth.state # "ACTIVE")

\* The requests the services would let through as the world is now.
Allowed(gate, principal, known) ==
  Judged(gate) /\ Evaluate(ResolveContext(gate, principal, known)).verdict = "ALLOW"

QuotedLines == Lines(snapshot.cart)

\* Types of the world's variables.
WorldTypeOK ==
  /\ now \in 0..Horizon /\ drift \in 0..MaxDrift
  /\ interloper \in Interlopers
  /\ release # Null => release.state \in FSM!ReleaseState /\ release.amount \in Int
  /\ DOMAIN approved = Gate
  /\ release # Null => snapshot # Null

\* Whatever a gate lets through is inside the mandate as the user gave it, whoever asks, whatever
\* became of the stored rows, and by what the merchant says of the goods now (the seven stages and
\* combine.ts together).
AllowIsWithinMandate ==
  \A g \in Gate, p \in Principals, known \in BOOLEAN :
    Allowed(g, p, known) =>
      LET mandate == auth.intentHash
      IN /\ known /\ release # Null /\ p = Owner
         /\ auth.state = "ACTIVE" /\ now \in mandate.notBefore..mandate.notAfter
         /\ interloper = "none" /\ snapshot.redeemedBy \in {Null, release.id}
         /\ release.amount \in 0..mandate.maxTotal
         /\ release.amount = ComputedTotal(snapshot.cart)
         /\ \A t \in DOMAIN mandate.fees : FeeFor(snapshot.cart, t) <= mandate.fees[t].amountMinor
         /\ mandate.recurrence = "ONE_TIME_ONLY" => ~snapshot.cart.recurring
         /\ \A line \in QuotedLines :
              /\ line.quantity \in mandate.quantity
              /\ merchant.items[line.sku].category \notin mandate.forbiddenCategories
              /\ \A q \in mandate.requiredAttributes : Satisfies(merchant.items[line.sku].attributes, q)

\* When a gate would let a charge through, the merchant still sells every line of it: at that price,
\* from stock that covers the whole cart, and as the goods that were quoted (stages/freshness.ts).
LinesAreAsHonoured ==
  \A g \in Gate :
    Allowed(g, Owner, TRUE) =>
      /\ merchant.up
      /\ \A line \in QuotedLines :
           /\ line.sku \in DOMAIN merchant.items
           /\ LET item == merchant.items[line.sku]
                  quoted == snapshot.rows[line.sku]
                  cart == snapshot.cart
                  wanted == SumOf([i \in DOMAIN cart.lines |-> cart.lines[i].quantity],
                                  {i \in DOMAIN cart.lines : cart.lines[i].sku = line.sku})
              IN /\ item.unitPrice = line.unitPrice /\ item.available /\ item.stock >= wanted
                 /\ item.category = quoted.category /\ item.attributes = quoted.attributes

\* The rule holds of the charge, by the amount charged and the goods as the merchant has them now.
Upheld(rule) ==
  LET cart == snapshot.cart
      Goods(line) == merchant.items[line.sku]
      Within(amount) == rule.max.currency = cart.currency /\ amount <= rule.max.amountMinor
  IN CASE rule.kind = "MAX_TOTAL" -> Within(release.amount)
       [] rule.kind = "MAX_UNIT_PRICE" ->
            \A line \in QuotedLines : Within(Goods(line).unitPrice.amountMinor)
       [] rule.kind = "MAX_QUANTITY_PER_ITEM" -> \A line \in QuotedLines : line.quantity <= rule.limit
       [] rule.kind = "MAX_LINE_ITEMS" -> Cardinality(Skus(cart.lines)) <= rule.limit
       [] rule.kind = "ALLOWED_CURRENCIES" -> cart.currency \in rule.set
       [] rule.kind = "MERCHANT_ALLOWLIST" -> merchant.id \in rule.set
       [] rule.kind = "MERCHANT_DENYLIST" -> merchant.id \notin rule.set
       [] rule.kind = "MAX_FEE" -> Within(FeeByType(cart, rule.type))
       [] rule.kind = "MAX_FEE_RATIO_BPS" ->
            10000 * FeeByType(cart, rule.type) <= rule.limit * ItemSubtotal(cart)
       [] rule.kind = "MAX_TOTAL_FEES" -> Within(FeeTotal(cart))
       [] rule.kind = "PROHIBITED_CATEGORIES" ->
            \A line \in QuotedLines : Goods(line).category \notin rule.set
       [] rule.kind = "ALLOWED_CATEGORIES" -> \A line \in QuotedLines : Goods(line).category \in rule.set
       [] rule.kind = "REQUIRE_ATTRIBUTES" ->
            \A line \in QuotedLines, q \in rule.set : Satisfies(Goods(line).attributes, q)
       [] rule.kind = "FORBID_SUBSCRIPTION" -> ~cart.recurring
       [] rule.kind = "MAX_SNAPSHOT_AGE_SECONDS" -> now - snapshot.observedAt <= rule.limit
       [] OTHER -> FALSE

\* A rule of the policy the mandate was bound to is broken by a charge a gate lets through only when
\* it is a pausing rule and an operator approved its reason for this gate; a rule that cannot be
\* read or applied counts as broken (evaluate.ts, approvalCovers).
PolicyIsHeld ==
  \A g \in Gate :
    Allowed(g, Owner, TRUE) =>
      \A i \in DOMAIN auth.policyHash :
        LET rule == auth.policyHash[i]
        IN Upheld(rule) \/ /\ Parses(rule) /\ rule.severity = "PAUSE"
                           /\ approved[g] # Null /\ CodeOf(rule) \in approved[g].codes

\* An evaluation replayed from its record gives the same decision (serialize.ts).
ReplayReproduces ==
  \A g \in Gate :
    Judged(g) =>
      LET ctx == ResolveContext(g, Owner, TRUE)
      IN Evaluate(DeserializeContext(SerializeContext(ctx))) = Evaluate(ctx)

\* A release is let past a gate only by the kernel, never by the reviewer (advisory.ts).
OnlyTheKernelAllows ==
  [][\A g \in Gate :
       /\ release # Null /\ release'.state # release.state
       /\ release'.state = [ORDER_CREATION |-> "VERIFIED", CAPTURE |-> "CAPTURE_APPROVED"][g]
       => Decision(g, Owner).verdict = "ALLOW"]_worldVars

\* The amount a gate lets through is what the merchant would ask for these lines now.
ChargeIsWhatTheMerchantAsks ==
  \A g \in Gate :
    Allowed(g, Owner, TRUE) =>
      LET asked == [snapshot.cart EXCEPT !.adjustments = merchant.fees]
      IN AdjustmentCurrenciesAgree(asked) /\ release.amount = ComputedTotal(asked)

\* Every finding an approval lifts is one the operator was shown.
ApprovedFindingsWereSeen ==
  \A g \in Gate :
    Allowed(g, Owner, TRUE) =>
      LET pausing == Pausing(Decision(g, Owner).findings)
      IN pausing # {} => pausing \subseteq approved[g].findings

\* A release approved for everything it was paused for is not paused for it again.
ApprovedPauseProceeds ==
  [][release # Null /\ release.state # "PAUSED" /\ release'.state = "PAUSED"
       => LET approval == approved[review'.gate]
          IN approval # Null => ~(review'.codes \subseteq approval.codes)]_worldVars

=============================================================================
