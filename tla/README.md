# TrueIntent in TLA+

TrueIntent lets an autonomous agent ask for a payment and decides, outside the
agent, whether the money may move. A *mandate* (authorization) issued by a human
funds one purchase. The agent asks twice: at the order gate, which creates an
order at the payment provider, and at the capture gate, which captures the
payment made against it. Between the two the payer pays, webhooks arrive,
operators approve or reject what was paused, and two sweeps clean up after
whatever died half way.

Everything the code promises hangs on a row of the table `releases` that moves by
compare-and-set only, and on writing the intention to call the provider before
calling it. This directory models that protocol as the code runs it, one step per
statement or transaction, checks it on small instances, and proves the central
parts for all instances.

## 1. Inventory

| Component | State | Operations | Interacts with |
| --- | --- | --- | --- |
| Release state machine (`release-fsm.ts`, `domain/release.ts`) | none | `nextState`, `sourceStatesFor` | every service that moves a release |
| Rows and indexes (`persistence/src/postgres`) | releases, mandates, snapshots, evaluations, reviews, inbox, sessions, purchases | `insert`, `transition`, list queries | all services |
| In-memory persistence (`persistence/src/memory`) | maps and two hand-kept indexes | the same calls | offline tests, demo |
| Release service (`release-service.ts`) | locals of a request | `requestOrderCreation`, `requestCapture` | rows, kernel, guarded executor |
| Grant, guarded executor (`grant.ts`, `payment-executor.ts`) | consumed grants | `mintGrant`, `createOrder`, `capturePayment` | release service, provider |
| Reconciliation (`reconciliation-service.ts`, `sweepers.ts`) | none | `sweep`, `sweepAbandoned`, `reconcileById` | rows, the provider's reader |
| Webhooks (`webhook-service.ts`, `webhook-inbox.ts`) | inbox | `ingest` | rows |
| Reviews (`review-service.ts`) | `review_requests` | `resolve` | rows |
| Authorization and quote services | mandates, snapshots | `create`, `revoke`, `createQuote` | rows, catalogue |
| Payment provider, its double, its HTTP adapter (`razorpay/*.ts`) | orders, payments, index | `createOrder`, `capturePayment`, `findOrderByReceipt`, `getPayment` | executor, reader |
| Kernel: pipeline, seven stages, `combine`, reviewer (`advisory.ts`) | none | `evaluate`, `applyAdvisory` | release service |
| Policy engine (`packages/policy`) | versioned documents | `evaluatePolicy` | the policy stage |
| Commerce sessions (`commerce-session-service.ts`) | session budget, holds, purchases | `requestPurchase`, `requestCapture`, `revoke`, sweep of holds | release service |
| HTTP idempotency | claimed keys and stored answers | `claim`, `complete`, `abandon`, `forget` | routes |
| Evidence chain (`packages/evidence`, `evidence-ledger.ts`) | hash-chained, signed envelopes | `append`, `verifyChain` | every service |
| Buyer agent runtime (`packages/agent`) | draft cart, history, limits | `run` | catalogue, model, sessions |
| Web console (`apps/web`) | what a page shows and has sent | the buyer's page, the operator's page | HTTP routes |
| Core algorithms | none | money, attributes, canonical JSON, ids | all |
| API server, evaluation harness, scripts | none of their own | routes, scenarios | all |

### What is hard about it

* **Interleaving.** Requests at either gate, repeated by the client or started on
  several API instances, run between each other's transactions. So do sweeps,
  operators and webhooks, purchase requests of one session, and transactions that
  append to one evidence chain.
* **Crashes.** A process may die between any two statements: before a call that
  was committed, after a call that was made, after an inbox claim, between the two
  halves of a review's resolution, between a hold and its row, with a key claimed.
* **The provider.** A call may be lost, applied with its answer lost, or be slow;
  an order is invisible to the lookup for some seconds; one status stands for
  several meanings told apart by prose; events come late, in any order, more than
  once or never, and of several payments.
* **Timing.** The age at which a sweep asks, the window of the lookup and the
  expiry of a grant are independent settings, and correctness depends on their order.
* **What changes between two reads.** The merchant, the mandate, the policy and the
  stored rows may all change between a quote, the first gate and the second; the
  agent and both pages act on what they read a moment ago.
* **Long legal sequences.** Pause, approve, pause at the other gate, approve again,
  retry: which gate a release resumes at is inferred from its order id.

### What makes each component correct

* Release service: a call per gate at most once per release; nothing captured that
  both gates did not allow and record.
* Reconciliation: it reports the provider's truth and nothing else; nothing stays
  undecided; a release aborted as abandoned was never charged; no row is held up by
  one that can be resolved.
* Webhooks: a late or repeated event never drags a release back, and an event of one
  payment never ends a release that charged another.
* Reviews: an approval resumes the gate that paused; a pause can always be resolved.
* Mandates: one active release; one charge.
* Kernel and policy: what a gate lets through is inside the mandate and the policy
  by what the merchant says now; an evaluation can be replayed from its record.
* Sessions: holds never exceed the budget, each is resolved once and only for what
  happened, and a repeated request makes one purchase.
* HTTP idempotency: one request at a time per key, and each its own answer.
* Evidence: one unbroken chain under concurrent appends; a decision is recorded
  exactly when it is committed; a change of any past envelope is detected.
* Agent: whatever the model proposes, each line was checked at the quantity it has.
* Adapter: what it states as a fact is one, and everything else is uncertainty.
* Pages: nothing is said of money that the record does not say.
* Memory store: it answers as the database may.

## 2. Modules

### The protocol of a release

```
ReleaseFSM        the states and the transition table
  ReleaseStore    the shared rows, the compare-and-set, the clocks, revoke
    PaymentProvider   calls in transit, orders, payments, the payer
      ReleaseService    the two gates
        Reconciliation    sweeps and operator requests
          WebhookService    the inbox and the event handler
            ReviewService     resolution of pauses
              TrueIntent        all actors and the clock; the properties
                MCTrueIntent        instances for TLC
                TrueIntent_proofs   theorems on states and calls
                  TrueIntentCharge_proofs   theorems on money, mandates and orders
```

The chain of EXTENDS is the chain of who reads whose state. An action of a
component names what it leaves alone among the variables known so far, and
`TrueIntent` adds the rest.

| Module | Variables and what they stand for | Actions |
| --- | --- | --- |
| `ReleaseStore` | `state`, `orderId`, `paymentId`, `attempts`, `age` are columns of `releases`; `authorization` is `authorizations.state`; `openReview` and `approved` are `review_requests`; `evidence` is what the chain says of a release | `Revoke`; the helpers `MoveTo`, `MoveAsOf`, `Touch`, `CountAttempt`, `LeaveActive` that every other action writes rows with |
| `PaymentProvider` | `wire` are calls in transit, `reply` what a caller will read, `order` and `payment` the provider's side, `called` a history of calls that left; `pc`, `gate`, `on` say which request the call is for | `ApplyOrder`, `ApplyCapture`, `LoseCall`, `TimeOut`, `IndexOrder`, `Pay` |
| `ReleaseService` | `pc` is the statement a request stands at; `found`, `verdict`, `sameAnswer`, `overLimit`, `elapsed` are its locals | `StartOrder`, `BeginVerification`, `StartCapture` (tx A), `Evaluate`, `Refuse`, `LostCapture`, `CommitOrder`, `CommitCapture` (tx B), `Call`, `RecordOutcome` (tx C), `CrashRequest` |
| `Reconciliation` | `job`, `target`, `seen`, `answer` are a worker's locals | `PickStuck`, `PickById`, `AskForOrder`, `AskForPayment`, `Apply`, `Spend`, `PickAbandoned`, `Abandon`, `CrashWorker` |
| `WebhookService` | `inbox` is the row of an event id; `read` is the state its handler read | `ReceiveEvent`, `ApplyEvent`, `CrashEvent` |
| `ReviewService` | `resolving` is a resolution between its two statements | `ResolveReview`, `ApplyResolution`, `CrashReview` |
| `TrueIntent` | none | the six steps that compose the above, and `Tick` |

### The rest of the system

```
SessionBudget                the abstract budget       Cart            money, attributes, totals
  CommerceSession  ..implements it                       PolicyEngine    rules and violations
    MCCommerce, CommerceSession_proofs                     Stages          the seven stages
                                                             Verdict         combine, reviewer, record
StoreRows   tables, rows, orders                               Verification    the world they judge
  SqlStore      what the SQL answers                              MCVerification
  MemoryStore   ..implements it
    MCStores

HttpIdempotency  EvidenceChain  AgentRuntime  BuyerScreen  GuardedExecutor
SweepQueue  PaymentEvents  OperatorConsole  RazorpayClient
  MCPlatform        one of the nine to a behaviour
  Clients_proofs      HttpIdempotency, AgentRuntime, BuyerScreen, OperatorConsole
  Provider_proofs     GuardedExecutor, PaymentEvents, RazorpayClient
  Persistence_proofs  EvidenceChain, MemoryStore
  Verification_proofs
FiniteSums            sums over finite sets, for the proofs of the sessions and of the carts
```

| Module | Variables and what they stand for | Actions |
| --- | --- | --- |
| `SessionBudget` | `counted`, `hold` per purchase; `reserved`, `spent` of the session | `Hold`, `Settle`, `Free` |
| `CommerceSession` | `row`, `hold`, `reserved`, `spent` are columns; `at`, `capturing`, `sweep`, `owed` are where each caller stands between its statements; `release` is a release as the session service sees it | `Open` (mandate and quote), `Reserve`, `Record`, `OrderGate`, `Resolve`, `Count` (the second statement of a settlement), `Fail`, `Die`, `StartCapture`, `EndCapture`, `SweepRead`, `SweepAct`, `Expire`, `Revoke`, `ReleaseMoves` |
| `Cart`, `PolicyEngine`, `Stages`, `Verdict` | none: operators | `Authority`, `Intent`, `Policy`, ... from a context to findings; `Combine`, `ApplyAdvisory`, `SerializeContext` |
| `Verification` | `auth`, `policy`, `merchant`, `snapshot`, `release`, `review`, `approved`, the clock and who else holds the key or the slot | `Quote`, `RequestRelease`, `Proceed`, `StartCapture`, `JudgeCapture`, `Approve`, and the changes of the world |
| `SqlStore` | `db` are the rows of one table and the session; `open`, `failed` the transaction; `asked`, `answer` the last call | one per repository call, `Begin`, `Commit`, `Rollback` |
| `MemoryStore` | `shelf` are the maps in insertion order with `byKey` and `byReceipt`; `saved` the copies | the same calls, as the maps do them |
| `HttpIdempotency` | `record` is `idempotency_records`; `call`, `answer` the requests; `review`, `forgetting` the operator's resolution | `Claim`, `Explain`, `Decide`, `Complete`, `Fail`, `Crash`, `Overrule`, `Forget`, `ForgetLost` |
| `EvidenceChain` | `chain` are the committed envelopes; `done`, `found`, `pending`, `ended` the transactions | `TakeLock`, `TakeRow`, `ReadHead`, `Insert`, `Commit`, `Break`, `BreakDeadlock` |
| `AgentRuntime` | the draft, what the model was shown and remembers, steps left, the merchant's offer | one turn per action of the model |
| `GuardedExecutor` | `held` grants, `consumed` nonces, the clock | `Mint`, `Present`, `Discard`, `Tick` |
| `SweepQueue` | rows that wait, ticks under way and the batch of each | `Come`, `Fire`, `Work`, `NextSweep` |
| `PaymentEvents` | `row`, `bound` are the release; `status` the payments; `claimed`, `reading` the events | `Attempt`, `Capture`, `Receive`, `Apply` |
| `RazorpayClient` | `rzCall` each call, what was said of it, its outcome; `rzWire`, `rzApplied`, `rzPaid` the provider | `Send`, `Interpret`, `Follow`; `CarryOut`, `Object`, `Lose`, `Lapse` |
| `BuyerScreen` | `at`, `wire`, `claims`, `timeline` are the page; the rest what the server did | one per request served, lost or answered, and per step of the page |
| `OperatorConsole` | `route`, `view`, `wanted`, `calls`, `armed` are the page; `revision` the releases | `Navigate`, `Refresh`, `Serve`, `Arrive`, `Arm`, `Confirm`, `Change` |

### Abstractions

* A release is the triple (authorization, snapshot, client key). The receipt is
  derived from the first two and unique, so each triple has at most one row, its
  snapshot cannot be claimed by another. `DUPLICATE_RECEIPT` is in `RazorpayClient`.
* Whatever the stages find in the cart, the snapshot, the policy or the merchant's
  live state is a free choice in `ReleaseService!Evaluate`, and is worked out in
  `Stages`; there the findings that depend on protocol state (mandate, slot, key,
  attempts) are computed. A request by a principal other
  than the owner is one of the free denials.
* Of the pausing findings there are two: a policy rule and the attempt limit. They
  are kept apart because an approval covers the codes it names and no others.
* Time passes in units of 30 s, the greatest common unit of the default windows
  (30, 60, 60, 120). A call's timeout (10 s) and the lookup's lag (about 8 s) are
  shorter, so `Tick` waits for calls in transit and for the index. A request stamps
  `updated_at` with a time it read earlier, so `MoveAsOf` and `Touch` may set the age
  of a row to more than 0; the time between that first read and the commit of the
  DRAFT row is not counted.
* A request reads the mandate before it inserts its row, and may have read `ACTIVE`
  of one that has been spent or revoked since: `StartNewOrder` may insert on any
  mandate, and the kernel's own read at the gate is what denies it.
* In the protocol a payer makes one payment per order and there are no refunds;
  `PaymentEvents` has several payments, `RazorpayClient` refunds and voids. An event
  names its payment, amount and order: that the webhook handler tolerates one that
  does not is left out, as is a snapshot claimed by another release.
* A request is made once; a client's retry is another element of `Request`.
* A Postgres transaction is one step. Statements outside one are steps of their own.
* `called`, and `gate` and `on` after a request has ended, are history only.
* A hash is the value it commits to, a signature the hash it signs, a catalogue
  version the catalogue: two agree exactly when what they stand for does.
* `CommerceSession` sees a release as open, captured, settled or ended, and lets it
  move by any transition of `ReleaseFSM`; the sweep may look at a row at any age,
  since how long a request takes is not bounded. A purchase under way is not stopped
  by `expires_at`, which is compared with the moment it began; it is by `Revoke`.
* `EvidenceChain` runs at READ COMMITTED: a transaction reads what is committed and
  what it wrote; locks are held to its end; the database breaks a deadlock.
* A behaviour of the two stores exercises one table, since no call but those on a
  purchase and its session touches two.
* `Verification` makes a verified release a paid order in one step; what happens in
  between is `ReleaseService`'s.
* `BuyerScreen` takes a gate and the provider call behind it as one step, and lets
  the answer be lost after it.

## 3. Runs

| Run | Instance | Shows |
| --- | --- | --- |
| `race` | 1 release, 3 requests, 1 worker, default windows, an operator who reconciles at any age, a provider that may not answer questions, every handler may die | `TypeOK`, `CalledOnce`, `CallInv`, `ChargeIsDecidedTwice`, `ReportedIsCharged`, `AbandonedIsNeverCharged`, `CaptureHasPayment`, `TerminalIsFinal` hold whatever the timing |
| `lookup` | the same with an operator who reconciles at any age, `GrantTtl < LookupWindow`, and a provider that answers | `OrderIsNotDisowned` |
| `mandate` | 2 releases of 1 mandate, 4 requests, no worker | `OneActiveRelease`, `OneChargePerMandate` |
| `live` | 1 release, 2 requests and events that may die, 2 workers, `GrantTtl < ReconcileAfter` | `InFlightIsResolved`, `StrandedIsFreed` under `FairSpec`; `ChargeIsRecorded`, `PausedIsActionable` |
| `commerce` | 3 purchase requests, two under one key, a price of 2 and a budget of 5, with and without a scheduled sweep of holds, crashes anywhere | `MoneyIsWithinBudget`, `SpendHasMoved`, `OnePurchasePerKey`, and the refinement `BudgetKept` |
| `verification` | 5 mandates with their policies, 4 carts, 3 fee quotes, 7 ways an item may change, one change after the quote, both gates, an approval each | `AllowIsWithinMandate`, `LinesAreAsHonoured`, `PolicyIsHeld`, `ReplayReproduces`, `OnlyTheKernelAllows` |
| `stores` | 7 tables, 2 rows each, 2 moments, lists of 1, 4 writes, one transaction at a time | `IndexesAgree`, and the refinement `Parity` |
| `platform` | nine components, one to a behaviour | see below |
| `defaults`, `swept`, `retry`, `screen` | the runs above with one constant or property changed | each finds one counterexample, see section 5 |

`platform` is one run of nine small state spaces: the variable `part` says which
component moves. They share no state, so their product would show nothing more.

| Part | Instance | Shows |
| --- | --- | --- |
| `http` | 1 key, a request, its repeat, and another body under the key; an operator, failures and crashes | `ClaimIsExclusive`, `AnswerIsOwn` |
| `chain` | 4 transactions: two decisions, an outcome of the same release, and a single append; any may fail | `AppendsNeverCollide`, `RecordedIffCommitted`, `DefectsMeanDamage`, `TransactionsDoEnd` |
| `agent` | 3 SKUs, 2 catalogues, one change of the merchant, 6 steps, a free model and the planner | `LinesWereChecked`, `PlannerDecides` |
| `screen` | one purchase, both scenarios, any answer lost | `ChargedIsTrue` |
| `executor` | 2 releases, 2 holders, 4 moments, grants of 1 | `GrantRunsOnce` |
| `queue` | 3 rows of any of four kinds, a limit of 1, 2 overlapping ticks | `RowsAreServed` |
| `events` | 3 payments on an order, one of another amount | `EndsByItsOwnPayment` |
| `console` | 2 releases of 2 versions, 3 loads | `ShownNeverGoesBack` |
| `razorpay` | 2 calls, each the order or a capture of either of 2 payments | `OutcomesAreFacts` |

Deadlock is not checked: when all requests are used and everything has ended, a
model stops, as the system may when nobody asks it for anything. Requests are
symmetric in `race`, `lookup` and `mandate`; the two purchases under one key are in
`commerce`, where the refinement is a safety property; no run with a liveness
property declares symmetry. Two runs compare states by what can still matter.
`mandate` leaves out what nothing reads there (`MCRead`: ages, evidence, the calls that
have left, and what a finished request was about). `stores` leaves out the last question
and its answer (`MCView`): nothing that follows reads them, and a step is compared with
the database's whenever it is generated.

### Why the bounds are enough

Three requests let an order request, a capture request and a third that repeats
either of them be in any of their steps at once; with reviews, which cost no
request, they also let a release pause, be approved and be retried. `MaxAttempts`
is at most the number of requests, so the attempt limit is reached. `Horizon`
exceeds every window by design or equals the largest, and no guard tells greater
ages apart. Four requests in `mandate` take two releases through both gates; the
limits of time are as small as they can be there, because no worker reads them.
Two workers in `live` can overlap on one row.

`mandate` has no worker for a reason beyond size: with one, the window between a
sweep's record of a capture and its `Spend` lets the mandate be spent again.
`live` keeps the review handler alive because its death is what `MCReviewCrash.cfg`
is about. `ReadsMayFail` is on in `race` and off in `lookup`, where an unanswered
question ends an order (`MCUnreachable.cfg`).

In `commerce` two requests of one key and one of another make every pair of callers
that the service can confuse; the budget fits two holds and refuses a third, so it
is reached. `verification` has a mandate per rule of combination that matters: a
denying and two pausing rules, an age, a fee ratio, another currency, a policy with
a rule of every other kind under a mandate that ends before its quote, and a rule
the build cannot read; one change after the quote suffices because each stage
compares one thing with its counterpart. Two rows and two moments in `stores` give every
uniqueness rule, every tie and every limit of one row a case to fail in. The chain
needs a second decision of another release so that a lock is waited for by a
transaction that is not part of a deadlock. Three rows and a limit of one put a row
behind a stubborn one and behind one that throws. Four moments let a grant expire
and its nonce be forgotten while another is held.

### Fairness

`FairSpec` asks for what the deployment schedules and no more: the clock ticks;
calls in transit arrive or are lost and the index catches up, which the client's
timeout and the provider's lag bound; a worker that has begun a job goes on; and a
sweep takes every row its query keeps finding (strong fairness per row, because
between two picks the worker is busy). Requests, operators, payers and webhooks get
none: clients may go away and operators may never look. `live` lets requests die but
not workers, since a sweep that throws is retried on the next tick, and it has the
provider answer, since about a capture the code rightly waits until it does.

That strong fairness per row assumes that a sweep reaches the row. `SweepQueue` is
where the assumption is looked at: under weak fairness of the timer and of a tick's
own steps, `RowsAreServed` holds of a row with fewer stubborn rows before it than
the limit and none that throws. `EvidenceChain` asks for weak fairness of each
transaction's steps and of the database's deadlock detection; no transaction has to
succeed for `TransactionsDoEnd`, only to end.

## 4. Proofs

Every theorem holds for every value of the constants that the named `ASSUME`s of the
modules allow: any sets of releases, mandates, requests, workers, purchases,
transactions and keys, and any windows, prices, catalogues and policies. A hypothesis
beyond those is part of the theorem's statement and is listed under "needs". 35 of
the 40 properties that the passing runs check are proved.

### The protocol: `TrueIntent_proofs`, `TrueIntentCharge_proofs`

| Theorem | Statement | Needs |
| --- | --- | --- |
| `TypeCorrect` | `Spec => []TypeOK` | |
| `TerminalStays` | `Spec => TerminalIsFinal` | |
| `CallInvariant`, `CalledAtMostOnce` | `[]CallInv`, `[]CalledOnce` | |
| `MoneyInvariant` | `[]MoneyInv` | |
| `DecidedTwice`, `ReportedMeansCharged` | `[]ChargeIsDecidedTwice`, `[]ReportedIsCharged` | |
| `AbandonedUncharged`, `CaptureNeedsPayment` | `[]AbandonedIsNeverCharged`, `[]CaptureHasPayment` | |
| `OneActive` | `[]OneActiveRelease` | |
| `PausedHasReview` | `[]PausedIsActionable` | the process of a reviewer does not die between its two statements (`"review" \notin MayCrash`) |
| `ChargesAreRecorded` | `[]ChargeIsRecorded` | no workers, or sweeps that wait longer than a grant lasts and operators who do not ask earlier |
| `MandateChargedOnce` | `[]OneChargePerMandate` | no workers |
| `OrdersAreNotDisowned` | `[]OrderIsNotDisowned` | a lookup that answers, and `GrantTtl < LookupWindow` |

The four hypotheses are those of the runs that check the properties, and each is
needed: `MCReviewCrash.cfg`, the run `defaults`, `MCSpend.cfg` and `MCUnreachable.cfg`
violate the four properties without them (section 5). The default windows
satisfy the last one and not the second.

`CalledOnce` is not inductive: that no second request calls for a release rests on
the release never standing again before a call that was committed. `CallInv` says
so, and says what keeps it true:

* `PastItsCalls`: while a request holds the order call (it has committed to it, or
  has made it) its release is in none of the states before the order; while a
  request holds the capture call its release is in a state after it.
* The one way back is an approval of a pause, which re-runs a gate chosen by the
  order id. So `PastItsCalls` also says that a release paused after its order call
  has its order id, and this needs `OrderIsKnown`: the id is recorded in every state
  the release reaches only with an order.
* `Remembered`: what a sweep or an event handler remembers of a row it read earlier
  is a state its compare-and-set may start from, so its write follows the table.
* `OneHolder`: the property itself, stretched to requests that have committed.

`TrueIntent_proofs` first shows what a step may do to a release (`Moves`: it stays,
or goes along a rule of the table), then that every move keeps each part, one step
per action. `TerminalStays` uses the same lemma. TLC checks `CallInv` in the run `race`.

`MoneyInv` adds the money to it, in four parts: `ProviderInv` (who waits for an
answer made the call, and was told the truth), `RowInv` (what a state says of the
row's order, payment and evidence), `ChargeInv` (a capture has a call behind it, a
call both decisions, and a state that says "moved" a capture) and `Aimed` (a worker at
work has a release). `StepKept` collects, action by action, what a step
may do to rows, evidence, the wire, payments and calls, so that each part is kept by
a short argument over those summaries and not over the actions again.

The three theorems with a hypothesis on time share `TimingInv`: a request that may
still call is at least as old as the in-flight state it committed to, so once that
state is older than a grant nobody can call any more. `RecordInv` builds on it that a
sweep which has asked has asked about a capture that is over, `DisownInv` the same of
an order and its lookup, with `OrderInv` for the index that lags behind the order.
`MandateInv` is what makes one charge per mandate inductive: when one release of a
mandate is captured, no other is captured, and another that is active is hopeless. A
captured release keeps the slot until it settles, and a mandate whose release says
that the money moved is spent. What may still start on a spent mandate is a request
that read it before, and `Hopeless` says how far it gets: its row is one from before
the order call and no request has a verdict on it other than DENY, since the kernel
reads the mandate again at the gate.

### The rest

| Module | Theorems | What carries them |
| --- | --- | --- |
| `CommerceSession_proofs` | `BudgetIsBounded`, `BudgetIsKept` (the refinement of `SessionBudget`), `KeyMakesOnePurchase`, `SpendIsMoved`, `MovedMoneyIsCovered` | `BudgetInv`: where a request stands, its row, what the counters include of it and what is owed to them agree. The first statement of a resolution wins or loses the row; only the winner owes the second. Every other step is a stutter of the budget, so the bound is proved of the abstract step alone. `SpendIsMoved` adds that a release whose money moved never loses that class. `MovedMoneyIsCovered` adds `CountersInv` (the counters are the sum of the prices they include) and `RowInv` (without the sweep, a hold is given back only for a release that ended unpaid). |
| `Verification_proofs` | `WorldInvariant`, `AllowsAreWithinMandate`, `LinesAreHonoured`, `PoliciesAreHeld`, `ReplaysReproduce`, `TheKernelAllows` | A gate reads the world once, so a verdict's meaning is that of its stages: one lemma per stage says what its completing without a denial shows, `AllowMeansClean` that `combine` asks it of all seven, one lemma per kind of rule what its silence shows. `WorldInv` supplies what the stages do not look at again: the quote is still what was priced, the draft is the quote's, the mandate's hashes are those of its creation. |
| `Persistence_proofs` | `TxInvariant`, `LockKeepsApart`, `RecordsAreCommits`, `HonestChain`, `DefectsAreDamage`; `IndexesAreKept` | `TxInv`: the lock has one holder, the head a transaction read is still the head while it holds the lock, and every committed envelope is sealed over the one before it. `DefectsAreDamage` goes through each kind of damage and names the defect it shows, for a chain of any length; sorting by `Place` is shown to be the identity on a chain in order. For the memory store `StoreInv`: both the maps and the copies a rollback restores are keyed by their rows. |
| `Clients_proofs` | `ClaimsAreExclusive`, `AnswersAreOwn`, `ReplaysAreStable` | `HoldsRecord`: a request that works under a key of which nothing was deleted holds its record in flight. Hence a second insert loses, and the read after it finds a record. |
| | `CartLinesChecked`, `PlannerEndsItself` | `PlannerPaces`: each turn after the search looks up one more preferred SKU or proposes one more SKU, and neither set ever shrinks, so two finite sets bound the turns. |
| | `ChargedMeansMoved` | `ScreenInv`: the release says that money moved only when it did, and an account on its way to the page was true when it was read; money that moved does not move back. |
| | `ShownOnlyForward` | `ConsoleInv`: the one load that may repaint began after the page was painted, so it read nothing older. |
| `Provider_proofs` | `GrantsRunOnce`, for a clock that is never set back | `Remembered`: a nonce that was used is still among the burned ones, or its grant has expired. |
| | `EndsByOwnPayment` | `Reads`: an event between its read and its update is of the payment the row was bound to when it was read, and the compare-and-set on the state makes that still so. |
| | `OutcomesAreTrue` | `SaidIsTrue`: what the provider said of a call is its last word on it, so a fact read from it stays one. |
| `FiniteSums` | lemmas only | What a sum over a finite set is: empty, one more, one less, a part, equal summands. The counters of a session and the totals of a cart rest on them. |

What these assume of the constants, and why the code justifies it:

* `WorldAssumption`: amounts, counts, limits and times are numbers, fees and lines
  are lists, and a rule that parses has a severity and a numeric limit. This is what
  the schemas of `rules.ts`, `intent.ts`, `cart.ts` and `money.ts` admit; a rule that
  does not parse is unrestricted. `AllowsAreWithinMandate`, `LinesAreHonoured`,
  `PoliciesAreHeld` and `ReplaysReproduce` also need `NullIsNoData`: the absent value
  is not a finding, a live state or a snapshot, as `null` is not an object.
* `StoreAssumption` (`StoreRows`): identifiers are positive numbers, and 0 marks an
  empty column or an index without an entry, as `null` and `undefined` do in the code.
* `TxAssumption`: a chain has finitely many transactions, and what a forger writes is
  not one of their bodies.
* `SessionAssumption`, `AgentAssumption`, `ConsoleAssumption`: budgets, prices, steps
  and versions are naturals, there are finitely many SKUs, and "not offered" is
  not a product.

### Model-checked only

* Progress under fairness (`InFlightIsResolved`, `StrandedIsFreed`, `RowsAreServed`,
  `TransactionsDoEnd`) is out of the prover's reach. So is `MCStores`'s `Parity`: both
  stores sort lists with an operator that takes the order as a parameter, and what it
  returns is defined by an enumeration of permutations, which needs an induction
  over data to reason about.
* What a property of the protocol says when its hypothesis fails: see section 5.

## 5. Where code and documents disagree

Four runs find a counterexample:

* `defaults`: with the default settings a grant (60 s) outlives the age at which a
  sweep asks (30 s). A request that is slow between its commit and its call is
  resolved as "never captured", and captures afterwards. `live` has a shorter grant,
  and there `ChargeIsRecorded` holds.
* `swept`: the sweep of holds takes "no active release" to mean that no money moved,
  but a release that was settled by a webhook, or is yet to be created, is not active
  either. Its budget is freed. Nothing in `apps` schedules that sweep today;
  `MoneyIsWithinBudget` is what holds without it.
* `retry`: a purchase row is inserted inside a transaction, where a unique violation
  makes the lookup after it fail; the duplicate request that the code means to answer
  ends in an error.
* `screen`: a purchase refused for lack of budget has a mandate and a quote; the page
  says that there is no mandate and that the merchant was not consulted.

The statements below are in the modules, each with the line of the code or the
document it is taken from, and TLC refutes each in the instance named; they are not
among the listed runs.

| Statement | Module | Instance |
| --- | --- | --- |
| `SettledMandateIsSpent`: reconciliation spends the mandate in a statement of its own, after the record of the capture | `TrueIntent` | `MCSpend.cfg` |
| `AbandonedWasNeverCalled`: at the capture gate an abandoned release has had its order call | `TrueIntent` | `MCAbandoned.cfg` |
| `PausedIsActionable` when the handler of a review dies between its statements | `TrueIntent` | `MCReviewCrash.cfg` |
| `StaleRefusalIsHarmless`: a refusal at the order gate may end a release at the capture gate | `TrueIntent` | `MCStaleRefusal.cfg` |
| `CapturedIsSettled`: a capture event handled too early is closed for ever | `TrueIntent` | `MCSettlement.cfg` |
| `OrderIsNotDisowned` when the provider cannot be reached | `TrueIntent` | `MCUnreachable.cfg` |
| `HoldIsRecoverable`: a hold whose row was rolled back is under no row the sweep reads | `CommerceSession` | `MCCommerce.cfg` |
| `NeverAnsweredForOther`, `OneIsToldClaimed`, `OverruledIsForgotten`: after a deletion a key is addressed by name only; a process may die between a resolution and its forget | `HttpIdempotency` | `MCPlatform.cfg` |
| `ChargeIsWhatTheMerchantAsks`: fees of one type and label collapse, and their currency is not compared | `Verification` | `MCVerification.cfg` |
| `ApprovedFindingsWereSeen`: an approval covers a code, not the findings that were shown | `Verification` | `MCVerification.cfg` |
| `ApprovedPauseProceeds`: a reviewer's pause is raised again after it was approved | `Verification` | `MCVerification.cfg` |
| `VersionIsTheCarts`: the version a run reports is that of its last read | `AgentRuntime` | `MCPlatform.cfg` |
| `NeverAskedIsTrue`, `HoldReleasedIsTrue`, `CapturedIsTrue` | `BuyerScreen` | `MCScreen.cfg` |
| `PaidOrderIsNotFailed`: one failed attempt ends a release another payment may pay | `PaymentEvents` | `MCPlatform.cfg` |
| `ShownIsRouted`, `TwoClicksAreOfOneRelease`: a page shows, and stays armed for, the release it came from | `OperatorConsole` | `MCPlatform.cfg` |
| `AlreadyCapturedHasMoved`, `DuplicateIsNotDisowned` | `RazorpayClient` | `MCPlatform.cfg` |
| `GrantRunsOnce` with `GxClockGoesBack = TRUE` | `GuardedExecutor` | `MCPlatform.cfg` |

## 6. Not modelled

* **Evaluation harness and scripts.** They drive the system and print; they are not
  part of it.
* **HTTP parsing, authentication, response shapes.** No state of their own. The routes
  a page or an operator's resolution runs through are in `BuyerScreen` and
  `HttpIdempotency`.
* **Read-only views of the console**, formatting and layout.
* **Cryptography and canonical JSON.** Hashes are taken as injective, signatures as
  unforgeable; comparing a webhook's signature is a library call.
* **Connections, pools, migrations, the environment.** I/O.
* **The memory ledger and the policy map**, and awaits inside one in-memory
  transaction: tasks that run between them see, and a rollback erases, what the
  database would keep apart. `Parity` is a statement about callers one at a time.
* **Policy documents as text.** A document is its rules; whether a rule parses is a
  property of the rule.
* **A claimed key after a crash.** `HttpIdempotency` has the crash; that the key is
  usable again afterwards is not stated, since no code makes it so.

Next in line: an abstract promise of a purchase (asked, decided, charged at most
once, reported) that `TrueIntent` implements, and the part of `Parity` that sorts
nothing.
