----------------------------- MODULE TrueIntent -----------------------------
(***************************************************************************)
(* The whole release protocol: agents' requests at the two gates, the      *)
(* provider, the payer, the sweeps, the provider's webhooks, the operator  *)
(* and the clock, all over the shared rows of ReleaseStore.                *)
(***************************************************************************)
EXTENDS ReviewService

CONSTANT MayCrash   \* which handlers may die between two of their steps

ASSUME CrashAssumption == MayCrash \subseteq {"request", "worker", "event", "review"}

vars == <<storeVars, providerVars, requestVars, workerVars, hookVars, resolving>>

TypeOK == /\ StoreTypeOK
          /\ ProviderTypeOK
          /\ ServiceTypeOK
          /\ ReconcileTypeOK
          /\ WebhookTypeOK
          /\ ReviewTypeOK

Init == /\ StoreInit
        /\ ProviderInit
        /\ ServiceInit
        /\ ReconcileInit
        /\ WebhookInit
        /\ ReviewInit

-----------------------------------------------------------------------------

RequestStep(p) ==
  /\ \/ \E r \in Release : StartOrder(p, r) \/ StartCapture(p, r)
     \/ Proceed(p)
     \/ "request" \in MayCrash /\ CrashRequest(p)
  /\ UNCHANGED <<workerVars, hookVars, resolving>>

ProviderStep ==
  /\ \/ \E p \in Request : ApplyOrder(p) \/ ApplyCapture(p) \/ LoseCall(p) \/ TimeOut(p)
     \/ \E r \in Release : IndexOrder(r) \/ Pay(r)
  /\ UNCHANGED <<storeVars, requestVars, workerVars, hookVars, resolving>>

WorkerStep(w) ==
  /\ \/ \E r \in Release : PickStuck(w, r) \/ PickById(w, r) \/ PickAbandoned(w, r)
     \/ Work(w)
     \/ "worker" \in MayCrash /\ CrashWorker(w)
  /\ UNCHANGED <<hookVars, resolving>>

EventStep(r, e) ==
  /\ \/ ReceiveEvent(r, e)
     \/ ApplyEvent(r, e)
     \/ "event" \in MayCrash /\ CrashEvent(r, e)
  /\ UNCHANGED resolving

ReviewStep(r) ==
  \/ \E resolution \in {"APPROVED", "REJECTED"} : ResolveReview(r, resolution)
  \/ ApplyResolution(r)
  \/ "review" \in MayCrash /\ CrashReview(r)

RevokeStep(a) ==
  /\ Revoke(a)
  /\ UNCHANGED <<providerVars, requestVars, workerVars, hookVars, resolving>>

-----------------------------------------------------------------------------

Older(n) == IF n < Horizon THEN n + 1 ELSE n

\* 30 seconds pass. A call's timeout (10 s) and the lookup's lag (about 8 s)
\* are shorter, so none is pending when they do.
Tick ==
  /\ wire = {}
  /\ \A r \in Release : order[r] # "UNINDEXED"
  /\ age' = [r \in Release |-> IF state[r] \in Transient \cup Indeterminate
                               THEN Older(age[r]) ELSE age[r]]
  /\ elapsed' = [p \in Request |->
                   IF pc[p] \in {"drafted", "evaluating", "decided", "lost", "prepared"}
                   THEN Older(elapsed[p]) ELSE elapsed[p]]
  /\ UNCHANGED <<state, orderId, paymentId, attempts, authorization, reviewRows, evidence,
                 providerVars, pc, gate, on, sameAnswer, overLimit, found, verdict,
                 workerVars, hookVars, resolving>>

Next ==
  \/ \E p \in Request : RequestStep(p)
  \/ ProviderStep
  \/ \E w \in Worker : WorkerStep(w)
  \/ \E r \in Release, e \in Event : EventStep(r, e)
  \/ \E r \in Release : ReviewStep(r)
  \/ \E a \in Authorization : RevokeStep(a)
  \/ Tick

Spec == Init /\ [][Next]_vars

-----------------------------------------------------------------------------
(* What no interleaving, crash or timing may break *)

Calls(r, g) == {p \in called : on[p] = r /\ gate[p] = g}

\* At most one call per gate ever leaves the process for a release, whatever
\* requests race, are retried or are resumed after an approval: at-most-once
\* execution rests on the write-ahead compare-and-sets of tx B
\* (release-service.ts 522-557, 651-674; ADR-006).
CalledOnce ==
  \A p, q \in called : on[p] = on[q] /\ gate[p] = gate[q] => p = q

\* A payment is captured only by a call this service made, after both gates
\* recorded an ALLOW for the release; the second gate never replaces the first.
ChargeIsDecidedTwice ==
  \A r \in Release :
    payment[r] = "captured" => Calls(r, "CAPTURE") # {} /\ Gate \subseteq evidence[r]

\* moneyHasMoved() is never said of a payment the provider did not capture, on
\* any of the paths that can say it: an answer, a reconciliation or a webhook.
ReportedIsCharged ==
  \A r \in Release : state[r] \in MoneyHasMoved => payment[r] = "captured"

\* A release the liveness sweep aborted was never charged and never will be:
\* nobody holds, or can still obtain, a capture call for it. The sweep acts on
\* a row it read earlier while requests go on.
AbandonedIsNeverCharged ==
  \A r \in Release :
    "ABANDONED" \in evidence[r] =>
      /\ payment[r] # "captured" /\ Calls(r, "CAPTURE") = {}
      /\ ~\E p \in Request : pc[p] = "prepared" /\ on[p] = r /\ gate[p] = "CAPTURE"

\* Nothing reaches the capture gate without a payment to capture, not even a
\* release that was paused before its order and resumed by an operator; so the
\* case reconcile() calls impossible, a capture under way with no payment to ask
\* about, is (reconciliation-service.ts 167-177; review-service.ts 62-75).
CaptureHasPayment ==
  \A r \in Release :
    state[r] \in {"CAPTURE_VERIFYING", "CAPTURE_APPROVED",
                  "CAPTURE_IN_FLIGHT", "CAPTURE_INDETERMINATE"} =>
      orderId[r] /\ paymentId[r]

\* No late answer, stale sweep, delayed webhook or second approval reopens a
\* release that ended (domain/release.ts 54-66).
TerminalIsFinal ==
  [][\A r \in Release : state[r] \in Terminal => state'[r] = state[r]]_vars

-----------------------------------------------------------------------------
(* Why a call leaves at most once: the inductive invariant behind CalledOnce *)

\* A request that has committed to its call, or has made it.
Holds(p) == pc[p] = "prepared" \/ p \in called

BeforeOrder  == {"ABSENT", "DRAFT", "VERIFYING", "VERIFIED"}
AfterCapture == {"CAPTURE_IN_FLIGHT", "CAPTURE_INDETERMINATE", "CAPTURED", "SETTLED",
                 "CAPTURE_REJECTED"}

\* What a sweep or a webhook handler remembers of a row it read is a state its
\* compare-and-set may start from.
Remembered ==
  /\ \A w \in Worker :
       /\ job[w] = "applying" => answer[w] \in ReconcileTrigger /\ seen[w] \in From[answer[w]]
       /\ job[w] = "aborting" => seen[w] \in Transient
  /\ \A r \in Release, e \in Event :
       inbox[r][e] = "CLAIMED" => Declares(read[r][e], EventTrigger[e])

\* The order is known in every state the release reaches only with one.
OrderIsKnown ==
  \A r \in Release :
    state[r] \in {"ORDER_CREATED", "PAYMENT_AUTHORIZED", "CAPTURE_VERIFYING", "CAPTURE_APPROVED"}
      => orderId[r]

\* A release one of whose calls is committed never stands again before that
\* call. The order id is what tells an approval which gate to run again, so a
\* release paused after its order call must have one.
PastItsCalls ==
  \A p \in Request :
    Holds(p) =>
      /\ gate[p] = "CAPTURE" => state[on[p]] \in AfterCapture
      /\ gate[p] = "ORDER_CREATION" =>
           /\ state[on[p]] \notin BeforeOrder
           /\ state[on[p]] = "PAUSED" => orderId[on[p]]

OneHolder ==
  \A p, q \in Request : Holds(p) /\ Holds(q) /\ on[p] = on[q] /\ gate[p] = gate[q] => p = q

CallInv ==
  /\ Remembered
  /\ OrderIsKnown
  /\ PastItsCalls
  /\ OneHolder
  /\ \A p \in Request : /\ p \in called => pc[p] \in {"awaiting", "done"}
                        /\ pc[p] # "idle" => on[p] \in Release

-----------------------------------------------------------------------------
(* What depends on a call leaving before a sweep may ask about it *)

\* The states from the capture call on, but for the one that denies the capture.
Unended == {"CAPTURE_IN_FLIGHT", "CAPTURE_INDETERMINATE", "CAPTURED", "SETTLED"}

\* Money never moves behind the record's back: when the provider has captured,
\* the release says so or is still to be resolved. It takes a grant that cannot
\* outlive the time a sweep waits before it asks, and nobody who asks earlier.
ChargeIsRecorded ==
  \A r \in Release : payment[r] = "captured" => state[r] \in Unended

\* Reconciliation does not conclude FAILED about an order that exists, or is
\* about to: that would strand it (reconciliation-service.ts 135-149, ADR-015).
\* The lookup's window sees to it however early anybody asks, as long as a grant
\* cannot outlive that window and the lookup answers.
OrderIsNotDisowned ==
  \A r \in Release :
    state[r] = "FAILED" /\ payment[r] # "failed" =>
      order[r] = "NONE" /\ \A p \in wire : on[p] # r

-----------------------------------------------------------------------------
(* The mandate *)

\* Two releases never compete for one mandate: the partial unique index is
\* consulted when a row is inserted, so this also needs that no row that ended
\* becomes active again.
OneActiveRelease ==
  \A q, r \in Release :
    Active(q) /\ Active(r) /\ AuthorizationOf[q] = AuthorizationOf[r] => q = r

\* "An authorization funds one purchase" (release-service.ts 721-722): no mix of
\* racing requests, approvals and webhooks charges a mandate twice, whichever
\* keys they come with. Checked without sweeps: where a sweep records the capture
\* instead of the request that made it, see SettledMandateIsSpent.
OneChargePerMandate ==
  \A q, r \in Release :
    /\ payment[q] = "captured" /\ payment[r] = "captured"
    /\ AuthorizationOf[q] = AuthorizationOf[r]
    => q = r

-----------------------------------------------------------------------------
(* Reviews *)

\* A paused release always has a review to resolve, or one whose effect is on
\* its way; otherwise it would hold its mandate for ever
\* (release-service.ts 446-491).
PausedIsActionable ==
  \A r \in Release :
    state[r] = "PAUSED" => openReview[r] # NoReview \/ resolving[r] # "NONE"

-----------------------------------------------------------------------------
(* Progress. The sweeps' timer is the only thing the system promises to run: *)
(* requests, operators and webhooks get no fairness.                         *)

Sweeping(w, r) ==
  /\ (PickStuck(w, r) \/ PickAbandoned(w, r))
  /\ UNCHANGED <<hookVars, resolving>>

Working(w) == Work(w) /\ UNCHANGED <<hookVars, resolving>>

Settling ==
  /\ \/ \E p \in Request : ApplyOrder(p) \/ ApplyCapture(p) \/ LoseCall(p)
     \/ \E r \in Release : IndexOrder(r)
  /\ UNCHANGED <<storeVars, requestVars, workerVars, hookVars, resolving>>

\* A sweep takes every row its query finds, oldest first, and ticks again.
FairSpec ==
  /\ Spec
  /\ WF_vars(Tick) /\ WF_vars(Settling)
  /\ \A w \in Worker : WF_vars(Working(w))
  /\ \A w \in Worker, r \in Release : SF_vars(Sweeping(w, r))

\* A release that may have called the provider does not stay undecided: a
\* sweep ends it with the provider's truth.
InFlightIsResolved ==
  \A r \in Release : state[r] \in Indeterminate ~> state[r] \notin Indeterminate

\* A release stranded before its call does not hold its mandate for ever
\* (ADR-011).
StrandedIsFreed ==
  \A r \in Release : state[r] \in Transient ~> state[r] \notin Transient

-----------------------------------------------------------------------------
(* What the repository says of the program and the program does not do *)

\* "providerWasCalled: false", the evidence of an abandoned release says
\* (reconciliation-service.ts 103); reason-codes.ts 303 and STATE_MACHINE.md 183
\* say the same. A release abandoned at the capture gate has had its order
\* created.
AbandonedWasNeverCalled ==
  \A r \in Release : "ABANDONED" \in evidence[r] => \A p \in called : on[p] # r

\* "An authorization funds one purchase. Marking it consumed is what makes a
\* later replay of the same mandate fail" (release-service.ts 721-722): once a
\* release has settled, and no longer holds its mandate's slot, the mandate is
\* spent. Reconciliation spends it in a statement of its own.
SettledMandateIsSpent ==
  \A r \in Release : state[r] = "SETTLED" => authorization[AuthorizationOf[r]] # "ACTIVE"

\* "A stale refusal never overwrites a newer state" (release-service.ts
\* 359-360): a refusal of the order gate arriving after the order was created
\* and paid leaves the release where the capture gate put it.
StaleRefusalIsHarmless ==
  [][\A p \in Request :
       /\ pc[p] = "decided" /\ pc'[p] = "done"
       /\ gate[p] = "ORDER_CREATION" /\ state[on[p]] = "CAPTURE_VERIFYING"
       => state'[on[p]] = "CAPTURE_VERIFYING"]_vars

\* Every event is delivered, and its handler survives.
DeliverySpec ==
  /\ FairSpec
  /\ \A r \in Release, e \in Event : WF_vars(EventStep(r, e))

\* "Keeping it non-terminal means a payment.captured webhook has somewhere to
\* land" (ADR-005 84-85): a delivered event settles a captured release.
CapturedIsSettled ==
  \A r \in Release : state[r] = "CAPTURED" ~> state[r] = "SETTLED"
=============================================================================
