--------------------------- MODULE ReleaseService ---------------------------
(***************************************************************************)
(* The two gates (packages/kernel/src/services/release-service.ts). Each   *)
(* request is a process that reads, evaluates, commits, calls the provider *)
(* and commits again; a step below is one statement or one database        *)
(* transaction, so other requests, the sweeps, the webhooks and the        *)
(* operator run between any two of them.                                   *)
(*                                                                         *)
(*   tx A        StartOrder, BeginVerification / StartCapture              *)
(*   evaluate    Evaluate, which reads and writes nothing                  *)
(*   tx B        CommitOrder, CommitCapture, Refuse, or LostCapture        *)
(*   the call    Call                                                      *)
(*   tx C        RecordOutcome                                             *)
(***************************************************************************)
EXTENDS PaymentProvider

VARIABLES
  sameAnswer,  \* the request's fingerprint is the one its key first came with
  overLimit,   \* the release, as the request read it, is over its attempts
  found,       \* the PAUSE findings of the evaluation
  verdict,     \* the verdict of the evaluation
  elapsed      \* time since the request began, which its grant's expiry and the
               \* updated_at of its writes before tx B count from

locals      == <<sameAnswer, overLimit, found, verdict, elapsed>>
requestVars == <<pc, gate, on, locals>>

Where == {"idle", "drafted", "evaluating", "decided", "lost", "prepared",
          "awaiting", "done"}

ServiceTypeOK ==
  /\ pc \in [Request -> Where]
  /\ gate \in [Request -> Gate]
  /\ on \in [Request -> Release \cup {"NONE"}]
  /\ sameAnswer \in [Request -> BOOLEAN]
  /\ overLimit \in [Request -> BOOLEAN]
  /\ found \in [Request -> SUBSET PauseCode]
  /\ verdict \in [Request -> {"ALLOW", "PAUSE", "DENY"}]
  /\ elapsed \in [Request -> 0 .. Horizon]

ServiceInit ==
  /\ pc = [p \in Request |-> "idle"]
  /\ gate = [p \in Request |-> "ORDER_CREATION"]
  /\ on = [p \in Request |-> "NONE"]
  /\ sameAnswer = [p \in Request |-> TRUE]
  /\ overLimit = [p \in Request |-> FALSE]
  /\ found = [p \in Request |-> {}]
  /\ verdict = [p \in Request |-> "DENY"]
  /\ elapsed = [p \in Request |-> 0]

Goto(p, where) == pc' = [pc EXCEPT ![p] = where]

\* The request returns or dies, and its locals with it. gate and on stay, to
\* say what it called the provider for.
Finish(p) ==
  /\ Goto(p, "done")
  /\ sameAnswer' = [sameAnswer EXCEPT ![p] = TRUE]
  /\ overLimit' = [overLimit EXCEPT ![p] = FALSE]
  /\ found' = [found EXCEPT ![p] = {}]
  /\ verdict' = [verdict EXCEPT ![p] = "DENY"]
  /\ elapsed' = [elapsed EXCEPT ![p] = 0]

Address(p, g, r) ==
  /\ gate' = [gate EXCEPT ![p] = g]
  /\ on' = [on EXCEPT ![p] = r]

TooMany(r) == attempts[r] > MaxAttempts

-----------------------------------------------------------------------------
(* Gate 1: requestOrderCreation *)

\* createDraftRelease, on a mandate it read as no longer ACTIVE.
MandateRefused(p, r) ==
  /\ authorization[AuthorizationOf[r]] # "ACTIVE"
  /\ Goto(p, "done") /\ UNCHANGED <<state, age>>

\* Mutant of StartNewOrder: no unique index on a mandate's active releases.
StartNewOrderWithoutIndex(p, r) ==
  /\ state[r] = "ABSENT"
  /\ \/ MandateRefused(p, r)
     \/ Goto(p, "drafted") /\ MoveTo(r, "DRAFT")
  /\ UNCHANGED <<sameAnswer, overLimit>>

\* No row has this key. A spent or revoked mandate is refused before a row
\* exists, unless it was read while it was still ACTIVE, as every mandate has
\* been; a mandate whose slot is taken makes the insert fail; otherwise the
\* DRAFT row is committed.
StartNewOrder(p, r) ==
  /\ state[r] = "ABSENT"
  /\ \/ MandateRefused(p, r)
     \/ IF ~OtherActive(r)
        THEN Goto(p, "drafted") /\ MoveTo(r, "DRAFT")
        ELSE Goto(p, "done") /\ UNCHANGED <<state, age>>
  /\ UNCHANGED <<sameAnswer, overLimit>>

\* A row has this key. The stored answer is replayed to the same request,
\* except in VERIFYING, where there is none; a different request under the key
\* falls through for the kernel to refuse. A request that looked before the row
\* was there loses its insert to it, in any state.
StartStoredOrder(p, r) ==
  /\ state[r] # "ABSENT"
  /\ \/ Goto(p, "done") /\ UNCHANGED <<sameAnswer, overLimit>>
     \/ /\ \E same \in BOOLEAN : /\ same => state[r] = "VERIFYING"
                                /\ sameAnswer' = [sameAnswer EXCEPT ![p] = same]
        /\ overLimit' = [overLimit EXCEPT ![p] = TooMany(r)]
        /\ Goto(p, "evaluating")
  /\ UNCHANGED <<state, age>>

StartOrder(p, r) ==
  /\ pc[p] = "idle"
  /\ Address(p, "ORDER_CREATION", r)
  /\ StartNewOrder(p, r) \/ StartStoredOrder(p, r)
  /\ UNCHANGED <<orderId, paymentId, attempts, found, verdict, elapsed,
                 authorization, reviewRows, evidence, providerVars>>

\* The second commit of tx A. When the row has moved meanwhile the request
\* goes on with the DRAFT record it inserted.
BeginVerification(p) ==
  LET r == on[p] IN
  /\ pc[p] = "drafted"
  /\ IF state[r] \in From.RELEASE_REQUESTED
     THEN MoveAsOf(r, To.RELEASE_REQUESTED, elapsed[p]) /\ CountAttempt(r)
     ELSE UNCHANGED <<state, age, attempts>>
  /\ overLimit' = [overLimit EXCEPT ![p] = state'[r] # state[r] /\ attempts'[r] > MaxAttempts]
  /\ Goto(p, "evaluating")
  /\ UNCHANGED <<orderId, paymentId, gate, on, sameAnswer, found, verdict, elapsed,
                 authorization, reviewRows, evidence, providerVars>>

-----------------------------------------------------------------------------
(* Gate 2: requestCapture *)

\* tx A: the compare-and-set into CAPTURE_VERIFYING. A request that loses it
\* is evaluated for the record only, and told that it lost.
StartCapture(p, r) ==
  /\ pc[p] = "idle" /\ state[r] # "ABSENT"
  /\ Address(p, "CAPTURE", r)
  /\ IF state[r] \in From.CAPTURE_REQUESTED
     THEN /\ MoveTo(r, To.CAPTURE_REQUESTED)
          /\ CountAttempt(r)
          /\ overLimit' = [overLimit EXCEPT ![p] = attempts'[r] > MaxAttempts]
          /\ Goto(p, "evaluating")
     ELSE /\ Goto(p, "lost")
          /\ UNCHANGED <<state, age, attempts, overLimit>>
  /\ UNCHANGED <<orderId, paymentId, sameAnswer, found, verdict, elapsed,
                 authorization, reviewRows, evidence, providerVars>>

-----------------------------------------------------------------------------
(* Evaluation *)

\* combine(): any DENY finding denies; otherwise pausing findings pause,
\* unless an approval of this very request names every one of them.
Verdict(deny, pausing, approval) ==
  IF deny THEN "DENY" ELSE IF pausing \subseteq approval THEN "ALLOW" ELSE "PAUSE"

\* The DENY findings this state decides: the mandate, the active slot and the
\* reuse of a key. Whatever else the stages find, in the cart, the snapshot,
\* the policy or the merchant's live state, is the environment's choice.
MustDeny(p) ==
  \/ ~sameAnswer[p]
  \/ authorization[AuthorizationOf[on[p]]] # "ACTIVE"
  \/ OtherActive(on[p])

\* resolveContext, evaluate and mintGrant. The several reads are one step: no
\* write the request depends on falls between two of them, because its own row
\* holds the mandate's slot.
Evaluate(p) ==
  /\ pc[p] = "evaluating"
  /\ \E policy \in SUBSET {"POLICY"}, deny \in BOOLEAN :
       LET pausing == policy \cup IF overLimit[p] THEN {"RETRY_VELOCITY_EXCEEDED"} ELSE {}
           reached == Verdict(deny \/ MustDeny(p), pausing, approved[on[p]][gate[p]])
       IN /\ verdict' = [verdict EXCEPT ![p] = reached]
          /\ found' = [found EXCEPT ![p] = IF reached = "PAUSE" THEN pausing ELSE {}]
  /\ sameAnswer' = [sameAnswer EXCEPT ![p] = TRUE]
  /\ overLimit' = [overLimit EXCEPT ![p] = FALSE]
  /\ Goto(p, "decided")
  /\ UNCHANGED <<gate, on, elapsed, storeVars, providerVars>>

-----------------------------------------------------------------------------
(* Refusals *)

\* Mutant of Refuse: a pause opens no review.
RefuseWithoutReview(p) ==
  LET trigger == IF verdict[p] = "PAUSE" THEN "VERIFICATION_PAUSED" ELSE "VERIFICATION_DENIED"
  IN
  /\ pc[p] = "decided" /\ verdict[p] # "ALLOW"
  /\ IF state[on[p]] \in From[trigger] THEN MoveTo(on[p], To[trigger])
     ELSE Touch(on[p], elapsed[p]) /\ UNCHANGED state
  /\ Finish(p)
  /\ UNCHANGED <<gate, on, orderId, paymentId, attempts, reviewRows, authorization,
                 evidence, providerVars>>

\* refuse() without an override, one transaction: the decision is recorded and
\* the refusal applied if the row is in a state it may be applied to. A pause
\* opens a review bound to the paused request, unless one is open.
Refuse(p) ==
  LET r       == on[p]
      trigger == IF verdict[p] = "PAUSE" THEN "VERIFICATION_PAUSED" ELSE "VERIFICATION_DENIED"
  IN
  /\ pc[p] = "decided" /\ verdict[p] # "ALLOW"
  /\ IF state[r] \in From[trigger]
     THEN /\ MoveTo(r, To[trigger])
          /\ openReview' = IF verdict[p] = "PAUSE" /\ openReview[r] = NoReview
                           THEN [openReview EXCEPT ![r] = [gate |-> gate[p], codes |-> found[p]]]
                           ELSE openReview
     ELSE Touch(r, elapsed[p]) /\ UNCHANGED <<state, openReview>>
  /\ Finish(p)
  /\ UNCHANGED <<gate, on, orderId, paymentId, attempts, approved, authorization,
                 evidence, providerVars>>

\* refuse() with an override: the capture request lost the race, or the row
\* has no payment to capture. Only reason codes and updated_at are written,
\* beside the decision, which may well be an ALLOW: the row the request read
\* was one the gate may run from.
LostCapture(p) ==
  /\ \/ pc[p] = "lost" /\ (Record(on[p], "CAPTURE") \/ UNCHANGED evidence)
     \/ /\ pc[p] = "decided" /\ verdict[p] = "ALLOW"
        /\ gate[p] = "CAPTURE" /\ ~paymentId[on[p]]
        /\ Record(on[p], "CAPTURE")
  /\ Touch(on[p], elapsed[p])
  /\ Finish(p)
  /\ UNCHANGED <<gate, on, state, orderId, paymentId, attempts, reviewRows, authorization,
                 providerVars>>

-----------------------------------------------------------------------------
(* Execution *)

\* Mutant of Commit: the result of the compare-and-set is not looked at.
CommitBlindly(p, allowed, started) ==
  LET r == on[p] IN
  /\ pc[p] = "decided" /\ verdict[p] = "ALLOW"
  /\ Record(r, gate[p])
  /\ IF state[r] \in From[allowed] /\ To[allowed] \in From[started]
     THEN MoveTo(r, To[started]) ELSE UNCHANGED <<state, age>>
  /\ Goto(p, "prepared")
  /\ UNCHANGED <<gate, on, locals, orderId, paymentId, attempts, reviewRows, authorization,
                 providerVars>>

\* Mutant of Commit: the decision is not recorded before the call.
CommitUnrecorded(p, allowed, started) ==
  LET r == on[p] IN
  /\ pc[p] = "decided" /\ verdict[p] = "ALLOW"
  /\ IF state[r] \in From[allowed] /\ To[allowed] \in From[started]
     THEN MoveTo(r, To[started]) /\ Goto(p, "prepared") /\ UNCHANGED locals
     ELSE Finish(p) /\ UNCHANGED <<state, age>>
  /\ UNCHANGED <<gate, on, orderId, paymentId, attempts, reviewRows, authorization, evidence,
                 providerVars>>

\* tx B: the ALLOW decision is recorded, and in the same transaction the row
\* goes through the approved state into the in-flight one. A request whose
\* compare-and-set fails has lost the race and is done. The order gate's claim of
\* the snapshot cannot fail: the snapshot is this release's alone.
Commit(p, allowed, started) ==
  LET r == on[p] IN
  /\ pc[p] = "decided" /\ verdict[p] = "ALLOW"
  /\ Record(r, gate[p])
  /\ IF state[r] \in From[allowed] /\ To[allowed] \in From[started]
     THEN MoveTo(r, To[started]) /\ Goto(p, "prepared") /\ UNCHANGED locals
     ELSE Finish(p) /\ UNCHANGED <<state, age>>
  /\ UNCHANGED <<gate, on, orderId, paymentId, attempts, reviewRows, authorization,
                 providerVars>>

CommitOrder(p) ==
  gate[p] = "ORDER_CREATION" /\ Commit(p, "VERIFICATION_ALLOWED", "ORDER_CALL_STARTED")

CommitCapture(p) ==
  gate[p] = "CAPTURE" /\ paymentId[on[p]] /\ Commit(p, "CAPTURE_ALLOWED", "CAPTURE_CALL_STARTED")

\* Mutant of Call: the grant's expiry is not checked.
CallWithStaleGrant(p) ==
  /\ pc[p] = "prepared"
  /\ Goto(p, "awaiting")
  /\ wire' = wire \cup {p}
  /\ called' = called \cup {p}
  /\ UNCHANGED <<gate, on, locals, storeVars, reply, order, payment>>

\* GuardedPaymentExecutor.consume, then the call. An expired grant throws: the
\* request ends and the row stays in flight for the sweep.
Call(p) ==
  /\ pc[p] = "prepared"
  /\ IF elapsed[p] > GrantTtl
     THEN Finish(p) /\ UNCHANGED <<wire, called>>
     ELSE /\ Goto(p, "awaiting")
          /\ wire' = wire \cup {p}
          /\ called' = called \cup {p}
          /\ UNCHANGED locals
  /\ UNCHANGED <<gate, on, storeVars, reply, order, payment>>

\* DUPLICATE_RECEIPT would need a second order call for the release.
Outcome == [ORDER_CREATION |-> [DONE |-> "ORDER_CREATED",
                                REJECTED |-> "ORDER_REJECTED",
                                INDETERMINATE |-> "ORDER_CALL_INDETERMINATE"],
            CAPTURE        |-> [DONE |-> "CAPTURE_SUCCEEDED",
                                REJECTED |-> "CAPTURE_PROVIDER_REJECTED",
                                INDETERMINATE |-> "CAPTURE_CALL_INDETERMINATE"]]

\* Mutant of RecordOutcome: a capture does not spend the mandate.
RecordOutcomeUnspent(p) ==
  LET r       == on[p]
      trigger == Outcome[gate[p]][reply[p]]
  IN
  /\ pc[p] = "awaiting" /\ reply[p] # "NONE"
  /\ IF state[r] \in From[trigger]
     THEN /\ MoveTo(r, To[trigger])
          /\ orderId' = [orderId EXCEPT ![r] = orderId[r] \/ trigger = "ORDER_CREATED"]
     ELSE UNCHANGED <<state, age, orderId>>
  /\ reply' = [reply EXCEPT ![p] = "NONE"]
  /\ Finish(p)
  /\ UNCHANGED <<gate, on, paymentId, attempts, reviewRows, authorization, evidence,
                 wire, called, order, payment>>

\* tx C: the compare-and-set out of the in-flight state. A capture spends the
\* mandate in the same transaction, whether or not the compare-and-set took.
RecordOutcome(p) ==
  LET r       == on[p]
      trigger == Outcome[gate[p]][reply[p]]
  IN
  /\ pc[p] = "awaiting" /\ reply[p] # "NONE"
  /\ IF state[r] \in From[trigger]
     THEN /\ MoveTo(r, To[trigger])
          /\ orderId' = [orderId EXCEPT ![r] = orderId[r] \/ trigger = "ORDER_CREATED"]
     ELSE UNCHANGED <<state, age, orderId>>
  /\ IF trigger = "CAPTURE_SUCCEEDED"
     THEN LeaveActive(AuthorizationOf[r], "CONSUMED")
     ELSE UNCHANGED authorization
  /\ reply' = [reply EXCEPT ![p] = "NONE"]
  /\ Finish(p)
  /\ UNCHANGED <<gate, on, paymentId, attempts, reviewRows, evidence,
                 wire, called, order, payment>>

-----------------------------------------------------------------------------

\* The process dies, or a statement throws. What was committed stays, and so
\* does a call already sent.
CrashRequest(p) ==
  /\ pc[p] \notin {"idle", "done"}
  /\ reply' = [reply EXCEPT ![p] = "NONE"]
  /\ Finish(p)
  /\ UNCHANGED <<gate, on, storeVars, wire, called, order, payment>>

Proceed(p) ==
  \/ BeginVerification(p) \/ Evaluate(p)
  \/ Refuse(p) \/ LostCapture(p) \/ CommitOrder(p) \/ CommitCapture(p)
  \/ Call(p) \/ RecordOutcome(p)
=============================================================================
