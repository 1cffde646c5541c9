---------------------------- MODULE ReviewService ----------------------------
(***************************************************************************)
(* Resolution of a paused release by an operator                           *)
(* (packages/kernel/src/services/review-service.ts): two statements, the   *)
(* compare-and-set of the review and then that of the release. The read    *)
(* between them is part of the second: PAUSED is the only state an         *)
(* approval or a rejection moves, and the order id does not change in it.  *)
(***************************************************************************)
EXTENDS WebhookService

VARIABLE resolving   \* a resolution whose effect on the release is still to come

ReviewTypeOK == resolving \in [Release -> {"NONE", "APPROVED", "REJECTED"}]

ReviewInit == resolving = [r \in Release |-> "NONE"]

\* reviews.resolve. An approval is filed under the request that paused, where
\* the newest one is the one found.
ResolveReview(r, resolution) ==
  /\ openReview[r] # NoReview /\ resolving[r] = "NONE"
  /\ resolving' = [resolving EXCEPT ![r] = resolution]
  /\ openReview' = [openReview EXCEPT ![r] = NoReview]
  /\ approved' = IF resolution = "APPROVED"
                 THEN [approved EXCEPT ![r][openReview[r].gate] = openReview[r].codes]
                 ELSE approved
  /\ UNCHANGED <<releaseRow, authorization, evidence, providerVars, requestVars,
                 workerVars, hookVars>>

\* Mutant of ReviewTrigger: the release resumes at the order gate, whichever paused it.
ReviewTriggerOrderGate(r) ==
  IF resolving[r] = "REJECTED" THEN "REVIEW_REJECTED" ELSE "REVIEW_APPROVED_AT_ORDER_GATE"

\* Mutant of ReviewTrigger: the release resumes at the capture gate.
ReviewTriggerCaptureGate(r) ==
  IF resolving[r] = "REJECTED" THEN "REVIEW_REJECTED" ELSE "REVIEW_APPROVED"

ReviewTrigger(r) ==
  IF resolving[r] = "REJECTED" THEN "REVIEW_REJECTED"
  ELSE IF orderId[r] THEN "REVIEW_APPROVED" ELSE "REVIEW_APPROVED_AT_ORDER_GATE"

\* The release follows, or has moved on.
ApplyResolution(r) ==
  /\ resolving[r] # "NONE"
  /\ IF Declares(state[r], ReviewTrigger(r))
     THEN MoveTo(r, To[ReviewTrigger(r)])
     ELSE UNCHANGED <<state, age>>
  /\ resolving' = [resolving EXCEPT ![r] = "NONE"]
  /\ UNCHANGED <<orderId, paymentId, attempts, authorization, reviewRows, evidence,
                 providerVars, requestVars, workerVars, hookVars>>

\* The process dies between the two statements.
CrashReview(r) ==
  /\ resolving[r] # "NONE"
  /\ resolving' = [resolving EXCEPT ![r] = "NONE"]
  /\ UNCHANGED <<storeVars, providerVars, requestVars, workerVars, hookVars>>
=============================================================================
