--------------------------- MODULE Reconciliation ---------------------------
(***************************************************************************)
(* The two sweeps and the operator's reconcile request                     *)
(* (packages/kernel/src/services/reconciliation-service.ts, run on a timer *)
(* by apps/api/src/sweepers.ts and by POST /v1/releases/:id/reconcile).    *)
(* Nothing stops two ticks, or a tick and an operator, from overlapping:   *)
(* each is a worker, and a worker's row read, its question to the provider *)
(* and its compare-and-set are steps of their own.                         *)
(***************************************************************************)
EXTENDS ReleaseService

CONSTANTS Worker,              \* sweeps and operator requests that may overlap
          OperatorReconciles,  \* whether operators use the request without an age filter
          ReadsMayFail         \* whether the provider may fail to answer a question

ASSUME ReconcileAssumption == {OperatorReconciles, ReadsMayFail} \subseteq BOOLEAN

VARIABLES
  job,     \* what a worker is doing
  target,  \* the release it works on
  seen,    \* that release's state when the worker read the row
  answer   \* the trigger the provider's answer calls for

workerVars == <<job, target, seen, answer>>

ReconcileTrigger == {"ORDER_RECONCILED_FOUND", "ORDER_RECONCILED_ABSENT",
                     "CAPTURE_RECONCILED_CAPTURED", "CAPTURE_RECONCILED_NOT_CAPTURED"}

ReconcileTypeOK ==
  /\ job \in [Worker -> {"idle", "asking", "applying", "spending", "aborting"}]
  /\ target \in [Worker -> Release \cup {"NONE"}]
  /\ seen \in [Worker -> ReleaseState \cup {"NONE"}]
  /\ answer \in [Worker -> ReconcileTrigger \cup {"NONE"}]
  /\ \A w \in Worker : job[w] = "applying" => answer[w] # "NONE"

ReconcileInit ==
  /\ job = [w \in Worker |-> "idle"]
  /\ target = [w \in Worker |-> "NONE"]
  /\ seen = [w \in Worker |-> "NONE"]
  /\ answer = [w \in Worker |-> "NONE"]

\* A worker reads a row and keeps what it read.
Pick(w, r, next) ==
  /\ job[w] = "idle"
  /\ job' = [job EXCEPT ![w] = next]
  /\ target' = [target EXCEPT ![w] = r]
  /\ seen' = [seen EXCEPT ![w] = state[r]]
  /\ UNCHANGED <<answer, storeVars, providerVars, requestVars>>

Leave(w) ==
  /\ job' = [job EXCEPT ![w] = "idle"]
  /\ target' = [target EXCEPT ![w] = "NONE"]
  /\ seen' = [seen EXCEPT ![w] = "NONE"]
  /\ answer' = [answer EXCEPT ![w] = "NONE"]

-----------------------------------------------------------------------------
(* Releases stuck mid-call *)

\* Mutant of PickStuck: the query selects the *_INDETERMINATE states only, not a
\* release whose process died during the call.
PickToldIndeterminate(w, r) ==
  /\ state[r] \in {"ORDER_INDETERMINATE", "CAPTURE_INDETERMINATE"} /\ age[r] >= ReconcileAfter
  /\ Pick(w, r, "asking")

\* findRequiringReconciliation
PickStuck(w, r) ==
  /\ state[r] \in Indeterminate /\ age[r] >= ReconcileAfter
  /\ Pick(w, r, "asking")

\* reconcileById: no age filter. In any other state it does nothing.
PickById(w, r) ==
  /\ OperatorReconciles
  /\ state[r] \in Indeterminate
  /\ Pick(w, r, "asking")

\* Mutant of Learn: the provider's answer is dropped.
LearnNothing(w, trigger) ==
  /\ job' = [job EXCEPT ![w] = "applying"]
  /\ UNCHANGED <<target, seen, answer>>

Learn(w, trigger) ==
  /\ answer' = [answer EXCEPT ![w] = trigger]
  /\ job' = [job EXCEPT ![w] = "applying"]
  /\ UNCHANGED <<target, seen>>

\* Mutant of AskForOrder: an order not found is taken as not created.
AskForOrderOnce(w) ==
  LET r == target[w] IN
  /\ job[w] = "asking" /\ seen[w] \in From.ORDER_RECONCILED_FOUND
  /\ IF order[r] = "INDEXED" THEN Learn(w, "ORDER_RECONCILED_FOUND")
     ELSE Learn(w, "ORDER_RECONCILED_ABSENT")
  /\ UNCHANGED <<storeVars, providerVars, requestVars>>

\* findOrderByReceipt, which answers null both when there is no order and when
\* the provider did not answer. Null says nothing before the lookup's
\* consistency window has passed, and "absent" after it.
AskForOrder(w) ==
  LET r == target[w] IN
  /\ job[w] = "asking" /\ seen[w] \in From.ORDER_RECONCILED_FOUND
  /\ \/ order[r] = "INDEXED" /\ Learn(w, "ORDER_RECONCILED_FOUND")
     \/ /\ order[r] # "INDEXED" \/ ReadsMayFail
        /\ IF age[r] >= LookupWindow THEN Learn(w, "ORDER_RECONCILED_ABSENT") ELSE Leave(w)
  /\ UNCHANGED <<storeVars, providerVars, requestVars>>

\* Mutant of AskForPayment: an authorized payment passes for a captured one.
AskForPaymentLoosely(w) ==
  LET r == target[w] IN
  /\ job[w] = "asking" /\ seen[w] \in From.CAPTURE_RECONCILED_CAPTURED
  /\ IF ~paymentId[r] THEN Leave(w)
     ELSE IF payment[r] # "failed" THEN Learn(w, "CAPTURE_RECONCILED_CAPTURED")
     ELSE Learn(w, "CAPTURE_RECONCILED_NOT_CAPTURED")
  /\ UNCHANGED <<storeVars, providerVars, requestVars>>

\* getPayment, unless the row has no payment to ask about. No answer leaves the
\* release as it is.
AskForPayment(w) ==
  LET r == target[w] IN
  /\ job[w] = "asking" /\ seen[w] \in From.CAPTURE_RECONCILED_CAPTURED
  /\ \/ /\ paymentId[r]
        /\ IF payment[r] = "captured" THEN Learn(w, "CAPTURE_RECONCILED_CAPTURED")
           ELSE Learn(w, "CAPTURE_RECONCILED_NOT_CAPTURED")
     \/ (~paymentId[r] \/ ReadsMayFail) /\ Leave(w)
  /\ UNCHANGED <<storeVars, providerVars, requestVars>>

\* Mutant of Apply: the update names the release only, not the state it was read in.
ApplyBlindly(w) ==
  LET r == target[w] IN
  /\ job[w] = "applying"
  /\ MoveTo(r, To[answer[w]])
  /\ orderId' = [orderId EXCEPT ![r] = orderId[r] \/ answer[w] = "ORDER_RECONCILED_FOUND"]
  /\ IF answer[w] = "CAPTURE_RECONCILED_CAPTURED"
     THEN job' = [job EXCEPT ![w] = "spending"] /\ UNCHANGED <<target, seen, answer>>
     ELSE Leave(w)
  /\ UNCHANGED <<paymentId, attempts, authorization, reviewRows, evidence,
                 providerVars, requestVars>>

\* apply(): the compare-and-set from the state the worker read, and no other.
Apply(w) ==
  LET r == target[w] IN
  /\ job[w] = "applying"
  /\ IF state[r] = seen[w]
     THEN /\ MoveTo(r, To[answer[w]])
          /\ orderId' = [orderId EXCEPT ![r] = orderId[r] \/ answer[w] = "ORDER_RECONCILED_FOUND"]
     ELSE UNCHANGED <<state, age, orderId>>
  /\ IF answer[w] = "CAPTURE_RECONCILED_CAPTURED"
     THEN job' = [job EXCEPT ![w] = "spending"] /\ UNCHANGED <<target, seen, answer>>
     ELSE Leave(w)
  /\ UNCHANGED <<paymentId, attempts, authorization, reviewRows, evidence,
                 providerVars, requestVars>>

\* The mandate is spent by a statement of its own, after the release moved and
\* whether or not this worker moved it.
Spend(w) ==
  /\ job[w] = "spending"
  /\ LeaveActive(AuthorizationOf[target[w]], "CONSUMED")
  /\ Leave(w)
  /\ UNCHANGED <<releaseRow, reviewRows, evidence, providerVars, requestVars>>

-----------------------------------------------------------------------------
(* Releases abandoned before any call *)

\* Mutant of PickAbandoned: the capture gate's states are not selected.
PickAbandonedAtOrderGate(w, r) ==
  /\ state[r] \in {"DRAFT", "VERIFYING", "VERIFIED"} /\ age[r] >= AbandonAfter
  /\ Pick(w, r, "aborting")

\* findAbandonedInTransientState
PickAbandoned(w, r) ==
  /\ state[r] \in Transient /\ age[r] >= AbandonAfter
  /\ Pick(w, r, "aborting")

\* Mutant of Abandon: the update names the release only.
AbandonBlindly(w) ==
  LET r == target[w] IN
  /\ job[w] = "aborting"
  /\ MoveTo(r, To.ABORT) /\ Record(r, "ABANDONED")
  /\ Leave(w)
  /\ UNCHANGED <<orderId, paymentId, attempts, authorization, reviewRows,
                 providerVars, requestVars>>

\* One transaction: the compare-and-set, and the envelope that says the
\* provider was never called. The age is not looked at again.
Abandon(w) ==
  LET r == target[w] IN
  /\ job[w] = "aborting"
  /\ IF state[r] = seen[w]
     THEN MoveTo(r, To.ABORT) /\ Record(r, "ABANDONED")
     ELSE UNCHANGED <<state, age, evidence>>
  /\ Leave(w)
  /\ UNCHANGED <<orderId, paymentId, attempts, authorization, reviewRows,
                 providerVars, requestVars>>

\* The worker dies, or a statement throws: the rest of the tick is dropped.
CrashWorker(w) ==
  /\ job[w] # "idle"
  /\ Leave(w)
  /\ UNCHANGED <<storeVars, providerVars, requestVars>>

Work(w) == AskForOrder(w) \/ AskForPayment(w) \/ Apply(w) \/ Spend(w) \/ Abandon(w)
=============================================================================
