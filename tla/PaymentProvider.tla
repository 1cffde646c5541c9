-------------------------- MODULE PaymentProvider --------------------------
(***************************************************************************)
(* The payment provider behind the ports, as the repository's double and   *)
(* ADR-015/016 describe it (packages/integrations/src/razorpay/fake.ts),   *)
(* and the payer at its checkout. A call is in transit until the provider  *)
(* applies it or it is lost; its answer may be lost although it was        *)
(* applied. An order stays invisible to the receipt lookup for a while.    *)
(***************************************************************************)
EXTENDS ReleaseStore

CONSTANT Request              \* the requests agents make, one call each at most

VARIABLES
  pc,          \* where a request stands in ReleaseService
  gate,        \* the gate it runs
  on,          \* the release it is about
  wire,        \* requests whose provider call is in transit
  reply,       \* what the caller will read: NONE until an answer or a timeout
  called,      \* requests whose call left the process (history)
  order,       \* the provider's order for a release's receipt
  payment      \* the payment made against that order

providerVars == <<wire, reply, called, order, payment>>

ProviderTypeOK ==
  /\ wire \subseteq Request
  /\ reply \in [Request -> {"NONE", "DONE", "REJECTED", "INDETERMINATE"}]
  /\ called \subseteq Request
  /\ order \in [Release -> {"NONE", "UNINDEXED", "INDEXED"}]
  /\ payment \in [Release -> {"NONE", "authorized", "captured", "failed"}]

ProviderInit ==
  /\ wire = {}
  /\ reply = [p \in Request |-> "NONE"]
  /\ called = {}
  /\ order = [r \in Release |-> "NONE"]
  /\ payment = [r \in Release |-> "NONE"]

\* A caller that timed out or died reads no answer.
Answer(p, outcome) ==
  reply' = [reply EXCEPT ![p] = IF pc[p] = "awaiting" /\ reply[p] = "NONE"
                                THEN outcome ELSE reply[p]]

\* createOrder reaches the provider. A repeated receipt creates a second order.
ApplyOrder(p) ==
  /\ p \in wire /\ gate[p] = "ORDER_CREATION"
  /\ wire' = wire \ {p}
  /\ \/ order' = [order EXCEPT ![on[p]] = "UNINDEXED"] /\ Answer(p, "DONE")
     \/ order' = order /\ Answer(p, "REJECTED")
  /\ UNCHANGED <<called, payment>>

\* capturePayment reaches the provider: only an authorized payment is
\* capturable, a captured one is reported as captured, and the provider may
\* refuse with a definite error.
ApplyCapture(p) ==
  /\ p \in wire /\ gate[p] = "CAPTURE"
  /\ wire' = wire \ {p}
  /\ \/ /\ payment[on[p]] \in {"authorized", "captured"}
        /\ payment' = [payment EXCEPT ![on[p]] = "captured"]
        /\ Answer(p, "DONE")
     \/ payment[on[p]] # "captured" /\ payment' = payment /\ Answer(p, "REJECTED")
  /\ UNCHANGED <<called, order>>

\* TIMEOUT_BEFORE_APPLY, NETWORK: the call never takes effect.
LoseCall(p) ==
  /\ p \in wire
  /\ wire' = wire \ {p}
  /\ UNCHANGED <<reply, called, order, payment>>

\* The caller's timeout: INDETERMINATE, whether or not the call was applied.
TimeOut(p) ==
  /\ pc[p] = "awaiting"
  /\ reply[p] # "INDETERMINATE"
  /\ reply' = [reply EXCEPT ![p] = "INDETERMINATE"]
  /\ UNCHANGED <<wire, called, order, payment>>

\* The receipt lookup catches up with a created order.
IndexOrder(r) ==
  /\ order[r] = "UNINDEXED"
  /\ order' = [order EXCEPT ![r] = "INDEXED"]
  /\ UNCHANGED <<wire, reply, called, payment>>

\* The payer completes or fails the checkout of an order whose id was handed
\* out. Nobody can pay an order before its id is recorded.
Pay(r) ==
  /\ orderId[r] /\ order[r] # "NONE" /\ payment[r] = "NONE"
  /\ \E outcome \in {"authorized", "failed"} :
        payment' = [payment EXCEPT ![r] = outcome]
  /\ UNCHANGED <<wire, reply, called, order>>
=============================================================================
