--------------------------- MODULE PaymentEvents ---------------------------
(***************************************************************************)
(* Which payment a release is bound to, when a buyer may attempt several   *)
(* payments on one order and the provider's events about them arrive in    *)
(* any order (packages/kernel/src/services/webhook-service.ts).            *)
(* WebhookService follows one payment through every state of the release;  *)
(* this module follows several through the states their events concern.    *)
(*                                                                         *)
(* Abstractions.  One release, from the moment its order exists. An event  *)
(* carries its payment, order, amount and currency, as readPaymentEntity   *)
(* reads them; a payment is of the release's amount or of another one.     *)
(***************************************************************************)
EXTENDS ReleaseFSM

CONSTANTS
  Payment,       \* the payments attempted on the release's order
  OtherAmount,   \* those of another amount or currency
  NoPayment

ASSUME PaymentAssumption == OtherAmount \subseteq Payment /\ NoPayment \notin Payment

VARIABLES
  row,       \* the release's state
  bound,     \* its providerPaymentId
  status,    \* what the provider holds of each payment
  claimed,   \* the webhook inbox: events seen, each as <<payment, type>>
  reading,   \* events between the read and the update, with the state read
  taken      \* history: the payment the capture gate charged

eventVars == <<row, bound, status, claimed, reading, taken>>

Trigger == [authorized |-> "PAYMENT_AUTHORIZED",
            captured   |-> "SETTLEMENT_CONFIRMED",
            failed     |-> "PAYMENT_FAILED"]

EventsTypeOK ==
  /\ row \in ReleaseState
  /\ bound \in Payment \cup {NoPayment}
  /\ status \in [Payment -> {"none", "authorized", "captured", "failed"}]
  /\ claimed \subseteq Payment \X DOMAIN Trigger
  /\ \A x \in reading : x.event \in claimed /\ x.state \in ReleaseState

EventsInit ==
  /\ row = "ORDER_CREATED" /\ bound = NoPayment
  /\ status = [p \in Payment |-> "none"]
  /\ claimed = {} /\ reading = {} /\ taken = NoPayment

\* The buyer's attempts, and captures made at the provider by hand.
Attempt(p) ==
  /\ \/ status[p] = "none" /\ status' \in {[status EXCEPT ![p] = s] : s \in {"authorized", "failed"}}
     \/ status[p] = "authorized" /\ status' \in {[status EXCEPT ![p] = s] : s \in {"captured", "failed"}}
  /\ UNCHANGED <<row, bound, claimed, reading, taken>>

\* The capture gate's call, for the payment the row is bound to.
Capture ==
  /\ row = "PAYMENT_AUTHORIZED"
  /\ IF status[bound] \in {"authorized", "captured"}
     THEN row' = "CAPTURED" /\ taken' = bound /\ status' = [status EXCEPT ![bound] = "captured"]
     ELSE row' = "CAPTURE_REJECTED" /\ UNCHANGED <<status, taken>>
  /\ UNCHANGED <<bound, claimed, reading>>

Emitted(p, type) == status[p] = type \/ (type = "authorized" /\ status[p] = "captured")

\* Mutant of EntityMismatch: the payment is not compared.
EntityMismatchLoose(p) == p \in OtherAmount

\* describeEntityMismatch. The release was found by this payment or this order.
EntityMismatch(p) ==
  \/ bound # NoPayment /\ bound # p
  \/ p \in OtherAmount

\* ingest() up to the update: the event id is claimed once and for ever, and an
\* event of another entity, or of a move that is not declared, ends there.
Receive(p, type) ==
  /\ Emitted(p, type) /\ <<p, type>> \notin claimed
  /\ claimed' = claimed \cup {<<p, type>>}
  /\ reading' = IF EntityMismatch(p) \/ ~Declares(row, Trigger[type]) THEN reading
                ELSE reading \cup {[event |-> <<p, type>>, state |-> row]}
  /\ UNCHANGED <<row, bound, status, taken>>

\* The compare-and-set compares the state and sets the payment with it.
Apply(x) ==
  /\ x \in reading
  /\ reading' = reading \ {x}
  /\ IF row = x.state
     THEN row' = To[Trigger[x.event[2]]] /\ bound' = x.event[1]
     ELSE UNCHANGED <<row, bound>>
  /\ UNCHANGED <<status, claimed, taken>>

EventsNext == \/ \E p \in Payment : Attempt(p) \/ \E type \in DOMAIN Trigger : Receive(p, type)
              \/ Capture
              \/ \E x \in reading : Apply(x)

EventsSpec == EventsInit /\ [][EventsNext]_eventVars

\* The payment a release ends with is the one it charged, of its amount: it is
\* settled by that payment's capture and failed by its own payment's failure,
\* however the events of other payments are interleaved
\* (webhook-service.ts, describeEntityMismatch and the compare-and-set).
EndsByItsOwnPayment ==
  /\ bound \notin OtherAmount
  /\ taken # NoPayment => bound = taken
  /\ row = "SETTLED" => bound # NoPayment /\ status[bound] = "captured"
  /\ row = "FAILED"  => bound # NoPayment /\ status[bound] = "failed"

\* A failed attempt is not the end of an order at the provider: the buyer may
\* pay by another payment. The code ends the release, so this does not hold.
PaidOrderIsNotFailed == row = "FAILED" => \A p \in Payment : status[p] # "authorized"
============================================================================
