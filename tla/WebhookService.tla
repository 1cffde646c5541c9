--------------------------- MODULE WebhookService ---------------------------
(***************************************************************************)
(* Ingestion of the provider's payment events                              *)
(* (packages/kernel/src/services/webhook-service.ts). Events may be late,  *)
(* reordered, repeated or never arrive. The inbox lets one delivery of an  *)
(* event id through for ever, so each event of a payment is handled once:  *)
(* a repeat changes nothing, even when the first handler died half way.    *)
(***************************************************************************)
EXTENDS Reconciliation

VARIABLES
  inbox,   \* [Release -> [Event -> what became of the event's first delivery]]
  read   \* the release's state when the handler read the row

hookVars == <<inbox, read>>

EventTrigger == [authorized |-> "PAYMENT_AUTHORIZED",
                 captured   |-> "SETTLEMENT_CONFIRMED",
                 failed     |-> "PAYMENT_FAILED"]

Event == DOMAIN EventTrigger

WebhookTypeOK ==
  /\ inbox \in [Release -> [Event -> {"NEW", "CLAIMED", "PROCESSED"}]]
  /\ read \in [Release -> [Event -> ReleaseState \cup {"NONE"}]]

WebhookInit ==
  /\ inbox = [r \in Release |-> [e \in Event |-> "NEW"]]
  /\ read = [r \in Release |-> [e \in Event |-> "NONE"]]

\* The provider has the event to send. A captured payment was authorized first.
Emitted(r, e) == \/ payment[r] = e
                 \/ payment[r] = "captured" /\ e = "authorized"

Close(r, e) ==
  /\ inbox' = [inbox EXCEPT ![r][e] = "PROCESSED"]
  /\ read' = [read EXCEPT ![r][e] = "NONE"]

\* ingest() up to nextState: the event id is claimed, the release is found by
\* the order or payment id recorded on it, and an event that implies no
\* declared move is closed.
ReceiveEvent(r, e) ==
  /\ inbox[r][e] = "NEW" /\ Emitted(r, e)
  /\ IF (orderId[r] \/ paymentId[r]) /\ Declares(state[r], EventTrigger[e])
     THEN /\ inbox' = [inbox EXCEPT ![r][e] = "CLAIMED"]
          /\ read' = [read EXCEPT ![r][e] = state[r]]
     ELSE Close(r, e)
  /\ UNCHANGED <<storeVars, providerVars, requestVars, workerVars>>

\* The compare-and-set from the state that was read. It records the payment.
ApplyEvent(r, e) ==
  /\ inbox[r][e] = "CLAIMED"
  /\ IF state[r] = read[r][e]
     THEN /\ MoveTo(r, To[EventTrigger[e]])
          /\ paymentId' = [paymentId EXCEPT ![r] = TRUE]
          /\ orderId' = [orderId EXCEPT ![r] = TRUE]
     ELSE UNCHANGED <<state, age, paymentId, orderId>>
  /\ Close(r, e)
  /\ UNCHANGED <<attempts, authorization, reviewRows, evidence,
                 providerVars, requestVars, workerVars>>

\* The handler dies after the claim: every later delivery is a duplicate.
CrashEvent(r, e) ==
  /\ inbox[r][e] = "CLAIMED"
  /\ Close(r, e)
  /\ UNCHANGED <<storeVars, providerVars, requestVars, workerVars>>
=============================================================================
