--------------------------- MODULE RazorpayClient ---------------------------
(***************************************************************************)
(* The HTTP adapter to the payment provider                                *)
(* (packages/integrations/src/razorpay/client.ts): how what came back over *)
(* the wire, if anything, becomes an outcome, and what the release service *)
(* concludes from the outcome.  PaymentProvider gives the outcomes to the  *)
(* rest of the model; here they are worked out, with the wordings and the  *)
(* faults the adapter has to tell apart.                                   *)
(*                                                                         *)
(* Abstractions.  One release: one receipt, and payments of its one order. *)
(* An HTTP exchange is what the provider said, or a fault that hides it: a *)
(* timeout, a 5xx, a body that does not parse or map, and a 4xx without    *)
(* the provider's error envelope.  Razorpay itself is external, as         *)
(* ADR-015, ADR-016 and the recorded responses in                          *)
(* tests/razorpay-live-responses.test.ts describe it.                      *)
(***************************************************************************)
EXTENDS Naturals

CONSTANTS RzCall,      \* the calls made to the adapter
          RzPayment    \* the payments on the order

VARIABLES rzCall,      \* each call: what it asks, where it stands, its outcome
          rzWire,      \* the calls whose request is still under way
          rzApplied,   \* the calls the provider has carried out
          rzPaid       \* what the provider holds of each payment

rzVars == <<rzCall, rzWire, rzApplied, rzPaid>>

Faults == {"timeout", "5xx", "garbled", "no envelope"}

\* The wordings by which one BAD_REQUEST_ERROR differs from another.
DuplicateMarkers == {"already been created", "duplicate"}
CapturedMarkers  == {"already been captured", "captured or voided", "already paid"}
Errors           == DuplicateMarkers \cup CapturedMarkers \cup {"refused"}

Stages   == {"idle", "waiting", "following", "answered"}
Outcomes == {"none", "CREATED", "DUPLICATE_RECEIPT", "CAPTURED", "ALREADY_CAPTURED",
             "REJECTED", "INDETERMINATE"}

\* toPaymentStatus: a status the adapter does not know is read as not captured.
Known == {"created", "authorized", "captured", "refunded", "failed"}
ToPaymentStatus(s) == IF s \in Known THEN s ELSE "created"

RzTypeOK ==
  /\ rzCall \in [RzCall -> [asks : {"order"} \cup RzPayment, stage : Stages, outcome : Outcomes,
                            said : {"nothing", "ok"} \cup Errors,
                            found : {"null", "order"} \cup Known]]
  /\ rzWire \subseteq RzCall
  /\ rzApplied \subseteq RzCall
  /\ rzPaid \in [RzPayment -> {"authorized", "captured", "voided", "refunded"}]

RzInit == /\ rzCall \in [RzCall -> [asks : {"order"} \cup RzPayment, stage : {"idle"}, outcome : {"none"},
                                    said : {"nothing"}, found : {"null"}]]
          /\ rzWire = {} /\ rzApplied = {}
          /\ rzPaid = [p \in RzPayment |-> "authorized"]

Orders == {c \in rzApplied : rzCall[c].asks = "order"}

-----------------------------------------------------------------------------
(* The provider. *)

\* It carries the request out, once, and says so.
CarryOut(c) ==
  /\ c \in rzWire
  /\ \/ rzCall[c].asks = "order" /\ UNCHANGED rzPaid
     \/ /\ rzCall[c].asks \in RzPayment
        /\ rzPaid[rzCall[c].asks] = "authorized"
        /\ \A p \in RzPayment : rzPaid[p] # "captured"
        /\ rzPaid' = [rzPaid EXCEPT ![rzCall[c].asks] = "captured"]
  /\ rzApplied' = rzApplied \cup {c}
  /\ rzWire' = rzWire \ {c}
  /\ rzCall' = [rzCall EXCEPT ![c].said = "ok"]

\* It may object instead, and leave everything as it is. A payment already
\* captured is always reported as such.
Objects(c, e) ==
  LET a == rzCall[c].asks
  IN  \/ e = "refused" /\ (a = "order" \/ rzPaid[a] # "captured")
      \/ e \in DuplicateMarkers /\ a = "order" /\ Orders # {}
      \/ e = "already been captured" /\ a # "order" /\ rzPaid[a] = "captured"
      \/ e = "captured or voided" /\ a # "order" /\ rzPaid[a] \in {"captured", "voided"}
      \/ e = "already paid" /\ a # "order" /\ \E p \in RzPayment : rzPaid[p] = "captured"

Object(c) ==
  /\ c \in rzWire
  /\ \E e \in {x \in Errors : Objects(c, x)} : rzCall' = [rzCall EXCEPT ![c].said = e]
  /\ rzWire' = rzWire \ {c}
  /\ UNCHANGED <<rzApplied, rzPaid>>

\* The request never arrives.
Lose(c) ==
  /\ c \in rzWire
  /\ rzWire' = rzWire \ {c}
  /\ UNCHANGED <<rzCall, rzApplied, rzPaid>>

\* An authorization that is left uncaptured is voided; a capture may be refunded.
Lapse(p) ==
  /\ \/ rzPaid[p] = "authorized" /\ rzPaid' = [rzPaid EXCEPT ![p] = "voided"]
     \/ rzPaid[p] = "captured"   /\ rzPaid' = [rzPaid EXCEPT ![p] = "refunded"]
  /\ UNCHANGED <<rzCall, rzWire, rzApplied>>

-----------------------------------------------------------------------------
(* The adapter. *)

Send(c) ==
  /\ rzCall[c].stage = "idle"
  /\ rzCall' = [rzCall EXCEPT ![c].stage = "waiting"]
  /\ rzWire' = rzWire \cup {c}
  /\ UNCHANGED <<rzApplied, rzPaid>>

\* request(): what the adapter sees is what was said, once it was, or a fault.
Visible(c) == Faults \cup ({rzCall[c].said} \ {"nothing"})

\* Mutant of Outcome: any 4xx is a refusal, with or without the envelope.
OutcomeOfStatus(asks, seen) ==
  CASE seen = "ok"                                    -> IF asks = "order" THEN "CREATED" ELSE "CAPTURED"
    [] seen \in DuplicateMarkers /\ asks = "order"     -> "DUPLICATE_RECEIPT"
    [] seen \in CapturedMarkers  /\ asks # "order"     -> "ALREADY_CAPTURED"
    [] seen \in {"timeout", "5xx", "garbled"}          -> "INDETERMINATE"
    [] OTHER                                           -> "REJECTED"

Outcome(asks, seen) ==
  CASE seen = "ok"                                    -> IF asks = "order" THEN "CREATED" ELSE "CAPTURED"
    [] seen \in DuplicateMarkers /\ asks = "order"     -> "DUPLICATE_RECEIPT"
    [] seen \in CapturedMarkers  /\ asks # "order"     -> "ALREADY_CAPTURED"
    [] seen \in Faults                                 -> "INDETERMINATE"
    [] OTHER                                           -> "REJECTED"

\* A repeated receipt and a repeated capture are followed by a lookup.
Interpret(c) ==
  /\ rzCall[c].stage = "waiting"
  /\ \E seen \in Visible(c) :
       LET o == Outcome(rzCall[c].asks, seen)
       IN  rzCall' = [rzCall EXCEPT ![c].outcome = o,
                                    ![c].stage = IF o \in {"DUPLICATE_RECEIPT", "ALREADY_CAPTURED"}
                                                 THEN "following" ELSE "answered"]
  /\ UNCHANGED <<rzWire, rzApplied, rzPaid>>

\* findOrderByReceipt, getPayment: null for absence, a lag and a fault alike.
Follow(c) ==
  /\ rzCall[c].stage = "following"
  /\ LET there == IF rzCall[c].asks # "order" THEN {ToPaymentStatus(rzPaid[rzCall[c].asks])}
                  ELSE IF Orders # {} THEN {"order"} ELSE {}
     IN  \E f \in {"null"} \cup there :
           rzCall' = [rzCall EXCEPT ![c].stage = "answered", ![c].found = f]
  /\ UNCHANGED <<rzWire, rzApplied, rzPaid>>

RzNext == \/ \E c \in RzCall : \/ CarryOut(c) \/ Object(c) \/ Lose(c)
                               \/ Send(c) \/ Interpret(c) \/ Follow(c)
          \/ \E p \in RzPayment : Lapse(p)

RzSpec == RzInit /\ [][RzNext]_rzVars

\* executeOrderCreation and executeCapture: the state a call's outcome leads to.
Target(c) ==
  LET o == rzCall[c].outcome
      Of(order, capture) == IF rzCall[c].asks = "order" THEN order ELSE capture
  IN  CASE o = "CREATED"                          -> "ORDER_CREATED"
        [] o = "DUPLICATE_RECEIPT"                -> IF rzCall[c].found = "null" THEN "FAILED"
                                                     ELSE "ORDER_CREATED"
        [] o \in {"CAPTURED", "ALREADY_CAPTURED"} -> "CAPTURED"
        [] o = "REJECTED"                         -> Of("FAILED", "CAPTURE_REJECTED")
        [] OTHER                                  -> Of("ORDER_INDETERMINATE", "CAPTURE_INDETERMINATE")

-----------------------------------------------------------------------------
(* Properties *)

\* What the adapter states as a fact is one: a call answered by a refusal has
\* not been carried out and never will be, one answered by success has been, and
\* an order reported as a duplicate exists. Everything a fault hides, in either
\* direction, stays INDETERMINATE (client.ts, request and its callers).
OutcomesAreFacts ==
  \A c \in RzCall :
    /\ rzCall[c].outcome = "REJECTED" => c \notin rzApplied \cup rzWire
    /\ rzCall[c].outcome \in {"CREATED", "CAPTURED"} => c \in rzApplied
    /\ rzCall[c].outcome = "DUPLICATE_RECEIPT" => Orders \ {c} # {}

\* release-service.ts:692-693: of ALREADY_CAPTURED, "the money already moved". It also
\* answers a payment that was voided, or one whose order another payment paid.
AlreadyCapturedHasMoved ==
  \A c \in RzCall :
    rzCall[c].stage = "answered" /\ rzCall[c].asks # "order" /\ Target(c) = "CAPTURED"
      => rzPaid[rzCall[c].asks] \in {"captured", "refunded"}

\* reconciliation-service.ts:136: "An empty lookup is NOT proof of absence." After a
\* duplicate receipt, which says that the order exists, it ends the release.
DuplicateIsNotDisowned ==
  \A c \in RzCall : rzCall[c].stage = "answered" /\ rzCall[c].outcome = "DUPLICATE_RECEIPT"
                      => Target(c) # "FAILED"
=============================================================================
