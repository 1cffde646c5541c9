-------------------------- MODULE Provider_proofs --------------------------
(***************************************************************************)
(* What holds between the service and its payment provider, for every      *)
(* instance: the executor that burns a grant before a call                 *)
(* (GuardedExecutor), the provider's events on a release (PaymentEvents)   *)
(* and the adapter that states a call's outcome (RazorpayClient).          *)
(*                                                                         *)
(* The three share no state; each part has its own inductive invariant.    *)
(***************************************************************************)
EXTENDS GuardedExecutor, PaymentEvents, RazorpayClient, TLAPS


-----------------------------------------------------------------------------
(***************************************************************************)
(* A grant is worth one provider call, for any releases, calls, lifetime   *)
(* of a grant and horizon, provided that the clock is never set back.      *)
(*                                                                         *)
(* A burned nonce is forgotten, so the property needs what the executor    *)
(* relies on when it forgets one: a nonce that has run is still among the  *)
(* burned ones, or its grant has expired (Remembered).                     *)
(***************************************************************************)

Grant == {g \in [nonce : Nonce, expiresAt : Nat] : g.expiresAt = g.nonce[2] + GxTtl}

GrantTypes == /\ clock \in Moment
              /\ \A h \in GxHolder : held[h] # NoGrant => held[h] \in Grant
              /\ DOMAIN held = GxHolder
              /\ held = [h \in GxHolder |-> held[h]]
              /\ consumed \subseteq Grant
              /\ ran \in [Nonce -> Nat]

Remembered(n) == ran[n] > 0 => (\E c \in consumed : c.nonce = n) \/ clock > n[2] + GxTtl

GrantInv == /\ GrantTypes
            /\ GrantRunsOnce
            /\ \A n \in Nonce : Remembered(n)

LEMMA GrantInit == ExecutorInit => GrantInv
  BY ExecutorAssumption
     DEF ExecutorInit, GrantInv, GrantTypes, GrantRunsOnce, Remembered, NoGrant, Moment

LEMMA MomentIsNat == Moment \subseteq Nat /\ \A n \in Nonce : n[2] \in Moment
  BY ExecutorAssumption DEF Moment, Nonce

LEMMA MintKeeps ==
  ASSUME GrantInv, NEW h \in GxHolder, NEW r \in GxRelease, Mint(h, r)
  PROVE  GrantInv'
<1> DEFINE g == [nonce |-> <<r, clock>>, expiresAt |-> clock + GxTtl]
<1>1. g \in Grant
  <2>1. <<r, clock>> \in Nonce /\ <<r, clock>>[2] = clock /\ clock + GxTtl \in Nat
    BY MomentIsNat, ExecutorAssumption DEF GrantInv, GrantTypes, Nonce
  <2> QED BY <2>1 DEF Grant
<1>2. held' = [held EXCEPT ![h] = g] /\ UNCHANGED <<clock, consumed, ran>>
  BY DEF Mint
<1> HIDE DEF g
<1> QED BY <1>1, <1>2 DEF GrantInv, GrantTypes, GrantRunsOnce, Remembered

LEMMA PresentKeeps ==
  ASSUME GrantInv, NEW h \in GxHolder, Present(h)
  PROVE  GrantInv'
<1> DEFINE g == held[h]
<1>1. g \in Grant /\ g.nonce \in Nonce /\ g.expiresAt = g.nonce[2] + GxTtl
  BY DEF Present, GrantInv, GrantTypes, Grant
<1>2. /\ ~(clock > g.expiresAt)
      /\ \A c \in consumed : c.nonce # g.nonce
      /\ consumed' = Evict(consumed \cup {g})
      /\ ran' = [ran EXCEPT ![g.nonce] = @ + 1]
      /\ UNCHANGED <<clock, held>>
  BY DEF Present, IsAfter
<1>3. ran[g.nonce] = 0
  <2>1. Remembered(g.nonce) /\ ran[g.nonce] \in Nat
    BY <1>1 DEF GrantInv, GrantTypes
  <2> QED BY <1>1, <1>2, <2>1 DEF Remembered
<1>4. g \in consumed'
  BY <1>2 DEF Evict, IsAfter
<1>5. \A c \in consumed : c \in consumed' \/ clock > c.expiresAt
  BY <1>2 DEF Evict, IsAfter
<1>6. \A n \in Nonce : n # g.nonce => ran'[n] = ran[n]
  BY <1>1, <1>2 DEF GrantInv, GrantTypes
<1>7. GrantTypes'
  BY <1>1, <1>2 DEF GrantInv, GrantTypes, Evict
<1>8. GrantRunsOnce'
  BY <1>1, <1>2, <1>3, <1>6 DEF GrantInv, GrantTypes, GrantRunsOnce
<1>9. ASSUME NEW n \in Nonce PROVE Remembered(n)'
  <2>1. CASE n = g.nonce
    BY <1>4, <2>1 DEF Remembered
  <2>2. CASE n # g.nonce
    <3>1. CASE ran[n] > 0 /\ clock > n[2] + GxTtl
      BY <1>2, <3>1 DEF Remembered
    <3>2. ASSUME NEW c \in consumed, c.nonce = n PROVE Remembered(n)'
      <4>1. c.expiresAt = n[2] + GxTtl
        BY <3>2 DEF GrantInv, GrantTypes, Grant
      <4> QED BY <1>2, <1>5, <3>2, <4>1 DEF Remembered
    <3>3. Remembered(n)
      BY DEF GrantInv
    <3> QED BY <1>6, <2>2, <3>1, <3>2, <3>3 DEF Remembered
  <2> QED BY <2>1, <2>2
<1> QED BY <1>7, <1>8, <1>9 DEF GrantInv

LEMMA TickKeeps ==
  ASSUME GrantInv, ~GxClockGoesBack, Tick
  PROVE  GrantInv'
<1>1. clock' = clock + 1 /\ clock' \in Moment /\ UNCHANGED <<held, consumed, ran>>
  BY DEF Tick
<1>2. \A n \in Nonce : Remembered(n)'
  <2> TAKE n \in Nonce
  <2>1. Remembered(n) /\ clock \in Nat /\ n[2] \in Nat
    BY MomentIsNat DEF GrantInv, GrantTypes
  <2> QED BY <1>1, <2>1, ExecutorAssumption DEF Remembered
<1> QED BY <1>1, <1>2 DEF GrantInv, GrantTypes, GrantRunsOnce

LEMMA GrantStep ==
  ASSUME ~GxClockGoesBack
  PROVE  GrantInv /\ [ExecutorNext]_executorVars => GrantInv'
<1> SUFFICES ASSUME GrantInv, [ExecutorNext]_executorVars PROVE GrantInv'
  OBVIOUS
<1>1. ASSUME NEW h \in GxHolder, Discard(h) PROVE GrantInv'
  BY <1>1 DEF Discard, GrantInv, GrantTypes, GrantRunsOnce, Remembered
<1>2. CASE UNCHANGED executorVars
  BY <1>2 DEF executorVars, GrantInv, GrantTypes, GrantRunsOnce, Remembered
<1> QED BY <1>1, <1>2, MintKeeps, PresentKeeps, TickKeeps DEF ExecutorNext

\* A grant is worth one provider call, however often and by whomever it is presented, as long
\* as the process's clock is never set back (GrantRunsOnce).
THEOREM GrantsRunOnce ==
  ASSUME ~GxClockGoesBack
  PROVE  ExecutorSpec => []GrantRunsOnce
<1>1. GrantInv => GrantRunsOnce
  BY DEF GrantInv
<1>2. GrantInv /\ [ExecutorNext]_executorVars => GrantInv'
  BY GrantStep
<1> QED BY <1>1, <1>2, GrantInit, PTL DEF ExecutorSpec

-----------------------------------------------------------------------------
(***************************************************************************)
(* The payment a release ends with, for any number of payments attempted   *)
(* on its order, of any amounts.                                           *)
(*                                                                         *)
(* The handler compares the event's payment before it reads the state it   *)
(* will compare and set: what makes that enough is that a release is bound *)
(* once, when it leaves ORDER_CREATED, and the table has no way back       *)
(* (BindingInv), so that an event read later is still of that payment      *)
(* when it is applied (Reads).                                             *)
(***************************************************************************)

Reached == {"ORDER_CREATED", "PAYMENT_AUTHORIZED", "CAPTURED", "CAPTURE_REJECTED", "SETTLED", "FAILED"}

BindingTypes == /\ row \in Reached
                /\ bound \in (Payment \ OtherAmount) \cup {NoPayment}
                /\ status \in [Payment -> {"none", "authorized", "captured", "failed"}]

\* An event between its read and its update.
Reads(x) ==
  LET p == x.event[1]
  IN  /\ p \in Payment \ OtherAmount
      /\ x.state # "ORDER_CREATED" => bound = p
      /\ \/ x.event[2] = "authorized" /\ x.state = "ORDER_CREATED"
         \/ x.event[2] = "captured" /\ x.state = "CAPTURED" /\ status[p] = "captured"
         \/ /\ x.event[2] = "failed" /\ status[p] = "failed"
            /\ x.state \in {"ORDER_CREATED", "PAYMENT_AUTHORIZED"}

BindingInv == /\ BindingTypes
              /\ (row = "ORDER_CREATED") = (bound = NoPayment)
              /\ taken # NoPayment => row \in {"CAPTURED", "SETTLED"} /\ taken = bound
              /\ row = "SETTLED" => status[bound] = "captured"
              /\ row = "FAILED" => status[bound] = "failed"
              /\ \A x \in reading : Reads(x)

LEMMA BindingInit == EventsInit => BindingInv
  BY PaymentAssumption DEF EventsInit, BindingInv, BindingTypes, Reached

\* Payments only move towards their ends.
LEMMA AttemptKeeps ==
  ASSUME BindingInv, NEW p \in Payment, Attempt(p)
  PROVE  BindingInv'
<1>1. /\ status' \in [Payment -> {"none", "authorized", "captured", "failed"}]
      /\ \A q \in Payment : status[q] \in {"captured", "failed"} => status'[q] = status[q]
  BY DEF Attempt, BindingInv, BindingTypes
<1>2. UNCHANGED <<row, bound, claimed, reading, taken>>
  BY DEF Attempt
<1>3. row # "ORDER_CREATED" => bound \in Payment
  BY DEF BindingInv, BindingTypes
<1>4. \A x \in reading : Reads(x)'
  BY <1>1, <1>2 DEF BindingInv, Reads
<1> QED BY <1>1, <1>2, <1>3, <1>4 DEF BindingInv, BindingTypes, Reached

LEMMA CaptureKeeps ==
  ASSUME BindingInv, Capture
  PROVE  BindingInv'
<1>1. row = "PAYMENT_AUTHORIZED" /\ bound \in Payment /\ bound # NoPayment /\ taken = NoPayment
  BY DEF Capture, BindingInv, BindingTypes
<1>2. UNCHANGED <<bound, claimed, reading>>
  BY DEF Capture
<1>3. CASE status[bound] \in {"authorized", "captured"}
  <2>1. row' = "CAPTURED" /\ taken' = bound /\ status' = [status EXCEPT ![bound] = "captured"]
    BY <1>3 DEF Capture
  <2>2. \A q \in Payment : status[q] \in {"captured", "failed"} => status'[q] = status[q]
    BY <1>1, <1>3, <2>1 DEF BindingInv, BindingTypes
  <2>3. \A x \in reading : Reads(x)'
    BY <1>2, <2>2 DEF BindingInv, Reads
  <2> QED BY <1>1, <1>2, <2>1, <2>3 DEF BindingInv, BindingTypes, Reached
<1>4. CASE status[bound] \notin {"authorized", "captured"}
  <2>1. row' = "CAPTURE_REJECTED" /\ UNCHANGED <<status, taken>>
    BY <1>4 DEF Capture
  <2> QED BY <1>1, <1>2, <2>1 DEF BindingInv, BindingTypes, Reached, Reads
<1> QED BY <1>3, <1>4

LEMMA ReceiveKeeps ==
  ASSUME BindingInv, NEW p \in Payment, NEW type \in DOMAIN Trigger, Receive(p, type)
  PROVE  BindingInv'
<1> DEFINE x == [event |-> <<p, type>>, state |-> row]
<1>1. UNCHANGED <<row, bound, status, taken>>
  BY DEF Receive
<1>2. CASE EntityMismatch(p) \/ ~Declares(row, Trigger[type])
  BY <1>1, <1>2 DEF Receive, BindingInv, BindingTypes, Reads
<1>3. CASE ~EntityMismatch(p) /\ Declares(row, Trigger[type])
  <2>1. reading' = reading \cup {x}
    BY <1>3 DEF Receive
  <2>2. p \in Payment \ OtherAmount /\ (row # "ORDER_CREATED" => bound = p)
    BY <1>3 DEF EntityMismatch, BindingInv
  <2>3. \/ type = "authorized" /\ row = "ORDER_CREATED"
        \/ type = "captured" /\ row = "CAPTURED"
        \/ type = "failed" /\ row \in {"ORDER_CREATED", "PAYMENT_AUTHORIZED"}
    BY <1>3 DEF Declares, Trigger, From
  <2>4. type # "authorized" => status[p] = type
    BY DEF Receive, Emitted
  <2>5. x.event[1] = p /\ x.event[2] = type /\ x.state = row
    OBVIOUS
  <2>6. Reads(x)
    BY <2>2, <2>3, <2>4, <2>5 DEF Reads
  <2> HIDE DEF x
  <2> QED BY <1>1, <2>1, <2>6 DEF BindingInv, BindingTypes, Reads
<1> QED BY <1>2, <1>3

LEMMA ApplyKeeps ==
  ASSUME BindingInv, NEW x \in reading, Apply(x)
  PROVE  BindingInv'
<1> DEFINE p == x.event[1]
<1>1. Reads(x) /\ reading' \subseteq reading /\ UNCHANGED <<status, taken>>
  BY DEF Apply, BindingInv
<1>2. CASE row # x.state
  BY <1>1, <1>2 DEF Apply, BindingInv, BindingTypes, Reads
<1>3. CASE row = x.state
  <2>1. row' = To[Trigger[x.event[2]]] /\ bound' = p
    BY <1>3 DEF Apply
  <2>2. /\ x.event[2] = "authorized" => row' = "PAYMENT_AUTHORIZED"
        /\ x.event[2] = "captured" => row' = "SETTLED"
        /\ x.event[2] = "failed" => row' = "FAILED"
    BY <2>1 DEF To, Trigger
  <2>3. p \in Payment \ OtherAmount /\ p # NoPayment
    BY <1>1, PaymentAssumption DEF Reads
  <2>4. bound # NoPayment => bound = p
    BY <1>1, <1>3 DEF Reads, BindingInv
  <2>5. \A y \in reading : y.state # "ORDER_CREATED" => y.event[1] = p
    <3>1. SUFFICES ASSUME NEW y \in reading, y.state # "ORDER_CREATED" PROVE y.event[1] = p
      OBVIOUS
    <3>2. Reads(y)
      BY DEF BindingInv
    <3>3. bound = y.event[1] /\ bound # NoPayment
      BY <3>1, <3>2, PaymentAssumption DEF Reads
    <3> QED BY <2>4, <3>3
  <2>6. \A y \in reading : Reads(y)'
    BY <1>1, <2>1, <2>5 DEF BindingInv, Reads
  <2>7. taken # NoPayment => row' = "SETTLED" /\ taken = p
    <3>1. taken # NoPayment => row \in {"CAPTURED", "SETTLED"} /\ taken = bound /\ bound # NoPayment
      BY DEF BindingInv
    <3> QED BY <1>1, <1>3, <2>2, <2>4, <3>1 DEF Reads
  <2> QED BY <1>1, <2>1, <2>2, <2>3, <2>6, <2>7 DEF BindingInv, BindingTypes, Reached, Reads
<1> QED BY <1>2, <1>3

LEMMA BindingStep == BindingInv /\ [EventsNext]_eventVars => BindingInv'
<1> SUFFICES ASSUME BindingInv, [EventsNext]_eventVars PROVE BindingInv'
  OBVIOUS
<1>1. CASE UNCHANGED eventVars
  BY <1>1 DEF eventVars, BindingInv, BindingTypes, Reads
<1> QED BY <1>1, AttemptKeeps, CaptureKeeps, ReceiveKeeps, ApplyKeeps DEF EventsNext

\* A release is settled by the capture of the payment it charged and failed by its own payment's
\* failure, whatever other payments are attempted on its order and in whatever order their events
\* are handled (EndsByItsOwnPayment).
THEOREM EndsByOwnPayment == EventsSpec => []EndsByItsOwnPayment
<1>1. BindingInv => EndsByItsOwnPayment
  BY PaymentAssumption DEF BindingInv, BindingTypes, EndsByItsOwnPayment
<1> QED BY <1>1, BindingInit, BindingStep, PTL DEF EventsSpec

-----------------------------------------------------------------------------
(***************************************************************************)
(* What the adapter states as a fact is one, for any calls and payments.   *)
(* The invariant follows what the provider said of a call from the moment  *)
(* it says it: the adapter may not see it, but what it sees is that.       *)
(***************************************************************************)

\* What was said, where the request is, and what was made of it.
SaidIsTrue(c) ==
  /\ rzCall[c].stage = "idle" => c \notin rzWire /\ rzCall[c].said = "nothing"
  /\ c \in rzWire => rzCall[c].said = "nothing"
  /\ rzCall[c].said = "ok" <=> c \in rzApplied
  /\ rzCall[c].stage \in {"idle", "waiting"} => rzCall[c].outcome = "none"
  /\ rzCall[c].said \in DuplicateMarkers => Orders \ {c} # {}
  /\ rzCall[c].outcome = "REJECTED" => rzCall[c].said \in Errors
  /\ rzCall[c].outcome \in {"CREATED", "CAPTURED"} => rzCall[c].said = "ok"
  /\ rzCall[c].outcome = "DUPLICATE_RECEIPT" => rzCall[c].said \in DuplicateMarkers

FactInv == RzTypeOK /\ \A c \in RzCall : SaidIsTrue(c)

\* A refused call is not under way, and what was said of it is not success.
LEMMA FactsFollow == FactInv => OutcomesAreFacts
  BY DEF FactInv, SaidIsTrue, OutcomesAreFacts, Errors, DuplicateMarkers, CapturedMarkers, RzTypeOK

\* Nothing is said before anything is sent.
LEMMA FactInit == RzInit => FactInv
  BY DEF RzInit, FactInv, SaidIsTrue, RzTypeOK, Orders, Errors, DuplicateMarkers,
         CapturedMarkers, Stages, Outcomes, Known

\* The request is carried out at most once, and an order stays an order.
LEMMA FactCarryOut ==
  ASSUME FactInv, NEW c \in RzCall, CarryOut(c)
  PROVE  FactInv'
<1>1. RzTypeOK'
  BY DEF FactInv, RzTypeOK, CarryOut, Errors
<1>2. Orders \subseteq Orders'
  BY DEF Orders, CarryOut, FactInv, RzTypeOK
<1>3. ASSUME NEW d \in RzCall PROVE SaidIsTrue(d)'
  <2>1. CASE d = c
    BY <1>2, <2>1 DEF FactInv, SaidIsTrue, RzTypeOK, CarryOut, Errors, DuplicateMarkers, CapturedMarkers
  <2>2. CASE d # c
    BY <1>2, <2>2 DEF FactInv, SaidIsTrue, RzTypeOK, CarryOut
  <2> QED BY <2>1, <2>2
<1> QED BY <1>1, <1>3 DEF FactInv

\* An objection is the provider's last word on a call it has not carried out.
LEMMA FactObject ==
  ASSUME FactInv, NEW c \in RzCall, Object(c)
  PROVE  FactInv'
<1>1. PICK e \in {x \in Errors : Objects(c, x)} : rzCall' = [rzCall EXCEPT ![c].said = e]
  BY DEF Object
<1>2. /\ e \in Errors /\ Objects(c, e)
      /\ c \in rzWire /\ rzWire' = rzWire \ {c} /\ UNCHANGED <<rzApplied, rzPaid>>
  BY <1>1 DEF Object
<1>3. RzTypeOK'
  BY <1>1, <1>2 DEF FactInv, RzTypeOK
<1>4. Orders' = Orders
  BY <1>1, <1>2 DEF Orders, FactInv, RzTypeOK
<1>5. c \notin rzApplied /\ rzCall[c].said = "nothing"
  BY <1>2 DEF FactInv, SaidIsTrue
<1>6. e \in DuplicateMarkers => Orders \ {c} # {}
  BY <1>2, <1>5 DEF Objects, Orders, DuplicateMarkers
<1>7. ASSUME NEW d \in RzCall PROVE SaidIsTrue(d)'
  <2>1. CASE d = c
    BY <1>1, <1>2, <1>4, <1>5, <1>6, <2>1
       DEF FactInv, SaidIsTrue, RzTypeOK, Errors, DuplicateMarkers, CapturedMarkers
  <2>2. CASE d # c
    BY <1>1, <1>2, <1>4, <2>2 DEF FactInv, SaidIsTrue, RzTypeOK
  <2> QED BY <2>1, <2>2
<1> QED BY <1>3, <1>7 DEF FactInv

LEMMA FactSend ==
  ASSUME FactInv, NEW c \in RzCall, Send(c)
  PROVE  FactInv'
<1>1. RzTypeOK'
  BY DEF FactInv, RzTypeOK, Send, Stages
<1>2. Orders' = Orders
  BY DEF Orders, Send, FactInv, RzTypeOK
<1>3. ASSUME NEW d \in RzCall PROVE SaidIsTrue(d)'
  <2>1. CASE d = c
    BY <1>2, <2>1 DEF FactInv, SaidIsTrue, RzTypeOK, Send
  <2>2. CASE d # c
    BY <1>2, <2>2 DEF FactInv, SaidIsTrue, RzTypeOK, Send
  <2> QED BY <2>1, <2>2
<1> QED BY <1>1, <1>3 DEF FactInv

\* A request that is lost will never be carried out.
LEMMA FactLose ==
  ASSUME FactInv, NEW c \in RzCall, Lose(c)
  PROVE  FactInv'
<1>1. Orders' = Orders
  BY DEF Orders, Lose
<1> QED BY <1>1 DEF FactInv, SaidIsTrue, RzTypeOK, Lose

LEMMA FactLapse ==
  ASSUME FactInv, NEW p \in RzPayment, Lapse(p)
  PROVE  FactInv'
<1>1. Orders' = Orders
  BY DEF Orders, Lapse
<1>2. RzTypeOK'
  BY DEF FactInv, RzTypeOK, Lapse
<1> QED BY <1>1, <1>2 DEF FactInv, SaidIsTrue, Lapse

\* What is seen is what was said, or nothing but a fault.
LEMMA FactInterpret ==
  ASSUME FactInv, NEW c \in RzCall, Interpret(c)
  PROVE  FactInv'
<1>1. PICK seen \in Visible(c) :
        rzCall' = [rzCall EXCEPT
                     ![c].outcome = Outcome(rzCall[c].asks, seen),
                     ![c].stage = IF Outcome(rzCall[c].asks, seen) \in
                                       {"DUPLICATE_RECEIPT", "ALREADY_CAPTURED"}
                                  THEN "following" ELSE "answered"]
  BY DEF Interpret
<1> DEFINE o == Outcome(rzCall[c].asks, seen)
<1>2. /\ rzCall[c].stage = "waiting" /\ UNCHANGED <<rzWire, rzApplied, rzPaid>>
      /\ rzCall[c].said \in {"nothing", "ok"} \cup Errors
  BY DEF Interpret, FactInv, RzTypeOK
<1>3. seen \in Faults \/ (seen = rzCall[c].said /\ seen # "nothing")
  BY <1>1 DEF Visible
<1>4. /\ o \in Outcomes
      /\ o = "REJECTED" => rzCall[c].said \in Errors
      /\ o \in {"CREATED", "CAPTURED"} => rzCall[c].said = "ok"
      /\ o = "DUPLICATE_RECEIPT" => rzCall[c].said \in DuplicateMarkers
  BY <1>2, <1>3 DEF Outcome, Outcomes, Faults, Errors, DuplicateMarkers, CapturedMarkers
<1>5. RzTypeOK'
  BY <1>1, <1>2, <1>4 DEF FactInv, RzTypeOK, Stages
<1>6. Orders' = Orders
  BY <1>1, <1>2 DEF Orders, FactInv, RzTypeOK
<1>7. /\ rzCall'[c].outcome = o /\ rzCall'[c].said = rzCall[c].said
      /\ rzCall'[c].stage \in {"following", "answered"}
      /\ \A d \in RzCall \ {c} : rzCall'[d] = rzCall[d]
  BY <1>1 DEF FactInv, RzTypeOK
<1> HIDE DEF o
<1>8. ASSUME NEW d \in RzCall PROVE SaidIsTrue(d)'
  <2>1. CASE d = c
    BY <1>2, <1>4, <1>6, <1>7, <2>1 DEF FactInv, SaidIsTrue
  <2>2. CASE d # c
    BY <1>2, <1>6, <1>7, <2>2 DEF FactInv, SaidIsTrue
  <2> QED BY <2>1, <2>2
<1> QED BY <1>5, <1>8 DEF FactInv

\* The lookup that follows adds nothing to the outcome.
LEMMA FactFollow ==
  ASSUME FactInv, NEW c \in RzCall, Follow(c)
  PROVE  FactInv'
<1>1. PICK f \in {"null", "order"} \cup Known :
        rzCall' = [rzCall EXCEPT ![c].stage = "answered", ![c].found = f]
  BY DEF Follow, ToPaymentStatus, Known
<1>2. rzCall[c].stage = "following" /\ UNCHANGED <<rzWire, rzApplied, rzPaid>>
  BY DEF Follow
<1>3. RzTypeOK'
  BY <1>1, <1>2 DEF FactInv, RzTypeOK, Stages
<1>4. Orders' = Orders
  BY <1>1, <1>2 DEF Orders, FactInv, RzTypeOK
<1>5. ASSUME NEW d \in RzCall PROVE SaidIsTrue(d)'
  <2>1. CASE d = c
    BY <1>1, <1>2, <1>4, <2>1 DEF FactInv, SaidIsTrue, RzTypeOK
  <2>2. CASE d # c
    BY <1>1, <1>2, <1>4, <2>2 DEF FactInv, SaidIsTrue, RzTypeOK
  <2> QED BY <2>1, <2>2
<1> QED BY <1>3, <1>5 DEF FactInv

LEMMA FactStep == FactInv /\ [RzNext]_rzVars => FactInv'
<1> SUFFICES ASSUME FactInv, [RzNext]_rzVars PROVE FactInv'
  OBVIOUS
<1>1. CASE UNCHANGED rzVars
  BY <1>1 DEF FactInv, SaidIsTrue, RzTypeOK, Orders, rzVars
<1>2. CASE RzNext
  BY <1>2, FactCarryOut, FactObject, FactLose, FactSend, FactInterpret, FactFollow, FactLapse DEF RzNext
<1> QED BY <1>1, <1>2

\* For any calls and payments, whatever is lost, delayed or voided: the adapter
\* reports a refusal only of a call that was not and will not be carried out, and
\* a success only of one that was (client.ts, request and its callers).
THEOREM OutcomesAreTrue == RzSpec => []OutcomesAreFacts
<1>1. RzSpec => []FactInv
  BY FactInit, FactStep, PTL DEF RzSpec
<1> QED BY <1>1, FactsFollow, PTL

=============================================================================
