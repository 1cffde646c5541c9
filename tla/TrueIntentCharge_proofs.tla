---------------------- MODULE TrueIntentCharge_proofs ----------------------
(***************************************************************************)
(* What TrueIntent promises about money and mandates, for every number of  *)
(* releases, mandates, requests and workers. The first part summarises     *)
(* what a step may do to a release's row and to a request's call; every    *)
(* invariant after it is proved from those summaries.                      *)
(***************************************************************************)
EXTENDS TrueIntent_proofs

-----------------------------------------------------------------------------
(* The invariants *)

\* The provider's side of a call: who waits for an answer made the call, who
\* was answered has no call in transit, and who was told that the capture took
\* place was told the truth.
ProviderInv ==
  \A p \in Request :
    /\ reply[p] # "NONE" => pc[p] = "awaiting"
    /\ pc[p] = "awaiting" \/ p \in wire => p \in called
    /\ reply[p] \in {"DONE", "REJECTED"} => p \notin wire
    /\ reply[p] = "DONE" /\ gate[p] = "CAPTURE" => payment[on[p]] = "captured"

\* The states a release reaches only with an order, and with its payment.
WithPayment == {"PAYMENT_AUTHORIZED", "CAPTURE_VERIFYING", "CAPTURE_APPROVED",
                "CAPTURE_IN_FLIGHT", "CAPTURE_INDETERMINATE", "CAPTURED", "SETTLED"}

\* What a row says of its order, its payment and its decisions.
RowInv ==
  \A r \in Release :
    /\ state[r] \notin {"VERIFIED", "CAPTURE_APPROVED"}
    /\ state[r] \in BeforeOrder => ~orderId[r]
    /\ state[r] \in WithPayment \/ (state[r] = "PAUSED" /\ orderId[r]) => orderId[r] /\ paymentId[r]
    /\ orderId[r] \/ state[r] \in {"ORDER_IN_FLIGHT", "ORDER_INDETERMINATE"}
         => "ORDER_CREATION" \in evidence[r]
    /\ "ABANDONED" \in evidence[r] => state[r] = "ABORTED"

\* A capture has a call behind it, a call has both decisions behind it, and who
\* says that the money moved has the capture behind it.
ChargeInv ==
  /\ \A r \in Release :
       /\ payment[r] = "captured" => Calls(r, "CAPTURE") # {}
       /\ state[r] \in MoneyHasMoved => payment[r] = "captured"
  /\ \A p \in Request : Holds(p) /\ gate[p] = "CAPTURE" => Gate \subseteq evidence[on[p]]
  /\ \A w \in Worker :
       job[w] = "applying" /\ answer[w] = "CAPTURE_RECONCILED_CAPTURED"
         => payment[target[w]] = "captured"

-----------------------------------------------------------------------------
(* Timing *)

\* Nobody can still send a call for r at a gate: none is in transit, and who has
\* committed to one holds a grant that has expired.
NoCallLeft(r, g) ==
  \A p \in Request :
    gate[p] = g /\ on[p] = r => p \notin wire /\ (pc[p] = "prepared" => elapsed[p] > GrantTtl)

CaptureIsOver(r) == state[r] \in AfterCapture /\ NoCallLeft(r, "CAPTURE")

\* A call is younger than the in-flight state it left from, so it leaves while
\* that state is younger than a grant.
InFlight(g) == IF g = "CAPTURE" THEN {"CAPTURE_IN_FLIGHT", "CAPTURE_INDETERMINATE"}
                                ELSE {"ORDER_IN_FLIGHT", "ORDER_INDETERMINATE"}

TimingInv ==
  \A p \in Request :
    Holds(p) /\ state[on[p]] \in InFlight(gate[p]) =>
      /\ pc[p] = "prepared" => age[on[p]] <= elapsed[p]
      /\ p \in wire => age[on[p]] <= GrantTtl

\* A capture is denied only when it did not take place and no longer can.
RecordInv ==
  /\ \A r \in Release : payment[r] = "captured" => state[r] \in Unended
  /\ \A r \in Release : state[r] = "CAPTURE_REJECTED" => CaptureIsOver(r)
  /\ \A p \in Request :
       gate[p] = "CAPTURE" /\ reply[p] = "REJECTED" => payment[on[p]] # "captured"
  /\ \A w \in Worker :
       /\ job[w] \in {"asking", "applying"} /\ seen[w] \in InFlight("CAPTURE")
            => CaptureIsOver(target[w])
       /\ job[w] = "applying" /\ answer[w] = "CAPTURE_RECONCILED_NOT_CAPTURED"
            => payment[target[w]] # "captured"

\* The order gate of r has been passed, for good.
OrderIsPast(r) == state[r] \notin BeforeOrder /\ (state[r] = "PAUSED" => orderId[r])

\* There is no order for r and nobody can still create one.
OrderIsOver(r) == OrderIsPast(r) /\ order[r] = "NONE" /\ NoCallLeft(r, "ORDER_CREATION")

\* An order that exists had its one call, which has arrived.
OrderInv ==
  /\ \A r \in Release : order[r] # "NONE" => Calls(r, "ORDER_CREATION") \ wire # {}
  /\ \A r \in Release :
       order[r] = "UNINDEXED" /\ state[r] \in InFlight("ORDER_CREATION") => age[r] <= GrantTtl
  /\ \A p \in Request :
       gate[p] = "ORDER_CREATION" /\ reply[p] = "REJECTED" => order[on[p]] = "NONE"
  /\ \A r \in Release : inbox[r]["failed"] = "CLAIMED" => payment[r] = "failed"

\* An order is disowned only when there is none and none is coming.
DisownInv ==
  /\ \A r \in Release : state[r] = "FAILED" /\ payment[r] # "failed" => OrderIsOver(r)
  /\ \A w \in Worker :
       /\ job[w] \in {"asking", "applying"} /\ seen[w] \in InFlight("ORDER_CREATION") =>
            /\ OrderIsPast(target[w])
            /\ seen[w] = "ORDER_INDETERMINATE" => state[target[w]] # "ORDER_IN_FLIGHT"
       /\ /\ job[w] = "applying" /\ answer[w] = "ORDER_RECONCILED_ABSENT"
          /\ state[target[w]] = seen[w]
          => OrderIsOver(target[w])

\* The kernel has allowed what the request asks of r.
Allowed(p, r) == pc[p] = "decided" /\ verdict[p] = "ALLOW" /\ on[p] = r

\* The request is between its first commit and tx B.
Started(p) == pc[p] \in {"drafted", "evaluating", "decided"}

\* Inserted on a mandate read too early: the kernel reads it again, and denies.
Hopeless(r) ==
  /\ state[r] \in {"DRAFT", "VERIFYING", "PAUSED"} /\ ~orderId[r]
  /\ authorization[AuthorizationOf[r]] # "ACTIVE"
  /\ ~\E p \in Request : Allowed(p, r)

\* A charged mandate is spent, or its slot is taken.
MandateInv ==
  /\ \A p \in Request : Started(p) => state[on[p]] # "ABSENT"
  /\ \A r \in Release : state[r] \in MoneyHasMoved => authorization[AuthorizationOf[r]] # "ACTIVE"
  /\ \A q, r \in Release :
       payment[q] = "captured" /\ AuthorizationOf[q] = AuthorizationOf[r] /\ q # r
         => payment[r] # "captured" /\ (Active(r) => Hopeless(r))

-----------------------------------------------------------------------------
(* What a step may do to a call *)

LEMMA TypeKept ==
  ASSUME TypeOK, [Next]_vars
  PROVE  TypeOK'
  BY RequestType, ProviderType, WorkerType, EventType, ReviewType, RevokeType, TickType,
     StutterType DEF Next

CallKept(q) ==
  /\ pc'[q] = pc[q] /\ gate'[q] = gate[q] /\ on'[q] = on[q] /\ elapsed'[q] = elapsed[q]
  /\ reply'[q] = reply[q] /\ (q \in wire' <=> q \in wire) /\ (q \in called' <=> q \in called)

\* A request's step leaves every other call alone. Its own call is not committed
\* to yet, is committed to, leaves with a valid grant, or is over.
RequestAdvances(p) ==
  /\ \A q \in Request \ {p} : CallKept(q)
  /\ UNCHANGED <<order, payment>>
  /\ \/ /\ {pc[p], pc'[p]} \cap {"prepared", "awaiting"} = {} /\ p \notin called
        /\ UNCHANGED <<wire, called>> /\ reply'[p] \in {reply[p], "NONE"}
     \/ /\ pc[p] = "decided" /\ pc'[p] = "prepared" /\ p \notin called /\ Commits(p)
        /\ UNCHANGED <<wire, called, gate, on, reply>> /\ elapsed'[p] = elapsed[p]
        /\ age'[on[p]] = 0
     \/ /\ pc[p] = "prepared" /\ pc'[p] = "awaiting" /\ elapsed[p] <= GrantTtl
        /\ wire' = wire \cup {p} /\ called' = called \cup {p}
        /\ UNCHANGED <<gate, on, reply, storeVars>>
     \/ /\ pc[p] \in {"prepared", "awaiting"} /\ pc'[p] = "done"
        /\ UNCHANGED <<wire, called, gate, on>>
        /\ reply'[p] = "NONE" \/ (pc[p] = "prepared" /\ reply'[p] = reply[p])

LEMMA RequestAdvance ==
  ASSUME TypeOK, Placed, NEW p \in Request, RequestStep(p)
  PROVE  RequestAdvances(p)
<1> StoreTypeOK /\ ProviderTypeOK /\ ServiceTypeOK
  BY DEF TypeOK
<1>1. ASSUME NEW where \in Where, Goto(p, where)
      PROVE  pc'[p] = where /\ \A q \in Request \ {p} : pc'[q] = pc[q]
  BY <1>1 DEF Goto, ServiceTypeOK
<1>2. ASSUME Finish(p)
      PROVE  /\ pc'[p] = "done"
             /\ \A q \in Request \ {p} : pc'[q] = pc[q] /\ elapsed'[q] = elapsed[q]
  BY <1>1, <1>2 DEF Finish, ServiceTypeOK, Where
<1>3. ASSUME NEW r \in Release, StartOrder(p, r) \/ StartCapture(p, r)
      PROVE  RequestAdvances(p)
  <2>1. pc[p] = "idle" /\ p \notin called /\ UNCHANGED <<elapsed, providerVars>>
    BY <1>3 DEF StartOrder, StartCapture, Placed
  <2>2. \A q \in Request \ {p} : on'[q] = on[q] /\ gate'[q] = gate[q]
    BY <1>3 DEF StartOrder, StartCapture, Address, ServiceTypeOK
  <2>3. PICK where \in {"drafted", "done", "evaluating", "lost"} : Goto(p, where)
    BY <1>3 DEF StartOrder, StartNewOrder, MandateRefused, StartStoredOrder, StartCapture
  <2>4. pc'[p] = where /\ \A q \in Request \ {p} : pc'[q] = pc[q]
    BY <1>1, <2>3 DEF Where
  <2> QED BY <2>1, <2>2, <2>4 DEF RequestAdvances, CallKept, providerVars
<1>4. CASE BeginVerification(p) \/ Evaluate(p)
  <2>1. /\ pc[p] \in {"drafted", "evaluating"} /\ UNCHANGED <<gate, on, elapsed, providerVars>>
        /\ Goto(p, "evaluating") \/ Goto(p, "decided")
    BY <1>4 DEF BeginVerification, Evaluate
  <2>2. pc'[p] \in {"evaluating", "decided"} /\ \A q \in Request \ {p} : pc'[q] = pc[q]
    BY <1>1, <2>1 DEF Where
  <2> QED BY <2>1, <2>2 DEF RequestAdvances, CallKept, providerVars, Placed
<1>5. CASE Refuse(p) \/ LostCapture(p)
  <2>1. /\ pc[p] \in {"decided", "lost"} /\ UNCHANGED <<gate, on, providerVars>> /\ Finish(p)
    BY <1>5 DEF Refuse, LostCapture
  <2> QED BY <1>2, <2>1 DEF RequestAdvances, CallKept, providerVars, Placed
<1>6. CASE CommitOrder(p) \/ CommitCapture(p)
  <2>1. pc[p] = "decided" /\ UNCHANGED <<gate, on, providerVars>>
    BY <1>6 DEF CommitOrder, CommitCapture, Commit
  <2>2. p \notin called /\ on[p] \in Release
    BY <2>1 DEF Placed
  <2>3. CASE Finish(p)
    BY <1>2, <2>1, <2>2, <2>3 DEF RequestAdvances, CallKept, providerVars
  <2>4. CASE ~Finish(p)
    <3>1. Goto(p, "prepared") /\ UNCHANGED locals
      BY <1>6, <2>4 DEF CommitOrder, CommitCapture, Commit
    <3>2. pc'[p] = "prepared" /\ \A q \in Request \ {p} : pc'[q] = pc[q]
      BY <1>1, <3>1 DEF Where
    <3>3. \/ /\ gate[p] = "ORDER_CREATION" /\ state[on[p]] = "VERIFYING"
             /\ MoveTo(on[p], "ORDER_IN_FLIGHT")
          \/ /\ gate[p] = "CAPTURE" /\ state[on[p]] = "CAPTURE_VERIFYING"
             /\ MoveTo(on[p], "CAPTURE_IN_FLIGHT")
      BY <1>6, <2>4 DEF CommitOrder, CommitCapture, Commit, From, To
    <3>4. Commits(p) /\ age'[on[p]] = 0
      BY <2>2, <3>3 DEF Commits, MoveTo, StoreTypeOK
    <3> QED BY <2>1, <2>2, <3>1, <3>2, <3>4 DEF RequestAdvances, CallKept, providerVars, locals
  <2> QED BY <2>3, <2>4
<1>7. CASE Call(p)
  <2>1. pc[p] = "prepared" /\ UNCHANGED <<gate, on, storeVars, reply, order, payment>>
    BY <1>7 DEF Call
  <2>2. CASE elapsed[p] > GrantTtl
    <3>1. Finish(p) /\ UNCHANGED <<wire, called>>
      BY <1>7, <2>2 DEF Call
    <3> QED BY <1>2, <2>1, <3>1 DEF RequestAdvances, CallKept
  <2>3. CASE ~(elapsed[p] > GrantTtl)
    <3>1. /\ Goto(p, "awaiting") /\ UNCHANGED locals
          /\ wire' = wire \cup {p} /\ called' = called \cup {p}
      BY <1>7, <2>3 DEF Call
    <3>2. pc'[p] = "awaiting" /\ \A q \in Request \ {p} : pc'[q] = pc[q]
      BY <1>1, <3>1 DEF Where
    <3>3. elapsed[p] <= GrantTtl
      BY <2>3, StoreAssumption DEF ServiceTypeOK
    <3> QED BY <2>1, <3>1, <3>2, <3>3 DEF RequestAdvances, CallKept, locals
  <2> QED BY <2>2, <2>3
<1>8. CASE RecordOutcome(p) \/ CrashRequest(p)
  <2>1. /\ Finish(p) /\ UNCHANGED <<gate, on, wire, called, order, payment>>
        /\ reply' = [reply EXCEPT ![p] = "NONE"] /\ pc[p] \notin {"idle", "done"}
    BY <1>8 DEF RecordOutcome, CrashRequest
  <2>2. reply'[p] = "NONE" /\ \A q \in Request \ {p} : reply'[q] = reply[q]
    BY <2>1 DEF ProviderTypeOK
  <2>3. pc[p] \notin {"prepared", "awaiting"} => p \notin called
    BY <2>1 DEF Placed
  <2> QED BY <1>2, <2>1, <2>2, <2>3 DEF RequestAdvances, CallKept
<1> QED BY <1>3, <1>4, <1>5, <1>6, <1>7, <1>8 DEF RequestStep, Proceed

\* Whatever is not a request's step, a provider's or the clock's leaves every
\* call and every payment alone.
LEMMA Frames ==
  ASSUME [Next]_vars
  PROVE  \/ \E p \in Request : RequestStep(p)
         \/ ProviderStep
         \/ Tick
         \/ UNCHANGED <<providerVars, requestVars>>
<1>1. \A w \in Worker : WorkerStep(w) => UNCHANGED <<providerVars, requestVars>>
  BY DEF WorkerStep, PickStuck, PickById, PickAbandoned, Pick, Work, AskForOrder, AskForPayment,
         Apply, Spend, Abandon, CrashWorker
<1>2. \A r \in Release, e \in Event : EventStep(r, e) => UNCHANGED <<providerVars, requestVars>>
  BY DEF EventStep, ReceiveEvent, ApplyEvent, CrashEvent
<1>3. \A r \in Release : ReviewStep(r) => UNCHANGED <<providerVars, requestVars>>
  BY DEF ReviewStep, ResolveReview, ApplyResolution, CrashReview
<1>4. (\E a \in Authorization : RevokeStep(a)) \/ UNCHANGED vars
      => UNCHANGED <<providerVars, requestVars>>
  BY DEF RevokeStep, vars
<1> QED BY <1>1, <1>2, <1>3, <1>4 DEF Next

\* What a step may do to a payment: only a capture call in transit captures it,
\* and only the payer's failure fails it.
PaymentKept ==
  \A r \in Release :
    /\ payment[r] \in {"captured", "failed"} => payment'[r] = payment[r]
    /\ payment'[r] = "captured" /\ payment[r] # "captured" =>
         \E p \in wire : gate[p] = "CAPTURE" /\ on[p] = r /\ p \notin wire'

\* What a step may do to an order: only an order call in transit creates one,
\* and an order that exists stays.
OrderKept ==
  \A r \in Release :
    /\ order[r] # "NONE" => order'[r] # "NONE"
    /\ order'[r] # "NONE" /\ order[r] = "NONE" =>
         \E p \in wire : gate[p] = "ORDER_CREATION" /\ on[p] = r /\ p \notin wire'
    /\ order'[r] = "UNINDEXED" => \/ order[r] = "UNINDEXED"
                                  \/ \E p \in wire : gate[p] = "ORDER_CREATION" /\ on[p] = r

\* A call that was made stays made, arrives once, and stays the call it was.
CallsStay ==
  /\ called \subseteq called'
  /\ \A p \in wire' \ wire : p \notin called /\ pc[p] = "prepared" /\ elapsed[p] <= GrantTtl
  /\ \A p \in called : gate'[p] = gate[p] /\ on'[p] = on[p]

LEMMA ProviderMoves ==
  ASSUME TypeOK, Placed, [Next]_vars
  PROVE  PaymentKept /\ OrderKept /\ CallsStay
<1> ProviderTypeOK /\ wire \subseteq Request
  BY DEF TypeOK, ProviderTypeOK
<1> HoldersKept
  BY Holders
<1>1. CASE UNCHANGED <<wire, called, gate, on, order, payment>>
  BY <1>1 DEF PaymentKept, OrderKept, CallsStay
<1>2. CASE \E p \in Request : RequestStep(p)
  <2>1. PICK p \in Request : RequestAdvances(p)
    BY <1>2, RequestAdvance
  <2>2. PaymentKept /\ OrderKept
    BY <2>1 DEF RequestAdvances, PaymentKept, OrderKept
  <2>3. called \subseteq called'
    BY <2>1 DEF RequestAdvances
  <2>4. \A q \in wire' \ wire : q \notin called /\ pc[q] = "prepared" /\ elapsed[q] <= GrantTtl
    BY <2>1 DEF RequestAdvances, Placed
  <2>5. \A q \in called : gate'[q] = gate[q] /\ on'[q] = on[q]
    BY <2>3 DEF HoldersKept, Holds, ProviderTypeOK
  <2> QED BY <2>2, <2>3, <2>4, <2>5 DEF CallsStay
<1>3. CASE ProviderStep
  <2>1. UNCHANGED <<gate, on, called>>
    BY <1>3 DEF ProviderStep, requestVars, ApplyOrder, ApplyCapture, LoseCall, TimeOut, IndexOrder, Pay
  <2>2. ASSUME NEW p \in Request, ApplyOrder(p) PROVE PaymentKept /\ OrderKept /\ wire' \subseteq wire
    BY <2>2 DEF ApplyOrder, PaymentKept, OrderKept, ProviderTypeOK
  <2>3. ASSUME NEW p \in Request, ApplyCapture(p) PROVE PaymentKept /\ OrderKept /\ wire' \subseteq wire
    BY <2>3 DEF ApplyCapture, PaymentKept, OrderKept, ProviderTypeOK
  <2>4. ASSUME NEW p \in Request, LoseCall(p) \/ TimeOut(p)
        PROVE  PaymentKept /\ OrderKept /\ wire' \subseteq wire
    BY <2>4 DEF LoseCall, TimeOut, PaymentKept, OrderKept
  <2>5. ASSUME NEW r \in Release, IndexOrder(r) \/ Pay(r)
        PROVE  PaymentKept /\ OrderKept /\ wire' \subseteq wire
    BY <2>5 DEF IndexOrder, Pay, PaymentKept, OrderKept, ProviderTypeOK
  <2>6. PaymentKept /\ OrderKept /\ wire' \subseteq wire
    BY <1>3, <2>2, <2>3, <2>4, <2>5 DEF ProviderStep
  <2> QED BY <2>1, <2>6 DEF CallsStay
<1>4. Tick => UNCHANGED <<wire, called, gate, on, order, payment>>
  BY DEF Tick, providerVars
<1> QED BY <1>1, <1>2, <1>3, <1>4, Frames DEF providerVars, requestVars

LEMMA ProviderInvInit == Init => ProviderInv
  BY DEF Init, ProviderInit, ServiceInit, ProviderInv

LEMMA ProviderInvKept ==
  ASSUME TypeOK, Placed, ProviderInv, [Next]_vars
  PROVE  ProviderInv'
<1> ProviderTypeOK /\ ServiceTypeOK
  BY DEF TypeOK
<1> DEFINE Inv(p) ==
      /\ reply[p] # "NONE" => pc[p] = "awaiting"
      /\ pc[p] = "awaiting" \/ p \in wire => p \in called
      /\ reply[p] \in {"DONE", "REJECTED"} => p \notin wire
      /\ reply[p] = "DONE" /\ gate[p] = "CAPTURE" => payment[on[p]] = "captured"
<1>1. CASE UNCHANGED <<providerVars, pc, gate, on>>
  BY <1>1 DEF ProviderInv, providerVars
<1>2. CASE \E p \in Request : RequestStep(p)
  <2>1. PICK p \in Request : RequestAdvances(p)
    BY <1>2, RequestAdvance
  <2>2. \A q \in Request \ {p} : Inv(q)'
    BY <2>1 DEF RequestAdvances, CallKept, ProviderInv
  <2>3. Inv(p)'
    BY <2>1 DEF RequestAdvances, ProviderInv, Placed
  <2> QED BY <2>2, <2>3 DEF ProviderInv
<1>3. CASE ProviderStep
  <2>1. UNCHANGED <<pc, gate, on>>
    BY <1>3 DEF ProviderStep, requestVars
  <2>2. ASSUME NEW p \in Request, ApplyOrder(p) \/ ApplyCapture(p) PROVE ProviderInv'
    <3>1. /\ p \in wire /\ wire' = wire \ {p} /\ UNCHANGED called
          /\ \A q \in Request \ {p} : reply'[q] = reply[q]
          /\ reply'[p] # reply[p] => pc[p] = "awaiting"
      BY <2>2 DEF ApplyOrder, ApplyCapture, Answer, ProviderTypeOK
    <3>2. on[p] \in Release
      BY <3>1 DEF ProviderInv, Placed
    <3>3. \A x \in Release : payment[x] = "captured" => payment'[x] = "captured"
      BY <2>2 DEF ApplyOrder, ApplyCapture, ProviderTypeOK
    <3>4. gate[p] = "CAPTURE" /\ reply'[p] = "DONE" => reply[p] = "DONE" \/ payment'[on[p]] = "captured"
      BY <2>2, <3>2 DEF ApplyOrder, ApplyCapture, Answer, ProviderTypeOK
    <3>5. \A q \in Request : reply[q] = "DONE" => on[q] \in Release
      BY DEF ProviderInv, Placed
    <3> QED BY <2>1, <3>1, <3>2, <3>3, <3>4, <3>5 DEF ProviderInv
  <2>3. ASSUME NEW p \in Request, LoseCall(p) \/ TimeOut(p) PROVE ProviderInv'
    BY <2>1, <2>3 DEF LoseCall, TimeOut, ProviderTypeOK, ProviderInv
  <2>4. ASSUME NEW r \in Release, IndexOrder(r) \/ Pay(r) PROVE ProviderInv'
    <3>1. UNCHANGED <<wire, reply, called>>
      BY <2>4 DEF IndexOrder, Pay
    <3>2. \A x \in Release : payment[x] = "captured" => payment'[x] = "captured"
      BY <2>4 DEF IndexOrder, Pay, ProviderTypeOK
    <3>3. \A q \in Request : reply[q] = "DONE" => on[q] \in Release
      BY DEF ProviderInv, Placed
    <3> QED BY <2>1, <3>1, <3>2, <3>3 DEF ProviderInv
  <2> QED BY <1>3, <2>2, <2>3, <2>4 DEF ProviderStep
<1>4. Tick => UNCHANGED <<providerVars, pc, gate, on>>
  BY DEF Tick
<1> QED BY <1>1, <1>2, <1>3, <1>4, Frames DEF requestVars

-----------------------------------------------------------------------------
(* What a step may do to a row *)

\* Beside the moves of the table: ids and evidence only accumulate, an order id
\* comes with the move that learns it, and each move leaves its mark.
RowKept ==
  \A r \in Release :
    /\ paymentId[r] => paymentId'[r]
    /\ evidence[r] \subseteq evidence'[r]
    /\ orderId'[r] # orderId[r] =>
         /\ state[r] \in {"ORDER_IN_FLIGHT", "ORDER_INDETERMINATE", "ORDER_CREATED",
                          "PAYMENT_AUTHORIZED", "CAPTURED"}
         /\ state'[r] \in {"ORDER_CREATED", "PAYMENT_AUTHORIZED", "FAILED", "SETTLED"}
    /\ state'[r] = "PAYMENT_AUTHORIZED" => state'[r] = state[r] \/ paymentId'[r]
    /\ state'[r] \in {"VERIFIED", "CAPTURE_APPROVED"} => state'[r] = state[r]
    /\ state'[r] = "ORDER_IN_FLIGHT" => state'[r] = state[r] \/ "ORDER_CREATION" \in evidence'[r]
    /\ state'[r] = "CAPTURE_IN_FLIGHT" => state'[r] = state[r] \/ "CAPTURE" \in evidence'[r]
    /\ "ABANDONED" \in evidence'[r] => "ABANDONED" \in evidence[r] \/ state'[r] = "ABORTED"

LEMMA RowQuiet ==
  ASSUME UNCHANGED <<state, orderId, paymentId, evidence>>
  PROVE  RowKept
  BY DEF RowKept

\* A move that marks nothing.
LEMMA RowMoved ==
  ASSUME StoreTypeOK, UNCHANGED <<orderId, paymentId, evidence>>, NEW r, NEW to, MoveTo(r, to),
         to \notin {"PAYMENT_AUTHORIZED", "VERIFIED", "CAPTURE_APPROVED", "ORDER_IN_FLIGHT",
                    "CAPTURE_IN_FLIGHT"}
  PROVE  RowKept
<1>1. \A x \in Release : state'[x] = IF x = r THEN to ELSE state[x]
  BY DEF MoveTo, StoreTypeOK
<1> QED BY <1>1 DEF RowKept

LEMMA RequestRows ==
  ASSUME TypeOK, Placed, NEW p \in Request, RequestStep(p)
  PROVE  RowKept
<1> StoreTypeOK /\ ProviderTypeOK /\ ServiceTypeOK
  BY DEF TypeOK
<1>1. ASSUME NEW r \in Release, StartOrder(p, r) \/ StartCapture(p, r) PROVE RowKept
  <2>1. UNCHANGED <<orderId, paymentId, evidence>>
    BY <1>1 DEF StartOrder, StartCapture
  <2>2. UNCHANGED state \/ MoveTo(r, "DRAFT") \/ MoveTo(r, "CAPTURE_VERIFYING")
    BY <1>1 DEF StartOrder, StartNewOrder, MandateRefused, StartStoredOrder, StartCapture, To
  <2> QED BY <2>1, <2>2, RowQuiet, RowMoved
<1>2. CASE BeginVerification(p) \/ Refuse(p)
  <2>1. UNCHANGED <<orderId, paymentId, evidence>>
    BY <1>2 DEF BeginVerification, Refuse
  <2>2. \/ UNCHANGED state \/ MoveAsOf(on[p], "VERIFYING", elapsed[p])
        \/ MoveTo(on[p], "PAUSED") \/ MoveTo(on[p], "DENIED")
    BY <1>2 DEF BeginVerification, Refuse, To
  <2>3. CASE MoveAsOf(on[p], "VERIFYING", elapsed[p])
    <3>1. \A x \in Release : state'[x] \in {state[x], "VERIFYING"}
      BY <2>3 DEF MoveAsOf, StoreTypeOK
    <3> QED BY <2>1, <3>1 DEF RowKept
  <2> QED BY <2>1, <2>2, <2>3, RowQuiet, RowMoved
<1>3. CASE LostCapture(p)
  <2>1. UNCHANGED <<state, orderId, paymentId>> /\ (Record(on[p], "CAPTURE") \/ UNCHANGED evidence)
    BY <1>3 DEF LostCapture
  <2>2. \A x \in Release : evidence'[x] \in {evidence[x], evidence[x] \cup {"CAPTURE"}}
    BY <2>1 DEF Record, StoreTypeOK
  <2> QED BY <2>1, <2>2 DEF RowKept
<1>4. CASE CommitOrder(p) \/ CommitCapture(p)
  <2>1. pc[p] = "decided" /\ Record(on[p], gate[p]) /\ UNCHANGED <<orderId, paymentId>>
    BY <1>4 DEF CommitOrder, CommitCapture, Commit
  <2>2. \/ UNCHANGED state
        \/ gate[p] = "ORDER_CREATION" /\ MoveTo(on[p], "ORDER_IN_FLIGHT")
        \/ gate[p] = "CAPTURE" /\ MoveTo(on[p], "CAPTURE_IN_FLIGHT")
    BY <1>4 DEF CommitOrder, CommitCapture, Commit, To
  <2>3. gate[p] # "ABANDONED" /\ on[p] \in Release
    BY <2>1 DEF ServiceTypeOK, Gate, Placed
  <2> QED BY <2>1, <2>2, <2>3 DEF Record, MoveTo, StoreTypeOK, RowKept
<1>5. CASE RecordOutcome(p)
  <2> DEFINE trigger == Outcome[gate[p]][reply[p]]
  <2>1. gate[p] \in Gate /\ reply[p] \in {"DONE", "REJECTED", "INDETERMINATE"}
    BY <1>5 DEF RecordOutcome, ServiceTypeOK, ProviderTypeOK
  <2>2. \/ trigger = "ORDER_CREATED"
        \/ To[trigger] \notin {"PAYMENT_AUTHORIZED", "VERIFIED", "CAPTURE_APPROVED",
                               "ORDER_IN_FLIGHT", "CAPTURE_IN_FLIGHT"}
    BY <2>1 DEF Outcome, To, Gate
  <2>3. UNCHANGED <<paymentId, evidence>>
    BY <1>5 DEF RecordOutcome
  <2>4. CASE state[on[p]] \notin From[trigger]
    BY <1>5, <2>4, RowQuiet DEF RecordOutcome
  <2>5. CASE state[on[p]] \in From[trigger] /\ trigger = "ORDER_CREATED"
    <3>1. state[on[p]] = "ORDER_IN_FLIGHT" /\ MoveTo(on[p], "ORDER_CREATED")
      BY <1>5, <2>5 DEF RecordOutcome, From, To
    <3>2. orderId' = [orderId EXCEPT ![on[p]] = TRUE]
      BY <1>5, <2>5 DEF RecordOutcome
    <3> QED BY <2>3, <3>1, <3>2 DEF MoveTo, StoreTypeOK, RowKept
  <2>6. CASE state[on[p]] \in From[trigger] /\ trigger # "ORDER_CREATED"
    <3>1. MoveTo(on[p], To[trigger])
      BY <1>5, <2>6 DEF RecordOutcome
    <3>2. UNCHANGED orderId
      BY <1>5, <2>6 DEF RecordOutcome, StoreTypeOK
    <3> HIDE DEF trigger
    <3> QED BY <2>2, <2>3, <2>6, <3>1, <3>2, RowMoved
  <2> QED BY <2>4, <2>5, <2>6
<1>6. CASE Evaluate(p) \/ Call(p) \/ CrashRequest(p)
  BY <1>6, RowQuiet DEF Evaluate, Call, CrashRequest, storeVars
<1> QED BY <1>1, <1>2, <1>3, <1>4, <1>5, <1>6 DEF RequestStep, Proceed

LEMMA WorkerRows ==
  ASSUME TypeOK, Remembered, NEW w \in Worker, WorkerStep(w)
  PROVE  RowKept
<1> StoreTypeOK /\ ReconcileTypeOK
  BY DEF TypeOK
<1>1. CASE Apply(w)
  <2>1. UNCHANGED <<paymentId, evidence>>
    BY <1>1 DEF Apply
  <2>2. answer[w] \in ReconcileTrigger /\ seen[w] \in From[answer[w]]
    BY <1>1 DEF Apply, Remembered
  <2>3. CASE state[target[w]] # seen[w]
    BY <1>1, <2>3, RowQuiet DEF Apply
  <2>4. CASE state[target[w]] = seen[w] /\ answer[w] = "ORDER_RECONCILED_FOUND"
    <3>1. /\ state[target[w]] \in {"ORDER_IN_FLIGHT", "ORDER_INDETERMINATE"}
          /\ MoveTo(target[w], "ORDER_CREATED")
      BY <1>1, <2>2, <2>4 DEF Apply, From, To
    <3>2. orderId' = [orderId EXCEPT ![target[w]] = TRUE]
      BY <1>1, <2>4 DEF Apply
    <3> QED BY <2>1, <3>1, <3>2 DEF MoveTo, StoreTypeOK, RowKept
  <2>5. CASE state[target[w]] = seen[w] /\ answer[w] # "ORDER_RECONCILED_FOUND"
    <3>1. MoveTo(target[w], To[answer[w]])
      BY <1>1, <2>5 DEF Apply
    <3>2. UNCHANGED orderId
      BY <1>1, <2>5 DEF Apply, StoreTypeOK
    <3>3. To[answer[w]] \in {"FAILED", "CAPTURED", "CAPTURE_REJECTED"}
      BY <2>2, <2>5 DEF ReconcileTrigger, To
    <3> QED BY <2>1, <3>1, <3>2, <3>3, RowMoved
  <2> QED BY <2>3, <2>4, <2>5
<1>2. CASE Abandon(w)
  BY <1>2, RowQuiet DEF Abandon, MoveTo, Record, To, StoreTypeOK, RowKept
<1>3. CASE UNCHANGED <<state, orderId, paymentId, evidence>>
  BY <1>3, RowQuiet
<1> QED BY <1>1, <1>2, <1>3 DEF WorkerStep, PickStuck, PickById, PickAbandoned, Pick, Work,
          AskForOrder, AskForPayment, Spend, CrashWorker, storeVars, releaseRow

LEMMA Rows ==
  ASSUME TypeOK, Placed, Remembered, [Next]_vars
  PROVE  RowKept
<1> StoreTypeOK
  BY DEF TypeOK
<1>1. ASSUME NEW r \in Release, NEW e \in Event, ApplyEvent(r, e) PROVE RowKept
  <2>1. read[r][e] \in From[EventTrigger[e]] /\ UNCHANGED evidence
    BY <1>1 DEF ApplyEvent, Remembered, Declares
  <2>2. CASE state[r] # read[r][e]
    BY <1>1, <2>2, RowQuiet DEF ApplyEvent
  <2>3. CASE state[r] = read[r][e]
    <3>1. /\ state[r] \in {"ORDER_CREATED", "PAYMENT_AUTHORIZED", "CAPTURED"}
          /\ To[EventTrigger[e]] \in {"PAYMENT_AUTHORIZED", "FAILED", "SETTLED"}
      BY <2>1, <2>3 DEF Event, EventTrigger, From, To
    <3>2. /\ MoveTo(r, To[EventTrigger[e]])
          /\ paymentId' = [paymentId EXCEPT ![r] = TRUE]
          /\ orderId' = [orderId EXCEPT ![r] = TRUE]
      BY <1>1, <2>3 DEF ApplyEvent
    <3> QED BY <2>1, <3>1, <3>2 DEF MoveTo, StoreTypeOK, RowKept
  <2> QED BY <2>2, <2>3
<1>2. ASSUME NEW r \in Release, ApplyResolution(r) PROVE RowKept
  <2>1. UNCHANGED <<orderId, paymentId, evidence>>
    BY <1>2 DEF ApplyResolution
  <2>2. \/ UNCHANGED state \/ MoveTo(r, "ABORTED") \/ MoveTo(r, "VERIFYING")
        \/ MoveTo(r, "CAPTURE_VERIFYING")
    BY <1>2 DEF ApplyResolution, ReviewTrigger, To
  <2> QED BY <2>1, <2>2, RowQuiet, RowMoved
<1>3. CASE UNCHANGED <<state, orderId, paymentId, evidence>>
  BY <1>3, RowQuiet
<1>4. CASE \E p \in Request : RequestStep(p)
  BY <1>4, RequestRows
<1>5. CASE \E w \in Worker : WorkerStep(w)
  BY <1>5, WorkerRows
<1>6. CASE UNCHANGED vars
  BY <1>3, <1>6 DEF vars, storeVars
<1> QED BY <1>1, <1>2, <1>3, <1>4, <1>5, <1>6 DEF Next, ProviderStep, EventStep, ReceiveEvent,
          CrashEvent, ReviewStep, ResolveReview, CrashReview, RevokeStep, Revoke, Tick, storeVars, releaseRow

-----------------------------------------------------------------------------
(* What brings a release to the states the invariants are about *)

\* The request that ends with an answer, and the worker that knows one.
Answered(p, g, r, outcome) == gate[p] = g /\ on[p] = r /\ reply[p] = outcome /\ pc'[p] = "done"
Told(w, r, trigger) ==
  job[w] = "applying" /\ target[w] = r /\ answer[w] = trigger /\ seen[w] = state[r]

Causes ==
  \A r \in Release :
    state'[r] # state[r] =>
      /\ state'[r] = "PAUSED" => openReview'[r] # NoReview
      /\ state'[r] = "CAPTURED" =>
           \/ \E p \in Request : /\ Answered(p, "CAPTURE", r, "DONE")
                                 /\ authorization'[AuthorizationOf[r]] # "ACTIVE"
           \/ \E w \in Worker : Told(w, r, "CAPTURE_RECONCILED_CAPTURED")
      /\ state'[r] = "CAPTURE_REJECTED" =>
           \/ \E p \in Request : Answered(p, "CAPTURE", r, "REJECTED")
           \/ \E w \in Worker : Told(w, r, "CAPTURE_RECONCILED_NOT_CAPTURED")
      /\ state'[r] = "FAILED" =>
           \/ \E p \in Request : Answered(p, "ORDER_CREATION", r, "REJECTED")
           \/ \E w \in Worker : Told(w, r, "ORDER_RECONCILED_ABSENT")
           \/ inbox[r]["failed"] = "CLAIMED"
      /\ state'[r] = "ORDER_IN_FLIGHT" => \E p \in Request : Allowed(p, r)

LEMMA NoMove ==
  ASSUME UNCHANGED state
  PROVE  Causes
  BY DEF Causes

LEMMA NoCause ==
  ASSUME StoreTypeOK, NEW r, NEW to, UNCHANGED state \/ MoveTo(r, to),
         to \notin {"PAUSED", "CAPTURED", "CAPTURE_REJECTED", "FAILED", "ORDER_IN_FLIGHT"}
  PROVE  Causes
<1>1. \A x \in Release : state'[x] \in {state[x], to}
  BY DEF MoveTo, StoreTypeOK
<1> QED BY <1>1 DEF Causes

LEMMA RequestCauses ==
  ASSUME TypeOK, Placed, NEW p \in Request, RequestStep(p)
  PROVE  Causes
<1> StoreTypeOK /\ ProviderTypeOK /\ ServiceTypeOK
  BY DEF TypeOK
<1>1. ASSUME NEW r \in Release, StartOrder(p, r) \/ StartCapture(p, r) PROVE Causes
  <2>1. UNCHANGED state \/ MoveTo(r, "DRAFT") \/ MoveTo(r, "CAPTURE_VERIFYING")
    BY <1>1 DEF StartOrder, StartNewOrder, MandateRefused, StartStoredOrder, StartCapture, To
  <2> QED BY <2>1, NoCause
<1>2. CASE BeginVerification(p)
  <2>1. \A x \in Release : state'[x] \in {state[x], "VERIFYING"}
    BY <1>2 DEF BeginVerification, MoveAsOf, To, StoreTypeOK
  <2> QED BY <2>1 DEF Causes
<1>3. CASE Refuse(p)
  <2>1. CASE UNCHANGED state
    BY <2>1, NoMove
  <2>2. CASE MoveTo(on[p], "DENIED")
    BY <2>2, NoCause
  <2>3. CASE verdict[p] = "PAUSE" /\ ~UNCHANGED state
    <3>1. /\ MoveTo(on[p], "PAUSED")
          /\ openReview' = IF openReview[on[p]] = NoReview
                           THEN [openReview EXCEPT ![on[p]] = [gate |-> gate[p], codes |-> found[p]]]
                           ELSE openReview
      BY <1>3, <2>3 DEF Refuse, To
    <3>2. [gate |-> gate[p], codes |-> found[p]] # NoReview
      <4>1. gate[p] # "NONE"
        BY DEF ServiceTypeOK, Gate
      <4> QED BY <4>1 DEF NoReview
    <3>3. on[p] \in Release => openReview'[on[p]] # NoReview
      BY <3>1, <3>2 DEF StoreTypeOK
    <3>4. \A x \in Release : state'[x] = IF x = on[p] THEN "PAUSED" ELSE state[x]
      BY <3>1 DEF MoveTo, StoreTypeOK
    <3> QED BY <3>3, <3>4 DEF Causes
  <2> QED BY <1>3, <2>1, <2>2, <2>3 DEF Refuse, To
<1>4. CASE CommitOrder(p) \/ CommitCapture(p)
  <2>1. UNCHANGED state \/ MoveTo(on[p], "ORDER_IN_FLIGHT") \/ MoveTo(on[p], "CAPTURE_IN_FLIGHT")
    BY <1>4 DEF CommitOrder, CommitCapture, Commit, To
  <2>2. Allowed(p, on[p])
    BY <1>4 DEF CommitOrder, CommitCapture, Commit, Allowed
  <2>3. CASE MoveTo(on[p], "ORDER_IN_FLIGHT")
    <3>1. \A x \in Release : state'[x] = IF x = on[p] THEN "ORDER_IN_FLIGHT" ELSE state[x]
      BY <2>3 DEF MoveTo, StoreTypeOK
    <3> QED BY <2>2, <3>1 DEF Causes
  <2> QED BY <2>1, <2>3, NoCause
<1>5. CASE RecordOutcome(p)
  <2> DEFINE trigger == Outcome[gate[p]][reply[p]]
  <2>1. gate[p] \in Gate /\ reply[p] \in {"DONE", "REJECTED", "INDETERMINATE"}
    BY <1>5 DEF RecordOutcome, ServiceTypeOK, ProviderTypeOK
  <2>2. pc'[p] = "done" /\ on[p] \in Release
    BY <1>5 DEF RecordOutcome, Finish, Goto, ServiceTypeOK, Placed
  <2>3. CASE state[on[p]] \notin From[trigger]
    BY <1>5, <2>3, NoCause DEF RecordOutcome
  <2>4. CASE state[on[p]] \in From[trigger]
    <3>1. MoveTo(on[p], To[trigger])
      BY <1>5, <2>4 DEF RecordOutcome
    <3>2. \A x \in Release : state'[x] = IF x = on[p] THEN To[trigger] ELSE state[x]
      BY <3>1 DEF MoveTo, StoreTypeOK
    <3>3. /\ To[trigger] \notin {"PAUSED", "ORDER_IN_FLIGHT"}
          /\ To[trigger] = "CAPTURED" => gate[p] = "CAPTURE" /\ reply[p] = "DONE"
          /\ To[trigger] = "CAPTURE_REJECTED" => gate[p] = "CAPTURE" /\ reply[p] = "REJECTED"
          /\ To[trigger] = "FAILED" => gate[p] = "ORDER_CREATION" /\ reply[p] = "REJECTED"
      BY <2>1 DEF Outcome, To, Gate
    <3>4. ASSUME gate[p] = "CAPTURE", reply[p] = "DONE"
          PROVE  authorization'[AuthorizationOf[on[p]]] # "ACTIVE"
      <4>1. LeaveActive(AuthorizationOf[on[p]], "CONSUMED")
        BY <1>5, <3>4 DEF RecordOutcome, Outcome
      <4>2. AuthorizationOf[on[p]] \in Authorization
        BY <2>2, StoreAssumption
      <4> QED BY <4>1, <4>2 DEF LeaveActive, StoreTypeOK
    <3> HIDE DEF trigger
    <3> QED BY <2>2, <3>2, <3>3, <3>4 DEF Causes, Answered
  <2> QED BY <2>3, <2>4
<1>6. CASE Evaluate(p) \/ LostCapture(p) \/ Call(p) \/ CrashRequest(p)
  BY <1>6, NoCause DEF Evaluate, LostCapture, Call, CrashRequest, storeVars
<1> QED BY <1>1, <1>2, <1>3, <1>4, <1>5, <1>6 DEF RequestStep, Proceed

LEMMA Reasons ==
  ASSUME TypeOK, Placed, Remembered, [Next]_vars
  PROVE  Causes
<1> StoreTypeOK /\ ReconcileTypeOK
  BY DEF TypeOK
<1>1. CASE \E p \in Request : RequestStep(p)
  BY <1>1, RequestCauses
<1>2. ASSUME NEW w \in Worker, Apply(w) PROVE Causes
  <2>1. job[w] = "applying" /\ answer[w] \in ReconcileTrigger
    BY <1>2 DEF Apply, Remembered
  <2>2. CASE state[target[w]] # seen[w]
    BY <1>2, <2>2, NoCause DEF Apply
  <2>3. CASE state[target[w]] = seen[w]
    <3>1. MoveTo(target[w], To[answer[w]])
      BY <1>2, <2>3 DEF Apply
    <3>2. \A x \in Release : state'[x] = IF x = target[w] THEN To[answer[w]] ELSE state[x]
      BY <3>1 DEF MoveTo, StoreTypeOK
    <3>3. /\ To[answer[w]] \notin {"PAUSED", "ORDER_IN_FLIGHT"}
          /\ To[answer[w]] = "CAPTURED" => answer[w] = "CAPTURE_RECONCILED_CAPTURED"
          /\ To[answer[w]] = "CAPTURE_REJECTED" => answer[w] = "CAPTURE_RECONCILED_NOT_CAPTURED"
          /\ To[answer[w]] = "FAILED" => answer[w] = "ORDER_RECONCILED_ABSENT"
      BY <2>1 DEF ReconcileTrigger, To
    <3> QED BY <2>1, <2>3, <3>2, <3>3 DEF Causes, Told
  <2> QED BY <2>2, <2>3
<1>3. ASSUME NEW w \in Worker, Abandon(w) PROVE Causes
  <2>1. UNCHANGED state \/ MoveTo(target[w], "ABORTED")
    BY <1>3 DEF Abandon, To
  <2> QED BY <2>1, NoCause
<1>4. ASSUME NEW r \in Release, NEW e \in Event, ApplyEvent(r, e) PROVE Causes
  <2>1. CASE e # "failed"
    <3>1. UNCHANGED state \/ MoveTo(r, "PAYMENT_AUTHORIZED") \/ MoveTo(r, "SETTLED")
      BY <1>4, <2>1 DEF ApplyEvent, Event, EventTrigger, To
    <3> QED BY <3>1, NoCause
  <2>2. CASE e = "failed"
    <3>1. inbox[r]["failed"] = "CLAIMED" /\ (UNCHANGED state \/ MoveTo(r, "FAILED"))
      BY <1>4, <2>2 DEF ApplyEvent, EventTrigger, To
    <3>2. \A x \in Release : state'[x] = state[x] \/ (x = r /\ state'[x] = "FAILED")
      BY <3>1 DEF MoveTo, StoreTypeOK
    <3> QED BY <3>1, <3>2 DEF Causes
  <2> QED BY <2>1, <2>2
<1>5. ASSUME NEW r \in Release, ApplyResolution(r) PROVE Causes
  <2>1. \/ UNCHANGED state \/ MoveTo(r, "ABORTED") \/ MoveTo(r, "VERIFYING")
        \/ MoveTo(r, "CAPTURE_VERIFYING")
    BY <1>5 DEF ApplyResolution, ReviewTrigger, To
  <2> QED BY <2>1, NoCause
<1>6. CASE UNCHANGED state
  BY <1>6, NoMove
<1>7. UNCHANGED vars => UNCHANGED state
  BY DEF vars, storeVars
<1> QED BY <1>1, <1>2, <1>3, <1>4, <1>5, <1>6, <1>7 DEF Next, ProviderStep, WorkerStep, PickStuck,
          PickById, PickAbandoned, Pick, Work, AskForOrder, AskForPayment, Spend, CrashWorker,
          EventStep, ReceiveEvent, CrashEvent, ReviewStep, ResolveReview, CrashReview,
          RevokeStep, Revoke, Tick, storeVars, releaseRow

\* Only the clock makes a row in flight older; entering such a state starts its age.
Ages ==
  \A r \in Release :
    /\ state'[r] \in Indeterminate => age'[r] \in {0, age[r]}
    /\ state'[r] \in {"ORDER_IN_FLIGHT", "CAPTURE_IN_FLIGHT"} => state'[r] = state[r] \/ age'[r] = 0

LEMMA OneAge ==
  ASSUME StoreTypeOK, NEW r, NEW to, MoveTo(r, to) \/ UNCHANGED <<state, age>>
  PROVE  Ages
<1>1. \A x \in Release : age'[x] \in {0, age[x]}
  BY DEF MoveTo, StoreTypeOK
<1>2. CASE MoveTo(r, to)
  <2>1. \A x \in Release : state'[x] = IF x = r THEN to ELSE state[x]
    BY <1>2 DEF MoveTo, StoreTypeOK
  <2>2. r \in Release /\ to \in {"ORDER_IN_FLIGHT", "CAPTURE_IN_FLIGHT"} => age'[r] = 0
    BY <1>2 DEF MoveTo, StoreTypeOK
  <2> QED BY <1>1, <2>1, <2>2 DEF Ages
<1> QED BY <1>1, <1>2 DEF Ages

LEMMA Stamped ==
  ASSUME StoreTypeOK, NEW r, NEW passed,
         \/ MoveAsOf(r, To.RELEASE_REQUESTED, passed)
         \/ UNCHANGED state /\ Touch(r, passed)
  PROVE  Ages
<1>1. CASE MoveAsOf(r, To.RELEASE_REQUESTED, passed)
  <2>1. \A x \in Release : x # r => state'[x] = state[x] /\ age'[x] = age[x]
    BY <1>1 DEF MoveAsOf, StoreTypeOK
  <2>2. r \in Release => state'[r] = "VERIFYING"
    BY <1>1 DEF MoveAsOf, StoreTypeOK, To
  <2> QED BY <2>1, <2>2 DEF Ages, Indeterminate
<1>2. CASE UNCHANGED state /\ Touch(r, passed)
  <2>1. \A x \in Release : state[x] \in Indeterminate => age'[x] = age[x]
    BY <1>2 DEF Touch, StoreTypeOK, Indeterminate, Transient
  <2> QED BY <1>2, <2>1 DEF Ages
<1> QED BY <1>1, <1>2

LEMMA Aging ==
  ASSUME TypeOK, [Next]_vars
  PROVE  Ages \/ Tick
<1> StoreTypeOK
  BY DEF TypeOK
<1>1. ASSUME NEW p \in Request, RequestStep(p) PROVE Ages
  <2>1. ASSUME NEW r \in Release, StartOrder(p, r) \/ StartCapture(p, r) PROVE Ages
    BY <2>1, OneAge DEF StartOrder, StartNewOrder, MandateRefused, StartStoredOrder, StartCapture
  <2>2. CASE Proceed(p) \/ CrashRequest(p)
    BY <2>2, OneAge, Stamped DEF Proceed, BeginVerification, Evaluate, Refuse, LostCapture,
       CommitOrder, CommitCapture, Commit, Call, RecordOutcome, CrashRequest, storeVars
  <2> QED BY <1>1, <2>1, <2>2 DEF RequestStep
<1>2. ASSUME NEW w \in Worker, Work(w) PROVE Ages
  BY <1>2, OneAge DEF Work, AskForOrder, AskForPayment, Apply, Spend, Abandon, storeVars, releaseRow
<1>3. ASSUME NEW r \in Release, NEW e \in Event, ApplyEvent(r, e) PROVE Ages
  BY <1>3, OneAge DEF ApplyEvent
<1>4. ASSUME NEW r \in Release, ApplyResolution(r) PROVE Ages
  BY <1>4, OneAge DEF ApplyResolution
<1>5. CASE UNCHANGED <<state, age>>
  BY <1>5, OneAge
<1>6. UNCHANGED vars => UNCHANGED <<state, age>>
  BY DEF vars, storeVars
<1> QED BY <1>1, <1>2, <1>3, <1>4, <1>5, <1>6 DEF Next, ProviderStep, WorkerStep, PickStuck,
          PickById, PickAbandoned, Pick, CrashWorker, EventStep, ReceiveEvent, CrashEvent,
          ReviewStep, ResolveReview, CrashReview, RevokeStep, Revoke, storeVars, releaseRow

-----------------------------------------------------------------------------
(* Orders, payments and decisions of a row *)

LEMMA RowInvKept ==
  ASSUME RowInv, OrderIsKnown, MovesDeclared, RowKept
  PROVE  RowInv'
<1> SUFFICES ASSUME NEW r \in Release
             PROVE  /\ state'[r] \notin {"VERIFIED", "CAPTURE_APPROVED"}
                    /\ state'[r] \in BeforeOrder => ~orderId'[r]
                    /\ state'[r] \in WithPayment \/ (state'[r] = "PAUSED" /\ orderId'[r])
                         => orderId'[r] /\ paymentId'[r]
                    /\ orderId'[r] \/ state'[r] \in {"ORDER_IN_FLIGHT", "ORDER_INDETERMINATE"}
                         => "ORDER_CREATION" \in evidence'[r]
                    /\ "ABANDONED" \in evidence'[r] => state'[r] = "ABORTED"
  BY DEF RowInv
<1>1. state'[r] \notin {"VERIFIED", "CAPTURE_APPROVED"}
  BY DEF RowInv, RowKept
<1>2. ASSUME state'[r] \in BeforeOrder PROVE ~orderId'[r]
  <2>1. orderId'[r] = orderId[r]
    BY <1>2 DEF RowKept, BeforeOrder
  <2>2. \A t \in DOMAIN To : To[t] \in BeforeOrder =>
           From[t] \subseteq BeforeOrder \/ t = "REVIEW_APPROVED_AT_ORDER_GATE"
    BY DEF From, To, BeforeOrder
  <2> QED BY <1>2, <2>1, <2>2 DEF RowInv, MovesDeclared, BeforeOrder
<1>3. ASSUME state'[r] \in WithPayment PROVE orderId'[r] /\ paymentId'[r]
  <2>1. \A t \in DOMAIN To : To[t] \in WithPayment =>
           \/ From[t] \subseteq WithPayment
           \/ To[t] = "PAYMENT_AUTHORIZED"
           \/ t = "REVIEW_APPROVED" /\ From[t] = {"PAUSED"}
    BY DEF From, To, WithPayment
  <2>2. orderId[r] => orderId'[r]
    BY DEF MovesDeclared
  <2>3. paymentId[r] => paymentId'[r]
    BY DEF RowKept
  <2>4. CASE state[r] \in WithPayment
    BY <2>2, <2>3, <2>4 DEF RowInv
  <2>5. CASE state[r] \notin WithPayment
    <3>1. state'[r] = "PAYMENT_AUTHORIZED" => orderId'[r] /\ paymentId'[r]
      BY <2>5 DEF MovesDeclared, RowKept, WithPayment
    <3>2. state[r] # "CAPTURE_VERIFYING" /\ state'[r] \notin {"DRAFT", "ORDER_IN_FLIGHT"}
      BY <1>3, <2>5 DEF WithPayment
    <3> QED BY <1>3, <2>1, <2>2, <2>3, <2>5, <3>1, <3>2 DEF MovesDeclared, RowInv
  <2> QED BY <2>4, <2>5
<1>4. ASSUME state'[r] = "PAUSED", orderId'[r] PROVE orderId'[r] /\ paymentId'[r]
  <2>1. orderId[r]
    BY <1>4 DEF RowKept
  <2>2. \A t \in DOMAIN To : To[t] = "PAUSED" => From[t] \subseteq {"VERIFYING", "CAPTURE_VERIFYING"}
    BY DEF From, To
  <2>3. state[r] \in {"PAUSED", "VERIFYING", "CAPTURE_VERIFYING"}
    BY <1>4, <2>2 DEF MovesDeclared
  <2> QED BY <2>1, <2>3, <1>4 DEF RowInv, RowKept, BeforeOrder, WithPayment
<1>5. ASSUME orderId'[r] PROVE "ORDER_CREATION" \in evidence'[r]
  BY <1>5 DEF RowInv, RowKept, OrderIsKnown, WithPayment
<1>6. ASSUME state'[r] \in {"ORDER_IN_FLIGHT", "ORDER_INDETERMINATE"}
      PROVE  "ORDER_CREATION" \in evidence'[r]
  <2>1. \A t \in DOMAIN To : To[t] = "ORDER_INDETERMINATE" => From[t] = {"ORDER_IN_FLIGHT"}
    BY DEF From, To
  <2>2. state'[r] = "ORDER_INDETERMINATE" => state[r] \in {"ORDER_IN_FLIGHT", "ORDER_INDETERMINATE"}
    BY <2>1 DEF MovesDeclared
  <2> QED BY <1>6, <2>2 DEF RowInv, RowKept
<1>7. ASSUME "ABANDONED" \in evidence'[r] PROVE state'[r] = "ABORTED"
  <2>1. \A t \in DOMAIN To : "ABORTED" \notin From[t]
    BY DEF From, To
  <2> QED BY <1>7, <2>1 DEF RowInv, RowKept, MovesDeclared
<1> QED BY <1>1, <1>2, <1>3, <1>4, <1>5, <1>6, <1>7

-----------------------------------------------------------------------------
(* What a step may do to a sweep *)

\* A worker goes on, drops its job, picks a release to abort, picks one in
\* flight, or learns what the provider says of the release it picked.
Picks(w) ==
  /\ job'[w] = "asking" /\ target'[w] \in Release
  /\ seen'[w] = state[target'[w]] /\ seen'[w] \in Indeterminate
  /\ OperatorReconciles \/ age[target'[w]] >= ReconcileAfter

Learns(w) ==
  LET r == target[w] IN
  /\ job[w] = "asking" /\ job'[w] = "applying" /\ target'[w] = r /\ seen'[w] = seen[w]
  /\ \/ /\ answer'[w] = "ORDER_RECONCILED_FOUND" /\ seen[w] \in InFlight("ORDER_CREATION")
     \/ /\ answer'[w] = "ORDER_RECONCILED_ABSENT" /\ seen[w] \in InFlight("ORDER_CREATION")
        /\ order[r] # "INDEXED" \/ ReadsMayFail
        /\ age[r] >= LookupWindow
     \/ /\ answer'[w] = "CAPTURE_RECONCILED_CAPTURED" /\ payment[r] = "captured"
     \/ /\ answer'[w] = "CAPTURE_RECONCILED_NOT_CAPTURED" /\ payment[r] # "captured"

SweepsKept ==
  \A w \in Worker :
    \/ job'[w] = job[w] /\ target'[w] = target[w] /\ seen'[w] = seen[w] /\ answer'[w] = answer[w]
    \/ job'[w] = "idle" \/ (job[w] = "applying" /\ job'[w] = "spending" /\ target'[w] = target[w])
    \/ job'[w] = "aborting" /\ target'[w] \in Release
    \/ (Picks(w) \/ Learns(w)) /\ UNCHANGED <<storeVars, providerVars, requestVars>>

LEMMA Sweeps ==
  ASSUME TypeOK, [Next]_vars
  PROVE  SweepsKept
<1> ReconcileTypeOK
  BY DEF TypeOK
<1>1. CASE UNCHANGED workerVars
  BY <1>1 DEF SweepsKept, workerVars
<1>2. ASSUME NEW v \in Worker, WorkerStep(v) PROVE SweepsKept
  <2>1. \A w \in Worker \ {v} : job'[w] = job[w] /\ target'[w] = target[w] /\ seen'[w] = seen[w]
                                /\ answer'[w] = answer[w]
    BY <1>2 DEF WorkerStep, PickStuck, PickById, PickAbandoned, Pick, Work, AskForOrder,
       AskForPayment, Apply, Spend, Abandon, CrashWorker, Learn, Leave, ReconcileTypeOK
  <2>2. Leave(v) => job'[v] = "idle"
    BY DEF Leave, ReconcileTypeOK
  <2>3. ASSUME NEW r \in Release, PickStuck(v, r) \/ PickById(v, r)
        PROVE  Picks(v) /\ UNCHANGED <<storeVars, providerVars, requestVars>>
    BY <2>3 DEF PickStuck, PickById, Pick, Picks, ReconcileTypeOK
  <2>4. ASSUME NEW r \in Release, PickAbandoned(v, r)
        PROVE  job'[v] = "aborting" /\ target'[v] \in Release
    BY <2>4 DEF PickAbandoned, Pick, ReconcileTypeOK
  <2>5. CASE AskForOrder(v) /\ ~Leave(v)
    <3>1. seen[v] \in InFlight("ORDER_CREATION") /\ UNCHANGED <<storeVars, providerVars, requestVars>>
      BY <2>5 DEF AskForOrder, From, InFlight
    <3>2. Learns(v)
      BY <2>5, <3>1 DEF AskForOrder, Learn, Learns, ReconcileTypeOK
    <3> QED BY <2>1, <3>1, <3>2 DEF SweepsKept
  <2>6. CASE AskForPayment(v) /\ ~Leave(v)
    <3>1. Learns(v) /\ UNCHANGED <<storeVars, providerVars, requestVars>>
      BY <2>6 DEF AskForPayment, Learn, Learns, ReconcileTypeOK
    <3> QED BY <2>1, <3>1 DEF SweepsKept
  <2>7. CASE Apply(v)
    <3>1. job'[v] = "idle" \/ (job[v] = "applying" /\ job'[v] = "spending" /\ target'[v] = target[v])
      BY <2>2, <2>7 DEF Apply, ReconcileTypeOK
    <3> QED BY <2>1, <3>1 DEF SweepsKept
  <2>8. Spend(v) \/ Abandon(v) \/ CrashWorker(v) => Leave(v)
    BY DEF Spend, Abandon, CrashWorker
  <2> QED BY <1>2, <2>1, <2>2, <2>3, <2>4, <2>5, <2>6, <2>7, <2>8 DEF WorkerStep, Work, SweepsKept
<1>3. [Next]_vars => UNCHANGED workerVars \/ \E v \in Worker : WorkerStep(v)
  BY DEF Next, RequestStep, ProviderStep, EventStep, ReceiveEvent, ApplyEvent, CrashEvent,
         ReviewStep, ResolveReview, ApplyResolution, CrashReview, RevokeStep, Tick, vars
<1> QED BY <1>1, <1>2, <1>3

\* A worker at work has a release.
Aimed == \A w \in Worker : job[w] # "idle" => target[w] \in Release

LEMMA AimedKept ==
  ASSUME Aimed, SweepsKept
  PROVE  Aimed'
  BY DEF Aimed, SweepsKept, Picks, Learns

-----------------------------------------------------------------------------
(* Charges *)

LEMMA ChargeInvKept ==
  ASSUME TypeOK, CallInv, ProviderInv, RowInv, ChargeInv, [Next]_vars,
         MovesDeclared, HoldersKept, RowKept, Causes, PaymentKept, CallsStay, Aimed, SweepsKept
  PROVE  ChargeInv'
<1> ProviderTypeOK /\ ServiceTypeOK /\ StoreTypeOK /\ ReconcileTypeOK /\ Placed
  BY DEF TypeOK, CallInv, Placed
<1>1. ASSUME NEW r \in Release, payment'[r] = "captured" PROVE Calls(r, "CAPTURE")' # {}
  <2>1. PICK p \in called : on[p] = r /\ gate[p] = "CAPTURE"
    <3>1. CASE payment[r] = "captured"
      BY <3>1 DEF ChargeInv, Calls
    <3>2. CASE payment[r] # "captured"
      BY <1>1, <3>2 DEF PaymentKept, ProviderInv, ProviderTypeOK
    <3> QED BY <3>1, <3>2
  <2>2. p \in called' /\ on'[p] = r /\ gate'[p] = "CAPTURE"
    BY <2>1 DEF CallsStay
  <2> QED BY <2>2 DEF Calls
<1>2. ASSUME NEW r \in Release, state'[r] \in MoneyHasMoved PROVE payment'[r] = "captured"
  <2>1. payment[r] = "captured" => payment'[r] = "captured"
    BY DEF PaymentKept
  <2>2. \A t \in DOMAIN To : To[t] = "SETTLED" => From[t] = {"CAPTURED"}
    BY DEF From, To
  <2>3. state'[r] = "SETTLED" => state[r] \in {"CAPTURED", "SETTLED"}
    BY <2>2 DEF MovesDeclared
  <2>4. state'[r] = "CAPTURED" /\ state[r] # "CAPTURED" => payment[r] = "captured"
    BY DEF Causes, Answered, Told, ProviderInv, ChargeInv
  <2> QED BY <1>2, <2>1, <2>3, <2>4 DEF ChargeInv, MoneyHasMoved
<1>3. ASSUME NEW p \in Request, Holds(p)', gate'[p] = "CAPTURE" PROVE Gate \subseteq evidence'[on'[p]]
  <2>1. on'[p] = on[p] /\ gate[p] = "CAPTURE" /\ (Holds(p) \/ Commits(p)) /\ on'[p] \in Release
    <3>1. on'[p] = on[p] /\ gate[p] = "CAPTURE" /\ (Holds(p) \/ Commits(p))
      BY <1>3 DEF HoldersKept
    <3>2. pc'[p] # "idle"
      <4>1. Placed'
        BY Holders
      <4> QED BY <1>3, <4>1 DEF Holds, Placed
    <3>3. on'[p] \in Release
      <4>1. Placed'
        BY Holders
      <4> QED BY <3>2, <4>1 DEF Placed
    <3> QED BY <3>1, <3>3
  <2>2. evidence[on[p]] \subseteq evidence'[on[p]]
    BY <2>1 DEF RowKept
  <2>3. CASE Holds(p)
    BY <2>1, <2>2, <2>3 DEF ChargeInv
  <2>4. CASE Commits(p)
    <3>1. state[on[p]] = "CAPTURE_VERIFYING" /\ state'[on[p]] = "CAPTURE_IN_FLIGHT"
      BY <2>1, <2>4 DEF Commits
    <3>2. "CAPTURE" \in evidence'[on[p]] /\ "ORDER_CREATION" \in evidence[on[p]]
      BY <2>1, <3>1 DEF RowKept, RowInv, WithPayment
    <3> QED BY <2>1, <2>2, <3>2 DEF Gate
  <2> QED BY <2>1, <2>3, <2>4
<1>4. ASSUME NEW w \in Worker, job'[w] = "applying", answer'[w] = "CAPTURE_RECONCILED_CAPTURED"
      PROVE  payment'[target'[w]] = "captured"
  <2>1. target[w] \in Release /\ target'[w] = target[w]
    BY <1>4 DEF Aimed, SweepsKept, Picks, Learns
  <2>2. payment[target[w]] = "captured"
    BY <1>4 DEF ChargeInv, SweepsKept, Picks, Learns
  <2> QED BY <2>1, <2>2 DEF PaymentKept
<1> QED BY <1>1, <1>2, <1>3, <1>4 DEF ChargeInv
StepKept ==
  /\ MovesDeclared /\ HoldersKept /\ RowKept /\ Causes /\ PaymentKept /\ OrderKept
  /\ CallsStay /\ SweepsKept

LEMMA Steps ==
  ASSUME TypeOK, CallInv, [Next]_vars
  PROVE  StepKept
<1>1. Remembered /\ Placed
  BY DEF CallInv, Placed
<1> QED BY <1>1, Moves, Holders, Rows, Reasons, ProviderMoves, Sweeps DEF StepKept

MoneyInv == ProviderInv /\ RowInv /\ ChargeInv /\ Aimed

LEMMA MoneyInvInit == Init => MoneyInv
<1>1. Init => RowInv /\ ChargeInv /\ Aimed
  BY DEF Init, StoreInit, ProviderInit, ServiceInit, ReconcileInit, RowInv, ChargeInv, Aimed,
         BeforeOrder, WithPayment, MoneyHasMoved, Holds
<1> QED BY <1>1, ProviderInvInit DEF MoneyInv

LEMMA MoneyInvKept ==
  ASSUME TypeOK, CallInv, MoneyInv, [Next]_vars
  PROVE  MoneyInv'
<1>1. StepKept
  BY Steps
<1>2. ProviderInv'
  <2>1. Placed
    BY DEF CallInv, Placed
  <2> QED BY <2>1, ProviderInvKept DEF MoneyInv
<1>3. RowInv'
  BY <1>1, RowInvKept DEF StepKept, MoneyInv, CallInv
<1>4. ChargeInv'
  BY <1>1, ChargeInvKept DEF StepKept, MoneyInv
<1>5. Aimed'
  BY <1>1, AimedKept DEF StepKept, MoneyInv
<1> QED BY <1>2, <1>3, <1>4, <1>5 DEF MoneyInv

\* Rows, calls, payments and answers agree about what was created, decided and
\* charged, whatever races, dies or arrives late.
THEOREM MoneyInvariant == Spec => []MoneyInv
<1> QED BY MoneyInvInit, MoneyInvKept, TypeCorrect, CallInvariant, PTL DEF Spec

\* A payment is captured only by a call this service made, after both gates
\* recorded an ALLOW for the release.
THEOREM DecidedTwice == Spec => []ChargeIsDecidedTwice
<1>1. TypeOK /\ MoneyInv => ChargeIsDecidedTwice
  <2> SUFFICES ASSUME TypeOK, MoneyInv, NEW r \in Release, payment[r] = "captured"
               PROVE  Calls(r, "CAPTURE") # {} /\ Gate \subseteq evidence[r]
    BY DEF ChargeIsDecidedTwice
  <2>1. Calls(r, "CAPTURE") # {}
    BY DEF MoneyInv, ChargeInv
  <2>2. PICK p \in called : on[p] = r /\ gate[p] = "CAPTURE"
    BY <2>1 DEF Calls
  <2>3. p \in Request
    BY DEF TypeOK, ProviderTypeOK
  <2> QED BY <2>1, <2>2, <2>3 DEF MoneyInv, ChargeInv, Holds
<1> QED BY <1>1, TypeCorrect, MoneyInvariant, PTL

\* moneyHasMoved() is never said of a payment the provider did not capture, by
\* an answer, a reconciliation or a webhook.
THEOREM ReportedMeansCharged == Spec => []ReportedIsCharged
<1>1. MoneyInv => ReportedIsCharged
  BY DEF MoneyInv, ChargeInv, ReportedIsCharged
<1> QED BY <1>1, MoneyInvariant, PTL

\* A release the liveness sweep aborted was never charged and never will be,
\* although the sweep acts on a row it read earlier while requests go on.
THEOREM AbandonedUncharged == Spec => []AbandonedIsNeverCharged
<1>1. TypeOK /\ CallInv /\ MoneyInv => AbandonedIsNeverCharged
  <2> SUFFICES ASSUME TypeOK, CallInv, MoneyInv, NEW r \in Release, "ABANDONED" \in evidence[r]
               PROVE  /\ payment[r] # "captured" /\ Calls(r, "CAPTURE") = {}
                      /\ ~\E p \in Request : pc[p] = "prepared" /\ on[p] = r /\ gate[p] = "CAPTURE"
    BY DEF AbandonedIsNeverCharged
  <2>1. state[r] = "ABORTED"
    BY DEF MoneyInv, RowInv
  <2>2. \A p \in Request : Holds(p) /\ on[p] = r => gate[p] # "CAPTURE"
    BY <2>1 DEF CallInv, PastItsCalls, AfterCapture
  <2>3. Calls(r, "CAPTURE") = {}
    BY <2>2 DEF Calls, Holds, TypeOK, ProviderTypeOK
  <2> QED BY <2>2, <2>3 DEF Holds, MoneyInv, ChargeInv
<1> QED BY <1>1, TypeCorrect, CallInvariant, MoneyInvariant, PTL

\* Nothing reaches the capture gate without a payment to capture, not even a
\* release paused before its order and resumed by an operator.
THEOREM CaptureNeedsPayment == Spec => []CaptureHasPayment
<1>1. MoneyInv => CaptureHasPayment
  BY DEF MoneyInv, RowInv, CaptureHasPayment, WithPayment
<1> QED BY <1>1, MoneyInvariant, PTL

-----------------------------------------------------------------------------
(* The slot of a mandate *)

LEMMA OneActiveKept ==
  ASSUME OneActiveRelease, MovesDeclared
  PROVE  OneActiveRelease'
<1>1. \A t \in DOMAIN To : From[t] \cap (Terminal \cup {"ABSENT"}) = {}
  BY DEF To, From, Terminal
<1>2. ASSUME NEW r \in Release, Active(r)', ~Active(r)
      PROVE  ~OtherActive(r) /\ \A q \in Release \ {r} : state'[q] = state[q]
  BY <1>1, <1>2 DEF MovesDeclared, Active, Terminal
<1> SUFFICES ASSUME NEW q \in Release, NEW r \in Release, Active(q)', Active(r)',
                    AuthorizationOf[q] = AuthorizationOf[r], q # r
             PROVE  FALSE
  BY DEF OneActiveRelease
<1>3. CASE Active(q) /\ Active(r)
  BY <1>3 DEF OneActiveRelease
<1>4. CASE ~Active(r)
  BY <1>2, <1>4 DEF OtherActive, Active
<1>5. CASE ~Active(q)
  BY <1>2, <1>5 DEF OtherActive, Active
<1> QED BY <1>3, <1>4, <1>5

\* Two releases never compete for one mandate: a row is inserted only while no
\* other is active, and no row that ended becomes active again.
THEOREM OneActive == Spec => []OneActiveRelease
<1>1. Init => OneActiveRelease
  BY DEF Init, StoreInit, OneActiveRelease, Active
<1>2. TypeOK /\ Remembered /\ OneActiveRelease /\ [Next]_vars => OneActiveRelease'
  BY Moves, OneActiveKept
<1>3. OneActiveRelease /\ UNCHANGED vars => OneActiveRelease'
  BY DEF OneActiveRelease, vars, storeVars, Active
<1> QED BY <1>1, <1>2, <1>3, TypeCorrect, RememberedAlways, PTL DEF Spec

-----------------------------------------------------------------------------
(* Reviews *)

LEMMA PausedKept ==
  ASSUME TypeOK, CallInv, PausedIsActionable, "review" \notin MayCrash, [Next]_vars
  PROVE  PausedIsActionable'
<1> StoreTypeOK /\ ReviewTypeOK
  BY DEF TypeOK
<1> DEFINE Actionable(r) == openReview[r] # NoReview \/ resolving[r] # "NONE"
<1>1. Causes
  BY Steps DEF StepKept
<1>2. \A r \in Release : state'[r] = "PAUSED" /\ state[r] # "PAUSED" => Actionable(r)'
  BY <1>1 DEF Causes
<1>3. ASSUME NEW r \in Release, state[r] = "PAUSED", state'[r] = "PAUSED" PROVE Actionable(r)'
  <2>1. Actionable(r)
    BY <1>3 DEF PausedIsActionable
  <2>2. CASE UNCHANGED <<openReview, resolving>>
    BY <2>1, <2>2
  <2>3. ASSUME NEW p \in Request, Refuse(p) PROVE openReview[r] # NoReview => openReview'[r] # NoReview
    BY <2>3 DEF Refuse, StoreTypeOK
  <2>4. ASSUME NEW x \in Release, NEW resolution \in {"APPROVED", "REJECTED"}, ResolveReview(x, resolution)
        PROVE  Actionable(r)'
    BY <2>1, <2>4 DEF ResolveReview, StoreTypeOK, ReviewTypeOK
  <2>5. ASSUME NEW x \in Release, ApplyResolution(x) PROVE Actionable(r)'
    <3>1. CASE x # r
      BY <2>1, <2>5, <3>1 DEF ApplyResolution, reviewRows, ReviewTypeOK
    <3>2. CASE x = r
      <4>1. Declares(state[r], ReviewTrigger(r)) /\ To[ReviewTrigger(r)] # "PAUSED"
        BY <1>3 DEF Declares, ReviewTrigger, From, To, Terminal
      <4>2. state'[r] = To[ReviewTrigger(r)]
        BY <2>5, <3>2, <4>1 DEF ApplyResolution, MoveTo, StoreTypeOK
      <4> QED BY <1>3, <4>1, <4>2
    <3> QED BY <3>1, <3>2
  <2>6. \A p \in Request : RequestStep(p) => Refuse(p) \/ UNCHANGED openReview
    BY DEF RequestStep, StartOrder, StartCapture, Proceed, BeginVerification, Evaluate, LostCapture,
           CommitOrder, CommitCapture, Commit, Call, RecordOutcome, CrashRequest, storeVars, reviewRows
  <2>7. \A p \in Request : RequestStep(p) => UNCHANGED resolving
    BY DEF RequestStep
  <2>8. ProviderStep \/ (\E w \in Worker : WorkerStep(w)) \/ Tick \/ UNCHANGED vars
        => UNCHANGED <<openReview, resolving>>
    BY DEF ProviderStep, WorkerStep, PickStuck, PickById, PickAbandoned, Pick, Work, AskForOrder,
       AskForPayment, Apply, Spend, Abandon, CrashWorker, Tick, vars, storeVars, reviewRows
  <2>9. (\E x \in Release, e \in Event : EventStep(x, e)) \/ (\E a \in Authorization : RevokeStep(a))
        => UNCHANGED <<openReview, resolving>>
    BY DEF EventStep, ReceiveEvent, ApplyEvent, CrashEvent, RevokeStep, Revoke, storeVars, reviewRows
  <2> QED BY <2>1, <2>2, <2>3, <2>4, <2>5, <2>6, <2>7, <2>8, <2>9 DEF Next, ReviewStep
<1> QED BY <1>2, <1>3 DEF PausedIsActionable

\* A paused release always has a review to resolve or one whose effect is on its
\* way, as long as the operator's process does not die between the statement
\* that resolves the review and the one that moves the release.
THEOREM PausedHasReview == "review" \notin MayCrash => (Spec => []PausedIsActionable)
<1>1. Init => PausedIsActionable
  BY DEF Init, StoreInit, PausedIsActionable
<1> SUFFICES ASSUME "review" \notin MayCrash PROVE Spec => []PausedIsActionable
  OBVIOUS
<1>2. TypeOK /\ CallInv /\ PausedIsActionable /\ [Next]_vars => PausedIsActionable'
  BY PausedKept
<1> QED BY <1>1, <1>2, TypeCorrect, CallInvariant, PTL DEF Spec

-----------------------------------------------------------------------------
(* Timing: a call leaves, if at all, while its in-flight state is younger    *)
(* than a grant                                                              *)

\* A grant's age grows, and only with the clock.
GrantsKept ==
  \A p \in Request :
    pc[p] = "prepared" /\ pc'[p] = "prepared" =>
      elapsed'[p] >= elapsed[p] /\ (elapsed'[p] = elapsed[p] \/ Tick)

LEMMA Grants ==
  ASSUME TypeOK, Placed, [Next]_vars
  PROVE  GrantsKept
<1> ServiceTypeOK /\ Horizon \in Nat
  BY Clock DEF TypeOK
<1>1. CASE UNCHANGED elapsed
  BY <1>1 DEF GrantsKept, ServiceTypeOK
<1>2. CASE \E p \in Request : RequestStep(p)
  <2>1. PICK p \in Request : RequestAdvances(p)
    BY <1>2, RequestAdvance
  <2>2. pc[p] = "prepared" => pc'[p] # "prepared"
    BY <2>1 DEF RequestAdvances
  <2>3. \A q \in Request \ {p} : elapsed'[q] = elapsed[q]
    BY <2>1 DEF RequestAdvances, CallKept
  <2> QED BY <2>2, <2>3 DEF GrantsKept, ServiceTypeOK
<1>3. CASE Tick
  <2>1. \A p \in Request : pc[p] = "prepared" => elapsed'[p] = Older(elapsed[p])
    BY <1>3 DEF Tick, ServiceTypeOK
  <2>2. \A n \in 0 .. Horizon : Older(n) >= n
    BY DEF Older
  <2> QED BY <1>3, <2>1, <2>2 DEF GrantsKept, ServiceTypeOK
<1>4. ProviderStep => UNCHANGED elapsed
  BY DEF ProviderStep, requestVars, locals
<1> QED BY <1>1, <1>2, <1>3, <1>4, Frames DEF requestVars, locals

\* A release whose call is committed enters that gate's in-flight states once.
LEMMA StaysInFlight ==
  ASSUME CallInv, MovesDeclared, NEW p \in Request, Holds(p), gate[p] \in Gate,
         state'[on[p]] \in InFlight(gate[p])
  PROVE  state[on[p]] \in InFlight(gate[p])
<1>1. on[p] \in Release
  BY DEF CallInv, Holds
<1>2. \A g \in Gate, t \in DOMAIN To : To[t] \in InFlight(g) =>
         \/ From[t] \subseteq InFlight(g)
         \/ From[t] = {"VERIFIED"} /\ g = "ORDER_CREATION"
         \/ From[t] = {"CAPTURE_APPROVED"} /\ g = "CAPTURE"
  BY DEF From, To, InFlight, Gate
<1>3. CASE gate[p] = "CAPTURE"
  <2>1. state[on[p]] \in AfterCapture
    BY <1>3 DEF CallInv, PastItsCalls
  <2> QED BY <1>1, <1>2, <1>3, <2>1 DEF MovesDeclared, AfterCapture, InFlight
<1>4. CASE gate[p] = "ORDER_CREATION"
  <2>1. state[on[p]] \notin BeforeOrder
    BY <1>4 DEF CallInv, PastItsCalls
  <2> QED BY <1>1, <1>2, <1>4, <2>1 DEF MovesDeclared, BeforeOrder, InFlight
<1> QED BY <1>3, <1>4 DEF Gate

LEMMA TimingInvKept ==
  ASSUME TypeOK, CallInv, MoneyInv, TimingInv, [Next]_vars, StepKept, Placed', ProviderInv'
  PROVE  TimingInv'
<1> StoreTypeOK /\ ServiceTypeOK /\ Horizon \in Nat /\ GrantTtl \in Nat /\ Placed
  BY Clock, StoreAssumption DEF TypeOK, CallInv, Placed
<1> SUFFICES ASSUME NEW p \in Request, Holds(p)', state'[on'[p]] \in InFlight(gate'[p])
             PROVE  /\ pc'[p] = "prepared" => age'[on'[p]] <= elapsed'[p]
                    /\ p \in wire' => age'[on'[p]] <= GrantTtl
  BY DEF TimingInv, InFlight
<1> DEFINE r == on[p]
<1>1. on'[p] = r /\ gate'[p] = gate[p] /\ (Holds(p) \/ (~Holds(p) /\ Commits(p)))
  BY DEF StepKept, HoldersKept
<1>2. r \in Release
  BY <1>1 DEF Holds, Placed
<1>3. age[r] \in Nat /\ elapsed[p] \in Nat /\ elapsed'[p] \in Nat
  <2>1. ServiceTypeOK'
    BY TypeKept DEF TypeOK
  <2> QED BY <1>2, <2>1 DEF StoreTypeOK, ServiceTypeOK
<1>4. GrantsKept
  BY Grants
<1>5. CASE ~Holds(p)
  <2>1. state'[r] \in {"ORDER_IN_FLIGHT", "CAPTURE_IN_FLIGHT"} /\ state'[r] # state[r]
    BY <1>1, <1>5 DEF Commits
  <2>2. ~Tick
    BY <2>1 DEF Tick
  <2>3. age'[r] = 0
    BY <1>2, <2>1, <2>2, Aging DEF Ages
  <2> QED BY <1>1, <1>3, <2>3
<1>6. CASE Holds(p)
  <2>1. state[r] \in InFlight(gate[p])
    BY <1>1, <1>6, StaysInFlight DEF ServiceTypeOK, StepKept
  <2>2. p \in wire' => \/ p \in wire
                       \/ pc[p] = "prepared" /\ elapsed[p] <= GrantTtl
    BY DEF StepKept, CallsStay
  <2>3. pc'[p] = "prepared" => pc[p] = "prepared"
    <3>1. p \in called => p \in called'
      BY DEF StepKept, CallsStay
    <3> QED BY <1>6, <3>1 DEF Holds, Placed
  <2>4. CASE ~Tick
    <3>1. age'[r] \in {0, age[r]}
      <4>1. state'[r] \in Indeterminate
        BY <1>1 DEF InFlight, Indeterminate
      <4> QED BY <1>2, <2>4, <4>1, Aging DEF Ages
    <3>2. pc'[p] = "prepared" => elapsed'[p] = elapsed[p]
      BY <1>4, <2>3, <2>4 DEF GrantsKept
    <3>3. pc[p] = "prepared" => age[r] <= elapsed[p]
      BY <1>6, <2>1 DEF TimingInv
    <3>4. p \in wire => age[r] <= GrantTtl
      BY <1>6, <2>1 DEF TimingInv
    <3> QED BY <1>1, <1>3, <2>2, <2>3, <3>1, <3>2, <3>3, <3>4
  <2>5. CASE Tick
    <3>1. p \notin wire'
      BY <2>5 DEF Tick, providerVars
    <3>2. state[r] \in Indeterminate
      BY <2>1 DEF InFlight, Indeterminate
    <3>3. age'[r] = Older(age[r])
      BY <1>2, <2>5, <3>2 DEF Tick, StoreTypeOK
    <3>4. pc[p] = "prepared" => elapsed'[p] = Older(elapsed[p])
      BY <2>5 DEF Tick, ServiceTypeOK
    <3>5. pc[p] = "prepared" => age[r] <= elapsed[p]
      BY <1>6, <2>1 DEF TimingInv
    <3>6. \A m, n \in 0 .. Horizon : m <= n => Older(m) <= Older(n)
      BY DEF Older
    <3>7. age[r] \in 0 .. Horizon /\ elapsed[p] \in 0 .. Horizon
      BY <1>2 DEF StoreTypeOK, ServiceTypeOK
    <3> QED BY <1>1, <2>3, <3>1, <3>3, <3>4, <3>5, <3>6, <3>7
  <2> QED BY <2>4, <2>5
<1> QED BY <1>5, <1>6

\* Once its in-flight state is older than a grant, no call is left.
LEMMA OldCall ==
  ASSUME TypeOK, CallInv, MoneyInv, TimingInv, NEW r \in Release, NEW g \in Gate,
         state[r] \in InFlight(g), age[r] > GrantTtl
  PROVE  NoCallLeft(r, g)
<1> StoreTypeOK /\ ServiceTypeOK /\ GrantTtl \in Nat
  BY StoreAssumption DEF TypeOK
<1> SUFFICES ASSUME NEW p \in Request, gate[p] = g, on[p] = r
             PROVE  p \notin wire /\ (pc[p] = "prepared" => elapsed[p] > GrantTtl)
  BY DEF NoCallLeft
<1>1. age[r] \in Nat /\ elapsed[p] \in Nat
  BY DEF StoreTypeOK, ServiceTypeOK
<1>2. p \in wire => Holds(p)
  BY DEF MoneyInv, ProviderInv, Holds
<1>3. p \in wire => age[r] <= GrantTtl
  BY <1>2 DEF TimingInv
<1>4. pc[p] = "prepared" => age[r] <= elapsed[p]
  BY DEF TimingInv, Holds
<1> QED BY <1>1, <1>3, <1>4

\* No call left stays so while nobody can commit to another.
LEMMA NoCallStays ==
  ASSUME TypeOK, CallInv, [Next]_vars, StepKept, Placed', ProviderInv',
         NEW r, NEW g, NoCallLeft(r, g),
         \A p \in Request : Commits(p) => ~(gate[p] = g /\ on[p] = r)
  PROVE  NoCallLeft(r, g)'
<1> ServiceTypeOK /\ GrantTtl \in Nat /\ Horizon \in Nat /\ Placed
  BY StoreAssumption DEF TypeOK, CallInv, Placed
<1> SUFFICES ASSUME NEW p \in Request, gate'[p] = g, on'[p] = r
             PROVE  p \notin wire' /\ (pc'[p] = "prepared" => elapsed'[p] > GrantTtl)
  BY DEF NoCallLeft
<1>1. Holds(p)' => gate[p] = g /\ on[p] = r /\ Holds(p)
  BY DEF StepKept, HoldersKept
<1>2. elapsed[p] \in Nat
  BY DEF ServiceTypeOK
<1>3. p \notin wire'
  <2>1. p \in wire' => Holds(p)'
    BY DEF ProviderInv, Holds
  <2>2. p \in wire' => \/ p \in wire
                       \/ pc[p] = "prepared" /\ elapsed[p] <= GrantTtl
    BY DEF StepKept, CallsStay
  <2> QED BY <1>1, <1>2, <2>1, <2>2 DEF NoCallLeft
<1>4. ASSUME pc'[p] = "prepared" PROVE elapsed'[p] > GrantTtl
  <2>1. gate[p] = g /\ on[p] = r /\ Holds(p)
    BY <1>1, <1>4 DEF Holds
  <2>2. pc[p] = "prepared"
    <3>1. p \in called => p \in called'
      BY DEF StepKept, CallsStay
    <3> QED BY <1>4, <2>1, <3>1 DEF Holds, Placed
  <2>3. elapsed[p] > GrantTtl
    BY <2>1, <2>2 DEF NoCallLeft
  <2>4. elapsed'[p] >= elapsed[p]
    BY <1>4, <2>2, Grants DEF GrantsKept
  <2>5. elapsed'[p] \in Nat
    BY TypeKept DEF TypeOK, ServiceTypeOK
  <2> QED BY <1>2, <2>3, <2>4, <2>5
<1> QED BY <1>3, <1>4

\* Nor is there one once the request that made it reads a definite answer.
LEMMA NoCallAfterAnswer ==
  ASSUME TypeOK, CallInv, MoneyInv, [Next]_vars, StepKept, CallInv', ProviderInv',
         NEW p \in Request, NEW r, NEW g, Answered(p, g, r, "REJECTED")
  PROVE  /\ Holds(p) /\ Holds(p)' /\ gate'[p] = g /\ on'[p] = r
         /\ \A q \in Request : Holds(q) /\ gate[q] = g /\ on[q] = r => q \notin wire
         /\ NoCallLeft(r, g)'
<1>1. p \in called /\ p \notin wire /\ gate[p] = g /\ on[p] = r /\ pc'[p] = "done" /\ pc[p] = "awaiting"
  BY DEF Answered, MoneyInv, ProviderInv
<1>2. p \in called' /\ gate'[p] = g /\ on'[p] = r /\ p \notin wire'
  BY <1>1 DEF StepKept, CallsStay
<1>3. Holds(p) /\ Holds(p)'
  BY <1>1, <1>2 DEF Holds
<1>4. \A q \in Request : Holds(q) /\ gate[q] = g /\ on[q] = r => q = p
  BY <1>1, <1>3 DEF CallInv, OneHolder
<1>5. \A q \in Request : Holds(q)' /\ gate'[q] = g /\ on'[q] = r => q = p
  BY <1>2, <1>3 DEF CallInv, OneHolder
<1>6. \A q \in Request : q \in wire' \/ pc'[q] = "prepared" => Holds(q)'
  BY DEF ProviderInv, Holds
<1>7. NoCallLeft(r, g)'
  BY <1>1, <1>2, <1>5, <1>6 DEF NoCallLeft
<1> QED BY <1>1, <1>2, <1>3, <1>4, <1>7

-----------------------------------------------------------------------------
(* Money does not move behind the record's back *)

\* A definite refusal is read as the provider gave it.
RefusalsKept ==
  \A p \in Request :
    reply'[p] = "REJECTED" =>
      \/ reply[p] = "REJECTED"
      \/ /\ p \in wire /\ p \notin wire'
         /\ gate[p] = "CAPTURE" => payment'[on[p]] # "captured"
         /\ gate[p] = "ORDER_CREATION" => order' = order

LEMMA Refusals ==
  ASSUME TypeOK, Placed, [Next]_vars
  PROVE  RefusalsKept
<1> ProviderTypeOK
  BY DEF TypeOK
<1>1. CASE UNCHANGED reply
  BY <1>1 DEF RefusalsKept
<1>2. CASE \E p \in Request : RequestStep(p)
  BY <1>2, RequestAdvance DEF RequestAdvances, CallKept, RefusalsKept
<1>3. CASE ProviderStep
  <2>1. ASSUME NEW p \in Request, ApplyOrder(p) PROVE RefusalsKept
    BY <2>1 DEF ApplyOrder, Answer, ProviderTypeOK, RefusalsKept
  <2>2. ASSUME NEW p \in Request, ApplyCapture(p) PROVE RefusalsKept
    BY <2>2 DEF ApplyCapture, Answer, ProviderTypeOK, RefusalsKept
  <2>3. ASSUME NEW p \in Request, LoseCall(p) \/ TimeOut(p) PROVE RefusalsKept
    BY <2>3 DEF LoseCall, TimeOut, ProviderTypeOK, RefusalsKept
  <2>4. ASSUME NEW r \in Release, IndexOrder(r) \/ Pay(r) PROVE RefusalsKept
    BY <2>4 DEF IndexOrder, Pay, RefusalsKept
  <2> QED BY <1>3, <2>1, <2>2, <2>3, <2>4 DEF ProviderStep
<1>4. Tick => UNCHANGED reply
  BY DEF Tick, providerVars
<1> QED BY <1>1, <1>2, <1>3, <1>4, Frames DEF providerVars

LEMMA CaptureStaysOver ==
  ASSUME TypeOK, CallInv, [Next]_vars, StepKept, Placed', ProviderInv',
         NEW r \in Release, CaptureIsOver(r)
  PROVE  CaptureIsOver(r)'
<1>1. \A t \in DOMAIN To : From[t] \cap AfterCapture # {} => To[t] \in AfterCapture
  BY DEF From, To, AfterCapture
<1>2. state'[r] \in AfterCapture
  BY <1>1 DEF CaptureIsOver, StepKept, MovesDeclared, AfterCapture
<1>3. \A p \in Request : Commits(p) => ~(gate[p] = "CAPTURE" /\ on[p] = r)
  BY DEF Commits, CaptureIsOver, AfterCapture
<1> QED BY <1>2, <1>3, NoCallStays DEF CaptureIsOver

\* No sweep asks about a capture whose call may still leave: the timer's sweep
\* waits longer than a grant lives, and nobody asks earlier.
PatientSweeps == Worker = {} \/ (~OperatorReconciles /\ GrantTtl < ReconcileAfter)

LEMMA RecordInvKept ==
  ASSUME TypeOK, CallInv, MoneyInv, TimingInv, RecordInv, PatientSweeps, [Next]_vars,
         CallInv', MoneyInv'
  PROVE  RecordInv'
<1> StoreTypeOK /\ ProviderTypeOK /\ ServiceTypeOK /\ ReconcileTypeOK /\ Placed
  BY DEF TypeOK, CallInv, Placed
<1> Placed' /\ ProviderInv'
  BY DEF CallInv, Placed, MoneyInv
<1> StepKept
  BY Steps
<1>1. ASSUME NEW w \in Worker, NEW r \in Release, Told(w, r, "CAPTURE_RECONCILED_NOT_CAPTURED")
      PROVE  CaptureIsOver(r) /\ payment[r] # "captured"
  <2>1. seen[w] \in InFlight("CAPTURE")
    BY <1>1 DEF Told, CallInv, Remembered, From, InFlight
  <2> QED BY <1>1, <2>1 DEF Told, RecordInv
<1>2. ASSUME NEW r \in Release, payment'[r] = "captured" PROVE state'[r] \in Unended
  <2>1. \A t \in DOMAIN To : From[t] \cap Unended # {} => To[t] \in Unended \cup {"CAPTURE_REJECTED"}
    BY DEF From, To, Unended
  <2>2. CASE payment[r] = "captured"
    <3>1. state[r] \in Unended
      BY <2>2 DEF RecordInv
    <3>2. state'[r] \in Unended \cup {"CAPTURE_REJECTED"} /\ state[r] # "CAPTURE_REJECTED"
      BY <2>1, <3>1 DEF StepKept, MovesDeclared, Unended
    <3>3. ~\E p \in Request : Answered(p, "CAPTURE", r, "REJECTED")
      BY <2>2 DEF Answered, RecordInv
    <3>4. ~\E w \in Worker : Told(w, r, "CAPTURE_RECONCILED_NOT_CAPTURED")
      BY <1>1, <2>2
    <3> QED BY <3>2, <3>3, <3>4 DEF StepKept, Causes
  <2>3. CASE payment[r] # "captured"
    <3>1. PICK p \in wire : gate[p] = "CAPTURE" /\ on[p] = r
      BY <1>2, <2>3 DEF StepKept, PaymentKept
    <3>2. p \in Request /\ Holds(p)
      BY <3>1 DEF ProviderTypeOK, MoneyInv, ProviderInv, Holds
    <3>3. state[r] \in AfterCapture /\ state[r] # "CAPTURE_REJECTED"
      BY <3>1, <3>2 DEF CallInv, PastItsCalls, RecordInv, CaptureIsOver, NoCallLeft
    <3>4. state'[r] \in Unended \cup {"CAPTURE_REJECTED"}
      BY <2>1, <3>3 DEF StepKept, MovesDeclared, Unended, AfterCapture
    <3>5. ~\E q \in Request : Answered(q, "CAPTURE", r, "REJECTED")
      BY <3>1, <3>2, NoCallAfterAnswer
    <3>6. ~\E w \in Worker : Told(w, r, "CAPTURE_RECONCILED_NOT_CAPTURED")
      BY <1>1, <3>1, <3>2 DEF CaptureIsOver, NoCallLeft
    <3> QED BY <3>3, <3>4, <3>5, <3>6 DEF StepKept, Causes
  <2> QED BY <2>2, <2>3
<1>3. ASSUME NEW r \in Release, state'[r] = "CAPTURE_REJECTED" PROVE CaptureIsOver(r)'
  <2>1. CASE state[r] = "CAPTURE_REJECTED"
    BY <2>1, CaptureStaysOver DEF RecordInv
  <2>2. ASSUME NEW p \in Request, Answered(p, "CAPTURE", r, "REJECTED") PROVE CaptureIsOver(r)'
    BY <1>3, <2>2, NoCallAfterAnswer DEF CaptureIsOver, AfterCapture
  <2>3. ASSUME NEW w \in Worker, Told(w, r, "CAPTURE_RECONCILED_NOT_CAPTURED") PROVE CaptureIsOver(r)'
    BY <1>1, <2>3, CaptureStaysOver
  <2> QED BY <1>3, <2>1, <2>2, <2>3 DEF StepKept, Causes
<1>4. ASSUME NEW p \in Request, gate'[p] = "CAPTURE", reply'[p] = "REJECTED"
      PROVE  payment'[on'[p]] # "captured"
  <2>1. p \in called' /\ p \notin wire' /\ on'[p] \in Release
    BY <1>4 DEF ProviderInv, Placed
  <2>2. gate[p] = "CAPTURE" /\ on'[p] = on[p]
    BY <1>4, <2>1 DEF StepKept, HoldersKept, Holds
  <2>3. CASE reply[p] = "REJECTED"
    <3>1. payment[on[p]] # "captured" /\ Holds(p) /\ p \notin wire
      BY <2>2, <2>3 DEF RecordInv, MoneyInv, ProviderInv, Holds
    <3>2. \A q \in wire : gate[q] = "CAPTURE" /\ on[q] = on[p] => q = p
      BY <2>2, <3>1 DEF ProviderTypeOK, MoneyInv, ProviderInv, Holds, CallInv, OneHolder
    <3> QED BY <2>1, <2>2, <3>1, <3>2 DEF StepKept, PaymentKept
  <2>4. CASE reply[p] # "REJECTED"
    BY <1>4, <2>2, <2>4, Refusals DEF RefusalsKept
  <2> QED BY <2>3, <2>4
<1>5. ASSUME NEW w \in Worker, NEW r \in Release, target'[w] = r,
             job'[w] \in {"asking", "applying"}, seen'[w] \in InFlight("CAPTURE")
      PROVE  CaptureIsOver(r)'
  <2>1. CASE target'[w] = target[w] /\ seen'[w] = seen[w] /\ job[w] \in {"asking", "applying"}
    BY <1>5, <2>1, CaptureStaysOver DEF RecordInv
  <2>2. CASE Picks(w) /\ UNCHANGED <<storeVars, providerVars, requestVars>>
    <3>1. state[r] \in InFlight("CAPTURE")
      BY <1>5, <2>2 DEF Picks
    <3>2. age[r] > GrantTtl
      BY <1>5, <2>2, StoreAssumption DEF Picks, PatientSweeps, StoreTypeOK
    <3>3. NoCallLeft(r, "CAPTURE")
      BY <3>1, <3>2, OldCall DEF Gate
    <3>4. CaptureIsOver(r)
      BY <3>1, <3>3 DEF CaptureIsOver, AfterCapture, InFlight
    <3> QED BY <3>4, CaptureStaysOver
  <2> QED BY <1>5, <2>1, <2>2 DEF StepKept, SweepsKept, Learns
<1>6. ASSUME NEW w \in Worker, job'[w] = "applying", answer'[w] = "CAPTURE_RECONCILED_NOT_CAPTURED"
      PROVE  payment'[target'[w]] # "captured"
  <2>1. target'[w] = target[w] /\ target[w] \in Release
    BY <1>6 DEF StepKept, SweepsKept, Picks, Learns, MoneyInv, Aimed
  <2>2. payment[target[w]] # "captured"
    BY <1>6 DEF StepKept, SweepsKept, Picks, Learns, RecordInv
  <2>3. seen'[w] \in InFlight("CAPTURE")
    <3>1. Remembered'
      BY DEF CallInv
    <3> QED BY <1>6, <3>1 DEF Remembered, From, InFlight
  <2>4. CaptureIsOver(target[w])
    <3>1. seen[w] = seen'[w] /\ job[w] \in {"asking", "applying"}
      BY <1>6 DEF StepKept, SweepsKept, Picks, Learns
    <3> QED BY <2>3, <3>1 DEF RecordInv
  <2> QED BY <2>1, <2>2, <2>4 DEF StepKept, PaymentKept, CaptureIsOver, NoCallLeft, ProviderTypeOK
<1>7. \A w \in Worker : job'[w] # "idle" => target'[w] \in Release
  BY DEF MoneyInv, Aimed
<1>8. \A w \in Worker : job'[w] \in {"asking", "applying"} /\ seen'[w] \in InFlight("CAPTURE")
                      => CaptureIsOver(target[w])'
  BY <1>5, <1>7 DEF CaptureIsOver, NoCallLeft
<1> QED BY <1>2, <1>3, <1>4, <1>6, <1>8 DEF RecordInv, InFlight

LEMMA RecordInvInit == Init => TimingInv /\ RecordInv
  BY DEF Init, StoreInit, ProviderInit, ServiceInit, ReconcileInit, TimingInv, RecordInv, Holds

LEMMA TimingKept ==
  ASSUME TypeOK, CallInv, MoneyInv, TimingInv, [Next]_vars
  PROVE  TimingInv'
<1>1. CallInv' /\ MoneyInv' /\ StepKept
  BY CallInvKept, MoneyInvKept, Steps
<1>2. Placed' /\ ProviderInv'
  BY <1>1 DEF CallInv, Placed, MoneyInv
<1> QED BY <1>1, <1>2, TimingInvKept

LEMMA TimingInvariant == Spec => []TimingInv
<1> QED BY RecordInvInit, TimingKept, TypeCorrect, CallInvariant, MoneyInvariant, PTL DEF Spec

LEMMA RecordInvariant ==
  ASSUME PatientSweeps
  PROVE  Spec => []RecordInv
<1>1. TypeOK /\ CallInv /\ MoneyInv /\ TimingInv /\ RecordInv /\ [Next]_vars => RecordInv'
  BY RecordInvKept, CallInvKept, MoneyInvKept
<1> QED BY <1>1, RecordInvInit, TypeCorrect, CallInvariant, MoneyInvariant, TimingInvariant, PTL
        DEF Spec

\* Money never moves behind the record's back, when the timer's sweep waits
\* longer than a grant lives and no operator asks earlier: a captured payment's
\* release says so or is still to be resolved.
THEOREM ChargesAreRecorded ==
  ASSUME Worker = {} \/ (~OperatorReconciles /\ GrantTtl < ReconcileAfter)
  PROVE  Spec => []ChargeIsRecorded
<1>1. RecordInv => ChargeIsRecorded
  BY DEF RecordInv, ChargeIsRecorded
<1>2. PatientSweeps
  BY DEF PatientSweeps
<1> QED BY <1>1, <1>2, RecordInvariant, PTL

-----------------------------------------------------------------------------
(* One charge per mandate *)

\* A mandate that was spent or revoked stays so.
LEMMA SpentStaysSpent ==
  ASSUME TypeOK, [Next]_vars
  PROVE  \A a \in Authorization : authorization[a] # "ACTIVE" => authorization'[a] # "ACTIVE"
<1> StoreTypeOK
  BY DEF TypeOK
<1>1. ASSUME NEW a, NEW to \in {"CONSUMED", "REVOKED"}, LeaveActive(a, to)
      PROVE  \A x \in Authorization : authorization[x] # "ACTIVE" => authorization'[x] # "ACTIVE"
  BY <1>1 DEF LeaveActive, StoreTypeOK
<1>2. \A p \in Request : RequestStep(p) =>
         UNCHANGED authorization \/ LeaveActive(AuthorizationOf[on[p]], "CONSUMED")
  BY DEF RequestStep, StartOrder, StartCapture, Proceed, BeginVerification, Evaluate, Refuse,
         LostCapture, CommitOrder, CommitCapture, Commit, Call, RecordOutcome, CrashRequest, storeVars
<1>3. \A w \in Worker : WorkerStep(w) =>
         UNCHANGED authorization \/ LeaveActive(AuthorizationOf[target[w]], "CONSUMED")
  BY DEF WorkerStep, PickStuck, PickById, PickAbandoned, Pick, Work, AskForOrder, AskForPayment,
         Apply, Spend, Abandon, CrashWorker, storeVars
<1>4. \A a \in Authorization : RevokeStep(a) => LeaveActive(a, "REVOKED")
  BY DEF RevokeStep, Revoke
<1>5. ProviderStep \/ (\E r \in Release, e \in Event : EventStep(r, e))
      \/ (\E r \in Release : ReviewStep(r)) \/ Tick \/ UNCHANGED vars => UNCHANGED authorization
  BY DEF ProviderStep, EventStep, ReceiveEvent, ApplyEvent, CrashEvent, ReviewStep, ResolveReview,
         ApplyResolution, CrashReview, Tick, vars, storeVars
<1> QED BY <1>1, <1>2, <1>3, <1>4, <1>5 DEF Next

\* A request that is started begins on a row that exists; the kernel allows it only
\* on a mandate that is still active.
VerdictsKept ==
  \A p \in Request :
    Started(p)' =>
      \/ pc'[p] # "decided" /\ on'[p] \in Release /\ state'[on'[p]] # "ABSENT"
      \/ /\ Started(p) /\ on'[p] = on[p]
         /\ Allowed(p, on[p])' => \/ Allowed(p, on[p])
                                 \/ authorization[AuthorizationOf[on[p]]] = "ACTIVE"

LEMMA Verdicts ==
  ASSUME TypeOK, Placed, [Next]_vars
  PROVE  VerdictsKept
<1> StoreTypeOK /\ ServiceTypeOK
  BY DEF TypeOK
<1>1. CASE UNCHANGED <<pc, on, verdict>>
  BY <1>1 DEF VerdictsKept, Started, Allowed
<1>2. ASSUME NEW p \in Request, RequestStep(p) PROVE VerdictsKept
  <2>1. ASSUME NEW where \in Where, Goto(p, where)
        PROVE  pc'[p] = where /\ \A x \in Request \ {p} : pc'[x] = pc[x]
    BY <2>1 DEF Goto, ServiceTypeOK
  <2>2. ASSUME NEW r \in Release, StartOrder(p, r) \/ StartCapture(p, r) PROVE VerdictsKept
    <3>1. on'[p] = r /\ \A x \in Request \ {p} : on'[x] = on[x]
      BY <2>2 DEF StartOrder, StartCapture, Address, ServiceTypeOK
    <3>2. UNCHANGED verdict
      BY <2>2 DEF StartOrder, StartCapture
    <3>3. \/ Goto(p, "done") \/ Goto(p, "lost")
          \/ /\ Goto(p, "drafted") \/ Goto(p, "evaluating")
             /\ MoveTo(r, "DRAFT") \/ MoveTo(r, "CAPTURE_VERIFYING")
                  \/ (UNCHANGED state /\ state[r] # "ABSENT")
      BY <2>2 DEF StartOrder, StartNewOrder, MandateRefused, StartStoredOrder, StartCapture, To
    <3>4. pc'[p] # "decided" /\ \A x \in Request \ {p} : pc'[x] = pc[x]
      BY <2>1, <3>3 DEF Where
    <3>5. pc'[p] \in {"drafted", "evaluating"} => state'[r] # "ABSENT"
      <4>1. CASE Goto(p, "done") \/ Goto(p, "lost")
        BY <2>1, <4>1 DEF Where
      <4>2. CASE MoveTo(r, "DRAFT") \/ MoveTo(r, "CAPTURE_VERIFYING")
        BY <4>2 DEF MoveTo, StoreTypeOK
      <4> QED BY <3>3, <4>1, <4>2
    <3> QED BY <3>1, <3>2, <3>4, <3>5 DEF VerdictsKept, Started, Allowed
  <2>3. CASE BeginVerification(p)
    <3>1. pc[p] = "drafted" /\ UNCHANGED <<on, verdict>> /\ Goto(p, "evaluating")
      BY <2>3 DEF BeginVerification
    <3>2. pc'[p] = "evaluating" /\ \A x \in Request \ {p} : pc'[x] = pc[x]
      BY <2>1, <3>1 DEF Where
    <3> QED BY <3>1, <3>2 DEF VerdictsKept, Started, Allowed
  <2>4. CASE Evaluate(p)
    <3>1. pc[p] = "evaluating" /\ UNCHANGED on /\ Goto(p, "decided")
      BY <2>4 DEF Evaluate
    <3>2. pc'[p] = "decided" /\ \A x \in Request \ {p} : pc'[x] = pc[x]
      BY <2>1, <3>1 DEF Where
    <3>3. /\ \A x \in Request \ {p} : verdict'[x] = verdict[x]
          /\ authorization[AuthorizationOf[on[p]]] # "ACTIVE" => verdict'[p] # "ALLOW"
      BY <2>4 DEF Evaluate, MustDeny, Verdict, ServiceTypeOK
    <3> QED BY <3>1, <3>2, <3>3 DEF VerdictsKept, Started, Allowed
  <2>5. CASE Finish(p) /\ UNCHANGED on
    <3>1. pc'[p] = "done" /\ \A x \in Request \ {p} : pc'[x] = pc[x]
      BY <2>1, <2>5 DEF Finish, Where
    <3>2. \A x \in Request \ {p} : verdict'[x] = verdict[x]
      BY <2>5 DEF Finish, ServiceTypeOK
    <3> QED BY <2>5, <3>1, <3>2 DEF VerdictsKept, Started, Allowed
  <2>6. ASSUME NEW where \in {"prepared", "awaiting"}, Goto(p, where), UNCHANGED <<on, verdict>>
        PROVE  VerdictsKept
    <3>1. pc'[p] = where /\ \A x \in Request \ {p} : pc'[x] = pc[x]
      BY <2>1, <2>6 DEF Where
    <3> QED BY <2>6, <3>1 DEF VerdictsKept, Started, Allowed
  <2>7. Refuse(p) \/ LostCapture(p) \/ RecordOutcome(p) \/ CrashRequest(p)
        => Finish(p) /\ UNCHANGED on
    BY DEF Refuse, LostCapture, RecordOutcome, CrashRequest
  <2>8. CommitOrder(p) \/ CommitCapture(p) \/ Call(p)
        => \/ Finish(p) /\ UNCHANGED on
           \/ (Goto(p, "prepared") \/ Goto(p, "awaiting")) /\ UNCHANGED <<on, verdict>>
    BY DEF CommitOrder, CommitCapture, Commit, Call, locals
  <2> QED BY <1>2, <2>2, <2>3, <2>4, <2>5, <2>6, <2>7, <2>8 DEF RequestStep, Proceed
<1>3. [Next]_vars => UNCHANGED <<pc, on, verdict>> \/ \E p \in Request : RequestStep(p)
  BY DEF Next, ProviderStep, WorkerStep, PickStuck, PickById, PickAbandoned, Pick, Work, AskForOrder,
         AskForPayment, Apply, Spend, Abandon, CrashWorker, EventStep, ReceiveEvent, ApplyEvent,
         CrashEvent, ReviewStep, ResolveReview, ApplyResolution, CrashReview, RevokeStep, Tick,
         vars, requestVars, locals
<1> QED BY <1>1, <1>2, <1>3

\* A row without hope leaves its states only to end.
LEMMA HopelessKept ==
  ASSUME TypeOK, StepKept, VerdictsKept, [Next]_vars, NEW r \in Release, Hopeless(r), Active(r)'
  PROVE  Hopeless(r)'
<1>1. state'[r] \in {"DRAFT", "VERIFYING", "PAUSED"}
  <2>1. \A t \in DOMAIN To : From[t] \cap {"DRAFT", "VERIFYING", "PAUSED"} # {} =>
          \/ To[t] \in {"DRAFT", "VERIFYING", "PAUSED", "VERIFIED"} \cup Terminal
          \/ t = "REVIEW_APPROVED"
    BY DEF From, To, Terminal
  <2>2. state'[r] # "ORDER_IN_FLIGHT"
    BY DEF StepKept, Causes, Hopeless
  <2>3. state'[r] # "VERIFIED"
    BY DEF StepKept, RowKept, Hopeless
  <2> QED BY <2>1, <2>2, <2>3 DEF StepKept, MovesDeclared, Hopeless, Active
<1>2. ~orderId'[r]
  BY DEF StepKept, RowKept, Hopeless
<1>3. authorization'[AuthorizationOf[r]] # "ACTIVE"
  <2>1. AuthorizationOf[r] \in Authorization
    BY StoreAssumption
  <2> QED BY <2>1, SpentStaysSpent DEF Hopeless
<1>4. ~\E p \in Request : Allowed(p, r)'
  BY DEF VerdictsKept, Hopeless, Allowed, Started
<1> QED BY <1>1, <1>2, <1>3, <1>4 DEF Hopeless

LEMMA MandateInvKept ==
  ASSUME TypeOK, CallInv, MoneyInv, RecordInv, OneActiveRelease, MandateInv, Worker = {}, [Next]_vars
  PROVE  MandateInv'
<1> StoreTypeOK /\ ProviderTypeOK /\ StepKept
  BY Steps DEF TypeOK
<1>1. ASSUME NEW r \in Release, state'[r] \in MoneyHasMoved
      PROVE  authorization'[AuthorizationOf[r]] # "ACTIVE"
  <2>1. AuthorizationOf[r] \in Authorization
    BY StoreAssumption
  <2>2. \A t \in DOMAIN To : To[t] = "SETTLED" => From[t] = {"CAPTURED"}
    BY DEF From, To
  <2>3. state'[r] = "SETTLED" => state[r] \in MoneyHasMoved
    BY <2>2 DEF StepKept, MovesDeclared, MoneyHasMoved
  <2>4. state[r] \in MoneyHasMoved => authorization'[AuthorizationOf[r]] # "ACTIVE"
    BY <2>1, SpentStaysSpent DEF MandateInv
  <2>5. state'[r] = "CAPTURED" /\ state[r] # "CAPTURED" => authorization'[AuthorizationOf[r]] # "ACTIVE"
    BY DEF StepKept, Causes
  <2> QED BY <1>1, <2>3, <2>4, <2>5 DEF MoneyHasMoved

\* A row becomes active only by its insertion, while its mandate has no other.
<1>2. ASSUME NEW r \in Release, Active(r)', ~Active(r)
      PROVE  state[r] = "ABSENT" /\ state'[r] = "DRAFT" /\ ~OtherActive(r)
  <2>1. \A t \in DOMAIN To : From[t] \cap (Terminal \cup {"ABSENT"}) = {}
    BY DEF To, From, Terminal
  <2> QED BY <1>2, <2>1 DEF StepKept, MovesDeclared, Active, Terminal

\* A payment is captured only for an active release.
<1>3. ASSUME NEW r \in Release, payment'[r] = "captured", payment[r] # "captured"
      PROVE  Active(r) /\ state[r] \in AfterCapture
  <2>1. PICK p \in wire : gate[p] = "CAPTURE" /\ on[p] = r
    BY <1>3 DEF StepKept, PaymentKept
  <2>2. p \in Request /\ Holds(p)
    BY <2>1 DEF ProviderTypeOK, MoneyInv, ProviderInv, Holds
  <2>3. state[r] \in AfterCapture /\ state[r] # "CAPTURE_REJECTED"
    BY <2>1, <2>2 DEF CallInv, PastItsCalls, RecordInv, CaptureIsOver, NoCallLeft
  <2>4. state[r] \notin MoneyHasMoved
    BY <1>3 DEF MoneyInv, ChargeInv
  <2> QED BY <2>3, <2>4 DEF Active, AfterCapture, MoneyHasMoved, Terminal
<1>5. VerdictsKept
  <2>1. Placed
    BY DEF CallInv, Placed
  <2> QED BY <2>1, Verdicts
<1>6. ASSUME NEW p \in Request, Started(p)' PROVE state'[on'[p]] # "ABSENT"
  <2>1. \A t \in DOMAIN To : To[t] # "ABSENT"
    BY DEF To
  <2>2. Started(p) => on[p] \in Release /\ state[on[p]] # "ABSENT"
    BY DEF CallInv, Started, MandateInv
  <2>3. Started(p) => state'[on[p]] # "ABSENT"
    BY <2>1, <2>2 DEF StepKept, MovesDeclared
  <2> QED BY <1>5, <1>6, <2>3 DEF VerdictsKept
<1>4. ASSUME NEW q \in Release, NEW r \in Release, payment'[q] = "captured",
             AuthorizationOf[q] = AuthorizationOf[r], q # r
      PROVE  payment'[r] # "captured" /\ (Active(r)' => Hopeless(r)')
  <2>1. CASE payment[q] = "captured"
    <3>1. payment[r] # "captured" /\ (Active(r) => Hopeless(r))
      BY <1>4, <2>1 DEF MandateInv
    <3>2. payment'[r] # "captured"
      BY <1>3, <3>1 DEF Hopeless, AfterCapture
    <3>3. Active(r) /\ Active(r)' => Hopeless(r)'
      BY <1>5, <3>1, HopelessKept
    <3>4. ASSUME ~Active(r), Active(r)' PROVE Hopeless(r)'
      <4>1. state[r] = "ABSENT" /\ state'[r] = "DRAFT" /\ ~Active(q)
        BY <1>2, <1>4, <3>4 DEF OtherActive
      <4>2. state[q] = "SETTLED"
        BY <2>1, <4>1 DEF RecordInv, Unended, Active, Terminal
      <4>3. authorization'[AuthorizationOf[r]] # "ACTIVE"
        <5>1. AuthorizationOf[r] \in Authorization
          BY StoreAssumption
        <5> QED BY <1>4, <4>2, <5>1, SpentStaysSpent DEF MandateInv, MoneyHasMoved
      <4>4. ~orderId'[r]
        BY <4>1 DEF StepKept, RowKept, MoneyInv, RowInv, BeforeOrder
      <4>5. ~\E p \in Request : Allowed(p, r)'
        BY <1>5, <4>1 DEF VerdictsKept, Allowed, Started, MandateInv
      <4> QED BY <4>1, <4>3, <4>4, <4>5 DEF Hopeless
    <3> QED BY <3>2, <3>3, <3>4
  <2>2. CASE payment[q] # "captured"
    <3>1. Active(q) /\ state[q] \in AfterCapture
      BY <1>3, <1>4, <2>2
    <3>2. ~Active(r)
      BY <1>4, <3>1 DEF OneActiveRelease
    <3>3. ~Active(r)'
      BY <1>2, <1>4, <3>1, <3>2 DEF OtherActive
    <3>4. payment[r] # "captured"
      BY <1>4, <3>1 DEF MandateInv, Hopeless, AfterCapture
    <3>5. payment'[r] # "captured"
      BY <1>3, <3>2, <3>4
    <3> QED BY <3>3, <3>5
  <2> QED BY <2>1, <2>2
<1> QED BY <1>1, <1>4, <1>6 DEF MandateInv

\* No mix of racing requests, approvals and webhooks charges a mandate twice:
\* while its release is being charged the slot is taken, and when that release
\* has settled the mandate is spent. Without sweeps, which spend it later.
THEOREM MandateChargedOnce ==
  ASSUME Worker = {}
  PROVE  Spec => []OneChargePerMandate
<1>1. Init => MandateInv
  BY DEF Init, StoreInit, ProviderInit, ServiceInit, MandateInv, MoneyHasMoved, Started
<1>2. TypeOK /\ CallInv /\ MoneyInv /\ RecordInv /\ OneActiveRelease /\ MandateInv /\ [Next]_vars
      => MandateInv'
  BY MandateInvKept
<1>3. PatientSweeps
  BY DEF PatientSweeps
<1>4. MandateInv => OneChargePerMandate
  BY DEF MandateInv, OneChargePerMandate
<1> QED BY <1>1, <1>2, <1>3, <1>4, TypeCorrect, CallInvariant, MoneyInvariant, RecordInvariant,
           OneActive, PTL DEF Spec

-----------------------------------------------------------------------------
(* Orders that exist are not disowned *)

\* A webhook is claimed only for an event the provider emitted.
HooksKept ==
  \A r \in Release :
    inbox'[r]["failed"] = "CLAIMED" => inbox[r]["failed"] = "CLAIMED" \/ payment[r] = "failed"

LEMMA Hooks ==
  ASSUME TypeOK, [Next]_vars
  PROVE  HooksKept
<1> WebhookTypeOK
  BY DEF TypeOK
<1>1. CASE UNCHANGED inbox
  BY <1>1 DEF HooksKept
<1>2. ASSUME NEW r \in Release, NEW e \in Event, Close(r, e) PROVE HooksKept
  BY <1>2 DEF Close, HooksKept, WebhookTypeOK
<1>3. ASSUME NEW r \in Release, NEW e \in Event, ReceiveEvent(r, e) PROVE HooksKept
  <2>1. CASE e # "failed"
    <3>1. CASE inbox' = [inbox EXCEPT ![r][e] = "CLAIMED"]
      <4>1. \A x \in Release : inbox'[x]["failed"] = inbox[x]["failed"]
        BY <2>1, <3>1 DEF WebhookTypeOK, Event
      <4> QED BY <4>1 DEF HooksKept
    <3> QED BY <1>2, <1>3, <3>1 DEF ReceiveEvent
  <2>2. CASE e = "failed"
    <3>1. payment[r] = "failed"
      BY <1>3, <2>2 DEF ReceiveEvent, Emitted
    <3> QED BY <1>2, <1>3, <2>2, <3>1 DEF ReceiveEvent, HooksKept, WebhookTypeOK
  <2> QED BY <2>1, <2>2
<1>4. \A r \in Release, e \in Event : ApplyEvent(r, e) \/ CrashEvent(r, e) => Close(r, e)
  BY DEF ApplyEvent, CrashEvent
<1> QED BY <1>1, <1>2, <1>3, <1>4 DEF Next, RequestStep, ProviderStep, WorkerStep, EventStep,
          ReviewStep, ResolveReview, ApplyResolution, CrashReview, RevokeStep, Tick, vars, hookVars

LEMMA OrderInvKept ==
  ASSUME TypeOK, CallInv, MoneyInv, TimingInv, OrderInv, [Next]_vars, CallInv', MoneyInv'
  PROVE  OrderInv'
<1> StoreTypeOK /\ ProviderTypeOK /\ ServiceTypeOK /\ GrantTtl \in Nat
  BY StoreAssumption DEF TypeOK
<1> Placed /\ Placed' /\ ProviderInv'
  BY DEF CallInv, Placed, MoneyInv
<1> StepKept
  BY Steps
<1>1. ASSUME NEW r \in Release, order'[r] # "NONE" PROVE (Calls(r, "ORDER_CREATION") \ wire)' # {}
  <2>1. PICK p \in called : on[p] = r /\ gate[p] = "ORDER_CREATION" /\ p \notin wire'
    <3>1. CASE order[r] # "NONE"
      BY <3>1 DEF OrderInv, Calls, StepKept, CallsStay
    <3>2. CASE order[r] = "NONE"
      BY <1>1, <3>2 DEF StepKept, OrderKept, MoneyInv, ProviderInv, ProviderTypeOK
    <3> QED BY <3>1, <3>2
  <2>2. p \in called' /\ on'[p] = r /\ gate'[p] = "ORDER_CREATION"
    BY <2>1 DEF StepKept, CallsStay
  <2> QED BY <2>1, <2>2 DEF Calls
<1>2. ASSUME NEW r \in Release, order'[r] = "UNINDEXED", state'[r] \in InFlight("ORDER_CREATION")
      PROVE  age'[r] <= GrantTtl
  <2>1. ~Tick
    BY <1>2 DEF Tick, providerVars
  <2>2. age'[r] \in {0, age[r]} /\ age[r] \in Nat
    <3>1. state'[r] \in Indeterminate
      BY <1>2 DEF InFlight, Indeterminate
    <3> QED BY <2>1, <3>1, Aging DEF Ages, StoreTypeOK
  <2>3. ASSUME NEW p \in Request, Holds(p), gate[p] = "ORDER_CREATION", on[p] = r
        PROVE  state[r] \in InFlight("ORDER_CREATION")
    BY <1>2, <2>3, StaysInFlight DEF StepKept, Gate
  <2>4. CASE order[r] = "UNINDEXED"
    <3>1. PICK p \in called : gate[p] = "ORDER_CREATION" /\ on[p] = r
      BY <2>4 DEF OrderInv, Calls
    <3>2. age[r] <= GrantTtl
      BY <2>3, <2>4, <3>1 DEF OrderInv, Holds, ProviderTypeOK
    <3> QED BY <2>2, <3>2
  <2>5. CASE order[r] # "UNINDEXED"
    <3>1. PICK p \in wire : gate[p] = "ORDER_CREATION" /\ on[p] = r
      BY <1>2, <2>5 DEF StepKept, OrderKept
    <3>2. p \in Request /\ Holds(p)
      BY <3>1 DEF ProviderTypeOK, MoneyInv, ProviderInv, Holds
    <3>3. age[r] <= GrantTtl
      BY <2>3, <3>1, <3>2 DEF TimingInv
    <3> QED BY <2>2, <3>3
  <2> QED BY <2>4, <2>5
<1>3. ASSUME NEW p \in Request, gate'[p] = "ORDER_CREATION", reply'[p] = "REJECTED"
      PROVE  order'[on'[p]] = "NONE"
  <2>1. p \in called' /\ p \notin wire' /\ on'[p] \in Release
    BY <1>3 DEF ProviderInv, Placed
  <2>2. gate[p] = "ORDER_CREATION" /\ on'[p] = on[p]
    BY <1>3, <2>1 DEF StepKept, HoldersKept, Holds
  <2>3. CASE reply[p] = "REJECTED"
    <3>1. order[on[p]] = "NONE" /\ Holds(p) /\ p \notin wire
      BY <2>2, <2>3 DEF OrderInv, MoneyInv, ProviderInv, Holds
    <3>2. \A q \in wire : gate[q] = "ORDER_CREATION" /\ on[q] = on[p] => q = p
      BY <2>2, <3>1 DEF ProviderTypeOK, MoneyInv, ProviderInv, Holds, CallInv, OneHolder
    <3> QED BY <2>1, <2>2, <3>1, <3>2 DEF StepKept, OrderKept
  <2>4. CASE reply[p] # "REJECTED"
    <3>1. p \in wire /\ order' = order
      BY <1>3, <2>2, <2>4, Refusals DEF RefusalsKept
    <3>2. \A q \in called : gate[q] = "ORDER_CREATION" /\ on[q] = on[p] => q = p
      BY <2>2, <3>1 DEF ProviderTypeOK, MoneyInv, ProviderInv, Holds, CallInv, OneHolder
    <3>3. order[on[p]] = "NONE"
      BY <2>1, <2>2, <3>1, <3>2 DEF OrderInv, Calls
    <3> QED BY <2>2, <3>1, <3>3
  <2> QED BY <2>3, <2>4
<1>4. ASSUME NEW r \in Release, inbox'[r]["failed"] = "CLAIMED" PROVE payment'[r] = "failed"
  BY <1>4, Hooks DEF HooksKept, OrderInv, StepKept, PaymentKept
<1> QED BY <1>1, <1>2, <1>3, <1>4 DEF OrderInv, InFlight

LEMMA OrderStaysPast ==
  ASSUME CallInv, MovesDeclared, NEW r \in Release, OrderIsPast(r)
  PROVE  OrderIsPast(r)'
<1>1. \A t \in DOMAIN To : To[t] \in BeforeOrder =>
         \/ From[t] \subseteq BeforeOrder
         \/ t = "REVIEW_APPROVED_AT_ORDER_GATE" /\ From[t] = {"PAUSED"}
  BY DEF From, To, BeforeOrder
<1>2. \A t \in DOMAIN To : To[t] = "PAUSED" => From[t] \subseteq {"VERIFYING", "CAPTURE_VERIFYING"}
  BY DEF From, To
<1>3. state'[r] \notin BeforeOrder
  BY <1>1 DEF OrderIsPast, MovesDeclared, BeforeOrder
<1>4. state'[r] = "PAUSED" => orderId'[r]
  BY <1>2 DEF OrderIsPast, MovesDeclared, BeforeOrder, CallInv, OrderIsKnown
<1> QED BY <1>3, <1>4 DEF OrderIsPast

LEMMA OrderStaysOver ==
  ASSUME TypeOK, CallInv, [Next]_vars, StepKept, Placed', ProviderInv',
         NEW r \in Release, OrderIsOver(r)
  PROVE  OrderIsOver(r)'
<1>1. OrderIsPast(r)'
  BY OrderStaysPast DEF OrderIsOver, StepKept
<1>2. \A p \in Request : Commits(p) => ~(gate[p] = "ORDER_CREATION" /\ on[p] = r)
  BY DEF Commits, OrderIsOver, OrderIsPast, BeforeOrder
<1>3. order'[r] = "NONE"
  BY DEF StepKept, OrderKept, OrderIsOver, NoCallLeft, TypeOK, ProviderTypeOK
<1> QED BY <1>1, <1>2, <1>3, NoCallStays DEF OrderIsOver

\* The lookup answers, and its window outlives a grant.
ReliableLookup == ~ReadsMayFail /\ GrantTtl < LookupWindow

LEMMA DisownInvKept ==
  ASSUME TypeOK, CallInv, MoneyInv, TimingInv, OrderInv, DisownInv, ReliableLookup, [Next]_vars,
         CallInv', MoneyInv', OrderInv'
  PROVE  DisownInv'
<1> StoreTypeOK /\ ProviderTypeOK /\ ServiceTypeOK /\ ReconcileTypeOK
  BY DEF TypeOK
<1> Placed /\ Placed' /\ ProviderInv' /\ Remembered'
  BY DEF CallInv, Placed, MoneyInv
<1> StepKept
  BY Steps
<1>1. ASSUME NEW r \in Release, state'[r] = "FAILED", payment'[r] # "failed" PROVE OrderIsOver(r)'
  <2>1. payment[r] # "failed"
    BY <1>1 DEF StepKept, PaymentKept
  <2>2. CASE state[r] = "FAILED"
    BY <2>1, <2>2, OrderStaysOver DEF DisownInv
  <2>3. ASSUME NEW p \in Request, Answered(p, "ORDER_CREATION", r, "REJECTED") PROVE OrderIsOver(r)'
    <3>1. OrderIsPast(r)'
      BY <1>1 DEF OrderIsPast, BeforeOrder
    <3>2. order[r] = "NONE"
      BY <2>3 DEF Answered, OrderInv
    <3>3. order'[r] = "NONE"
      BY <2>3, <3>2, NoCallAfterAnswer DEF StepKept, OrderKept, ProviderTypeOK, MoneyInv, ProviderInv, Holds
    <3> QED BY <2>3, <3>1, <3>3, NoCallAfterAnswer DEF OrderIsOver
  <2>4. ASSUME NEW w \in Worker, Told(w, r, "ORDER_RECONCILED_ABSENT") PROVE OrderIsOver(r)'
    BY <2>4, OrderStaysOver DEF Told, DisownInv
  <2>5. inbox[r]["failed"] # "CLAIMED"
    BY <2>1 DEF OrderInv
  <2> QED BY <1>1, <2>2, <2>3, <2>4, <2>5 DEF StepKept, Causes

\* A row enters the order gate's in-flight states only from before the order.
<1>2. ASSUME NEW r \in Release, OrderIsPast(r)
      PROVE  /\ state'[r] = "ORDER_IN_FLIGHT" => state[r] = "ORDER_IN_FLIGHT"
             /\ state'[r] = "ORDER_INDETERMINATE" =>
                  state[r] \in {"ORDER_IN_FLIGHT", "ORDER_INDETERMINATE"}
  <2>1. \A t \in DOMAIN To :
          /\ To[t] = "ORDER_IN_FLIGHT" => From[t] = {"VERIFIED"}
          /\ To[t] = "ORDER_INDETERMINATE" => From[t] = {"ORDER_IN_FLIGHT"}
    BY DEF From, To
  <2> QED BY <1>2, <2>1 DEF OrderIsPast, BeforeOrder, StepKept, MovesDeclared
<1>3. ASSUME NEW w \in Worker, NEW r \in Release, target'[w] = r,
             job'[w] \in {"asking", "applying"}, seen'[w] \in InFlight("ORDER_CREATION")
      PROVE  OrderIsPast(r)' /\ (seen'[w] = "ORDER_INDETERMINATE" => state'[r] # "ORDER_IN_FLIGHT")
  <2>1. CASE target'[w] = target[w] /\ seen'[w] = seen[w] /\ job[w] \in {"asking", "applying"}
    BY <1>2, <1>3, <2>1, OrderStaysPast DEF DisownInv, StepKept
  <2>2. CASE Picks(w) /\ UNCHANGED <<storeVars, providerVars, requestVars>>
    <3>1. state'[r] = seen'[w]
      BY <1>3, <2>2 DEF Picks, storeVars
    <3> QED BY <1>3, <3>1 DEF InFlight, OrderIsPast, BeforeOrder
  <2> QED BY <1>3, <2>1, <2>2 DEF StepKept, SweepsKept, Learns
<1>4. ASSUME NEW w \in Worker, NEW r \in Release, target'[w] = r,
             job'[w] = "applying", answer'[w] = "ORDER_RECONCILED_ABSENT", state'[r] = seen'[w]
      PROVE  OrderIsOver(r)'
  <2>1. seen'[w] \in InFlight("ORDER_CREATION")
    BY <1>4 DEF Remembered, From, InFlight
  <2>2. target[w] = r /\ seen[w] = seen'[w] /\ job[w] \in {"asking", "applying"}
    BY <1>4 DEF StepKept, SweepsKept, Picks, Learns
  <2>3. OrderIsPast(r) /\ (seen[w] = "ORDER_INDETERMINATE" => state[r] # "ORDER_IN_FLIGHT")
    BY <2>1, <2>2 DEF DisownInv
  <2>4. state[r] = seen[w]
    BY <1>2, <1>4, <2>1, <2>2, <2>3 DEF InFlight
  <2>5. CASE job[w] = "applying" /\ answer[w] = "ORDER_RECONCILED_ABSENT"
    BY <2>2, <2>4, <2>5, OrderStaysOver DEF DisownInv
  <2>6. CASE Learns(w)
    <3>1. order[r] # "INDEXED" /\ age[r] >= LookupWindow
      BY <1>4, <2>2, <2>6 DEF Learns, ReliableLookup
    <3>2. age[r] > GrantTtl
      BY <3>1, StoreAssumption DEF ReliableLookup, StoreTypeOK
    <3>3. order[r] = "NONE"
      BY <2>1, <2>2, <2>4, <3>1, <3>2, StoreAssumption DEF OrderInv, StoreTypeOK, ProviderTypeOK
    <3>4. NoCallLeft(r, "ORDER_CREATION")
      BY <2>1, <2>2, <2>4, <3>2, OldCall DEF Gate
    <3> QED BY <2>3, <3>3, <3>4, OrderStaysOver DEF OrderIsOver
  <2> QED BY <1>4, <2>5, <2>6 DEF StepKept, SweepsKept, Picks
<1>5. \A w \in Worker : job'[w] # "idle" => target'[w] \in Release
  BY DEF MoneyInv, Aimed
<1> QED BY <1>1, <1>3, <1>4, <1>5 DEF DisownInv, InFlight

LEMMA OrderInvariant == Spec => []OrderInv
<1>1. Init => OrderInv
  BY DEF Init, StoreInit, ProviderInit, ServiceInit, WebhookInit, OrderInv, Event, EventTrigger
<1>2. TypeOK /\ CallInv /\ MoneyInv /\ TimingInv /\ OrderInv /\ [Next]_vars => OrderInv'
  BY OrderInvKept, CallInvKept, MoneyInvKept
<1> QED BY <1>1, <1>2, TypeCorrect, CallInvariant, MoneyInvariant, TimingInvariant, PTL DEF Spec

\* Reconciliation does not conclude FAILED about an order that exists or is
\* about to, however early anybody asks, when the lookup answers and its
\* consistency window outlives a grant.
THEOREM OrdersAreNotDisowned ==
  ASSUME ~ReadsMayFail, GrantTtl < LookupWindow
  PROVE  Spec => []OrderIsNotDisowned
<1>1. Init => DisownInv
  BY DEF Init, StoreInit, ReconcileInit, DisownInv
<1>2. ReliableLookup
  BY DEF ReliableLookup
<1>3. TypeOK /\ CallInv /\ MoneyInv /\ TimingInv /\ OrderInv /\ DisownInv /\ [Next]_vars => DisownInv'
  BY <1>2, DisownInvKept, CallInvKept, MoneyInvKept, OrderInvKept
<1>4. TypeOK /\ CallInv /\ MoneyInv /\ DisownInv => OrderIsNotDisowned
  <2> SUFFICES ASSUME TypeOK, CallInv, MoneyInv, DisownInv,
                      NEW r \in Release, state[r] = "FAILED", payment[r] # "failed"
               PROVE  order[r] = "NONE" /\ \A p \in wire : on[p] # r
    BY DEF OrderIsNotDisowned
  <2>1. order[r] = "NONE" /\ NoCallLeft(r, "ORDER_CREATION")
    BY DEF DisownInv, OrderIsOver
  <2>2. ASSUME NEW p \in wire, on[p] = r PROVE FALSE
    <3>1. p \in Request /\ Holds(p) /\ gate[p] \in Gate
      BY DEF TypeOK, ProviderTypeOK, ServiceTypeOK, MoneyInv, ProviderInv, Holds
    <3>2. gate[p] = "CAPTURE"
      BY <2>1, <2>2, <3>1 DEF NoCallLeft, Gate
    <3> QED BY <2>2, <3>1, <3>2 DEF CallInv, PastItsCalls, AfterCapture
  <2> QED BY <2>1, <2>2
<1> QED BY <1>1, <1>3, <1>4, TypeCorrect, CallInvariant, MoneyInvariant, TimingInvariant,
           OrderInvariant, PTL DEF Spec
=============================================================================
