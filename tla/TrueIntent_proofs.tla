------------------------- MODULE TrueIntent_proofs -------------------------
(***************************************************************************)
(* What holds of TrueIntent for every number of releases, mandates,        *)
(* requests and workers, and every setting of the windows.                 *)
(***************************************************************************)
EXTENDS TrueIntent, TLAPS

-----------------------------------------------------------------------------
(* The transition table *)

LEMMA ToState == \A t \in DOMAIN To : To[t] \in ReleaseState
  BY DEF To, ReleaseState, Terminal, Indeterminate, Transient

LEMMA Triggers ==
  {"RELEASE_REQUESTED", "VERIFICATION_PAUSED", "VERIFICATION_DENIED", "ORDER_CALL_STARTED",
   "CAPTURE_REQUESTED", "CAPTURE_CALL_STARTED", "REVIEW_APPROVED",
   "REVIEW_APPROVED_AT_ORDER_GATE", "REVIEW_REJECTED", "ABORT"}
  \cup ReconcileTrigger \cup {EventTrigger[e] : e \in Event}
  \cup {Outcome[g][o] : g \in Gate, o \in {"DONE", "REJECTED", "INDETERMINATE"}}
  \subseteq DOMAIN To
  BY DEF To, ReconcileTrigger, EventTrigger, Event, Outcome, Gate

-----------------------------------------------------------------------------
(* What the helpers of ReleaseStore and ReleaseService keep *)

LEMMA Clock == Horizon \in Nat /\ 0 \in 0 .. Horizon
  BY StoreAssumption

LEMMA MoveToType ==
  ASSUME StoreTypeOK, NEW r, NEW to \in ReleaseState, MoveTo(r, to)
  PROVE  /\ state' \in [Release -> ReleaseState \cup {"ABSENT"}]
         /\ age' \in [Release -> 0 .. Horizon]
<1>1. state' \in [Release -> ReleaseState \cup {"ABSENT"}]
  BY DEF StoreTypeOK, MoveTo
<1>2. age' \in [Release -> 0 .. Horizon]
  BY Clock DEF StoreTypeOK, MoveTo
<1> QED BY <1>1, <1>2

LEMMA MoveAsOfType ==
  ASSUME StoreTypeOK, NEW r, NEW to \in ReleaseState, NEW passed \in 0 .. Horizon,
         MoveAsOf(r, to, passed)
  PROVE  /\ state' \in [Release -> ReleaseState \cup {"ABSENT"}]
         /\ age' \in [Release -> 0 .. Horizon]
<1>1. state' \in [Release -> ReleaseState \cup {"ABSENT"}]
  BY DEF StoreTypeOK, MoveAsOf
<1>2. age' \in [Release -> 0 .. Horizon]
  BY DEF StoreTypeOK, MoveAsOf
<1> QED BY <1>1, <1>2

LEMMA TouchType ==
  ASSUME StoreTypeOK, NEW r, NEW passed \in 0 .. Horizon, Touch(r, passed)
  PROVE  age' \in [Release -> 0 .. Horizon]
  BY DEF StoreTypeOK, Touch

LEMMA CountAttemptType ==
  ASSUME StoreTypeOK, NEW r, CountAttempt(r)
  PROVE  attempts' \in [Release -> 0 .. MaxAttempts + 1]
<1>1. CASE r \in Release
  BY <1>1, StoreAssumption DEF StoreTypeOK, CountAttempt
<1>2. CASE r \notin Release
  BY <1>2, StoreAssumption DEF StoreTypeOK, CountAttempt
<1> QED BY <1>1, <1>2

LEMMA RecordType ==
  ASSUME StoreTypeOK, NEW r, NEW kind \in EvidenceKind, Record(r, kind)
  PROVE  evidence' \in [Release -> SUBSET EvidenceKind]
  BY DEF StoreTypeOK, Record

LEMMA LeaveActiveType ==
  ASSUME StoreTypeOK, NEW a, NEW to \in {"CONSUMED", "REVOKED"}, LeaveActive(a, to)
  PROVE  authorization' \in [Authorization -> {"ACTIVE", "CONSUMED", "REVOKED"}]
  BY DEF StoreTypeOK, LeaveActive

LEMMA FinishType ==
  ASSUME ServiceTypeOK, NEW p \in Request, Finish(p), UNCHANGED <<gate, on>>
  PROVE  ServiceTypeOK'
  BY Clock DEF ServiceTypeOK, Finish, Goto, Where

-----------------------------------------------------------------------------
(* Type correctness: one lemma per kind of step *)

RequestTypes == StoreTypeOK /\ ProviderTypeOK /\ ServiceTypeOK

LEMMA StartOrderType ==
  ASSUME RequestTypes, NEW p \in Request, NEW r \in Release, StartOrder(p, r)
  PROVE  RequestTypes'
<1> USE DEF RequestTypes
<1>1. StoreTypeOK'
  <2>1. CASE StartNewOrder(p, r)
    <3>1. state' \in [Release -> ReleaseState \cup {"ABSENT"}] /\ age' \in [Release -> 0 .. Horizon]
      BY <2>1, MoveToType DEF StartNewOrder, MandateRefused, ReleaseState, Transient, StoreTypeOK
    <3> QED BY <3>1 DEF StartOrder, StoreTypeOK, reviewRows
  <2>2. CASE StartStoredOrder(p, r)
    BY <2>2 DEF StartStoredOrder, StartOrder, StoreTypeOK, reviewRows
  <2> QED BY <2>1, <2>2 DEF StartOrder
<1>2. ProviderTypeOK'
  BY DEF StartOrder, ProviderTypeOK, providerVars
<1>3. ServiceTypeOK'
  <2>1. gate' \in [Request -> Gate] /\ on' \in [Request -> Release \cup {"NONE"}]
    BY DEF StartOrder, Address, ServiceTypeOK, Gate
  <2>2. pc' \in [Request -> Where]
    BY DEF StartOrder, StartNewOrder, MandateRefused, StartStoredOrder, Goto, ServiceTypeOK, Where
  <2>3. sameAnswer' \in [Request -> BOOLEAN]
    BY DEF StartOrder, StartNewOrder, MandateRefused, StartStoredOrder, ServiceTypeOK
  <2>4. overLimit' \in [Request -> BOOLEAN]
    <3>1. TooMany(r) \in BOOLEAN
      BY DEF TooMany
    <3> QED BY <3>1 DEF StartOrder, StartNewOrder, MandateRefused, StartStoredOrder, ServiceTypeOK
  <2> QED BY <2>1, <2>2, <2>3, <2>4 DEF StartOrder, ServiceTypeOK
<1> QED BY <1>1, <1>2, <1>3

LEMMA StartCaptureType ==
  ASSUME RequestTypes, NEW p \in Request, NEW r \in Release, StartCapture(p, r)
  PROVE  RequestTypes'
<1> USE DEF RequestTypes
<1>1. StoreTypeOK'
  <2>1. To.CAPTURE_REQUESTED \in ReleaseState
    BY ToState, Triggers
  <2>2. state' \in [Release -> ReleaseState \cup {"ABSENT"}] /\ age' \in [Release -> 0 .. Horizon]
    BY <2>1, MoveToType DEF StartCapture, StoreTypeOK
  <2>3. attempts' \in [Release -> 0 .. MaxAttempts + 1]
    BY CountAttemptType DEF StartCapture, StoreTypeOK
  <2> QED BY <2>2, <2>3 DEF StartCapture, StoreTypeOK, reviewRows
<1>2. ProviderTypeOK'
  BY DEF StartCapture, ProviderTypeOK, providerVars
<1>3. ServiceTypeOK'
  <2>1. gate' \in [Request -> Gate] /\ on' \in [Request -> Release \cup {"NONE"}]
    BY DEF StartCapture, Address, ServiceTypeOK, Gate
  <2>2. pc' \in [Request -> Where]
    BY DEF StartCapture, Goto, ServiceTypeOK, Where
  <2>3. overLimit' \in [Request -> BOOLEAN]
    <3>1. (attempts'[r] > MaxAttempts) \in BOOLEAN
      OBVIOUS
    <3> QED BY <3>1, Zenon DEF StartCapture, ServiceTypeOK
  <2> QED BY <2>1, <2>2, <2>3 DEF StartCapture, ServiceTypeOK
<1> QED BY <1>1, <1>2, <1>3

LEMMA ProceedType ==
  ASSUME RequestTypes, NEW p \in Request, Proceed(p) \/ CrashRequest(p)
  PROVE  RequestTypes'
<1> USE DEF RequestTypes
<1>1. CASE BeginVerification(p)
  <2>1. To.RELEASE_REQUESTED \in ReleaseState
    BY ToState, Triggers
  <2>2. state' \in [Release -> ReleaseState \cup {"ABSENT"}] /\ age' \in [Release -> 0 .. Horizon]
    <3>1. elapsed[p] \in 0 .. Horizon
      BY DEF ServiceTypeOK
    <3> QED BY <1>1, <2>1, <3>1, MoveAsOfType DEF BeginVerification, StoreTypeOK
  <2>3. attempts' \in [Release -> 0 .. MaxAttempts + 1]
    BY <1>1, CountAttemptType DEF BeginVerification, StoreTypeOK
  <2>4. StoreTypeOK' /\ ProviderTypeOK'
    BY <1>1, <2>2, <2>3 DEF BeginVerification, StoreTypeOK, reviewRows, ProviderTypeOK, providerVars
  <2>5. pc' \in [Request -> Where] /\ overLimit' \in [Request -> BOOLEAN]
    BY <1>1 DEF BeginVerification, Goto, ServiceTypeOK, Where
  <2> QED BY <1>1, <2>4, <2>5 DEF BeginVerification, ServiceTypeOK
<1>2. CASE Evaluate(p)
  <2>1. StoreTypeOK' /\ ProviderTypeOK'
    BY <1>2 DEF Evaluate, StoreTypeOK, storeVars, ProviderTypeOK, providerVars
  <2>2. pc' \in [Request -> Where]
    BY <1>2 DEF Evaluate, Goto, ServiceTypeOK, Where
  <2>3. verdict' \in [Request -> {"ALLOW", "PAUSE", "DENY"}] /\ found' \in [Request -> SUBSET PauseCode]
    BY <1>2 DEF Evaluate, Verdict, ServiceTypeOK, PauseCode
  <2>4. sameAnswer' \in [Request -> BOOLEAN] /\ overLimit' \in [Request -> BOOLEAN]
    BY <1>2 DEF Evaluate, ServiceTypeOK
  <2> QED BY <1>2, <2>1, <2>2, <2>3, <2>4 DEF Evaluate, ServiceTypeOK
<1>3. CASE Refuse(p)
  <2> DEFINE trigger == IF verdict[p] = "PAUSE" THEN "VERIFICATION_PAUSED" ELSE "VERIFICATION_DENIED"
  <2>1. To[trigger] \in ReleaseState
    BY ToState, Triggers
  <2> UNCHANGED <<gate, on, orderId, paymentId, attempts, approved, authorization, evidence,
                 providerVars>>
    BY <1>3 DEF Refuse
  <2>2. ASSUME state[on[p]] \in From[trigger] PROVE StoreTypeOK'
    <3>1. state' \in [Release -> ReleaseState \cup {"ABSENT"}] /\ age' \in [Release -> 0 .. Horizon]
      BY <1>3, <2>1, <2>2, MoveToType DEF Refuse
    <3>2. [gate |-> gate[p], codes |-> found[p]] \in Review
      BY DEF ServiceTypeOK, Review
    <3>3. openReview' \in [Release -> Review \cup {NoReview}]
      BY <1>3, <2>2, <3>2 DEF Refuse, StoreTypeOK
    <3> QED BY <3>1, <3>3 DEF StoreTypeOK
  <2>3. ASSUME state[on[p]] \notin From[trigger] PROVE StoreTypeOK'
    <3>1. age' \in [Release -> 0 .. Horizon]
      BY <1>3, <2>3, TouchType DEF Refuse, ServiceTypeOK
    <3>2. UNCHANGED <<state, openReview>>
      BY <1>3, <2>3 DEF Refuse
    <3> QED BY <3>1, <3>2 DEF StoreTypeOK
  <2>4. StoreTypeOK'
    BY <2>2, <2>3
  <2>5. ServiceTypeOK' /\ ProviderTypeOK'
    BY <1>3, FinishType DEF Refuse, ProviderTypeOK, providerVars
  <2> QED BY <2>4, <2>5
<1>4. CASE LostCapture(p)
  <2>1. age' \in [Release -> 0 .. Horizon]
    BY <1>4, TouchType DEF LostCapture, ServiceTypeOK
  <2>2. evidence' \in [Release -> SUBSET EvidenceKind]
    BY <1>4, RecordType DEF LostCapture, StoreTypeOK, EvidenceKind, Gate
  <2>3. StoreTypeOK'
    BY <1>4, <2>1, <2>2 DEF LostCapture, StoreTypeOK, reviewRows
  <2>4. ServiceTypeOK' /\ ProviderTypeOK'
    BY <1>4, FinishType DEF LostCapture, ProviderTypeOK, providerVars
  <2> QED BY <2>3, <2>4
<1>5. ASSUME NEW allowed, NEW started \in {"ORDER_CALL_STARTED", "CAPTURE_CALL_STARTED"},
             Commit(p, allowed, started)
      PROVE  RequestTypes'
  <2>1. To[started] \in ReleaseState
    BY ToState, Triggers
  <2>2. state' \in [Release -> ReleaseState \cup {"ABSENT"}] /\ age' \in [Release -> 0 .. Horizon]
    BY <1>5, <2>1, MoveToType DEF Commit, StoreTypeOK
  <2>3. evidence' \in [Release -> SUBSET EvidenceKind]
    BY <1>5, RecordType DEF Commit, EvidenceKind, ServiceTypeOK
  <2>4. StoreTypeOK' /\ ProviderTypeOK'
    BY <1>5, <2>2, <2>3 DEF Commit, StoreTypeOK, reviewRows, ProviderTypeOK, providerVars
  <2>5. ServiceTypeOK'
    <3>1. CASE Finish(p)
      BY <1>5, <3>1, FinishType DEF Commit
    <3>2. CASE Goto(p, "prepared") /\ UNCHANGED locals
      BY <1>5, <3>2 DEF Commit, Goto, locals, ServiceTypeOK, Where
    <3> QED BY <1>5, <3>1, <3>2 DEF Commit
  <2> QED BY <2>4, <2>5
<1>6. CASE CommitOrder(p) \/ CommitCapture(p)
  BY <1>5, <1>6 DEF CommitOrder, CommitCapture
<1>7. CASE Call(p)
  <2>1. StoreTypeOK' /\ ProviderTypeOK'
    BY <1>7 DEF Call, StoreTypeOK, storeVars, ProviderTypeOK
  <2>2. ServiceTypeOK'
    <3>1. CASE Finish(p)
      BY <1>7, <3>1, FinishType DEF Call
    <3>2. CASE Goto(p, "awaiting") /\ UNCHANGED locals
      BY <1>7, <3>2 DEF Call, Goto, locals, ServiceTypeOK, Where
    <3> QED BY <1>7, <3>1, <3>2 DEF Call
  <2> QED BY <2>1, <2>2
<1>8. CASE RecordOutcome(p)
  <2> DEFINE trigger == Outcome[gate[p]][reply[p]]
  <2>1. gate[p] \in Gate /\ reply[p] \in {"DONE", "REJECTED", "INDETERMINATE"}
    BY <1>8 DEF RecordOutcome, ServiceTypeOK, ProviderTypeOK
  <2>2. To[trigger] \in ReleaseState
    BY <2>1, ToState, Triggers
  <2>3. state' \in [Release -> ReleaseState \cup {"ABSENT"}] /\ age' \in [Release -> 0 .. Horizon]
    BY <1>8, <2>2, MoveToType DEF RecordOutcome, StoreTypeOK
  <2>4. orderId' \in [Release -> BOOLEAN]
    BY <1>8 DEF RecordOutcome, StoreTypeOK
  <2>5. authorization' \in [Authorization -> {"ACTIVE", "CONSUMED", "REVOKED"}]
    BY <1>8, LeaveActiveType DEF RecordOutcome, StoreTypeOK
  <2>6. StoreTypeOK'
    BY <1>8, <2>3, <2>4, <2>5 DEF RecordOutcome, StoreTypeOK, reviewRows
  <2>7. ServiceTypeOK' /\ ProviderTypeOK'
    BY <1>8, FinishType DEF RecordOutcome, ProviderTypeOK
  <2> QED BY <2>6, <2>7
<1>9. CASE CrashRequest(p)
  BY <1>9, FinishType DEF CrashRequest, StoreTypeOK, storeVars, ProviderTypeOK
<1> QED BY <1>1, <1>2, <1>3, <1>4, <1>6, <1>7, <1>8, <1>9 DEF Proceed

LEMMA ProviderType ==
  ASSUME TypeOK, ProviderStep
  PROVE  TypeOK'
<1>1. ProviderTypeOK'
  <2>1. ASSUME NEW p \in Request, ApplyOrder(p) \/ ApplyCapture(p) \/ LoseCall(p) \/ TimeOut(p)
        PROVE  ProviderTypeOK'
    BY <2>1 DEF TypeOK, ProviderTypeOK, ApplyOrder, ApplyCapture, LoseCall, TimeOut, Answer
  <2>2. ASSUME NEW r \in Release, IndexOrder(r) \/ Pay(r)
        PROVE  ProviderTypeOK'
    BY <2>2 DEF TypeOK, ProviderTypeOK, IndexOrder, Pay
  <2> QED BY <2>1, <2>2 DEF ProviderStep
<1>2. StoreTypeOK' /\ ServiceTypeOK'
  BY DEF ProviderStep, TypeOK, StoreTypeOK, storeVars, ServiceTypeOK, requestVars, locals
<1>3. ReconcileTypeOK' /\ WebhookTypeOK' /\ ReviewTypeOK'
  BY DEF ProviderStep, TypeOK, ReconcileTypeOK, workerVars, WebhookTypeOK, hookVars, ReviewTypeOK
<1> QED BY <1>1, <1>2, <1>3 DEF TypeOK

LEMMA RequestType ==
  ASSUME TypeOK, NEW p \in Request, RequestStep(p)
  PROVE  TypeOK'
<1>1. RequestTypes'
  BY StartOrderType, StartCaptureType, ProceedType DEF RequestStep, TypeOK, RequestTypes
<1>2. ReconcileTypeOK' /\ WebhookTypeOK' /\ ReviewTypeOK'
  BY DEF RequestStep, TypeOK, ReconcileTypeOK, workerVars, WebhookTypeOK, hookVars, ReviewTypeOK
<1> QED BY <1>1, <1>2 DEF TypeOK, RequestTypes

LEMMA LeaveType ==
  ASSUME ReconcileTypeOK, NEW w \in Worker, Leave(w)
  PROVE  ReconcileTypeOK'
  BY DEF ReconcileTypeOK, Leave

LEMMA WorkerType ==
  ASSUME TypeOK, NEW w \in Worker, WorkerStep(w)
  PROVE  TypeOK'
<1> USE DEF TypeOK
<1>1. WebhookTypeOK' /\ ReviewTypeOK'
  BY DEF WorkerStep, WebhookTypeOK, hookVars, ReviewTypeOK
<1>2. ProviderTypeOK' /\ ServiceTypeOK'
  <2>1. UNCHANGED <<providerVars, requestVars>>
    BY DEF WorkerStep, PickStuck, PickById, PickAbandoned, Pick, Work, AskForOrder, AskForPayment,
           Apply, Spend, Abandon, CrashWorker
  <2> QED BY <2>1 DEF ProviderTypeOK, providerVars, ServiceTypeOK, requestVars, locals
<1>3. ASSUME UNCHANGED storeVars PROVE StoreTypeOK'
  BY <1>3 DEF StoreTypeOK, storeVars
<1>4. ASSUME NEW r \in Release, PickStuck(w, r) \/ PickById(w, r) \/ PickAbandoned(w, r)
      PROVE  StoreTypeOK' /\ ReconcileTypeOK'
  <2>1. state[r] \in ReleaseState
    BY <1>4 DEF PickStuck, PickById, PickAbandoned, ReleaseState
  <2>2. StoreTypeOK'
    BY <1>3, <1>4 DEF PickStuck, PickById, PickAbandoned, Pick
  <2>3. ReconcileTypeOK'
    BY <1>4, <2>1 DEF PickStuck, PickById, PickAbandoned, Pick, ReconcileTypeOK
  <2> QED BY <2>2, <2>3
<1>5. CASE AskForOrder(w) \/ AskForPayment(w)
  <2>1. StoreTypeOK'
    BY <1>3, <1>5 DEF AskForOrder, AskForPayment
  <2>2. ASSUME NEW trigger \in ReconcileTrigger, Learn(w, trigger)
        PROVE  ReconcileTypeOK'
    <3>1. "NONE" \notin ReconcileTrigger
      BY DEF ReconcileTrigger
    <3> QED BY <2>2, <3>1 DEF Learn, ReconcileTypeOK
  <2>3. ReconcileTypeOK'
    BY <1>5, <2>2, LeaveType DEF AskForOrder, AskForPayment, ReconcileTrigger
  <2> QED BY <1>1, <1>2, <2>1, <2>3
<1>6. CASE Apply(w)
  <2>1. answer[w] \in ReconcileTrigger
    BY <1>6 DEF Apply, ReconcileTypeOK
  <2>2. To[answer[w]] \in ReleaseState
    BY <2>1, ToState, Triggers
  <2>3. state' \in [Release -> ReleaseState \cup {"ABSENT"}] /\ age' \in [Release -> 0 .. Horizon]
    BY <1>6, <2>2, MoveToType DEF Apply, StoreTypeOK
  <2>4. orderId' \in [Release -> BOOLEAN]
    BY <1>6 DEF Apply, StoreTypeOK
  <2>5. StoreTypeOK'
    BY <1>6, <2>3, <2>4 DEF Apply, StoreTypeOK, reviewRows
  <2>6. ReconcileTypeOK'
    BY <1>6, LeaveType DEF Apply, ReconcileTypeOK
  <2> QED BY <1>1, <1>2, <2>5, <2>6
<1>7. CASE Spend(w)
  <2>1. authorization' \in [Authorization -> {"ACTIVE", "CONSUMED", "REVOKED"}]
    BY <1>7, LeaveActiveType DEF Spend
  <2>2. StoreTypeOK'
    BY <1>7, <2>1 DEF Spend, StoreTypeOK, releaseRow, reviewRows
  <2> QED BY <1>1, <1>2, <1>7, <2>2, LeaveType DEF Spend
<1>8. CASE Abandon(w)
  <2>1. To.ABORT \in ReleaseState
    BY ToState, Triggers
  <2>2. state' \in [Release -> ReleaseState \cup {"ABSENT"}] /\ age' \in [Release -> 0 .. Horizon]
    BY <1>8, <2>1, MoveToType DEF Abandon, StoreTypeOK
  <2>3. evidence' \in [Release -> SUBSET EvidenceKind]
    BY <1>8, RecordType DEF Abandon, StoreTypeOK, EvidenceKind
  <2>4. StoreTypeOK'
    BY <1>8, <2>2, <2>3 DEF Abandon, StoreTypeOK, reviewRows
  <2> QED BY <1>1, <1>2, <1>8, <2>4, LeaveType DEF Abandon
<1>9. CASE CrashWorker(w)
  BY <1>1, <1>2, <1>3, <1>9, LeaveType DEF CrashWorker
<1> QED BY <1>1, <1>2, <1>4, <1>5, <1>6, <1>7, <1>8, <1>9 DEF WorkerStep, Work

LEMMA EventType ==
  ASSUME TypeOK, NEW r \in Release, NEW e \in Event, EventStep(r, e)
  PROVE  TypeOK'
<1> USE DEF TypeOK
<1>1. UNCHANGED <<attempts, authorization, reviewRows, evidence, providerVars, requestVars,
                  workerVars, resolving>>
  BY DEF EventStep, ReceiveEvent, ApplyEvent, CrashEvent, storeVars, reviewRows
<1>2. ProviderTypeOK' /\ ServiceTypeOK' /\ ReconcileTypeOK' /\ ReviewTypeOK'
  BY <1>1 DEF ProviderTypeOK, providerVars, ServiceTypeOK, requestVars, locals,
              ReconcileTypeOK, workerVars, ReviewTypeOK
<1>3. WebhookTypeOK'
  <2>1. ASSUME Close(r, e) PROVE WebhookTypeOK'
    BY <2>1 DEF Close, WebhookTypeOK
  <2>2. ASSUME state[r] \in From[EventTrigger[e]],
               inbox' = [inbox EXCEPT ![r][e] = "CLAIMED"],
               read' = [read EXCEPT ![r][e] = state[r]]
        PROVE  WebhookTypeOK'
    <3>1. state[r] \in ReleaseState
      BY <2>2, Triggers DEF From, EventTrigger, Event, ReleaseState, Terminal, Indeterminate, Transient
    <3> QED BY <2>2, <3>1 DEF WebhookTypeOK
  <2> QED BY <2>1, <2>2 DEF EventStep, ReceiveEvent, ApplyEvent, CrashEvent, Declares
<1>4. StoreTypeOK'
  <2>1. CASE ApplyEvent(r, e)
    <3>1. To[EventTrigger[e]] \in ReleaseState
      BY ToState, Triggers
    <3>2. state' \in [Release -> ReleaseState \cup {"ABSENT"}] /\ age' \in [Release -> 0 .. Horizon]
      BY <2>1, <3>1, MoveToType DEF ApplyEvent, StoreTypeOK
    <3>3. orderId' \in [Release -> BOOLEAN] /\ paymentId' \in [Release -> BOOLEAN]
      BY <2>1 DEF ApplyEvent, StoreTypeOK
    <3> QED BY <1>1, <3>2, <3>3 DEF StoreTypeOK, reviewRows
  <2>2. CASE UNCHANGED storeVars
    BY <2>2 DEF StoreTypeOK, storeVars
  <2> QED BY <2>1, <2>2 DEF EventStep, ReceiveEvent, CrashEvent
<1> QED BY <1>2, <1>3, <1>4

LEMMA ReviewType ==
  ASSUME TypeOK, NEW r \in Release, ReviewStep(r)
  PROVE  TypeOK'
<1> USE DEF TypeOK
<1>1. UNCHANGED <<orderId, paymentId, attempts, authorization, evidence, providerVars,
                  requestVars, workerVars, hookVars>>
  BY DEF ReviewStep, ResolveReview, ApplyResolution, CrashReview, releaseRow, storeVars
<1>2. ProviderTypeOK' /\ ServiceTypeOK' /\ ReconcileTypeOK' /\ WebhookTypeOK'
  BY <1>1 DEF ProviderTypeOK, providerVars, ServiceTypeOK, requestVars, locals,
              ReconcileTypeOK, workerVars, WebhookTypeOK, hookVars
<1>3. ReviewTypeOK'
  BY DEF ReviewStep, ResolveReview, ApplyResolution, CrashReview, ReviewTypeOK
<1>4. StoreTypeOK'
  <2>1. ASSUME NEW resolution \in {"APPROVED", "REJECTED"}, ResolveReview(r, resolution)
        PROVE  StoreTypeOK'
    <3>1. openReview[r] \in Review
      BY <2>1 DEF ResolveReview, StoreTypeOK
    <3>2. openReview[r].codes \in SUBSET PauseCode /\ openReview[r].gate \in Gate
      BY <3>1 DEF Review
    <3>3. approved' \in [Release -> [Gate -> SUBSET PauseCode]]
      BY <2>1, <3>2 DEF ResolveReview, StoreTypeOK
    <3>4. openReview' \in [Release -> Review \cup {NoReview}]
      BY <2>1 DEF ResolveReview, StoreTypeOK
    <3> QED BY <1>1, <2>1, <3>3, <3>4 DEF ResolveReview, releaseRow, StoreTypeOK
  <2>2. CASE ApplyResolution(r)
    <3>1. To[ReviewTrigger(r)] \in ReleaseState
      BY ToState, Triggers DEF ReviewTrigger
    <3>2. state' \in [Release -> ReleaseState \cup {"ABSENT"}] /\ age' \in [Release -> 0 .. Horizon]
      BY <2>2, <3>1, MoveToType DEF ApplyResolution, StoreTypeOK
    <3> QED BY <1>1, <2>2, <3>2 DEF ApplyResolution, reviewRows, StoreTypeOK
  <2>3. CASE CrashReview(r)
    BY <2>3 DEF CrashReview, storeVars, StoreTypeOK
  <2> QED BY <2>1, <2>2, <2>3 DEF ReviewStep
<1> QED BY <1>2, <1>3, <1>4

LEMMA RevokeType ==
  ASSUME TypeOK, NEW a \in Authorization, RevokeStep(a)
  PROVE  TypeOK'
<1> USE DEF TypeOK
<1>1. authorization' \in [Authorization -> {"ACTIVE", "CONSUMED", "REVOKED"}]
  BY LeaveActiveType DEF RevokeStep, Revoke
<1>2. StoreTypeOK'
  BY <1>1 DEF RevokeStep, Revoke, StoreTypeOK, releaseRow, reviewRows
<1>3. ProviderTypeOK' /\ ServiceTypeOK' /\ ReconcileTypeOK' /\ WebhookTypeOK' /\ ReviewTypeOK'
  BY DEF RevokeStep, ProviderTypeOK, providerVars, ServiceTypeOK, requestVars, locals,
         ReconcileTypeOK, workerVars, WebhookTypeOK, hookVars, ReviewTypeOK
<1> QED BY <1>2, <1>3

LEMMA TickType ==
  ASSUME TypeOK, Tick
  PROVE  TypeOK'
<1> USE DEF TypeOK
<1>1. \A n \in 0 .. Horizon : Older(n) \in 0 .. Horizon
  BY Clock DEF Older
<1>2. StoreTypeOK'
  BY <1>1 DEF Tick, StoreTypeOK, reviewRows
<1>3. ServiceTypeOK'
  BY <1>1 DEF Tick, ServiceTypeOK
<1>4. ProviderTypeOK' /\ ReconcileTypeOK' /\ WebhookTypeOK' /\ ReviewTypeOK'
  BY DEF Tick, ProviderTypeOK, providerVars, ReconcileTypeOK, workerVars, WebhookTypeOK,
         hookVars, ReviewTypeOK
<1> QED BY <1>2, <1>3, <1>4

LEMMA InitType == Init => TypeOK
<1> SUFFICES ASSUME Init PROVE TypeOK
  OBVIOUS
<1>1. StoreTypeOK
  BY StoreAssumption DEF Init, StoreInit, StoreTypeOK, Review, NoReview, ReleaseState
<1>2. ProviderTypeOK /\ ServiceTypeOK
  BY Clock DEF Init, ProviderInit, ProviderTypeOK, ServiceInit, ServiceTypeOK, Where, Gate
<1>3. ReconcileTypeOK /\ WebhookTypeOK /\ ReviewTypeOK
  BY DEF Init, ReconcileInit, ReconcileTypeOK, WebhookInit, WebhookTypeOK, ReviewInit, ReviewTypeOK
<1> QED BY <1>1, <1>2, <1>3 DEF TypeOK

LEMMA StutterType ==
  ASSUME TypeOK, UNCHANGED vars
  PROVE  TypeOK'
BY DEF TypeOK, vars, StoreTypeOK, storeVars, ProviderTypeOK, providerVars, ServiceTypeOK,
       requestVars, locals, ReconcileTypeOK, workerVars, WebhookTypeOK, hookVars, ReviewTypeOK

\* Every variable keeps its type: in particular no transition, sweep or webhook
\* leaves a release in a state outside the table, and a sweep that is about to
\* apply an answer has one.
THEOREM TypeCorrect == Spec => []TypeOK
<1>1. TypeOK /\ [Next]_vars => TypeOK'
  BY RequestType, ProviderType, WorkerType, EventType, ReviewType, RevokeType, TickType,
     StutterType DEF Next
<1> QED BY InitType, <1>1, PTL DEF Spec

-----------------------------------------------------------------------------
(* A handler remembers only states its compare-and-set may start from *)

LEMMA RememberedInit == Init => Remembered
  BY DEF Init, Remembered, ReconcileInit, WebhookInit

LEMMA RememberedKept ==
  ASSUME TypeOK, Remembered, [Next]_vars
  PROVE  Remembered'
<1> DEFINE W(w) == /\ job[w] = "applying" => answer[w] \in ReconcileTrigger /\ seen[w] \in From[answer[w]]
                   /\ job[w] = "aborting" => seen[w] \in Transient
           E(r, e) == inbox[r][e] = "CLAIMED" => Declares(read[r][e], EventTrigger[e])
<1> ReconcileTypeOK /\ WebhookTypeOK /\ StoreTypeOK
  BY DEF TypeOK
<1>1. ASSUME NEW v \in Worker, WorkerStep(v) PROVE \A w \in Worker : W(w)'
  <2>1. \A w \in Worker \ {v} : job'[w] = job[w] /\ seen'[w] = seen[w] /\ answer'[w] = answer[w]
    BY <1>1 DEF WorkerStep, PickStuck, PickById, PickAbandoned, Pick, Work, AskForOrder,
       AskForPayment, Apply, Spend, Abandon, CrashWorker, Learn, Leave, ReconcileTypeOK
  <2>2. \A w \in Worker \ {v} : W(w)'
    BY <2>1 DEF Remembered
  <2>3. CASE job'[v] \notin {"applying", "aborting"}
    BY <2>2, <2>3
  <2>4. ASSUME NEW trigger \in ReconcileTrigger, Learn(v, trigger), seen[v] \in From[trigger]
        PROVE  W(v)'
    BY <2>4 DEF Learn, ReconcileTypeOK
  <2>5. CASE AskForOrder(v) /\ ~Leave(v)
    <3>1. From.ORDER_RECONCILED_FOUND = From.ORDER_RECONCILED_ABSENT
          /\ "ORDER_RECONCILED_FOUND" \in ReconcileTrigger
          /\ "ORDER_RECONCILED_ABSENT" \in ReconcileTrigger
      BY DEF From, ReconcileTrigger
    <3> QED BY <2>2, <2>4, <2>5, <3>1 DEF AskForOrder
  <2>6. CASE AskForPayment(v) /\ ~Leave(v)
    <3>1. From.CAPTURE_RECONCILED_CAPTURED = From.CAPTURE_RECONCILED_NOT_CAPTURED
          /\ "CAPTURE_RECONCILED_CAPTURED" \in ReconcileTrigger
          /\ "CAPTURE_RECONCILED_NOT_CAPTURED" \in ReconcileTrigger
      BY DEF From, ReconcileTrigger
    <3> QED BY <2>2, <2>4, <2>6, <3>1 DEF AskForPayment
  <2>7. ASSUME NEW r \in Release, PickAbandoned(v, r) PROVE W(v)'
    BY <2>7 DEF PickAbandoned, Pick, ReconcileTypeOK
  <2>8. ASSUME NEW r \in Release, PickStuck(v, r) \/ PickById(v, r)
        PROVE  job'[v] \notin {"applying", "aborting"}
    BY <2>8 DEF PickStuck, PickById, Pick, ReconcileTypeOK
  <2>9. Leave(v) => job'[v] \notin {"applying", "aborting"}
    BY DEF Leave, ReconcileTypeOK
  <2>10. Apply(v) => job'[v] \notin {"applying", "aborting"}
    BY <2>9 DEF Apply, ReconcileTypeOK
  <2>11. Spend(v) \/ Abandon(v) \/ CrashWorker(v) => Leave(v)
    BY DEF Spend, Abandon, CrashWorker
  <2> QED BY <1>1, <2>2, <2>3, <2>5, <2>6, <2>7, <2>8, <2>9, <2>10, <2>11 DEF WorkerStep, Work
<1>2. ASSUME NEW r \in Release, NEW e \in Event, EventStep(r, e)
      PROVE  \A x \in Release, y \in Event : E(x, y)'
  <2>1. CASE Close(r, e)
    BY <2>1 DEF Close, WebhookTypeOK, Remembered
  <2>2. CASE ReceiveEvent(r, e) /\ ~Close(r, e)
    BY <2>2 DEF ReceiveEvent, WebhookTypeOK, Remembered
  <2> QED BY <1>2, <2>1, <2>2 DEF EventStep, ApplyEvent, CrashEvent
<1>3. CASE UNCHANGED <<workerVars, hookVars>>
  BY <1>3 DEF workerVars, hookVars, Remembered
<1>4. CASE \E v \in Worker : WorkerStep(v)
  BY <1>1, <1>4 DEF WorkerStep, hookVars, Remembered
<1>5. CASE \E r \in Release, e \in Event : EventStep(r, e)
  <2>1. UNCHANGED workerVars
    BY <1>5 DEF EventStep, ReceiveEvent, ApplyEvent, CrashEvent
  <2> QED BY <1>2, <1>5, <2>1 DEF workerVars, Remembered
<1>6. [Next]_vars => \/ UNCHANGED <<workerVars, hookVars>>
                     \/ \E v \in Worker : WorkerStep(v)
                     \/ \E r \in Release, e \in Event : EventStep(r, e)
  BY DEF Next, RequestStep, ProviderStep, ReviewStep, ResolveReview, ApplyResolution, CrashReview,
         RevokeStep, Tick, vars
<1> QED BY <1>3, <1>4, <1>5, <1>6

LEMMA RememberedAlways == Spec => []Remembered
<1>1. TypeOK /\ Remembered /\ [Next]_vars => Remembered'
  BY RememberedKept
<1> QED BY RememberedInit, <1>1, TypeCorrect, PTL DEF Spec

-----------------------------------------------------------------------------
(* Every move of a release is one the table declares, whatever the handler   *)
(* that makes it remembers of the row                                        *)

\* Commit goes through two rules at once; StartOrder inserts the row, for a
\* mandate that has no active release.
MovesDeclared ==
  \A r \in Release :
    /\ orderId[r] => orderId'[r]
    /\ \/ state'[r] = state[r]
       \/ /\ state[r] = "ABSENT" /\ state'[r] = "DRAFT"
          /\ ~OtherActive(r)
          /\ \A q \in Release \ {r} : state'[q] = state[q]
       \/ state[r] = "VERIFYING" /\ state'[r] = "ORDER_IN_FLIGHT"
       \/ state[r] = "CAPTURE_VERIFYING" /\ state'[r] = "CAPTURE_IN_FLIGHT"
       \/ \E t \in DOMAIN To :
            /\ state[r] \in From[t] /\ state'[r] = To[t]
            /\ t = "REVIEW_APPROVED" => orderId[r]
            /\ t = "REVIEW_APPROVED_AT_ORDER_GATE" => ~orderId[r]
            /\ To[t] \in {"ORDER_CREATED", "PAYMENT_AUTHORIZED"} => orderId'[r]

LEMMA Quiet ==
  ASSUME UNCHANGED <<state, orderId>>
  PROVE  MovesDeclared
  BY DEF MovesDeclared

LEMMA OneMove ==
  ASSUME StoreTypeOK, NEW r, NEW t \in DOMAIN To, state[r] \in From[t], MoveTo(r, To[t]),
         \A x \in Release : orderId[x] => orderId'[x],
         t = "REVIEW_APPROVED" => orderId[r],
         t = "REVIEW_APPROVED_AT_ORDER_GATE" => ~orderId[r],
         r \in Release /\ To[t] \in {"ORDER_CREATED", "PAYMENT_AUTHORIZED"} => orderId'[r]
  PROVE  MovesDeclared
<1>1. \A x \in Release : state'[x] = IF x = r THEN To[t] ELSE state[x]
  BY DEF MoveTo, StoreTypeOK
<1> QED BY <1>1 DEF MovesDeclared

\* The rules some of whose sources or targets the proofs look at.
LEMMA QuietTargets ==
  \A t \in {"RELEASE_REQUESTED", "VERIFICATION_PAUSED", "VERIFICATION_DENIED",
            "CAPTURE_REQUESTED", "REVIEW_REJECTED", "ABORT", "REVIEW_APPROVED",
            "REVIEW_APPROVED_AT_ORDER_GATE", "ORDER_REJECTED", "ORDER_CALL_INDETERMINATE",
            "CAPTURE_SUCCEEDED", "CAPTURE_PROVIDER_REJECTED", "CAPTURE_CALL_INDETERMINATE",
            "ORDER_RECONCILED_ABSENT", "CAPTURE_RECONCILED_CAPTURED",
            "CAPTURE_RECONCILED_NOT_CAPTURED"} :
    t \in DOMAIN To /\ To[t] \notin {"ORDER_CREATED", "PAYMENT_AUTHORIZED"}
  BY DEF To

LEMMA RequestMoves ==
  ASSUME TypeOK, NEW p \in Request, RequestStep(p)
  PROVE  MovesDeclared
<1> StoreTypeOK /\ ProviderTypeOK /\ ServiceTypeOK
  BY DEF TypeOK
<1>1. ASSUME NEW r \in Release, StartOrder(p, r) PROVE MovesDeclared
  <2>1. \A x \in Release : orderId'[x] = orderId[x]
    BY <1>1 DEF StartOrder
  <2>2. CASE state[r] = "ABSENT" /\ MoveTo(r, "DRAFT") /\ ~OtherActive(r)
    BY <2>1, <2>2 DEF MoveTo, StoreTypeOK, MovesDeclared
  <2>3. CASE UNCHANGED state
    BY <2>1, <2>3 DEF MovesDeclared
  <2> QED BY <1>1, <2>2, <2>3 DEF StartOrder, StartNewOrder, MandateRefused, StartStoredOrder
<1>2. ASSUME NEW r \in Release, StartCapture(p, r) PROVE MovesDeclared
  BY <1>2, OneMove, Quiet, QuietTargets DEF StartCapture
<1>3. CASE BeginVerification(p)
  <2>1. UNCHANGED orderId
    BY <1>3 DEF BeginVerification
  <2>2. CASE UNCHANGED state
    BY <2>1, <2>2, Quiet
  <2>3. CASE state[on[p]] \in From.RELEASE_REQUESTED /\ MoveAsOf(on[p], To.RELEASE_REQUESTED, elapsed[p])
    <3>1. \A x \in Release : state'[x] = IF x = on[p] THEN To.RELEASE_REQUESTED ELSE state[x]
      BY <2>3 DEF MoveAsOf, StoreTypeOK
    <3>2. "RELEASE_REQUESTED" \in DOMAIN To /\ To.RELEASE_REQUESTED = "VERIFYING"
      BY DEF To
    <3> QED BY <2>1, <2>3, <3>1, <3>2 DEF MovesDeclared
  <2> QED BY <1>3, <2>2, <2>3 DEF BeginVerification
<1>4. CASE Refuse(p)
  BY <1>4, OneMove, Quiet, QuietTargets DEF Refuse
<1>5. CASE CommitOrder(p) \/ CommitCapture(p)
  <2>1. UNCHANGED orderId
    BY <1>5 DEF CommitOrder, CommitCapture, Commit
  <2>2. \/ UNCHANGED state
        \/ state[on[p]] = "VERIFYING" /\ MoveTo(on[p], "ORDER_IN_FLIGHT")
        \/ state[on[p]] = "CAPTURE_VERIFYING" /\ MoveTo(on[p], "CAPTURE_IN_FLIGHT")
    BY <1>5 DEF CommitOrder, CommitCapture, Commit, From, To
  <2> QED BY <2>1, <2>2 DEF MoveTo, StoreTypeOK, MovesDeclared
<1>6. CASE RecordOutcome(p)
  <2> DEFINE trigger == Outcome[gate[p]][reply[p]]
  <2>1. gate[p] \in Gate /\ reply[p] \in {"DONE", "REJECTED", "INDETERMINATE"}
    BY <1>6 DEF RecordOutcome, ServiceTypeOK, ProviderTypeOK
  <2>2. /\ trigger \in DOMAIN To
        /\ trigger \notin {"REVIEW_APPROVED", "REVIEW_APPROVED_AT_ORDER_GATE"}
        /\ To[trigger] \in {"ORDER_CREATED", "PAYMENT_AUTHORIZED"} => trigger = "ORDER_CREATED"
    BY <2>1 DEF Outcome, To, Gate
  <2>3. \A x \in Release : orderId[x] => orderId'[x]
    BY <1>6 DEF RecordOutcome, StoreTypeOK
  <2>4. CASE state[on[p]] \in From[trigger]
    <3>1. on[p] \in Release /\ trigger = "ORDER_CREATED" => orderId'[on[p]]
      BY <1>6, <2>4 DEF RecordOutcome, StoreTypeOK
    <3> HIDE DEF trigger
    <3>2. MoveTo(on[p], To[trigger])
      BY <1>6, <2>4 DEF RecordOutcome, trigger
    <3> QED BY <2>2, <2>3, <2>4, <3>1, <3>2, OneMove
  <2>5. CASE state[on[p]] \notin From[trigger]
    BY <1>6, <2>5, Quiet DEF RecordOutcome
  <2> QED BY <2>4, <2>5
<1>7. CASE Evaluate(p) \/ LostCapture(p) \/ Call(p) \/ CrashRequest(p)
  BY <1>7, Quiet DEF Evaluate, LostCapture, Call, CrashRequest, storeVars
<1> QED BY <1>1, <1>2, <1>3, <1>4, <1>5, <1>6, <1>7 DEF RequestStep, Proceed

LEMMA WorkerMoves ==
  ASSUME TypeOK, Remembered, NEW w \in Worker, WorkerStep(w)
  PROVE  MovesDeclared
<1> StoreTypeOK /\ ReconcileTypeOK
  BY DEF TypeOK
<1>1. CASE Apply(w)
  <2>1. answer[w] \in ReconcileTrigger /\ seen[w] \in From[answer[w]]
    BY <1>1 DEF Apply, Remembered
  <2>2. /\ answer[w] \in DOMAIN To
        /\ answer[w] \notin {"REVIEW_APPROVED", "REVIEW_APPROVED_AT_ORDER_GATE"}
        /\ To[answer[w]] \in {"ORDER_CREATED", "PAYMENT_AUTHORIZED"}
             => answer[w] = "ORDER_RECONCILED_FOUND"
    BY <2>1 DEF ReconcileTrigger, To
  <2>3. \A x \in Release : orderId[x] => orderId'[x]
    BY <1>1 DEF Apply, StoreTypeOK
  <2>4. CASE state[target[w]] = seen[w]
    <3>1. target[w] \in Release /\ answer[w] = "ORDER_RECONCILED_FOUND" => orderId'[target[w]]
      BY <1>1, <2>4 DEF Apply, StoreTypeOK
    <3>2. MoveTo(target[w], To[answer[w]]) /\ state[target[w]] \in From[answer[w]]
      BY <1>1, <2>1, <2>4 DEF Apply
    <3> QED BY <2>2, <2>3, <3>1, <3>2, OneMove
  <2>5. CASE state[target[w]] # seen[w]
    BY <1>1, <2>5, Quiet DEF Apply
  <2> QED BY <2>4, <2>5
<1>2. CASE Abandon(w)
  <2>1. CASE state[target[w]] = seen[w]
    <3>1. state[target[w]] \in Transient
      BY <1>2, <2>1 DEF Abandon, Remembered
    <3>2. state[target[w]] \in From.ABORT
      BY <3>1 DEF Transient, From
    <3> QED BY <1>2, <2>1, <3>2, OneMove, QuietTargets DEF Abandon
  <2>2. CASE state[target[w]] # seen[w]
    BY <1>2, <2>2, Quiet DEF Abandon
  <2> QED BY <2>1, <2>2
<1>3. CASE UNCHANGED <<state, orderId>>
  BY <1>3, Quiet
<1> QED BY <1>1, <1>2, <1>3 DEF WorkerStep, PickStuck, PickById, PickAbandoned, Pick, Work,
          AskForOrder, AskForPayment, Spend, CrashWorker, storeVars, releaseRow

LEMMA OtherMoves ==
  ASSUME TypeOK, Remembered, Next, ~\E p \in Request : RequestStep(p),
         ~\E w \in Worker : WorkerStep(w)
  PROVE  MovesDeclared
<1> StoreTypeOK
  BY DEF TypeOK
<1>1. ASSUME NEW r \in Release, NEW e \in Event, ApplyEvent(r, e) PROVE MovesDeclared
  <2> DEFINE trigger == EventTrigger[e]
  <2>1. /\ trigger \in DOMAIN To
        /\ trigger \notin {"REVIEW_APPROVED", "REVIEW_APPROVED_AT_ORDER_GATE"}
    BY DEF EventTrigger, Event, To
  <2>2. read[r][e] \in From[trigger]
    BY <1>1 DEF ApplyEvent, Remembered, Declares
  <2>3. \A x \in Release : orderId[x] => orderId'[x]
    BY <1>1 DEF ApplyEvent, StoreTypeOK
  <2>4. CASE state[r] = read[r][e]
    <3>1. orderId'[r]
      BY <1>1, <2>4 DEF ApplyEvent, StoreTypeOK
    <3> HIDE DEF trigger
    <3>2. MoveTo(r, To[trigger])
      BY <1>1, <2>4 DEF ApplyEvent, trigger
    <3> QED BY <2>1, <2>2, <2>3, <2>4, <3>1, <3>2, OneMove
  <2>5. CASE state[r] # read[r][e]
    BY <1>1, <2>5, Quiet DEF ApplyEvent
  <2> QED BY <2>4, <2>5
<1>2. ASSUME NEW r \in Release, ApplyResolution(r) PROVE MovesDeclared
  <2>1. CASE Declares(state[r], ReviewTrigger(r))
    <3>1. state[r] \in From[ReviewTrigger(r)] /\ MoveTo(r, To[ReviewTrigger(r)])
      BY <1>2, <2>1 DEF ApplyResolution, Declares
    <3>2. ReviewTrigger(r) \in {"REVIEW_REJECTED", "REVIEW_APPROVED", "REVIEW_APPROVED_AT_ORDER_GATE"}
      BY DEF ReviewTrigger
    <3>3. /\ ReviewTrigger(r) = "REVIEW_APPROVED" => orderId[r]
          /\ ReviewTrigger(r) = "REVIEW_APPROVED_AT_ORDER_GATE" => ~orderId[r]
      BY DEF ReviewTrigger
    <3>4. UNCHANGED orderId
      BY <1>2 DEF ApplyResolution
    <3> QED BY <3>1, <3>2, <3>3, <3>4, OneMove, QuietTargets
  <2>2. CASE ~Declares(state[r], ReviewTrigger(r))
    BY <1>2, <2>2, Quiet DEF ApplyResolution
  <2> QED BY <2>1, <2>2
<1>3. CASE UNCHANGED <<state, orderId>>
  BY <1>3, Quiet
<1> QED BY <1>1, <1>2, <1>3 DEF Next, ProviderStep, EventStep, ReceiveEvent, CrashEvent,
          ReviewStep, ResolveReview, CrashReview, RevokeStep, Revoke, Tick, storeVars, releaseRow

LEMMA Moves ==
  ASSUME TypeOK, Remembered, [Next]_vars
  PROVE  MovesDeclared
<1>1. CASE Next
  BY <1>1, RequestMoves, WorkerMoves, OtherMoves
<1>2. CASE UNCHANGED vars
  BY <1>2, Quiet DEF vars, storeVars
<1> QED BY <1>1, <1>2

\* No late answer, stale sweep, delayed webhook or second approval reopens a
\* release that ended: no rule leaves a terminal state.
THEOREM TerminalStays == Spec => TerminalIsFinal
<1>1. \A t \in DOMAIN To : From[t] \cap Terminal = {}
  BY DEF To, From, Terminal
<1>2. MovesDeclared => \A r \in Release : state[r] \in Terminal => state'[r] = state[r]
  BY <1>1 DEF MovesDeclared, Terminal
<1>3. TypeOK /\ Remembered /\ [Next]_vars
      => [\A r \in Release : state[r] \in Terminal => state'[r] = state[r]]_vars
  BY <1>2, Moves
<1> QED BY <1>3, TypeCorrect, RememberedAlways, PTL DEF Spec, TerminalIsFinal

-----------------------------------------------------------------------------
(* At most one call per gate *)

LEMMA OrderIsKnownKept ==
  ASSUME OrderIsKnown, MovesDeclared
  PROVE  OrderIsKnown'
<1> DEFINE Known == {"ORDER_CREATED", "PAYMENT_AUTHORIZED", "CAPTURE_VERIFYING", "CAPTURE_APPROVED"}
<1>1. \A t \in DOMAIN To : To[t] \in Known =>
         \/ To[t] \in {"ORDER_CREATED", "PAYMENT_AUTHORIZED"}
         \/ From[t] \subseteq Known
         \/ t = "REVIEW_APPROVED"
  BY DEF To, From
<1> QED BY <1>1 DEF OrderIsKnown, MovesDeclared

\* Who holds a call after a step held it before, on the same release at the
\* same gate, or has just committed to it; at most one request commits at once.
Commits(p) ==
  \/ /\ gate[p] = "ORDER_CREATION"
     /\ state[on[p]] = "VERIFYING" /\ state'[on[p]] = "ORDER_IN_FLIGHT"
  \/ /\ gate[p] = "CAPTURE"
     /\ state[on[p]] = "CAPTURE_VERIFYING" /\ state'[on[p]] = "CAPTURE_IN_FLIGHT"

HoldersKept ==
  /\ \A p \in Request :
       Holds(p)' => on'[p] = on[p] /\ gate'[p] = gate[p] /\ (Holds(p) \/ Commits(p))
  /\ \A p, q \in Request : Holds(p)' /\ ~Holds(p) /\ Holds(q)' /\ ~Holds(q) => p = q

Placed == \A p \in Request : /\ p \in called => pc[p] \in {"awaiting", "done"}
                             /\ pc[p] # "idle" => on[p] \in Release

LEMMA HoldersUnchanged ==
  ASSUME UNCHANGED <<pc, gate, on, called>>
  PROVE  HoldersKept /\ (Placed => Placed')
  BY DEF HoldersKept, Holds, Placed

LEMMA RequestHolders ==
  ASSUME TypeOK, Placed, NEW p \in Request, RequestStep(p)
  PROVE  HoldersKept /\ Placed'
<1> StoreTypeOK /\ ProviderTypeOK /\ ServiceTypeOK
  BY DEF TypeOK
<1>1. ASSUME NEW where \in Where, Goto(p, where)
      PROVE  /\ pc'[p] = where
             /\ \A q \in Request \ {p} : pc'[q] = pc[q]
  BY <1>1 DEF Goto, ServiceTypeOK
<1>2. ASSUME NEW where \in Where \ {"prepared"}, Goto(p, where), UNCHANGED called,
             \A q \in Request : q # p \/ Holds(p) => on'[q] = on[q] /\ gate'[q] = gate[q],
             on'[p] \in Release,
             pc[p] \in {"awaiting", "done"} => where \in {"awaiting", "done"}
      PROVE  HoldersKept /\ Placed'
  <2>1. pc'[p] = where /\ \A q \in Request \ {p} : pc'[q] = pc[q]
    BY <1>1, <1>2
  <2>2. Placed'
    BY <1>2, <2>1 DEF Placed
  <2>3. \A q \in Request : Holds(q)' => Holds(q)
    BY <1>2, <2>1 DEF Holds
  <2>4. HoldersKept
    BY <1>2, <2>3 DEF HoldersKept
  <2> QED BY <2>2, <2>4
<1>3. ASSUME NEW r \in Release, StartOrder(p, r) \/ StartCapture(p, r)
      PROVE  HoldersKept /\ Placed'
  <2>1. pc[p] = "idle" /\ ~Holds(p) /\ UNCHANGED called
    BY <1>3 DEF StartOrder, StartCapture, providerVars, Placed, Holds
  <2>2. on'[p] = r /\ \A q \in Request \ {p} : on'[q] = on[q] /\ gate'[q] = gate[q]
    BY <1>3 DEF StartOrder, StartCapture, Address, ServiceTypeOK
  <2>3. PICK where \in {"drafted", "done", "evaluating", "lost"} : Goto(p, where)
    BY <1>3 DEF StartOrder, StartNewOrder, MandateRefused, StartStoredOrder, StartCapture
  <2>4. where \in Where \ {"prepared"}
    BY DEF Where
  <2> QED BY <1>2, <2>1, <2>2, <2>3, <2>4
<1>4. ASSUME UNCHANGED <<gate, on>>, pc[p] # "idle" PROVE on'[p] \in Release
  BY <1>4 DEF Placed
<1>5. CASE BeginVerification(p) \/ Evaluate(p)
  <2>1. pc[p] \notin {"idle", "awaiting", "done"} /\ UNCHANGED <<gate, on, called>>
    BY <1>5 DEF BeginVerification, Evaluate, providerVars
  <2>2. PICK where \in {"evaluating", "decided"} : Goto(p, where)
    BY <1>5 DEF BeginVerification, Evaluate
  <2>3. where \in Where \ {"prepared"}
    BY DEF Where
  <2> QED BY <1>2, <1>4, <2>1, <2>2, <2>3
<1>6. CASE Finish(p) /\ UNCHANGED <<gate, on, called>> /\ pc[p] # "idle"
  <2>1. Goto(p, "done") /\ "done" \in Where \ {"prepared"}
    BY <1>6 DEF Finish, Where
  <2> QED BY <1>2, <1>4, <1>6, <2>1
<1>7. CASE CommitOrder(p) \/ CommitCapture(p)
  <2>1. pc[p] = "decided" /\ UNCHANGED <<gate, on, called>>
    BY <1>7 DEF CommitOrder, CommitCapture, Commit, providerVars
  <2>2. on[p] \in Release
    BY <2>1 DEF Placed
  <2>3. CASE Finish(p)
    BY <1>6, <2>1, <2>3
  <2>4. CASE ~Finish(p)
    <3>1. Goto(p, "prepared") /\ "prepared" \in Where
      BY <1>7, <2>4 DEF CommitOrder, CommitCapture, Commit, Where
    <3>2. pc'[p] = "prepared" /\ \A q \in Request \ {p} : pc'[q] = pc[q]
      BY <1>1, <3>1
    <3>3. \/ /\ gate[p] = "ORDER_CREATION" /\ state[on[p]] = "VERIFYING"
             /\ MoveTo(on[p], "ORDER_IN_FLIGHT")
          \/ /\ gate[p] = "CAPTURE" /\ state[on[p]] = "CAPTURE_VERIFYING"
             /\ MoveTo(on[p], "CAPTURE_IN_FLIGHT")
      BY <1>7, <2>4 DEF CommitOrder, CommitCapture, Commit, From, To
    <3>4. Commits(p)
      BY <2>2, <3>3 DEF Commits, MoveTo, StoreTypeOK
    <3>5. \A q \in Request \ {p} : Holds(q)' => Holds(q)
      BY <2>1, <3>2 DEF Holds
    <3>6. HoldersKept
      BY <2>1, <3>4, <3>5 DEF HoldersKept
    <3>7. Placed'
      BY <2>1, <3>2 DEF Placed
    <3> QED BY <3>6, <3>7
  <2> QED BY <2>3, <2>4
<1>8. CASE Call(p) /\ ~Finish(p)
  <2>1. pc[p] = "prepared" /\ UNCHANGED <<gate, on>> /\ called' = called \cup {p}
        /\ Goto(p, "awaiting")
    BY <1>8 DEF Call
  <2>2. pc'[p] = "awaiting" /\ \A q \in Request \ {p} : pc'[q] = pc[q]
    BY <1>1, <2>1 DEF Where
  <2>3. \A q \in Request : Holds(q)' => Holds(q)
    BY <2>1, <2>2 DEF Holds
  <2>4. HoldersKept
    BY <2>1, <2>3 DEF HoldersKept
  <2>5. Placed'
    BY <2>1, <2>2 DEF Placed
  <2> QED BY <2>4, <2>5
<1>9. Refuse(p) \/ LostCapture(p) \/ (Call(p) /\ Finish(p)) \/ RecordOutcome(p) \/ CrashRequest(p)
      => Finish(p) /\ UNCHANGED <<gate, on, called>> /\ pc[p] # "idle"
  <2>1. Refuse(p) \/ LostCapture(p) => Finish(p) /\ UNCHANGED <<gate, on, called>> /\ pc[p] # "idle"
    BY DEF Refuse, LostCapture, providerVars
  <2>2. RecordOutcome(p) \/ CrashRequest(p)
        => Finish(p) /\ UNCHANGED <<gate, on, called>> /\ pc[p] # "idle"
    BY DEF RecordOutcome, CrashRequest
  <2>3. Call(p) /\ Finish(p) => UNCHANGED <<gate, on, called>> /\ pc[p] # "idle"
    <3>1. Finish(p) => pc'[p] = "done"
      BY <1>1 DEF Finish, Where
    <3>2. Goto(p, "awaiting") => pc'[p] = "awaiting"
      BY <1>1 DEF Where
    <3> QED BY <3>1, <3>2 DEF Call
  <2> QED BY <2>1, <2>2, <2>3
<1> QED BY <1>3, <1>5, <1>6, <1>7, <1>8, <1>9 DEF RequestStep, Proceed

LEMMA Holders ==
  ASSUME TypeOK, Placed, [Next]_vars
  PROVE  HoldersKept /\ Placed'
<1>1. CASE \E p \in Request : RequestStep(p)
  BY <1>1, RequestHolders
<1>2. CASE UNCHANGED <<pc, gate, on, called>>
  BY <1>2, HoldersUnchanged
<1>3. ProviderStep => UNCHANGED <<pc, gate, on, called>>
  BY DEF ProviderStep, ApplyOrder, ApplyCapture, LoseCall, TimeOut, IndexOrder, Pay, requestVars
<1>4. \A w \in Worker : WorkerStep(w) => UNCHANGED <<pc, gate, on, called>>
  BY DEF WorkerStep, PickStuck, PickById, PickAbandoned, Pick, Work, AskForOrder, AskForPayment,
         Apply, Spend, Abandon, CrashWorker, requestVars, providerVars
<1>5. \A r \in Release, e \in Event : EventStep(r, e) => UNCHANGED <<pc, gate, on, called>>
  BY DEF EventStep, ReceiveEvent, ApplyEvent, CrashEvent, requestVars, providerVars
<1>6. \A r \in Release : ReviewStep(r) => UNCHANGED <<pc, gate, on, called>>
  BY DEF ReviewStep, ResolveReview, ApplyResolution, CrashReview, requestVars, providerVars
<1>7. (\E a \in Authorization : RevokeStep(a)) \/ Tick \/ UNCHANGED vars
      => UNCHANGED <<pc, gate, on, called>>
  BY DEF RevokeStep, Tick, vars, requestVars, providerVars
<1> QED BY <1>1, <1>2, <1>3, <1>4, <1>5, <1>6, <1>7 DEF Next

LEMMA PastItsCallsKept ==
  ASSUME PastItsCalls, OrderIsKnown, Placed, MovesDeclared, HoldersKept
  PROVE  PastItsCalls'
<1> SUFFICES ASSUME NEW p \in Request, Holds(p)'
             PROVE  /\ gate[p] = "CAPTURE" => state'[on[p]] \in AfterCapture
                    /\ gate[p] = "ORDER_CREATION" =>
                         /\ state'[on[p]] \notin BeforeOrder
                         /\ state'[on[p]] = "PAUSED" => orderId'[on[p]]
  BY DEF PastItsCalls, HoldersKept
<1> DEFINE r == on[p]
<1>1. CASE ~Holds(p)
  BY <1>1 DEF HoldersKept, Commits, AfterCapture, BeforeOrder
<1>2. CASE Holds(p)
  <2>1. r \in Release
    BY <1>2 DEF Holds, Placed
  <2>2. ASSUME gate[p] = "CAPTURE" PROVE state'[r] \in AfterCapture
    <3>1. \A t \in DOMAIN To : From[t] \cap AfterCapture # {} => To[t] \in AfterCapture
      BY DEF From, To, AfterCapture
    <3>2. state[r] \in AfterCapture
      BY <1>2, <2>2 DEF PastItsCalls
    <3> QED BY <2>1, <3>1, <3>2 DEF MovesDeclared, AfterCapture
  <2>3. ASSUME gate[p] = "ORDER_CREATION"
        PROVE  state'[r] \notin BeforeOrder /\ (state'[r] = "PAUSED" => orderId'[r])
    <3>1. state[r] \notin BeforeOrder /\ (state[r] = "PAUSED" => orderId[r])
      BY <1>2, <2>3 DEF PastItsCalls
    <3>2. \A t \in DOMAIN To : To[t] \in BeforeOrder =>
             \/ From[t] \subseteq BeforeOrder
             \/ t = "REVIEW_APPROVED_AT_ORDER_GATE" /\ From[t] = {"PAUSED"}
      BY DEF From, To, BeforeOrder
    <3>3. \A t \in DOMAIN To : To[t] = "PAUSED" => From[t] \subseteq {"VERIFYING", "CAPTURE_VERIFYING"}
      BY DEF From, To
    <3>4. state'[r] \notin BeforeOrder
      BY <2>1, <3>1, <3>2 DEF MovesDeclared, BeforeOrder
    <3>5. state'[r] = "PAUSED" => orderId'[r]
      BY <2>1, <3>1, <3>3 DEF MovesDeclared, BeforeOrder, OrderIsKnown
    <3> QED BY <3>4, <3>5
  <2> QED BY <2>2, <2>3
<1> QED BY <1>1, <1>2

LEMMA OneHolderKept ==
  ASSUME PastItsCalls, OneHolder, HoldersKept
  PROVE  OneHolder'
<1> SUFFICES ASSUME NEW p \in Request, NEW q \in Request, Holds(p)', Holds(q)',
                    on'[p] = on'[q], gate'[p] = gate'[q]
             PROVE  p = q
  BY DEF OneHolder
<1>1. on[p] = on[q] /\ gate[p] = gate[q]
  BY DEF HoldersKept
<1>2. ASSUME NEW x \in Request, NEW y \in Request, Commits(x), Holds(y), on[x] = on[y], gate[x] = gate[y]
      PROVE  FALSE
  BY <1>2 DEF Commits, PastItsCalls, AfterCapture, BeforeOrder
<1>3. (Holds(p) \/ Commits(p)) /\ (Holds(q) \/ Commits(q))
  BY DEF HoldersKept
<1>4. CASE Holds(p) /\ Holds(q)
  BY <1>1, <1>4 DEF OneHolder
<1>5. CASE ~Holds(p) /\ ~Holds(q)
  BY <1>5 DEF HoldersKept
<1> QED BY <1>1, <1>2, <1>3, <1>4, <1>5

LEMMA CallInvInit == Init => CallInv
  BY DEF Init, CallInv, Remembered, OrderIsKnown, PastItsCalls, OneHolder, Holds, StoreInit,
         ProviderInit, ServiceInit, ReconcileInit, WebhookInit

LEMMA CallInvKept ==
  ASSUME TypeOK, CallInv, [Next]_vars
  PROVE  CallInv'
<1>1. Remembered /\ OrderIsKnown /\ PastItsCalls /\ OneHolder /\ Placed
  BY DEF CallInv, Placed
<1>2. MovesDeclared /\ HoldersKept /\ Placed' /\ Remembered'
  BY <1>1, Moves, Holders, RememberedKept
<1>3. OrderIsKnown' /\ PastItsCalls' /\ OneHolder'
  BY <1>1, <1>2, OrderIsKnownKept, PastItsCallsKept, OneHolderKept
<1> QED BY <1>2, <1>3 DEF CallInv, Placed

THEOREM CallInvariant == Spec => []CallInv
<1> QED BY CallInvInit, CallInvKept, TypeCorrect, PTL DEF Spec

\* At most one order and one capture call ever leave the process for a release,
\* whatever requests race, die, are retried or are resumed after an approval.
THEOREM CalledAtMostOnce == Spec => []CalledOnce
<1>1. TypeOK /\ CallInv => CalledOnce
  BY DEF TypeOK, ProviderTypeOK, CallInv, OneHolder, CalledOnce, Holds
<1> QED BY <1>1, TypeCorrect, CallInvariant, PTL
=============================================================================
