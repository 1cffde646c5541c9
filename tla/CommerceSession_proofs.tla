----------------------- MODULE CommerceSession_proofs -----------------------
(***************************************************************************)
(* What holds of a commerce session for any purchases, keys, prices and    *)
(* budget: the counters stay within the budget, a key makes one purchase,  *)
(* spend is money that moved, and the service implements SessionBudget.    *)
(*                                                                         *)
(* The counters trail the rows by a statement, so none of this is          *)
(* inductive by itself: BudgetInv says what a row, the counter move it     *)
(* still owes and what the counters include of it can be together.         *)
(***************************************************************************)
EXTENDS CommerceSession, FiniteSums

BudgetTypes ==
  /\ reserved \in Int /\ spent \in Int
  /\ row \in [Purchase -> {"none", "RESERVED", "SETTLED", "RELEASED"}]
  /\ hold \in [Purchase -> Nat]
  /\ release \in [Purchase -> {"none", "open", "captured", "settled", "ended"}]
  /\ at \in [Purchase -> {"idle", "quoted", "held", "recorded", "answered", "over"}]
  /\ owed \in [Purchase -> {"none", "SETTLED", "RELEASED"}]
  /\ counted \in [Purchase -> {"none", "held", "spent", "freed"}]

\* A request that has not recorded its purchase, by where it stands.
RequestAgrees(p) ==
  /\ at[p] \in {"idle", "quoted"} => counted[p] = "none" /\ row[p] = "none"
  /\ at[p] = "held" => counted[p] = "held" /\ row[p] = "none"
  /\ at[p] = "recorded" => row[p] # "none" /\ release[p] = "none"

\* A hold lasts until the counter move of a row that was resolved.
RowAgrees(p) ==
  /\ row[p] = "none" => owed[p] = "none" /\ release[p] = "none"
  /\ row[p] = "RESERVED" => counted[p] = "held" /\ owed[p] = "none"
  /\ owed[p] # "none" => counted[p] = "held"

BudgetInv == /\ BudgetTypes
             /\ BudgetBounded
             /\ \A p \in Purchase : RequestAgrees(p) /\ RowAgrees(p)

LEMMA ClassOf == \A t \in DOMAIN To : Class(To[t]) \in {"open", "captured", "settled", "ended"}
  BY DEF To, Class, MoneyHasMoved, Terminal

LEMMA NeverAbsent == \A s : Class(s) # "none"
  BY DEF Class, MoneyHasMoved, Terminal

LEMMA BudgetInit == Init => BudgetInv
  BY SessionAssumption DEF Init, BudgetInv, BudgetTypes, BudgetBounded, RequestAgrees, RowAgrees

\* A row's compare-and-set, won or lost.
LEMMA ResolveRowKeeps ==
  ASSUME BudgetInv, NEW p \in Purchase, NEW to \in {"SETTLED", "RELEASED"}, ResolveRow(p, to),
         release' = release, counted' = counted
  PROVE  /\ row' \in [Purchase -> {"none", "RESERVED", "SETTLED", "RELEASED"}]
         /\ owed' \in [Purchase -> {"none", "SETTLED", "RELEASED"}]
         /\ \A q \in Purchase : /\ RowAgrees(q)'
                                /\ (row'[q] = "none") = (row[q] = "none")
<1>1. CASE row[p] = "RESERVED"
  BY <1>1 DEF ResolveRow, BudgetInv, BudgetTypes, RowAgrees
<1>2. CASE row[p] # "RESERVED"
  BY <1>2 DEF ResolveRow, BudgetInv, BudgetTypes, RowAgrees
<1> QED BY <1>1, <1>2

LEMMA ResolveHoldKeeps ==
  ASSUME BudgetInv, NEW p \in Purchase, NEW outcome, ResolveHold(p, outcome),
         release' = release, counted' = counted
  PROVE  /\ row' \in [Purchase -> {"none", "RESERVED", "SETTLED", "RELEASED"}]
         /\ owed' \in [Purchase -> {"none", "SETTLED", "RELEASED"}]
         /\ \A q \in Purchase : /\ RowAgrees(q)'
                                /\ (row'[q] = "none") = (row[q] = "none")
<1>1. CASE \E to \in {"SETTLED", "RELEASED"} : ResolveRow(p, to)
  BY <1>1, ResolveRowKeeps
<1>2. CASE UNCHANGED <<row, owed>>
  BY <1>2 DEF BudgetInv, BudgetTypes, RowAgrees
<1> QED BY <1>1, <1>2 DEF ResolveHold

\* The steps that move a counter are the moves of SessionBudget.
LEMMA ReserveIsHold ==
  ASSUME BudgetInv, NEW p \in Purchase, Reserve(p)
  PROVE  Budget!Hold(p) \/ UNCHANGED budgetVars
<1>1. counted[p] = "none"
  BY DEF BudgetInv, RequestAgrees, Reserve
<1> QED BY <1>1 DEF Reserve, Budget!Hold, budgetVars

LEMMA CountIsSettleOrFree ==
  ASSUME BudgetInv, NEW p \in Purchase, Count(p)
  PROVE  Budget!Settle(p) \/ Budget!Free(p)
<1>1. counted[p] = "held"
  BY DEF BudgetInv, RowAgrees, Count
<1> QED BY <1>1 DEF Count, Budget!Settle, Budget!Free

LEMMA OthersLeaveTheBudget ==
  ASSUME NEW p \in Purchase,
         \/ Refuse(p) \/ Replay(p) \/ Open(p) \/ Record(p) \/ OrderGate(p) \/ Resolve(p)
         \/ Fail(p) \/ Die(p) \/ StartCapture(p) \/ EndCapture(p) \/ SweepRead(p)
         \/ SweepAct(p) \/ ReleaseMoves(p) \/ Expire \/ Revoke
  PROVE  UNCHANGED budgetVars
  BY DEF Refuse, Replay, Open, Record, OrderGate, Resolve, Fail, Die, StartCapture, EndCapture,
         SweepRead, SweepAct, ReleaseMoves, Expire, Revoke

LEMMA StepIsBudgetStep ==
  BudgetInv /\ [Next]_vars => [Budget!Next]_(Budget!vars)
<1> SUFFICES ASSUME BudgetInv, [Next]_vars PROVE Budget!Next \/ UNCHANGED budgetVars
  BY DEF Budget!vars, budgetVars
<1>1. CASE Expire \/ Revoke
  BY <1>1 DEF Expire, Revoke
<1>2. ASSUME NEW p \in Purchase, Step(p) PROVE Budget!Next \/ UNCHANGED budgetVars
  BY <1>2, ReserveIsHold, CountIsSettleOrFree, OthersLeaveTheBudget DEF Step, Budget!Next
<1>3. CASE UNCHANGED vars
  BY <1>3 DEF vars
<1> QED BY <1>1, <1>2, <1>3 DEF Next

-----------------------------------------------------------------------------
(* BudgetInv is inductive *)

\* The counters, by the moves of SessionBudget.
LEMMA BudgetStepBounds ==
  ASSUME BudgetInv, [Budget!Next]_(Budget!vars)
  PROVE  /\ reserved' \in Int /\ spent' \in Int
         /\ hold' \in [Purchase -> Nat]
         /\ counted' \in [Purchase -> {"none", "held", "spent", "freed"}]
         /\ BudgetBounded'
<1> USE SessionAssumption DEF BudgetInv, BudgetTypes, BudgetBounded
<1>1. ASSUME NEW p \in Purchase, Budget!Hold(p)
      PROVE  /\ reserved' \in Int /\ spent' \in Int
             /\ hold' \in [Purchase -> Nat]
             /\ counted' \in [Purchase -> {"none", "held", "spent", "freed"}]
             /\ BudgetBounded'
  <2>1. PICK amount \in Price : /\ reserved + spent + amount <= Total
                                /\ hold' = [hold EXCEPT ![p] = amount]
                                /\ reserved' = reserved + amount
    BY <1>1 DEF Budget!Hold
  <2>2. amount \in Nat
    BY <2>1
  <2> QED BY <1>1, <2>1, <2>2 DEF Budget!Hold
<1>2. ASSUME NEW p \in Purchase, Budget!Settle(p)
      PROVE  /\ reserved' \in Int /\ spent' \in Int
             /\ hold' \in [Purchase -> Nat]
             /\ counted' \in [Purchase -> {"none", "held", "spent", "freed"}]
             /\ BudgetBounded'
  <2>1. hold[p] \in Nat
    OBVIOUS
  <2> QED BY <1>2, <2>1 DEF Budget!Settle
<1>3. ASSUME NEW p \in Purchase, Budget!Free(p)
      PROVE  /\ reserved' \in Int /\ spent' \in Int
             /\ hold' \in [Purchase -> Nat]
             /\ counted' \in [Purchase -> {"none", "held", "spent", "freed"}]
             /\ BudgetBounded'
  <2>1. hold[p] \in Nat
    OBVIOUS
  <2> QED BY <1>3, <2>1 DEF Budget!Free
<1>4. CASE UNCHANGED Budget!vars
  BY <1>4 DEF Budget!vars
<1> QED BY <1>1, <1>2, <1>3, <1>4 DEF Budget!Next

\* What the rest of a session's state is after a step.
RestOf == /\ row \in [Purchase -> {"none", "RESERVED", "SETTLED", "RELEASED"}]
          /\ release \in [Purchase -> {"none", "open", "captured", "settled", "ended"}]
          /\ at \in [Purchase -> {"idle", "quoted", "held", "recorded", "answered", "over"}]
          /\ owed \in [Purchase -> {"none", "SETTLED", "RELEASED"}]
          /\ \A q \in Purchase : RequestAgrees(q) /\ RowAgrees(q)

LEMMA RestKept ==
  ASSUME BudgetInv, NEW p \in Purchase, Step(p)
  PROVE  RestOf'
<1> USE DEF BudgetInv, BudgetTypes, RestOf
<1>1. CASE Refuse(p) \/ Replay(p) \/ Open(p)
  BY <1>1 DEF Refuse, Replay, Open, GoTo, budgetVars, RequestAgrees, RowAgrees
<1>2. CASE Reserve(p)
  BY <1>2 DEF Reserve, GoTo, RequestAgrees, RowAgrees
<1>3. CASE Record(p)
  BY <1>3 DEF Record, GoTo, budgetVars, RequestAgrees, RowAgrees
<1>4. CASE OrderGate(p)
  BY <1>4 DEF OrderGate, GoTo, budgetVars, RequestAgrees, RowAgrees
<1>5. CASE Resolve(p)
  <2>1. PICK outcome : ResolveHold(p, outcome)
    BY <1>5 DEF Resolve
  <2> QED BY <1>5, <2>1, ResolveHoldKeeps DEF Resolve, GoTo, budgetVars, RequestAgrees
<1>6. CASE Count(p)
  <2>1. row[p] \notin {"none", "RESERVED"} /\ counted[p] = "held"
    BY <1>6 DEF Count, RowAgrees
  <2> QED BY <1>6, <2>1 DEF Count, RequestAgrees, RowAgrees
<1>7. CASE Fail(p)
  BY <1>7, ResolveRowKeeps DEF Fail, GoTo, budgetVars, RequestAgrees
<1>8. CASE Die(p)
  BY <1>8 DEF Die, GoTo, budgetVars, RequestAgrees, RowAgrees
<1>9. CASE StartCapture(p) \/ SweepRead(p)
  BY <1>9 DEF StartCapture, SweepRead, budgetVars, RequestAgrees, RowAgrees
<1>10. CASE EndCapture(p)
  <2>1. PICK outcome : ResolveHold(p, outcome)
    BY <1>10 DEF EndCapture
  <2> QED BY <1>10, <2>1, ResolveHoldKeeps DEF EndCapture, budgetVars, RequestAgrees
<1>11. CASE SweepAct(p)
  <2>1. (\E to \in {"SETTLED", "RELEASED"} : ResolveRow(p, to)) \/ UNCHANGED <<row, owed>>
    BY <1>11 DEF SweepAct
  <2>2. CASE UNCHANGED <<row, owed>>
    BY <1>11, <2>2 DEF SweepAct, budgetVars, RequestAgrees, RowAgrees
  <2>3. CASE \E to \in {"SETTLED", "RELEASED"} : ResolveRow(p, to)
    BY <1>11, <2>3, ResolveRowKeeps DEF SweepAct, budgetVars, RequestAgrees
  <2> QED BY <2>1, <2>2, <2>3
<1>12. CASE ReleaseMoves(p)
  <2>1. PICK t \in DOMAIN To : \E s \in From[t] :
                                 release[p] = Class(s) /\ release' = [release EXCEPT ![p] = Class(To[t])]
    BY <1>12 DEF ReleaseMoves
  <2>2. release[p] # "none"
    BY <2>1, NeverAbsent
  <2> QED BY <1>12, <2>1, <2>2, ClassOf DEF ReleaseMoves, budgetVars, RequestAgrees, RowAgrees
<1> QED BY <1>1, <1>2, <1>3, <1>4, <1>5, <1>6, <1>7, <1>8, <1>9, <1>10, <1>11, <1>12 DEF Step

LEMMA BudgetStep == BudgetInv /\ [Next]_vars => BudgetInv'
<1> SUFFICES ASSUME BudgetInv, [Next]_vars PROVE BudgetInv'
  OBVIOUS
<1>1. RestOf'
  <2>1. RestOf
    BY DEF BudgetInv, BudgetTypes, RestOf
  <2>2. CASE Expire \/ Revoke \/ UNCHANGED vars
    BY <2>1, <2>2 DEF Expire, Revoke, vars, budgetVars, RestOf, RequestAgrees, RowAgrees
  <2>3. CASE \E p \in Purchase : Step(p)
    BY <2>3, RestKept
  <2> QED BY <2>2, <2>3 DEF Next
<1>2. [Budget!Next]_(Budget!vars)
  BY StepIsBudgetStep
<1> QED BY <1>1, <1>2, BudgetStepBounds DEF BudgetInv, BudgetTypes, RestOf

\* The counters never pass the budget the user delegated, however requests, captures,
\* the sweep and crashes interleave (BudgetBounded, the check constraint of the table).
THEOREM BudgetIsBounded == Spec => []BudgetBounded
<1>1. BudgetInv => BudgetBounded
  BY DEF BudgetInv
<1> QED BY <1>1, BudgetInit, BudgetStep, PTL DEF Spec

\* The session service implements SessionBudget: a purchase is held once, and what is
\* held is spent or given back once (BudgetKept).
THEOREM BudgetIsKept == Spec => BudgetKept
<1>1. Init => Budget!Init
  BY DEF Init, Budget!Init
<1> QED BY <1>1, BudgetInit, BudgetStep, StepIsBudgetStep, PTL DEF Spec, BudgetKept, Budget!Spec

-----------------------------------------------------------------------------
(* One purchase of a key *)

KeyInv == \A p, q \in Purchase :
            KeyOf[p] = KeyOf[q] /\ row[p] # "none" /\ row[q] # "none" => p = q

\* Only Record writes a row for a purchase that has none.
LEMMA OthersAddNoRow ==
  ASSUME BudgetInv, NEW p \in Purchase, Step(p), ~Record(p), NEW q \in Purchase, row[q] = "none"
  PROVE  row'[q] = "none"
<1> USE DEF BudgetInv, BudgetTypes
<1>1. CASE Refuse(p) \/ Replay(p) \/ Open(p) \/ Reserve(p) \/ OrderGate(p) \/ Count(p) \/ Die(p)
           \/ StartCapture(p) \/ SweepRead(p) \/ ReleaseMoves(p)
  BY <1>1 DEF Refuse, Replay, Open, Reserve, OrderGate, Count, Die, StartCapture, SweepRead,
              ReleaseMoves
<1>2. CASE Resolve(p) \/ Fail(p) \/ EndCapture(p) \/ SweepAct(p)
  BY <1>2 DEF Resolve, Fail, EndCapture, SweepAct, ResolveHold, ResolveRow
<1> QED BY <1>1, <1>2 DEF Step

LEMMA KeyStep == BudgetInv /\ KeyInv /\ [Next]_vars => KeyInv'
<1> SUFFICES ASSUME BudgetInv, KeyInv, [Next]_vars PROVE KeyInv'
  OBVIOUS
<1>1. ASSUME NEW p \in Purchase, Record(p) PROVE KeyInv'
  <2>1. CASE Repeats(p)
    BY <1>1, <2>1 DEF Record, KeyInv
  <2>2. CASE ~Repeats(p)
    BY <1>1, <2>2 DEF Record, KeyInv, Repeats, BudgetInv, BudgetTypes
  <2> QED BY <2>1, <2>2
<1>2. ASSUME NEW p \in Purchase, Step(p), ~Record(p) PROVE KeyInv'
  BY <1>2, OthersAddNoRow DEF KeyInv
<1>3. CASE Expire \/ Revoke \/ UNCHANGED vars
  BY <1>3 DEF Expire, Revoke, vars, KeyInv
<1> QED BY <1>1, <1>2, <1>3 DEF Next

\* A request repeated under its key, at once or later, makes one purchase and one
\* release, with any number of requests and keys (OnePurchasePerKey).
THEOREM KeyMakesOnePurchase == Spec => []OnePurchasePerKey
<1>1. Init => KeyInv
  BY DEF Init, KeyInv
<1>2. BudgetInv /\ KeyInv => OnePurchasePerKey
  BY DEF BudgetInv, KeyInv, RowAgrees, OnePurchasePerKey
<1> QED BY <1>1, <1>2, BudgetInit, BudgetStep, KeyStep, PTL DEF Spec

-----------------------------------------------------------------------------
(* Spend is money that moved *)

\* What the sweep read of a release whose money moved stays true while it acts on it.
SpendInv == /\ SpendHasMoved
            /\ sweep # <<>> => /\ sweep[1] \in Purchase
                               /\ sweep[2] \in Moved => release[sweep[1]] \in Moved

\* Money that has moved has moved for good, in every rule of the table.
LEMMA MovedIsKept ==
  \A t \in DOMAIN To : \A s \in From[t] : Class(s) \in Moved => Class(To[t]) \in Moved
<1>1. \A t \in DOMAIN To : From[t] \cap MoneyHasMoved # {} => t = "SETTLEMENT_CONFIRMED"
  BY DEF To, From, MoneyHasMoved
<1>2. \A s : Class(s) \in Moved => s \in MoneyHasMoved
  BY DEF Class, Moved
<1>3. Class(To["SETTLEMENT_CONFIRMED"]) \in Moved
  BY DEF To, Class, Moved, MoneyHasMoved, Terminal
<1> QED BY <1>1, <1>2, <1>3

LEMMA SpendStep == BudgetInv /\ SpendInv /\ [Next]_vars => SpendInv'
<1> SUFFICES ASSUME BudgetInv, SpendInv, [Next]_vars PROVE SpendInv'
  OBVIOUS
<1> USE DEF BudgetInv, BudgetTypes, SpendInv, SpendHasMoved
<1>1. CASE Expire \/ Revoke \/ UNCHANGED vars
  BY <1>1 DEF Expire, Revoke, vars, sweepVars
<1>2. ASSUME NEW p \in Purchase,
             Refuse(p) \/ Replay(p) \/ Open(p) \/ Reserve(p) \/ Count(p) \/ Die(p) \/ StartCapture(p)
      PROVE  SpendInv'
  BY <1>2 DEF Refuse, Replay, Open, Reserve, Count, Die, StartCapture, sweepVars
<1>3. ASSUME NEW p \in Purchase, Record(p) PROVE SpendInv'
  BY <1>3 DEF Record, sweepVars
<1>4. ASSUME NEW p \in Purchase, OrderGate(p) PROVE SpendInv'
  <2>1. release[p] \notin Moved
    BY <1>4 DEF OrderGate, RequestAgrees, Moved
  <2> QED BY <1>4, <2>1 DEF OrderGate, sweepVars
<1>5. ASSUME NEW p \in Purchase, Resolve(p) \/ EndCapture(p) PROVE SpendInv'
  <2>1. PICK outcome \in {release[p], "open"} : ResolveHold(p, outcome)
    BY <1>5 DEF Resolve, EndCapture
  <2>2. row' = row \/ (row' = [row EXCEPT ![p] = "RELEASED"])
        \/ (row' = [row EXCEPT ![p] = "SETTLED"] /\ release[p] \in Moved)
    BY <2>1 DEF ResolveHold, ResolveRow, Moved
  <2> QED BY <1>5, <2>2 DEF Resolve, EndCapture, sweepVars
<1>6. ASSUME NEW p \in Purchase, Fail(p) PROVE SpendInv'
  BY <1>6 DEF Fail, ResolveRow, sweepVars
<1>7. ASSUME NEW p \in Purchase, SweepRead(p) PROVE SpendInv'
  <2>1. sweep' = <<p, release[p]>> \/ sweep' = <<p, "none">>
    BY <1>7 DEF SweepRead
  <2>2. sweep'[1] = p /\ (sweep'[2] = release[p] \/ sweep'[2] = "none")
    BY <2>1
  <2> QED BY <1>7, <2>2 DEF SweepRead, Moved
<1>8. ASSUME NEW p \in Purchase, SweepAct(p) PROVE SpendInv'
  <2>1. row' = row \/ (row' = [row EXCEPT ![p] = "RELEASED"])
        \/ (row' = [row EXCEPT ![p] = "SETTLED"] /\ release[p] \in Moved)
    BY <1>8 DEF SweepAct, ResolveRow
  <2> QED BY <1>8, <2>1 DEF SweepAct
<1>9. ASSUME NEW p \in Purchase, ReleaseMoves(p) PROVE SpendInv'
  <2>1. PICK t \in DOMAIN To : \E s \in From[t] :
                                 release[p] = Class(s) /\ release' = [release EXCEPT ![p] = Class(To[t])]
    BY <1>9 DEF ReleaseMoves
  <2>2. release[p] \in Moved => Class(To[t]) \in Moved
    BY <2>1, MovedIsKept
  <2> QED BY <1>9, <2>1, <2>2 DEF ReleaseMoves, sweepVars
<1> QED BY <1>1, <1>2, <1>3, <1>4, <1>5, <1>6, <1>7, <1>8, <1>9 DEF Next, Step

\* The session never counts as spent what was not paid, whoever settles the hold: the
\* request, a capture or the sweep acting on an older reading (SpendHasMoved).
THEOREM SpendIsMoved == Spec => []SpendHasMoved
<1>1. Init => SpendInv
  BY DEF Init, SpendInv, SpendHasMoved
<1>2. SpendInv => SpendHasMoved
  BY DEF SpendInv
<1> QED BY <1>1, <1>2, BudgetInit, BudgetStep, SpendStep, PTL DEF Spec

-----------------------------------------------------------------------------
(* The counters are sums, and what has moved is counted *)

\* The purchases the counters include.
Included == {p \in Purchase : counted[p] \in {"held", "spent"}}

\* The counters are the sum of what they include, of the purchases made so far.
CountersInv == /\ IsFiniteSet({p \in Purchase : counted[p] # "none"})
               /\ SumOver(hold, Included) = reserved + spent

LEMMA IncludedIsFinite ==
  ASSUME BudgetInv, CountersInv
  PROVE  /\ IsFiniteSet(Included)
         /\ \A p \in Included : hold[p] \in Int
<1>1. Included \in SUBSET {p \in Purchase : counted[p] # "none"}
  BY DEF Included
<1>2. \A p \in Included : hold[p] \in Int
  BY DEF BudgetInv, BudgetTypes, Included
<1> QED BY <1>1, <1>2, FS_Subset DEF CountersInv

LEMMA CountersStep ==
  ASSUME BudgetInv, CountersInv, [Budget!Next]_(Budget!vars)
  PROVE  CountersInv'
<1> USE DEF BudgetInv, BudgetTypes
<1> DEFINE made == {p \in Purchase : counted[p] # "none"}
<1>1. IsFiniteSet(made)
  BY DEF CountersInv
<1>2. ASSUME NEW p \in Purchase, Budget!Hold(p) PROVE CountersInv'
  <2>1. PICK amount \in Price : /\ hold' = [hold EXCEPT ![p] = amount]
                                /\ reserved' = reserved + amount
    BY <1>2 DEF Budget!Hold
  <2>2. amount \in Nat
    BY <2>1, SessionAssumption
  <2>3. p \notin Included /\ Included' = Included \cup {p} /\ made' = made \cup {p}
    BY <1>2 DEF Budget!Hold, Included
  <2>4. IsFiniteSet(made \cup {p})
    BY <1>1, FS_AddElement
  <2>5. \A q \in Included : hold[q] \in Int /\ hold[q] = hold'[q]
    BY <2>1, <2>3 DEF Included
  <2>6. hold'[p] = amount
    BY <2>1
  <2>7. SumOver(hold', Included) = SumOver(hold, Included)
    BY <2>5, IncludedIsFinite, SumCongruence
  <2>8. SumOver(hold', Included \cup {p}) = hold'[p] + SumOver(hold', Included)
    <3>1. \A q \in Included \cup {p} : hold'[q] \in Int
      BY <2>2, <2>5, <2>6
    <3> QED BY <2>3, <3>1, IncludedIsFinite, SumAdd
  <2>9. SumOver(hold', Included') = amount + (reserved + spent)
    BY <2>3, <2>6, <2>7, <2>8 DEF CountersInv
  <2>10. spent' = spent
    BY <1>2 DEF Budget!Hold
  <2>11. SumOver(hold', Included') = reserved' + spent'
    BY <2>1, <2>2, <2>9, <2>10
  <2> HIDE DEF made
  <2>12. IsFiniteSet(made')
    BY <2>3, <2>4
  <2> QED BY <2>11, <2>12 DEF CountersInv, made
<1>3. ASSUME NEW p \in Purchase, Budget!Settle(p) PROVE CountersInv'
  <2>1. Included' = Included /\ made' = made /\ hold' = hold
    BY <1>3 DEF Budget!Settle, Included
  <2>2. reserved' + spent' = reserved + spent
    <3>1. hold[p] \in Int
      OBVIOUS
    <3> QED BY <1>3, <3>1 DEF Budget!Settle
  <2>3. SumOver(hold', Included') = reserved' + spent'
    BY <2>1, <2>2 DEF CountersInv
  <2> HIDE DEF made
  <2>4. IsFiniteSet(made')
    BY <1>1, <2>1
  <2> QED BY <2>3, <2>4 DEF CountersInv, made
<1>4. ASSUME NEW p \in Purchase, Budget!Free(p) PROVE CountersInv'
  <2>1. p \in Included /\ Included' = Included \ {p} /\ made' = made /\ hold' = hold
    BY <1>4 DEF Budget!Free, Included
  <2>2. SumOver(hold, Included) = hold[p] + SumOver(hold, Included \ {p})
    BY <2>1, IncludedIsFinite, SumRemove
  <2>3. SumOver(hold, Included \ {p}) \in Int
    <3>1. IsFiniteSet(Included \ {p}) /\ \A q \in Included \ {p} : hold[q] \in Int
      BY IncludedIsFinite, FS_RemoveElement
    <3> QED BY <3>1, SumType
  <2>4. SumOver(hold', Included') = reserved' + spent'
    <3>1. SumOver(hold', Included') = SumOver(hold, Included \ {p})
      BY <2>1
    <3>2. reserved' = reserved - hold[p] /\ spent' = spent /\ hold[p] \in Int
      BY <1>4 DEF Budget!Free
    <3>3. hold[p] + SumOver(hold, Included \ {p}) = reserved + spent
      BY <2>2 DEF CountersInv
    <3> QED BY <2>3, <3>1, <3>2, <3>3
  <2> HIDE DEF made
  <2>5. IsFiniteSet(made')
    BY <1>1, <2>1
  <2> QED BY <2>4, <2>5 DEF CountersInv, made
<1>5. CASE UNCHANGED Budget!vars
  BY <1>5 DEF Budget!vars, CountersInv, Included
<1> QED BY <1>2, <1>3, <1>4, <1>5 DEF Budget!Next

\* What a row says of the counters and, without a sweep, of its release: a hold is
\* given back only for a release that ended unpaid.
RowInv == /\ sweep # <<>> => scheduled
          /\ \A p \in Purchase :
               /\ owed[p] # "none" => owed[p] = row[p]
               /\ row[p] = "SETTLED" => counted[p] \in {"held", "spent"}
               /\ row[p] = "RELEASED" /\ ~scheduled => release[p] = "ended"

\* A release that ended has no further rule in the table.
LEMMA EndedStays ==
  \A t \in DOMAIN To : \A s \in From[t] : Class(s) # "ended"
<1>1. \A t \in DOMAIN To : From[t] \cap Terminal = {}
  BY DEF To, From, Terminal
<1>2. \A s : Class(s) = "ended" => s \in Terminal
  BY DEF Class
<1> QED BY <1>1, <1>2

\* A row resolved on an outcome that is still the release's.
LEMMA ResolveHoldFits ==
  ASSUME BudgetInv, RowInv, NEW p \in Purchase, NEW outcome \in {release[p], "open"},
         ResolveHold(p, outcome), UNCHANGED <<release, sweepVars, counted>>
  PROVE  RowInv'
<1> USE DEF BudgetInv, BudgetTypes, RowInv, RowAgrees, sweepVars
<1>1. CASE UNCHANGED <<row, owed>>
  BY <1>1
<1>2. CASE row' = [row EXCEPT ![p] = "SETTLED"] /\ owed' = [owed EXCEPT ![p] = "SETTLED"]
           /\ row[p] = "RESERVED"
  BY <1>2
<1>3. CASE row' = [row EXCEPT ![p] = "RELEASED"] /\ owed' = [owed EXCEPT ![p] = "RELEASED"]
           /\ row[p] = "RESERVED" /\ release[p] = "ended"
  BY <1>3
<1> QED BY <1>1, <1>2, <1>3 DEF ResolveHold, ResolveRow, Moved

LEMMA RowInvStep == BudgetInv /\ RowInv /\ [Next]_vars => RowInv'
<1> SUFFICES ASSUME BudgetInv, RowInv, [Next]_vars PROVE RowInv'
  OBVIOUS
<1> USE DEF BudgetInv, BudgetTypes, RowInv
<1>1. CASE Expire \/ Revoke \/ UNCHANGED vars
  BY <1>1 DEF Expire, Revoke, vars, sweepVars, budgetVars
<1>2. ASSUME NEW p \in Purchase, Refuse(p) \/ Replay(p) \/ Open(p) \/ StartCapture(p)
      PROVE  RowInv'
  BY <1>2 DEF Refuse, Replay, Open, StartCapture, sweepVars, budgetVars
<1>3. ASSUME NEW p \in Purchase, Reserve(p) PROVE RowInv'
  <2>1. row[p] = "none"
    BY <1>3 DEF Reserve, RequestAgrees
  <2> QED BY <1>3, <2>1 DEF Reserve, sweepVars
<1>4. ASSUME NEW p \in Purchase, Record(p) PROVE RowInv'
  <2>1. owed[p] = "none"
    BY <1>4 DEF Record, RequestAgrees, RowAgrees
  <2> QED BY <1>4, <2>1 DEF Record, sweepVars, budgetVars
<1>5. ASSUME NEW p \in Purchase, OrderGate(p) PROVE RowInv'
  <2>1. release[p] = "none"
    BY <1>5 DEF OrderGate, RequestAgrees
  <2> QED BY <1>5, <2>1 DEF OrderGate, sweepVars, budgetVars
<1>6. ASSUME NEW p \in Purchase, Resolve(p) \/ EndCapture(p) PROVE RowInv'
  <2>1. PICK outcome \in {release[p], "open"} : ResolveHold(p, outcome)
    BY <1>6 DEF Resolve, EndCapture
  <2>2. UNCHANGED <<release, sweepVars, counted>>
    BY <1>6 DEF Resolve, EndCapture, budgetVars
  <2> HIDE DEF RowInv, BudgetInv, BudgetTypes
  <2> QED BY <2>1, <2>2, ResolveHoldFits
<1>7. ASSUME NEW p \in Purchase, Count(p) PROVE RowInv'
  <2>1. owed[p] = row[p] /\ row[p] \in {"SETTLED", "RELEASED"}
    BY <1>7 DEF Count
  <2> QED BY <1>7, <2>1 DEF Count, sweepVars
<1>8. ASSUME NEW p \in Purchase, Fail(p) PROVE RowInv'
  <2>1. row[p] = "none"
    BY <1>8 DEF Fail, RequestAgrees
  <2> QED BY <1>8, <2>1 DEF Fail, ResolveRow, sweepVars, budgetVars
<1>9. ASSUME NEW p \in Purchase, Die(p) PROVE RowInv'
  BY <1>9 DEF Die, sweepVars, budgetVars
<1>10. ASSUME NEW p \in Purchase, SweepRead(p) PROVE RowInv'
  BY <1>10 DEF SweepRead, budgetVars
<1>11. ASSUME NEW p \in Purchase, SweepAct(p) PROVE RowInv'
  <2>1. scheduled
    BY <1>11 DEF SweepAct
  <2>2. sweep' = <<>> /\ scheduled' /\ counted' = counted
    BY <1>11, <2>1 DEF SweepAct, budgetVars
  <2>3. CASE UNCHANGED <<row, owed>>
    BY <2>1, <2>2, <2>3
  <2>4. ASSUME NEW to \in {"SETTLED", "RELEASED"}, row[p] = "RESERVED",
               row' = [row EXCEPT ![p] = to], owed' = [owed EXCEPT ![p] = to]
        PROVE  RowInv'
    BY <2>1, <2>2, <2>4 DEF RowAgrees
  <2> QED BY <1>11, <2>3, <2>4 DEF SweepAct, ResolveRow
<1>12. ASSUME NEW p \in Purchase, ReleaseMoves(p) PROVE RowInv'
  <2>1. release[p] # "ended" /\ \A q \in Purchase \ {p} : release'[q] = release[q]
    BY <1>12, EndedStays DEF ReleaseMoves
  <2> QED BY <1>12, <2>1 DEF ReleaseMoves, sweepVars, budgetVars
<1> QED BY <1>1, <1>2, <1>3, <1>4, <1>5, <1>6, <1>7, <1>8, <1>9, <1>10, <1>11, <1>12 DEF Next, Step

\* Where no sweep runs, as deployed, the money that has moved is covered by what the
\* counters include, so a session never buys for more than was delegated to it
\* (MoneyIsWithinBudget), for any purchases, prices and crashes.
THEOREM MovedMoneyIsCovered == Spec => []MoneyIsWithinBudget
<1>1. Init => CountersInv /\ RowInv
  <2> SUFFICES ASSUME Init PROVE CountersInv /\ RowInv
    OBVIOUS
  <2>1. Included = {} /\ {p \in Purchase : counted[p] # "none"} = {}
    BY DEF Init, Included
  <2>2. SumOver(hold, {}) = 0 /\ reserved + spent = 0
    BY SumEmpty DEF Init
  <2>3. CountersInv
    BY <2>1, <2>2, FS_EmptySet, Zenon DEF CountersInv
  <2> QED BY <2>3 DEF Init, RowInv
<1>2. BudgetInv /\ CountersInv /\ [Next]_vars => CountersInv'
  BY StepIsBudgetStep, CountersStep
<1>3. BudgetInv /\ CountersInv /\ RowInv => MoneyIsWithinBudget
  <2> SUFFICES ASSUME BudgetInv, CountersInv, RowInv, ~scheduled
               PROVE  SumOver(hold, {p \in Purchase : release[p] \in Moved}) <= reserved + spent
    BY DEF MoneyIsWithinBudget, Amount, SumOver
  <2> DEFINE moved == {p \in Purchase : release[p] \in Moved}
  <2>1. moved \in SUBSET Included
    BY DEF BudgetInv, BudgetTypes, RowAgrees, RowInv, Included, Moved
  <2>2. \A p \in Included : hold[p] \in Nat
    BY DEF BudgetInv, BudgetTypes, Included
  <2> HIDE DEF moved
  <2>3. SumOver(hold, moved) <= SumOver(hold, Included)
    BY <2>1, <2>2, IncludedIsFinite, SumOfPart
  <2> QED BY <2>3 DEF moved, CountersInv
<1> QED BY <1>1, <1>2, <1>3, BudgetInit, BudgetStep, RowInvStep, PTL DEF Spec
=============================================================================
