-------------------------- MODULE CommerceSession --------------------------
(***************************************************************************)
(* A commerce session: an agent's purchase requests against a delegated    *)
(* budget (packages/kernel/src/services/commerce-session-service.ts) over  *)
(* the session row and the purchase rows                                   *)
(* (packages/persistence/src/postgres/session-repository.ts).              *)
(*                                                                         *)
(* One purchase is one call of requestPurchase and the mandate it mints.   *)
(* The service awaits the database between its steps, so steps of several  *)
(* requests, of capture requests and of the sweep interleave; the counters *)
(* move by a statement of their own after a purchase row's compare-and-set.*)
(* A release is seen through what the session service asks of it: whether  *)
(* it has ended and whether money has moved (ReleaseFSM).                  *)
(***************************************************************************)
EXTENDS ReleaseFSM, Integers, FiniteSetsExt

CONSTANTS Purchase,        \* the calls of requestPurchase
          KeyOf,           \* the idempotency key each is made with
          Price,           \* the totals a quote may come to
          Total,           \* bounds.totalBudget
          MaxPerPurchase   \* bounds.maxPerPurchase

ASSUME SessionAssumption == /\ Total \in Nat
                            /\ MaxPerPurchase \in Nat
                            /\ Price \subseteq Nat

VARIABLES standing,  \* of the session
          reserved, spent,
          row,       \* settlement_state of each purchase's row
          hold,      \* reserved_minor of each purchase: its quote's total
          ceiling,   \* maxTotal of the mandate each purchase derived
          release,   \* what the purchase's release looks like from here
          at,        \* where each request stands
          capturing, \* the purchases a capture request is at work on
          owed,      \* the counter move that follows a row's compare-and-set
          sweep,     \* the row the sweep is at, and the release it read for it
          scheduled, \* whether anything calls sweepUnsettledPurchases
          counted    \* what the counters include of each purchase (for SessionBudget)

budgetVars == <<counted, hold, reserved, spent>>
sweepVars  == <<sweep, scheduled>>
vars == <<standing, row, ceiling, release, at, capturing, owed, budgetVars, sweepVars>>

-----------------------------------------------------------------------------
(* A release, seen from the session *)

Class(s) == IF s \in MoneyHasMoved
              THEN IF s \in Terminal THEN "settled" ELSE "captured"
              ELSE IF s \in Terminal THEN "ended" ELSE "open"

Moved == {"captured", "settled"}

\* findActiveByAuthorization answers a release that has not ended.
ActiveRelease(p) == release[p] \in {"open", "captured"}

TypeOK == /\ standing \in {"ACTIVE", "EXPIRED", "REVOKED"}
          /\ reserved \in Int
          /\ spent \in Int
          /\ row \in [Purchase -> {"none", "RESERVED", "SETTLED", "RELEASED"}]
          /\ hold \in [Purchase -> Nat]
          /\ ceiling \in [Purchase -> 0 .. MaxPerPurchase]
          /\ release \in [Purchase -> {"none", "open", "captured", "settled", "ended"}]
          /\ at \in [Purchase -> {"idle", "quoted", "held", "recorded", "answered", "over"}]
          /\ capturing \in SUBSET Purchase
          /\ owed \in [Purchase -> {"none", "SETTLED", "RELEASED"}]
          /\ sweep \in {<<>>} \cup (Purchase \X {"none", "open", "captured", "settled", "ended"})
          /\ scheduled \in BOOLEAN
          /\ counted \in [Purchase -> {"none", "held", "spent", "freed"}]

Init == /\ standing = "ACTIVE"
        /\ reserved = 0
        /\ spent = 0
        /\ row = [p \in Purchase |-> "none"]
        /\ hold = [p \in Purchase |-> 0]
        /\ ceiling = [p \in Purchase |-> 0]
        /\ release = [p \in Purchase |-> "none"]
        /\ at = [p \in Purchase |-> "idle"]
        /\ capturing = {}
        /\ owed = [p \in Purchase |-> "none"]
        /\ sweep = <<>>
        /\ scheduled \in BOOLEAN
        /\ counted = [p \in Purchase |-> "none"]

Remaining == Total - reserved - spent

-----------------------------------------------------------------------------
(* requestPurchase *)

GoTo(p, pc) == at' = [at EXCEPT ![p] = pc]

\* purchaseCeiling: what the session had left when it was read, or less.
Ceiling == IF Remaining < MaxPerPurchase THEN Remaining ELSE MaxPerPurchase

\* The mandate a purchase derives from the session's bounds.
DeriveIntent(p) == ceiling' = [ceiling EXCEPT ![p] = Ceiling]

\* A purchase the key has already made.
Repeats(p) == \E q \in Purchase : KeyOf[q] = KeyOf[p] /\ row[q] # "none"

\* The session is over, or the request is outside the scope delegated to it.
Refuse(p) ==
  /\ at[p] = "idle"
  /\ GoTo(p, "over")
  /\ UNCHANGED <<standing, row, ceiling, release, capturing, owed, budgetVars, sweepVars>>

\* replayPurchase answers from the purchase the key has made. The order gate it
\* drives again moves the release as ReleaseMoves does.
Replay(p) ==
  /\ at[p] = "idle" /\ standing = "ACTIVE" /\ Repeats(p)
  /\ GoTo(p, "over")
  /\ UNCHANGED <<standing, row, ceiling, release, capturing, owed, budgetVars, sweepVars>>

\* Derives the mandate and quotes the cart, which may not be available.
Open(p) ==
  /\ at[p] = "idle" /\ standing = "ACTIVE" /\ ~Repeats(p)
  /\ IF Remaining <= 0
       THEN GoTo(p, "over") /\ UNCHANGED ceiling
       ELSE DeriveIntent(p) /\ (GoTo(p, "quoted") \/ GoTo(p, "over"))
  /\ UNCHANGED <<standing, row, release, capturing, owed, budgetVars, sweepVars>>

\* The one statement that commits budget. It compares expires_at with the moment the
\* request began, and the session's state as it is.
Reserve(p) ==
  /\ at[p] = "quoted"
  /\ \E total \in Price :
       IF standing # "REVOKED" /\ reserved + spent + total <= Total
         THEN /\ hold' = [hold EXCEPT ![p] = total]
              /\ reserved' = reserved + total
              /\ counted' = [counted EXCEPT ![p] = "held"]
              /\ GoTo(p, "held")
         ELSE /\ GoTo(p, "over")
              /\ UNCHANGED <<hold, reserved, counted>>
  /\ UNCHANGED <<standing, spent, row, ceiling, release, capturing, owed, sweepVars>>

\* Mutant of Record: without the unique index.
RecordTwice(p) ==
  /\ at[p] = "held"
  /\ row' = [row EXCEPT ![p] = "RESERVED"]
  /\ GoTo(p, "recorded")
  /\ UNCHANGED <<standing, ceiling, release, capturing, owed, budgetVars, sweepVars>>

\* The purchase row and the capsule's envelope in one transaction. The row of a
\* concurrent identical request fails it on the unique index; the hold is a
\* statement that was committed before.
Record(p) ==
  /\ at[p] = "held"
  /\ IF Repeats(p)
       THEN GoTo(p, "over") /\ UNCHANGED row
       ELSE /\ row' = [row EXCEPT ![p] = "RESERVED"]
            /\ GoTo(p, "recorded")
  /\ UNCHANGED <<standing, ceiling, release, capturing, owed, budgetVars, sweepVars>>

\* requestOrderCreation, which may also refuse before there is a release.
OrderGate(p) ==
  /\ at[p] = "recorded"
  /\ \/ release' = [release EXCEPT ![p] = "open"]
     \/ UNCHANGED release
  /\ GoTo(p, "answered")
  /\ UNCHANGED <<standing, row, ceiling, capturing, owed, budgetVars, sweepVars>>

\* Mutant of ResolveRow: the row's state is not compared.
ResolveRowAgain(p, to) ==
  /\ row' = [row EXCEPT ![p] = to]
  /\ owed' = [owed EXCEPT ![p] = to]

\* settlePurchase and releasePurchase: the row is won or lost first, and the
\* winner owes the counters a second statement.
ResolveRow(p, to) ==
  IF row[p] = "RESERVED"
    THEN /\ row' = [row EXCEPT ![p] = to]
         /\ owed' = [owed EXCEPT ![p] = to]
    ELSE UNCHANGED <<row, owed>>

\* Mutant of ResolveHold: a live release is taken for one that ended.
ResolveHoldEarly(p, outcome) ==
  IF outcome \in Moved THEN ResolveRow(p, "SETTLED") ELSE ResolveRow(p, "RELEASED")

\* Mutant of ResolveHold: a release that ended is taken for a purchase that was paid.
ResolveHoldAsSpent(p, outcome) ==
  IF outcome \in Moved \cup {"ended"} THEN ResolveRow(p, "SETTLED") ELSE UNCHANGED <<row, owed>>

\* resolveHoldIfTerminal, on the outcome the release service answered with.
ResolveHold(p, outcome) ==
  \/ outcome \in Moved /\ ResolveRow(p, "SETTLED")
  \/ outcome = "ended" /\ ResolveRow(p, "RELEASED")
  \/ outcome = "open" /\ UNCHANGED <<row, owed>>

\* The outcome was true when the release service answered; the release may have
\* gone on since.
Resolve(p) ==
  /\ at[p] = "answered"
  /\ \E outcome \in {release[p], "open"} : ResolveHold(p, outcome)
  /\ GoTo(p, "over")
  /\ UNCHANGED <<standing, ceiling, release, capturing, budgetVars, sweepVars>>

\* The second statement of settlePurchase and of releasePurchase.
Count(p) ==
  /\ owed[p] # "none"
  /\ owed' = [owed EXCEPT ![p] = "none"]
  /\ reserved' = reserved - hold[p]
  /\ IF owed[p] = "SETTLED"
       THEN /\ spent' = spent + hold[p]
            /\ counted' = [counted EXCEPT ![p] = "spent"]
       ELSE /\ counted' = [counted EXCEPT ![p] = "freed"]
            /\ UNCHANGED spent
  /\ UNCHANGED <<standing, row, hold, ceiling, release, at, capturing, sweepVars>>

\* The transaction of Record fails: releaseHoldQuietly looks for the row that
\* was rolled back with it.
Fail(p) ==
  /\ at[p] = "held"
  /\ GoTo(p, "over")
  /\ ResolveRow(p, "RELEASED")
  /\ UNCHANGED <<standing, ceiling, release, capturing, budgetVars, sweepVars>>

\* The process dies.
Die(p) ==
  /\ \/ at[p] \in {"quoted", "held", "recorded", "answered"} /\ GoTo(p, "over") /\ UNCHANGED owed
     \/ owed[p] # "none" /\ owed' = [owed EXCEPT ![p] = "none"] /\ UNCHANGED at
  /\ UNCHANGED <<standing, row, ceiling, release, capturing, budgetVars, sweepVars>>

-----------------------------------------------------------------------------
(* requestCapture, the sweep, the issuer, the clock and the release *)

StartCapture(p) ==
  /\ p \notin capturing
  /\ row[p] # "none"
  /\ ActiveRelease(p)
  /\ capturing' = capturing \cup {p}
  /\ UNCHANGED <<standing, row, ceiling, release, at, owed, budgetVars, sweepVars>>

EndCapture(p) ==
  /\ p \in capturing
  /\ capturing' = capturing \ {p}
  /\ \E outcome \in {release[p], "open"} : ResolveHold(p, outcome)
  /\ UNCHANGED <<standing, ceiling, release, at, budgetVars, sweepVars>>

\* One row of findUnsettledPurchases, and the active release read for it. How long
\* a request takes is not bounded, so a row may be past settleAfterSeconds at any
\* moment after it was written.
SweepRead(p) ==
  /\ scheduled
  /\ sweep = <<>>
  /\ row[p] = "RESERVED"
  /\ sweep' = <<p, IF ActiveRelease(p) THEN release[p] ELSE "none">>
  /\ UNCHANGED <<standing, row, ceiling, release, at, capturing, owed, budgetVars, scheduled>>

SweepAct(p) ==
  /\ sweep # <<>> /\ sweep[1] = p
  /\ sweep' = <<>>
  /\ \/ sweep[2] = "none" /\ ResolveRow(p, "RELEASED")
     \/ sweep[2] \in Moved /\ ResolveRow(p, "SETTLED")
     \/ sweep[2] = "open" /\ UNCHANGED <<row, owed>>
  /\ UNCHANGED <<standing, ceiling, release, at, capturing, budgetVars, scheduled>>

\* Only a request that begins after it is refused for it.
Expire ==
  /\ standing = "ACTIVE"
  /\ standing' = "EXPIRED"
  /\ UNCHANGED <<row, ceiling, release, at, capturing, owed, budgetVars, sweepVars>>

\* The row of a session past its expires_at is still ACTIVE.
Revoke ==
  /\ standing # "REVOKED"
  /\ standing' = "REVOKED"
  /\ UNCHANGED <<row, ceiling, release, at, capturing, owed, budgetVars, sweepVars>>

\* The release moves by one of its own transitions, whoever makes it. The kernel
\* denies a total above the mandate's ceiling, at both gates.
ReleaseMoves(p) ==
  /\ \E t \in DOMAIN To : \E s \in From[t] :
       /\ release[p] = Class(s)
       /\ Class(To[t]) # Class(s)
       /\ Class(To[t]) = "captured" => hold[p] <= ceiling[p]
       /\ release' = [release EXCEPT ![p] = Class(To[t])]
  /\ UNCHANGED <<standing, row, ceiling, at, capturing, owed, budgetVars, sweepVars>>

-----------------------------------------------------------------------------

Step(p) == \/ Refuse(p) \/ Replay(p) \/ Open(p) \/ Reserve(p) \/ Record(p)
           \/ OrderGate(p) \/ Resolve(p) \/ Count(p) \/ Fail(p) \/ Die(p)
           \/ StartCapture(p) \/ EndCapture(p)
           \/ SweepRead(p) \/ SweepAct(p)
           \/ ReleaseMoves(p)

Next == Expire \/ Revoke \/ \E p \in Purchase : Step(p)

Spec == Init /\ [][Next]_vars

-----------------------------------------------------------------------------
(* Properties *)

Amount(S) == MapThenSumSet(LAMBDA p : hold[p], S)

\* The check constraint commerce_sessions_budget_bounded is never what stops a
\* statement: the counters stay within the budget by the service's own steps.
BudgetBounded == reserved + spent <= Total

\* With no sweep running, as deployed, money that has moved is under a hold that
\* the budget still includes: a session never buys for more than was delegated.
MoneyIsWithinBudget ==
  ~scheduled => Amount({p \in Purchase : release[p] \in Moved}) <= reserved + spent

\* The session never reports spend for a purchase whose money did not move.
SpendHasMoved == \A p \in Purchase : row[p] = "SETTLED" => release[p] \in Moved

\* A request repeated under its key, at once or later, makes one purchase: no two
\* mandates of one key are ever recorded or released.
OnePurchasePerKey ==
  \A p, q \in Purchase :
    KeyOf[p] = KeyOf[q] /\ row[p] # "none" /\ release[q] # "none" => p = q

\* Every purchase is held, settled or freed at most once, and never beyond the
\* budget: the service implements SessionBudget.
Budget == INSTANCE SessionBudget
BudgetKept == Budget!Spec

\* ADR-021: a crash leaves the budget withheld, "recoverable by a sweep - rather
\* than a budget that can be spent twice". Money that moved keeps its hold.
MovedMoneyStaysHeld == \A p \in Purchase : release[p] \in Moved => row[p] # "RELEASED"

\* The other half: what is withheld for a request that is over is under a row
\* that the sweep reads.
HoldIsRecoverable ==
  \A p \in Purchase :
    at[p] = "over" /\ counted[p] = "held" => row[p] # "none"
=============================================================================
