--------------------------- MODULE SessionBudget ---------------------------
(***************************************************************************)
(* What a commerce session promises about its budget: every purchase takes *)
(* at most one hold, a hold is converted into spend or given back at most  *)
(* once, and holds and spend never pass what the user delegated.           *)
(* commerce-session-service.ts states it ("Why the budget hold comes       *)
(* before the release"); CommerceSession is shown to keep it.              *)
(***************************************************************************)
EXTENDS Integers

CONSTANTS Purchase,  \* the purchases a session is asked for
          Price,     \* the amounts a purchase may come to
          Total      \* totalBudget, in minor units

VARIABLES counted,   \* what the counters say of each purchase
          hold,      \* the amount each purchase was held at
          reserved, spent

vars == <<counted, hold, reserved, spent>>

Init == /\ counted = [p \in Purchase |-> "none"]
        /\ hold = [p \in Purchase |-> 0]
        /\ reserved = 0
        /\ spent = 0

Hold(p) ==
  /\ counted[p] = "none"
  /\ \E amount \in Price :
       /\ reserved + spent + amount <= Total
       /\ hold' = [hold EXCEPT ![p] = amount]
       /\ reserved' = reserved + amount
  /\ counted' = [counted EXCEPT ![p] = "held"]
  /\ UNCHANGED spent

Settle(p) ==
  /\ counted[p] = "held"
  /\ counted' = [counted EXCEPT ![p] = "spent"]
  /\ reserved' = reserved - hold[p]
  /\ spent' = spent + hold[p]
  /\ UNCHANGED hold

Free(p) ==
  /\ counted[p] = "held"
  /\ counted' = [counted EXCEPT ![p] = "freed"]
  /\ reserved' = reserved - hold[p]
  /\ UNCHANGED <<hold, spent>>

Next == \E p \in Purchase : Hold(p) \/ Settle(p) \/ Free(p)

Spec == Init /\ [][Next]_vars
=============================================================================
