---------------------------- MODULE MCTrueIntent ----------------------------
EXTENDS TrueIntent, TLC

CONSTANTS a1, r1, r2, p1, p2, p3, p4, w1, w2

OneMandate == [r \in Release |-> a1]
Twins      == Permutations(Request)

\* With no worker and no operator who reconciles, nothing reads how old a row is,
\* and nothing ever reads what the evidence says, which calls have left or what a
\* request that is over was about.
MCRead == <<state, orderId, paymentId, attempts, authorization, openReview, approved,
            wire, reply, order, payment, hookVars, resolving, pc, locals,
            [p \in {q \in Request : pc[q] \notin {"idle", "done"} \/ q \in wire} |-> <<gate[p], on[p]>>]>>
=============================================================================
