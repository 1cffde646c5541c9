----------------------------- MODULE MCCommerce -----------------------------
EXTENDS CommerceSession, TLC

CONSTANTS b1, b2, b3, k1, k2

\* Two requests repeat one key; the third is another purchase.
Repeated == [p \in Purchase |-> IF p = b3 THEN k2 ELSE k1]
Twins    == Permutations({b1, b2})
=============================================================================
