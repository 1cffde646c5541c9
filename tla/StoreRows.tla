----------------------------- MODULE StoreRows -----------------------------
(***************************************************************************)
(* What the two stores have in common: the tables, the rows callers insert *)
(* and the compare-and-sets they ask for, and the total orders of the list *)
(* queries.                                                                *)
(*                                                                         *)
(* Abstractions.  A row is what the indexes, predicates and orders of its  *)
(* table read; 0 is NULL.  The two provider ids of a release obey the same *)
(* rules and are one column.                                               *)
(***************************************************************************)
EXTENDS Naturals, FiniteSets, SequencesExt, ReleaseFSM

CONSTANTS
  Id,           \* row ids and the values of unique columns, 1 .. n
  Moment,       \* timestamps, 1 .. n
  Limit,        \* the LIMIT of the list queries
  NewReleases,  \* the releases a caller may insert: [id, mandate, key, receipt]
  Moves,        \* the compare-and-sets a caller may ask: [from, to, clock, binds], binds
                \* the provider id it writes, or 0
  Budget,       \* a session's total
  Expiry,       \* the moment a session expires
  RefusedInTransaction  \* the tables into which a transaction may insert a row that is already there

ASSUME StoreAssumption ==
  /\ Id \subseteq Nat \ {0}
  /\ NewReleases \subseteq [id : Id, mandate : Id, key : Id, receipt : Id]

Table   == {"releases", "snapshots", "evaluations", "reviews", "inbox", "purchases", "mandates"}
Silence == [kind |-> "none", rows |-> <<>>]

Fresh(p, at) == [id |-> p.id, mandate |-> p.mandate, key |-> p.key, receipt |-> p.receipt,
                 state |-> "DRAFT", provider |-> 0, inFlight |-> 0, created |-> at, updated |-> at]
Moved(r, m, at) ==
  [r EXCEPT !.state    = m.to,
            !.provider = IF m.binds # 0 THEN m.binds ELSE @,
            !.inFlight = CASE m.clock = "set" -> at [] m.clock = "clear" -> 0 [] OTHER -> @,
            !.updated  = at]
NewSnapshot(i, h)      == [id |-> i, hash |-> h, redeemed |-> 0]
NewEvaluation(i, r, m) == [id |-> i, release |-> r, at |-> m]
NewMandate(i)          == [id |-> i, state |-> "ACTIVE", release |-> 0]
NewReview(i, r, h, at) ==
  [id |-> i, release |-> r, hash |-> h, state |-> "OPEN", created |-> at, resolved |-> 0]
NewPurchase(i, q, at) ==
  [id |-> i, request |-> q, amount |-> i, state |-> "RESERVED", created |-> at]

\* The order of two rows by a column, the id breaking ties.
Precedes(f, a, b) == a[f] < b[f] \/ (a[f] = b[f] /\ a.id < b.id)
Shortest(q)       == SubSeq(q, 1, IF Len(q) < Limit THEN Len(q) ELSE Limit)
=============================================================================
