------------------------------ MODULE MCStores ------------------------------
(* Two rows per table and two moments, so that every uniqueness rule, every *)
(* tie and every limit of one row is met.                                   *)
EXTENDS MemoryStore

MCNewReleases ==
  {[id |-> 1, mandate |-> m, key |-> m, receipt |-> m] : m \in {1, 2}} \cup
  {[id |-> 2, mandate |-> p[1], key |-> p[2], receipt |-> p[3]] :
     p \in {<<2, 2, 2>>, <<1, 2, 2>>, <<2, 1, 2>>, <<2, 2, 1>>}}

MCMoves ==
  {[from |-> {"DRAFT"}, to |-> "ORDER_IN_FLIGHT", clock |-> "set", binds |-> 0],
   [from |-> {"DRAFT", "ORDER_IN_FLIGHT"}, to |-> "ORDER_CREATED", clock |-> "clear", binds |-> 1],
   [from |-> {"DRAFT"}, to |-> "ABORTED", clock |-> "keep", binds |-> 0]}

\* The last call and its answer decide nothing that follows; a step is compared
\* with the database's whenever it is generated.
MCView == <<table, shelf, saved, open, failed, writes>>
=============================================================================
