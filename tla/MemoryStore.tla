---------------------------- MODULE MemoryStore ----------------------------
(***************************************************************************)
(* The in-memory repositories the offline suites run on                    *)
(* (packages/persistence/src/memory): JavaScript maps, read in insertion   *)
(* order, two hand-kept indexes, sorts after filters, and a unit of work   *)
(* that copies the maps and puts them back.  Every offline test of the     *)
(* services believes that these answer as the database does: Parity.       *)
(***************************************************************************)
EXTENDS StoreRows, TLC

CONSTANT MaxWrites  \* bound: calls that change a row

VARIABLES
  table,   \* the table this behaviour exercises
  open,    \* whether a transaction is open
  failed,  \* whether its callback has thrown
  asked,   \* the last call: its name and arguments
  answer,  \* what it returned: [kind, rows]
  shelf,   \* the maps: rows in insertion order, the session, and the two indexes
  saved,   \* the copies withTransaction restores on a throw
  writes   \* writes so far

memVars == <<table, shelf, saved, open, failed, asked, answer, writes>>

NoIndex  == [i \in Id |-> 0]
EmptyShelf == [rows |-> <<>>, session |-> [state |-> "ACTIVE", reserved |-> 0, spent |-> 0],
               byKey |-> NoIndex, byReceipt |-> NoIndex]
Contents(s) == [rows |-> Range(s.rows), session |-> s.session]

Leaves(s, kind, rs) == [shelf |-> s, answer |-> [kind |-> kind, rows |-> rs]]
Told(s, rs)         == Leaves(s, "rows", rs)
Thrown(s)           == Leaves(s, "violation", <<>>)

\* Map.has, Map.get, Map.set, and the first of the values that a loop returns.
Holds(s, id)    == \E x \in Range(s.rows) : x.id = id
RowWith(s, id)  == CHOOSE x \in Range(s.rows) : x.id = id
Get(s, id)      == IF Holds(s, id) THEN <<RowWith(s, id)>> ELSE <<>>
Put(s, r)       == IF Holds(s, r.id)
                   THEN [s EXCEPT !.rows = [k \in DOMAIN s.rows |->
                                              IF s.rows[k].id = r.id THEN r ELSE s.rows[k]]]
                   ELSE [s EXCEPT !.rows = Append(s.rows, r)]
Where(s, P(_))  == SelectSeq(s.rows, P)
First(q)        == SubSeq(q, 1, IF q = <<>> THEN 0 ELSE 1)
SomeRow(s, P(_)) == \E x \in Range(s.rows) : P(x)
InOrder(q, f)   == Shortest(SortSeq(q, LAMBDA a, b : Precedes(f, a, b)))
InReverse(q, f) == Shortest(SortSeq(q, LAMBDA a, b : Precedes(f, b, a)))

\* The bug the comments of repositories.ts warn of: truncate, then sort.
InOrderLate(q, f) == SortSeq(Shortest(q), LAMBDA a, b : Precedes(f, a, b))

----------------------------------------------------------------------------
(* The repositories.                                                       *)

IdTaken(s, id, bound) == SomeRow(s, LAMBDA x : x.id # id /\ bound # 0 /\ x.provider = bound)

MemInsertRelease(s, r) ==
  LET active == First(Where(s, LAMBDA x : x.mandate = r.mandate /\ x.state \notin Terminal))
      filed  == [Put(s, r) EXCEPT !.byKey[r.key] = r.id, !.byReceipt[r.receipt] = r.id]
  IN  IF s.byKey[r.key] # 0 THEN Leaves(s, "duplicate_key", Get(s, s.byKey[r.key]))
      ELSE IF active # <<>> THEN Leaves(s, "busy", active)
      ELSE IF Holds(s, r.id) \/ s.byReceipt[r.receipt] # 0 \/ IdTaken(s, r.id, r.provider) THEN Thrown(s)
      ELSE Leaves(filed, "inserted", <<r>>)

MemMoveRelease(s, id, m, at) ==
  LET x == RowWith(s, id)
  IN  IF ~Holds(s, id) \/ x.state \notin m.from THEN Told(s, <<>>)
      ELSE IF IdTaken(s, id, m.binds) THEN Thrown(s)
      ELSE Told(Put(s, Moved(x, m, at)), <<Moved(x, m, at)>>)

ByIndex(s, index, v)    == Told(s, IF index[v] = 0 THEN <<>> ELSE Get(s, index[v]))
MemFind(s, c, v) ==
  CASE c = "id" -> Told(s, Get(s, v))
    [] c = "key" -> ByIndex(s, s.byKey, v)
    [] c = "receipt" -> ByIndex(s, s.byReceipt, v)
    [] OTHER -> Told(s, First(Where(s, LAMBDA x : x[c] = v)))
MemFindActive(s, m) ==
  Told(s, First(Where(s, LAMBDA x : x.mandate = m /\ x.state \notin Terminal)))
MemListByMandate(s, m) ==
  Told(s, InReverse(Where(s, LAMBDA x : x.mandate = m), "created"))
MemToReconcile(s, at) ==
  Told(s, InOrder(Where(s, LAMBDA x : x.inFlight # 0 /\ x.inFlight <= at /\ x.state \in Indeterminate), "inFlight"))
MemAbandoned(s, at) ==
  Told(s, InOrder(Where(s, LAMBDA x : x.state \in Transient /\ x.updated <= at), "updated"))
MemNeedingAttentionLate(s) ==
  Told(s, InOrderLate(Where(s, LAMBDA x : x.state \in Indeterminate \cup {"PAUSED"}), "updated"))
MemNeedingAttention(s) ==
  Told(s, InOrder(Where(s, LAMBDA x : x.state \in Indeterminate \cup {"PAUSED"}), "updated"))

MemInsertUnique(s, r, columns) ==
  IF Holds(s, r.id) \/ SomeRow(s, LAMBDA x : \E c \in columns : x[c] = r[c]) THEN Thrown(s)
  ELSE Leaves(Put(s, r), "inserted", <<r>>)

MemClaimSnapshot(s, id, release) ==
  LET x == RowWith(s, id)
      n == [x EXCEPT !.redeemed = release]
  IN  IF ~Holds(s, id) \/ x.redeemed \notin {0, release} THEN Told(s, <<>>) ELSE Told(Put(s, n), <<n>>)

MemListByRelease(s, release) == Told(s, InOrder(Where(s, LAMBDA x : x.release = release), "at"))

MemInsertReview(s, r) ==
  IF Holds(s, r.id) THEN Leaves(s, "inserted", <<>>)
  ELSE IF SomeRow(s, LAMBDA x : x.release = r.release /\ x.state = "OPEN") THEN Thrown(s)
  ELSE Leaves(Put(s, r), "inserted", <<>>)

MemResolveReview(s, id, to, at) ==
  LET x == RowWith(s, id)
      n == [x EXCEPT !.state = to, !.resolved = at]
  IN  IF ~Holds(s, id) \/ x.state # "OPEN" THEN Told(s, <<>>) ELSE Told(Put(s, n), <<n>>)

MemFindOpen(s, release) ==
  Told(s, First(Where(s, LAMBDA x : x.release = release /\ x.state = "OPEN")))
MemListOpen(s) == Told(s, InOrder(Where(s, LAMBDA x : x.state = "OPEN"), "created"))
MemFindApproved(s, release, hash) ==
  LET approved == Where(s, LAMBDA x : /\ x.release = release /\ x.state = "APPROVED"
                                      /\ x.resolved # 0 /\ x.hash = hash)
  IN  Told(s, First(InReverse(approved, "resolved")))

MemClaimEvent(s, id) ==
  LET r == [id |-> id, status |-> "RECEIVED", release |-> 0]
  IN  IF Holds(s, id) THEN Leaves(s, "duplicate", Get(s, id)) ELSE Leaves(Put(s, r), "inserted", <<r>>)

MemMarkProcessed(s, id, status, release) ==
  LET x == RowWith(s, id)
      n == [x EXCEPT !.status = status, !.release = IF release = 0 THEN @ ELSE release]
  IN  [shelf |-> IF Holds(s, id) THEN Put(s, n) ELSE s, answer |-> Silence]

MemReserve(s, amount, at) ==
  LET h == s.session
  IN  IF h.state # "ACTIVE" THEN Leaves(s, "not_active", <<>>)
      ELSE IF Expiry <= at THEN Leaves(s, "expired", <<>>)
      ELSE IF h.reserved + h.spent + amount > Budget THEN Leaves(s, "over_budget", <<>>)
      ELSE Leaves([s EXCEPT !.session.reserved = @ + amount], "reserved", <<>>)

MemRecordPurchase(s, r) ==
  LET same == First(Where(s, LAMBDA x : x.request = r.request))
  IN  IF same # <<>> THEN Leaves(s, "duplicate", same)
      ELSE IF Holds(s, r.id) THEN Thrown(s)
      ELSE Leaves(Put(s, r), "inserted", <<r>>)

MemEndPurchase(s, id, to) ==
  LET x == RowWith(s, id)
      n == [x EXCEPT !.state = to]
      counted == [s.session EXCEPT !.reserved = @ - x.amount,
                                   !.spent    = IF to = "SETTLED" THEN @ + x.amount ELSE @]
  IN  IF ~Holds(s, id) \/ x.state # "RESERVED" THEN Told(s, <<>>)
      ELSE Told([Put(s, n) EXCEPT !.session = counted], <<n>>)

MemMoveSession(s, to) ==
  IF s.session.state # "ACTIVE" THEN Leaves(s, "lost", <<>>)
  ELSE Leaves([s EXCEPT !.session.state = to], "rows", <<>>)

MemUnsettled(s, at) ==
  Told(s, InOrder(Where(s, LAMBDA x : x.state = "RESERVED" /\ x.created < at), "created"))
MemListPurchases(s) == Told(s, InReverse(s.rows, "created"))

MemMoveMandate(s, id, to, release) ==
  LET x == RowWith(s, id)
      n == [x EXCEPT !.state = to, !.release = IF release = 0 THEN @ ELSE release]
  IN  IF ~Holds(s, id) \/ x.state # "ACTIVE" THEN Told(s, <<>>) ELSE Told(Put(s, n), <<n>>)

----------------------------------------------------------------------------
(* A call runs to completion before another starts.                        *)

Do(name, call, o) ==
  /\ table = name /\ ~failed
  /\ shelf' = o.shelf /\ asked' = call /\ answer' = o.answer
  /\ failed' = (open /\ o.answer.kind = "violation")
  /\ writes' = IF o.shelf = shelf THEN writes ELSE writes + 1
  /\ writes' <= MaxWrites
  /\ UNCHANGED <<table, open, saved>>

MayInsert(o) == open /\ table \notin RefusedInTransaction => o.answer.kind = "inserted"

MemReleases ==
  \/ \E p \in NewReleases, at \in Moment :
       /\ table = "releases" /\ MayInsert(MemInsertRelease(shelf, Fresh(p, at)))
       /\ Do("releases", <<"InsertRelease", Fresh(p, at)>>,
               MemInsertRelease(shelf, Fresh(p, at)))
  \/ \E i \in Id, m \in Moves, at \in Moment :
       Do("releases", <<"MoveRelease", i, m, at>>, MemMoveRelease(shelf, i, m, at))
  \/ \E i \in Id, c \in {"id", "key", "receipt", "provider"} :
       Do("releases", <<"Find", c, i>>, MemFind(shelf, c, i))
  \/ \E i \in Id : \/ Do("releases", <<"FindActive", i>>, MemFindActive(shelf, i))
                   \/ Do("releases", <<"ListByMandate", i>>, MemListByMandate(shelf, i))
  \/ \E at \in Moment : \/ Do("releases", <<"ToReconcile", at>>, MemToReconcile(shelf, at))
                        \/ Do("releases", <<"Abandoned", at>>, MemAbandoned(shelf, at))
  \/ Do("releases", <<"NeedingAttention">>, MemNeedingAttention(shelf))

MemSnapshots ==
  \/ \E i, h \in Id :
       Do("snapshots", <<"InsertUnique", NewSnapshot(i, h)>>,
               MemInsertUnique(shelf, NewSnapshot(i, h), {"hash"}))
  \/ \E i, r \in Id : Do("snapshots", <<"ClaimSnapshot", i, r>>, MemClaimSnapshot(shelf, i, r))

MemEvaluations ==
  \/ \E i, r \in Id, m \in Moment :
       Do("evaluations", <<"InsertUnique", NewEvaluation(i, r, m)>>,
               MemInsertUnique(shelf, NewEvaluation(i, r, m), {}))
  \/ \E r \in Id : Do("evaluations", <<"ListByRelease", r>>, MemListByRelease(shelf, r))

MemReviews ==
  \/ \E i, r, h \in Id, at \in Moment :
       Do("reviews", <<"InsertReview", NewReview(i, r, h, at)>>,
               MemInsertReview(shelf, NewReview(i, r, h, at)))
  \/ \E i \in Id, to \in {"APPROVED", "REJECTED"}, at \in Moment :
       Do("reviews", <<"ResolveReview", i, to, at>>, MemResolveReview(shelf, i, to, at))
  \/ \E r \in Id : Do("reviews", <<"FindOpen", r>>, MemFindOpen(shelf, r))
  \/ \E r, h \in Id : Do("reviews", <<"FindApproved", r, h>>, MemFindApproved(shelf, r, h))
  \/ Do("reviews", <<"ListOpen">>, MemListOpen(shelf))

MemInbox ==
  \/ \E i \in Id : Do("inbox", <<"ClaimEvent", i>>, MemClaimEvent(shelf, i))
  \/ \E i \in Id, r \in Id \cup {0}, s \in {"PROCESSED", "FAILED"} :
       Do("inbox", <<"MarkProcessed", i, s, r>>, MemMarkProcessed(shelf, i, s, r))

MemPurchases ==
  \/ \E i \in Id, at \in Moment :
       Do("purchases", <<"Reserve", i, at>>, MemReserve(shelf, i, at))
  \/ \E i, q \in Id, at \in Moment :
       /\ table = "purchases" /\ open
       /\ MayInsert(MemRecordPurchase(shelf, NewPurchase(i, q, at)))
       /\ Do("purchases", <<"RecordPurchase", NewPurchase(i, q, at)>>,
               MemRecordPurchase(shelf, NewPurchase(i, q, at)))
  \/ \E i \in Id, to \in {"SETTLED", "RELEASED"} :
       Do("purchases", <<"EndPurchase", i, to>>, MemEndPurchase(shelf, i, to))
  \/ Do("purchases", <<"MoveSession", "REVOKED">>, MemMoveSession(shelf, "REVOKED"))
  \/ \E i \in Id, c \in {"id", "request"} :
       Do("purchases", <<"Find", c, i>>, MemFind(shelf, c, i))
  \/ \E at \in Moment : Do("purchases", <<"Unsettled", at>>, MemUnsettled(shelf, at))
  \/ Do("purchases", <<"ListPurchases">>, MemListPurchases(shelf))

MemMandates ==
  \/ \E i \in Id :
       Do("mandates", <<"InsertUnique", NewMandate(i)>>,
               MemInsertUnique(shelf, NewMandate(i), {}))
  \/ \E i \in Id, r \in Id \cup {0}, to \in {"CONSUMED", "REVOKED"} :
       Do("mandates", <<"MoveMandate", i, to, r>>, MemMoveMandate(shelf, i, to, r))

\* The indexes are not among the maps that are put back.
RestoreRows(copies) == [copies EXCEPT !.byKey = shelf.byKey, !.byReceipt = shelf.byReceipt]
Restore(copies) == copies

MemBegin    == /\ ~open
               /\ open' = TRUE /\ saved' = shelf /\ asked' = <<>> /\ answer' = Silence
               /\ UNCHANGED <<table, shelf, failed, writes>>
MemCommit   == /\ open /\ ~failed
               /\ open' = FALSE /\ asked' = <<>> /\ answer' = Silence
               /\ UNCHANGED <<table, shelf, saved, failed, writes>>
MemRollback == /\ open
               /\ open' = FALSE /\ failed' = FALSE /\ shelf' = Restore(saved)
               /\ asked' = <<>> /\ answer' = Silence
               /\ UNCHANGED <<table, saved, writes>>

MemInit == /\ table \in Table
           /\ shelf = EmptyShelf /\ saved = EmptyShelf
           /\ open = FALSE /\ failed = FALSE
           /\ asked = <<>> /\ answer = Silence /\ writes = 0
MemNext == \/ MemReleases \/ MemSnapshots \/ MemEvaluations \/ MemReviews \/ MemInbox
           \/ MemPurchases \/ MemMandates \/ MemBegin \/ MemCommit \/ MemRollback
MemSpec == MemInit /\ [][MemNext]_memVars

----------------------------------------------------------------------------
(* What the offline suites believe.                                        *)

Sql == INSTANCE SqlStore WITH
         db     <- Contents(shelf),
         before <- Contents(IF open THEN saved ELSE EmptyShelf)

\* The maps answer every call of every sequence, and keep and roll back the
\* rows, as the database may: a suite that passes on them has tested the
\* services against behaviour Postgres has.
Parity == Sql!SqlSpec

\* The two hand-kept indexes name exactly the rows that bear their keys, also
\* after a transaction has been rolled back: a key left behind would answer
\* a new request with a release that does not exist.
IndexesAgree ==
  table = "releases" =>
    \A v, i \in Id : LET Bears(c) == \E x \in Range(shelf.rows) : x.id = i /\ x[c] = v
                     IN  /\ shelf.byKey[v] = i <=> Bears("key")
                         /\ shelf.byReceipt[v] = i <=> Bears("receipt")
=============================================================================
