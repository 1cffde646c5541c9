------------------------------ MODULE SqlStore ------------------------------
(***************************************************************************)
(* What the repositories promise their callers, as the SQL of              *)
(* packages/persistence/src/postgres states it: each call is one statement *)
(* over a table, answered at once, in or out of the one transaction that   *)
(* is open.  MemoryStore, the store of the offline suites, is shown to     *)
(* implement this module.  No call touches two tables but those on a       *)
(* purchase and its session, so one behaviour exercises one table.         *)
(***************************************************************************)
EXTENDS StoreRows

VARIABLES
  table,   \* the table this behaviour exercises
  db,      \* its rows, and the session the purchases draw on
  before,  \* what ROLLBACK restores, EmptyDb outside a transaction
  open,    \* whether a transaction is open
  failed,  \* whether its callback has thrown
  asked,   \* the last call: its name and arguments
  answer   \* what it returned: [kind, rows]

sqlVars == <<table, db, before, open, failed, asked, answer>>

EmptyDb == [rows |-> {}, session |-> [state |-> "ACTIVE", reserved |-> 0, spent |-> 0]]

Outcome(t, kind, rs) == [db |-> t, answer |-> [kind |-> kind, rows |-> rs]]
Rows(t, rs)          == {Outcome(t, "rows", rs)}
Violation(t)         == {Outcome(t, "violation", <<>>)}
Inserted(t, r)       == {Outcome([t EXCEPT !.rows = @ \cup {r}], "inserted", <<r>>)}
Updated(t, r, n)     == Outcome([t EXCEPT !.rows = (@ \ {r}) \cup {n}], "rows", <<n>>)

\* rows[0] ?? null, of a query that names no order.
AnyOf(t, S) == IF S = {} THEN Rows(t, <<>>) ELSE UNION {Rows(t, <<r>>) : r \in S}

\* UPDATE ... WHERE id = ... AND state = ... RETURNING *, by at most one row.
Update(t, S, New(_)) == IF S = {} THEN Rows(t, <<>>) ELSE {Updated(t, r, New(r)) : r \in S}

Oldest(t, S, f) == Rows(t, Shortest(SetToSortSeq(S, LAMBDA a, b : Precedes(f, a, b))))
Newest(t, S, f) == Rows(t, Shortest(SetToSortSeq(S, LAMBDA a, b : Precedes(f, b, a))))

----------------------------------------------------------------------------
(* One operator per statement: what it may leave and answer.               *)

\* The unique indexes decide; which of them fired is asked afterwards, by reads
\* that throw in the transaction the violation has aborted.
SqlInsertRelease(t, r) ==
  LET sameKey == {x \in t.rows : x.key = r.key}
      active  == {x \in t.rows : x.mandate = r.mandate /\ x.state \notin Terminal}
      other   == {x \in t.rows : x.id = r.id \/ x.receipt = r.receipt}
  IN  IF sameKey \cup active \cup other = {} THEN Inserted(t, r)
      ELSE IF open THEN Violation(t)
      ELSE IF sameKey # {} THEN {Outcome(t, "duplicate_key", <<x>>) : x \in sameKey}
      ELSE IF active # {} THEN {Outcome(t, "busy", <<x>>) : x \in active}
      ELSE Violation(t)

SqlMoveRelease(t, id, m, at) ==
  LET hit   == {x \in t.rows : x.id = id /\ x.state \in m.from}
      taken == m.binds # 0 /\ \E y \in t.rows : y.id # id /\ y.provider = m.binds
  IN  IF hit # {} /\ taken THEN Violation(t)
      ELSE Update(t, hit, LAMBDA x : Moved(x, m, at))

SqlFind(t, column, v)      == AnyOf(t, {x \in t.rows : x[column] = v})
SqlFindActive(t, m)        == AnyOf(t, {x \in t.rows : x.mandate = m /\ x.state \notin Terminal})
SqlListByMandate(t, m)     == Newest(t, {x \in t.rows : x.mandate = m}, "created")
SqlToReconcile(t, at)      == Oldest(t, {x \in t.rows : /\ x.state \in Indeterminate
                                                        /\ x.inFlight # 0 /\ x.inFlight <= at}, "inFlight")
SqlAbandoned(t, at)        == Oldest(t, {x \in t.rows : x.state \in Transient /\ x.updated <= at}, "updated")
SqlNeedingAttention(t)     == Oldest(t, {x \in t.rows : x.state \in Indeterminate \cup {"PAUSED"}}, "updated")

SqlInsertUnique(t, r, columns) ==
  IF \E x \in t.rows, c \in columns : x[c] = r[c] THEN Violation(t) ELSE Inserted(t, r)

SqlClaimSnapshot(t, id, release) ==
  Update(t, {x \in t.rows : x.id = id /\ x.redeemed \in {0, release}},
         LAMBDA x : [x EXCEPT !.redeemed = release])

SqlListByRelease(t, release) == Oldest(t, {x \in t.rows : x.release = release}, "at")

\* ON CONFLICT (review_id) DO NOTHING, beside the partial index on open reviews.
SqlInsertReview(t, r) ==
  IF \E x \in t.rows : x.id = r.id THEN {Outcome(t, "inserted", <<>>)}
  ELSE IF \E x \in t.rows : x.release = r.release /\ x.state = "OPEN" THEN Violation(t)
  ELSE {Outcome([t EXCEPT !.rows = @ \cup {r}], "inserted", <<>>)}

SqlResolveReview(t, id, to, at) ==
  Update(t, {x \in t.rows : x.id = id /\ x.state = "OPEN"},
         LAMBDA x : [x EXCEPT !.state = to, !.resolved = at])

SqlFindOpen(t, release) == AnyOf(t, {x \in t.rows : x.release = release /\ x.state = "OPEN"})
SqlListOpen(t)          == Oldest(t, {x \in t.rows : x.state = "OPEN"}, "created")
SqlFindApproved(t, release, hash) ==
  LET S == {x \in t.rows : x.release = release /\ x.hash = hash /\ x.state = "APPROVED"}
  IN  AnyOf(t, {x \in S : \A y \in S \ {x} : Precedes("resolved", y, x)})

SqlClaimEvent(t, id) ==
  LET held == {x \in t.rows : x.id = id}
      r    == [id |-> id, status |-> "RECEIVED", release |-> 0]
  IN  IF held = {} THEN Inserted(t, r) ELSE {Outcome(t, "duplicate", <<x>>) : x \in held}

SqlMarkProcessed(t, id, status, release) ==
  LET Closed(x) == [x EXCEPT !.status = status, !.release = IF release = 0 THEN @ ELSE release]
  IN  {[o EXCEPT !.answer = Silence] : o \in Update(t, {x \in t.rows : x.id = id}, Closed)}

\* One predicate decides; a refused caller is told why from a second read.
SqlReserve(t, amount, at) ==
  LET s == t.session
      Told(kind) == {Outcome(t, kind, <<>>)}
  IN  IF s.state = "ACTIVE" /\ Expiry > at /\ s.reserved + s.spent + amount <= Budget
      THEN {Outcome([t EXCEPT !.session.reserved = @ + amount], "reserved", <<>>)}
      ELSE CASE s.state # "ACTIVE" -> Told("not_active")
             [] s.state = "ACTIVE" /\ Expiry <= at -> Told("expired")
             [] OTHER -> Told("over_budget")

SqlRecordPurchase(t, r) ==
  LET same == {x \in t.rows : x.request = r.request}
  IN  IF same = {} /\ \A x \in t.rows : x.id # r.id THEN Inserted(t, r)
      ELSE IF open \/ same = {} THEN Violation(t)
      ELSE {Outcome(t, "duplicate", <<x>>) : x \in same}

SqlEndPurchase(t, id, to) ==
  LET held == {x \in t.rows : x.id = id /\ x.state = "RESERVED"}
      Counted(s, x) == [s EXCEPT !.reserved = @ - x.amount,
                                 !.spent    = IF to = "SETTLED" THEN @ + x.amount ELSE @]
  IN  IF held = {} THEN Rows(t, <<>>)
      ELSE {LET o == Updated(t, x, [x EXCEPT !.state = to])
            IN  [o EXCEPT !.db.session = Counted(t.session, x)] : x \in held}

SqlMoveSession(t, to) ==
  IF t.session.state = "ACTIVE" THEN {Outcome([t EXCEPT !.session.state = to], "rows", <<>>)}
  ELSE {Outcome(t, "lost", <<>>)}

SqlUnsettled(t, at) ==
  Oldest(t, {x \in t.rows : x.state = "RESERVED" /\ x.created < at}, "created")
SqlListPurchases(t) == Newest(t, t.rows, "created")

SqlMoveMandate(t, id, to, release) ==
  Update(t, {x \in t.rows : x.id = id /\ x.state = "ACTIVE"},
         LAMBDA x : [x EXCEPT !.state = to, !.release = IF release = 0 THEN @ ELSE release])

----------------------------------------------------------------------------
(* A call, and the transaction it runs in.  A transaction whose callback   *)
(* has thrown can only be rolled back.                                     *)

Perform(name, call, outcomes) ==
  /\ table = name
  /\ ~failed
  /\ \E o \in outcomes : db' = o.db /\ answer' = o.answer
  /\ asked' = call
  /\ failed' = (open /\ answer'.kind = "violation")
  /\ UNCHANGED <<table, before, open>>

MayInsert(outcomes) == open /\ table \notin RefusedInTransaction => \A o \in outcomes : o.answer.kind = "inserted"

Releases ==
  \/ \E p \in NewReleases, at \in Moment :
       /\ table = "releases" /\ MayInsert(SqlInsertRelease(db, Fresh(p, at)))
       /\ Perform("releases", <<"InsertRelease", Fresh(p, at)>>,
               SqlInsertRelease(db, Fresh(p, at)))
  \/ \E i \in Id, m \in Moves, at \in Moment :
       Perform("releases", <<"MoveRelease", i, m, at>>, SqlMoveRelease(db, i, m, at))
  \/ \E i \in Id, c \in {"id", "key", "receipt", "provider"} :
       Perform("releases", <<"Find", c, i>>, SqlFind(db, c, i))
  \/ \E i \in Id : \/ Perform("releases", <<"FindActive", i>>, SqlFindActive(db, i))
                   \/ Perform("releases", <<"ListByMandate", i>>, SqlListByMandate(db, i))
  \/ \E at \in Moment : \/ Perform("releases", <<"ToReconcile", at>>, SqlToReconcile(db, at))
                        \/ Perform("releases", <<"Abandoned", at>>, SqlAbandoned(db, at))
  \/ Perform("releases", <<"NeedingAttention">>, SqlNeedingAttention(db))

Snapshots ==
  \/ \E i, h \in Id :
       Perform("snapshots", <<"InsertUnique", NewSnapshot(i, h)>>,
               SqlInsertUnique(db, NewSnapshot(i, h), {"id", "hash"}))
  \/ \E i, r \in Id :
       Perform("snapshots", <<"ClaimSnapshot", i, r>>, SqlClaimSnapshot(db, i, r))

Evaluations ==
  \/ \E i, r \in Id, m \in Moment :
       Perform("evaluations", <<"InsertUnique", NewEvaluation(i, r, m)>>,
               SqlInsertUnique(db, NewEvaluation(i, r, m), {"id"}))
  \/ \E r \in Id : Perform("evaluations", <<"ListByRelease", r>>, SqlListByRelease(db, r))

Reviews ==
  \/ \E i, r, h \in Id, at \in Moment :
       Perform("reviews", <<"InsertReview", NewReview(i, r, h, at)>>,
               SqlInsertReview(db, NewReview(i, r, h, at)))
  \/ \E i \in Id, to \in {"APPROVED", "REJECTED"}, at \in Moment :
       Perform("reviews", <<"ResolveReview", i, to, at>>, SqlResolveReview(db, i, to, at))
  \/ \E r \in Id : Perform("reviews", <<"FindOpen", r>>, SqlFindOpen(db, r))
  \/ \E r, h \in Id : Perform("reviews", <<"FindApproved", r, h>>, SqlFindApproved(db, r, h))
  \/ Perform("reviews", <<"ListOpen">>, SqlListOpen(db))

Inbox ==
  \/ \E i \in Id : Perform("inbox", <<"ClaimEvent", i>>, SqlClaimEvent(db, i))
  \/ \E i \in Id, r \in Id \cup {0}, s \in {"PROCESSED", "FAILED"} :
       Perform("inbox", <<"MarkProcessed", i, s, r>>, SqlMarkProcessed(db, i, s, r))

Purchases ==
  \/ \E i \in Id, at \in Moment :
       Perform("purchases", <<"Reserve", i, at>>, SqlReserve(db, i, at))
  \/ \E i, q \in Id, at \in Moment :
       /\ table = "purchases" /\ open
       /\ MayInsert(SqlRecordPurchase(db, NewPurchase(i, q, at)))
       /\ Perform("purchases", <<"RecordPurchase", NewPurchase(i, q, at)>>,
               SqlRecordPurchase(db, NewPurchase(i, q, at)))
  \/ \E i \in Id, to \in {"SETTLED", "RELEASED"} :
       Perform("purchases", <<"EndPurchase", i, to>>, SqlEndPurchase(db, i, to))
  \/ Perform("purchases", <<"MoveSession", "REVOKED">>, SqlMoveSession(db, "REVOKED"))
  \/ \E i \in Id, c \in {"id", "request"} :
       Perform("purchases", <<"Find", c, i>>, SqlFind(db, c, i))
  \/ \E at \in Moment : Perform("purchases", <<"Unsettled", at>>, SqlUnsettled(db, at))
  \/ Perform("purchases", <<"ListPurchases">>, SqlListPurchases(db))

Mandates ==
  \/ \E i \in Id :
       Perform("mandates", <<"InsertUnique", NewMandate(i)>>,
               SqlInsertUnique(db, NewMandate(i), {"id"}))
  \/ \E i \in Id, r \in Id \cup {0}, to \in {"CONSUMED", "REVOKED"} :
       Perform("mandates", <<"MoveMandate", i, to, r>>, SqlMoveMandate(db, i, to, r))

Begin    == /\ ~open
            /\ open' = TRUE /\ before' = db /\ asked' = <<>> /\ answer' = Silence
            /\ UNCHANGED <<table, db, failed>>
Commit   == /\ open /\ ~failed
            /\ open' = FALSE /\ before' = EmptyDb /\ asked' = <<>> /\ answer' = Silence
            /\ UNCHANGED <<table, db, failed>>
Rollback == /\ open
            /\ open' = FALSE /\ failed' = FALSE /\ db' = before /\ before' = EmptyDb
            /\ asked' = <<>> /\ answer' = Silence
            /\ UNCHANGED table

SqlInit == /\ table \in Table
           /\ db = EmptyDb /\ before = EmptyDb /\ open = FALSE /\ failed = FALSE
           /\ asked = <<>> /\ answer = Silence
SqlNext == \/ Releases \/ Snapshots \/ Evaluations \/ Reviews \/ Inbox \/ Purchases \/ Mandates
           \/ Begin \/ Commit \/ Rollback
SqlSpec == SqlInit /\ [][SqlNext]_sqlVars
=============================================================================
