----------------------------- MODULE SweepQueue -----------------------------
(***************************************************************************)
(* What a sweep's limit and its error path do to the rows that wait for it *)
(* (apps/api/src/sweepers.ts, reconciliation-service.ts sweep and          *)
(* sweepAbandoned, and the two queries of release-repository.ts). A tick   *)
(* reads the oldest rows up to the limit, works through them, then does    *)
(* the same for abandoned rows; an exception ends it; ticks may overlap.   *)
(*                                                                         *)
(* Abstractions.  Reconciliation has what becomes of one row. Here a row   *)
(* is resolved when its turn comes, stays because the provider cannot say, *)
(* or throws; rows are numbered by age.                                    *)
(***************************************************************************)
EXTENDS Naturals, Sequences, FiniteSets

CONSTANTS
  SqRows,   \* the rows that come to wait, 1 .. SqRows, oldest first
  SqLimit,  \* rows one read returns
  SqTick    \* ticks that may be under way together

VARIABLES
  kind,    \* what each row is: "stuck", "stubborn", "throwing" or "abandoned"
  waits,   \* the rows that wait now
  came,    \* the rows that have come so far
  doing,   \* per tick: "idle", "reconciling" or "aborting"
  batch    \* per tick: the rows it read and has not reached

queueVars == <<kind, waits, came, doing, batch>>

Row == 1 .. SqRows

QueueTypeOK ==
  /\ kind \in [Row -> {"stuck", "stubborn", "throwing", "abandoned"}]
  /\ waits \subseteq 1 .. came
  /\ doing \in [SqTick -> {"idle", "reconciling", "aborting"}]
  /\ \A t \in SqTick : Len(batch[t]) <= SqLimit

QueueInit ==
  /\ kind \in [Row -> {"stuck", "stubborn", "throwing", "abandoned"}]
  /\ waits = {} /\ came = 0
  /\ doing = [t \in SqTick |-> "idle"]
  /\ batch = [t \in SqTick |-> <<>>]

\* A release becomes old enough for a sweep.
Come ==
  /\ came < SqRows
  /\ came' = came + 1
  /\ waits' = waits \cup {came + 1}
  /\ UNCHANGED <<kind, doing, batch>>

Due(aborting) == {r \in waits : (kind[r] = "abandoned") = aborting}

\* Mutant of Order: the newest rows first.
OrderNewestFirst == [i \in Row |-> SqRows + 1 - i]

\* ORDER BY the clock ASC.
Order == [i \in Row |-> i]

\* LIMIT SqLimit.
Read(aborting) ==
  LET rows == SelectSeq(Order, LAMBDA r : r \in Due(aborting))
  IN SubSeq(rows, 1, IF Len(rows) < SqLimit THEN Len(rows) ELSE SqLimit)

\* The timer fires: sweep() reads its rows.
Fire(t) ==
  /\ doing[t] = "idle"
  /\ doing' = [doing EXCEPT ![t] = "reconciling"]
  /\ batch' = [batch EXCEPT ![t] = Read(FALSE)]
  /\ UNCHANGED <<kind, waits, came>>

\* reconcile() or the abort of one row. A row another tick has resolved loses
\* its compare-and-set and stays resolved; a row that throws ends the tick.
Work(t) ==
  /\ batch[t] # <<>>
  /\ LET r == Head(batch[t]) IN
     /\ waits' = IF kind[r] \in {"stuck", "abandoned"} THEN waits \ {r} ELSE waits
     /\ IF kind[r] = "throwing"
        THEN doing' = [doing EXCEPT ![t] = "idle"] /\ batch' = [batch EXCEPT ![t] = <<>>]
        ELSE batch' = [batch EXCEPT ![t] = Tail(@)] /\ UNCHANGED doing
  /\ UNCHANGED <<kind, came>>

\* sweepAbandoned() follows sweep(); the tick ends after it.
NextSweep(t) ==
  /\ doing[t] # "idle" /\ batch[t] = <<>>
  /\ IF doing[t] = "reconciling"
     THEN /\ doing' = [doing EXCEPT ![t] = "aborting"]
          /\ batch' = [batch EXCEPT ![t] = Read(TRUE)]
     ELSE doing' = [doing EXCEPT ![t] = "idle"] /\ UNCHANGED batch
  /\ UNCHANGED <<kind, waits, came>>

QueueNext == Come \/ \E t \in SqTick : Fire(t) \/ Work(t) \/ NextSweep(t)

\* The interval keeps firing and a tick goes on until it ends.
QueueFairness == \A t \in SqTick : WF_queueVars(Fire(t)) /\ WF_queueVars(Work(t) \/ NextSweep(t))

Older(r, k) == {s \in 1 .. r - 1 : kind[s] = k}

Reachable(r) ==
  \/ kind[r] = "stuck" /\ Older(r, "throwing") = {} /\ Cardinality(Older(r, "stubborn")) < SqLimit
  \/ kind[r] = "abandoned" /\ \A s \in Row : kind[s] # "throwing"

\* A row is reached when fewer rows than the limit stay before it and none
\* before it throws; an abandoned row, when no row throws. This is all the code
\* promises: a page of rows that stay, or one that throws, holds up the rest
\* (reconciliation-service.ts, sweep; sweepers.ts, tick).
RowsAreServed == \A r \in Row : (r \in waits /\ Reachable(r)) ~> (r \notin waits)
=============================================================================
