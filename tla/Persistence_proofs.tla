------------------------- MODULE Persistence_proofs -------------------------
(***************************************************************************)
(* What the two stores that keep a structure of their own promise.         *)
(*                                                                         *)
(* The evidence chain, for any number of transactions of any kinds on any  *)
(* releases: the lock keeps two appends apart, the chain is the record of  *)
(* what was committed, it verifies, and damage is reported. The invariant  *)
(* is TxInv: the lock has one holder, who has read the whole chain and     *)
(* inserts what comes next.                                                *)
(*                                                                         *)
(* The in-memory releases, for any rows and any sequence of calls: the     *)
(* hand-kept indexes name exactly the rows that bear their keys. The       *)
(* invariant is ShelfKept, of the maps and of the copies a rollback puts   *)
(* back.                                                                   *)
(***************************************************************************)
EXTENDS EvidenceChain, MemoryStore, FiniteSetTheorems, SequenceTheorems, WellFoundedInduction, TLAPS

Ends == {"open", "committed", "conflict", "rolled_back", "deadlock"}

\* The chain: every envelope in its place, sealed over the one before it.
Sealed(c, i) == c[i] = Seal(i - 1, IF i = 1 THEN Genesis ELSE c[i - 1].hash, c[i].body)

ChainShape ==
  /\ \E S : chain \in Seq(S)
  /\ \A i \in 1 .. Len(chain) : chain[i].body \in Tx /\ Sealed(chain, i)

\* No transaction is past its script, and none that is open has ended it.
Progress ==
  /\ done \in [Tx -> Nat]
  /\ ended \in [Tx -> Ends]
  /\ found \in [Tx -> {found[t] : t \in Tx}]
  /\ pending \in [Tx -> {pending[t] : t \in Tx}]
  /\ \A t \in Tx : done[t] < Len(Script(Kind[t]))

\* The lock has one holder; who has read the head holds the lock, so the head
\* it read is still the head; it has inserted the envelope that comes next.
LockHolder ==
  /\ \A t, u \in Tx : Has(t, "lock") /\ Has(u, "lock") => t = u
  /\ \A t \in Tx : Has(t, "head") => Has(t, "lock") /\ found[t] = chain
  /\ \A t \in Tx : IF Has(t, "insert") THEN Has(t, "head") /\ pending[t] = NewEnvelope(t)
                                       ELSE pending[t] = None

TxInv == ChainShape /\ Progress /\ LockHolder /\ AppendsNeverCollide

-----------------------------------------------------------------------------
(* The script of a transaction *)

\* Every script takes the lock, reads the head, inserts and commits, in that
\* order, each once.
LEMMA Scripts ==
  ASSUME NEW t \in Tx
  PROVE  \/ Script(Kind[t]) = <<"lock", "head", "insert", "row", "commit">>
         \/ Script(Kind[t]) = <<"row", "lock", "head", "insert", "commit">>
         \/ Script(Kind[t]) = <<"lock", "head", "insert", "commit">>
  BY TxAssumption DEF Script

LEMMA OpOrder ==
  ASSUME NEW t \in Tx, done[t] \in Nat, done[t] < Len(Script(Kind[t]))
  PROVE  /\ At(t, "lock") => ~Has(t, "lock") /\ ~Has(t, "head") /\ ~Has(t, "insert")
         /\ At(t, "head") => Has(t, "lock") /\ ~Has(t, "head") /\ ~Has(t, "insert")
         /\ At(t, "insert") => Has(t, "head") /\ ~Has(t, "insert")
         /\ At(t, "commit") => Has(t, "insert")
         /\ \A op \in {"lock", "head", "insert", "row"} :
              At(t, op) => done[t] + 1 < Len(Script(Kind[t]))
<1>1. CASE Script(Kind[t]) = <<"lock", "head", "insert", "row", "commit">>
  <2>1. done[t] + 1 \in 1 .. 5
    BY <1>1
  <2>2. /\ Script(Kind[t])[1] = "lock"
        /\ Script(Kind[t])[2] = "head"
        /\ Script(Kind[t])[3] = "insert"
        /\ Script(Kind[t])[4] = "row"
        /\ Script(Kind[t])[5] = "commit"
    BY <1>1
  <2>3. /\ At(t, "lock") => done[t] = 0
        /\ At(t, "head") => done[t] = 1
        /\ At(t, "insert") => done[t] = 2
        /\ At(t, "row") => done[t] = 3
        /\ At(t, "commit") => done[t] = 4
    BY <2>1, <2>2 DEF At, NextOp
  <2>4. /\ Has(t, "lock") <=> ended[t] = "open" /\ done[t] >= 1
        /\ Has(t, "head") <=> ended[t] = "open" /\ done[t] >= 2
        /\ Has(t, "insert") <=> ended[t] = "open" /\ done[t] >= 3
    BY <2>1, <2>2 DEF Has
  <2>5. Len(Script(Kind[t])) = 5
    BY <1>1
  <2> QED BY <2>3, <2>4, <2>5 DEF At
<1>2. CASE Script(Kind[t]) = <<"row", "lock", "head", "insert", "commit">>
  <2>1. done[t] + 1 \in 1 .. 5
    BY <1>2
  <2>2. /\ Script(Kind[t])[1] = "row"
        /\ Script(Kind[t])[2] = "lock"
        /\ Script(Kind[t])[3] = "head"
        /\ Script(Kind[t])[4] = "insert"
        /\ Script(Kind[t])[5] = "commit"
    BY <1>2
  <2>3. /\ At(t, "row") => done[t] = 0
        /\ At(t, "lock") => done[t] = 1
        /\ At(t, "head") => done[t] = 2
        /\ At(t, "insert") => done[t] = 3
        /\ At(t, "commit") => done[t] = 4
    BY <2>1, <2>2 DEF At, NextOp
  <2>4. /\ Has(t, "lock") <=> ended[t] = "open" /\ done[t] >= 2
        /\ Has(t, "head") <=> ended[t] = "open" /\ done[t] >= 3
        /\ Has(t, "insert") <=> ended[t] = "open" /\ done[t] >= 4
    BY <2>1, <2>2 DEF Has
  <2>5. Len(Script(Kind[t])) = 5
    BY <1>2
  <2> QED BY <2>3, <2>4, <2>5 DEF At
<1>3. CASE Script(Kind[t]) = <<"lock", "head", "insert", "commit">>
  <2>1. done[t] + 1 \in 1 .. 4
    BY <1>3
  <2>2. /\ Script(Kind[t])[1] = "lock"
        /\ Script(Kind[t])[2] = "head"
        /\ Script(Kind[t])[3] = "insert"
        /\ Script(Kind[t])[4] = "commit"
    BY <1>3
  <2>3. /\ At(t, "lock") => done[t] = 0
        /\ At(t, "head") => done[t] = 1
        /\ At(t, "insert") => done[t] = 2
        /\ ~At(t, "row")
        /\ At(t, "commit") => done[t] = 3
    BY <2>1, <2>2 DEF At, NextOp
  <2>4. /\ Has(t, "lock") <=> ended[t] = "open" /\ done[t] >= 1
        /\ Has(t, "head") <=> ended[t] = "open" /\ done[t] >= 2
        /\ Has(t, "insert") <=> ended[t] = "open" /\ done[t] >= 3
    BY <2>1, <2>2 DEF Has
  <2>5. Len(Script(Kind[t])) = 4
    BY <1>3
  <2> QED BY <2>3, <2>4, <2>5 DEF At
<1> QED BY <1>1, <1>2, <1>3, Scripts

\* What a transaction has done after one more step of its script.
LEMMA Stepped ==
  ASSUME Progress, NEW t \in Tx, ended[t] = "open", StepOn(t), UNCHANGED ended
  PROVE  \A u \in Tx : \A op : Has(u, op)' <=> Has(u, op) \/ (u = t /\ op = NextOp(t))
<1>1. ASSUME NEW u \in Tx, NEW op, u # t PROVE Has(u, op)' <=> Has(u, op)
  BY <1>1 DEF Has, StepOn, Progress
<1>2. ASSUME NEW op PROVE Has(t, op)' <=> Has(t, op) \/ op = NextOp(t)
  <2>1. done'[t] = done[t] + 1 /\ done[t] \in Nat
    BY DEF StepOn, Progress
  <2> QED BY <2>1 DEF Has, NextOp
<1> QED BY <1>1, <1>2

\* A transaction that ends holds nothing, and the others hold what they held.
LEMMA Ended ==
  ASSUME Progress, NEW t \in Tx, NEW how \in Ends \ {"open"}, EndAs(t, how), UNCHANGED done
  PROVE  /\ \A u \in Tx : \A op : Has(u, op)' <=> u # t /\ Has(u, op)
         /\ \A u \in Tx : pending'[u] = IF u = t THEN None ELSE pending[u]
         /\ ended' \in [Tx -> Ends] /\ ended'[t] = how
         /\ \A u \in Tx : u # t => ended'[u] = ended[u]
  BY DEF EndAs, Has, Progress, Ends

-----------------------------------------------------------------------------
(* Every step keeps the invariant *)

LEMMA SealFields ==
  ASSUME NEW q, NEW p, NEW b
  PROVE  /\ Seal(q, p, b).chainId = ThisChain /\ Seal(q, p, b).sequence = q
         /\ Seal(q, p, b).prev = p /\ Seal(q, p, b).body = b
         /\ Seal(q, p, b).hash = <<ThisChain, q, p, b>>
         /\ Seal(q, p, b).signature = <<ThisChain, q, p, b>>
  BY DEF Seal, Hash

LEMMA ChainStarts == ChainInit => TxInv
<1> SUFFICES ASSUME ChainInit PROVE TxInv
  OBVIOUS
<1>1. ChainShape
  <2>1. chain \in Seq({})
    BY DEF ChainInit
  <2> QED BY <2>1 DEF ChainInit, ChainShape
<1>2. \A t \in Tx : 0 < Len(Script(Kind[t]))
  BY Scripts
<1>3. Progress
  <2>1. done = [t \in Tx |-> 0] /\ ended = [t \in Tx |-> "open"]
    BY DEF ChainInit
  <2>2. found \in [Tx -> {found[t] : t \in Tx}] /\ pending \in [Tx -> {pending[t] : t \in Tx}]
    BY DEF ChainInit
  <2>3. \A t \in Tx : done[t] < Len(Script(Kind[t]))
    BY <1>2, <2>1
  <2> QED BY <2>1, <2>2, <2>3 DEF Progress, Ends
<1>4. \A t \in Tx : \A op : ~Has(t, op)
  BY DEF ChainInit, Has
<1> QED BY <1>1, <1>3, <1>4 DEF TxInv, LockHolder, AppendsNeverCollide, ChainInit

\* What who has read the head will append: the next envelope of the chain.
LEMMA NextEnvelope ==
  ASSUME TxInv, NEW t \in Tx, Has(t, "head")
  PROVE  NewEnvelope(t) = Seal(Len(chain), IF chain = <<>> THEN Genesis ELSE chain[Len(chain)].hash, t)
<1>1. PICK S : chain \in Seq(S)
  BY DEF TxInv, ChainShape
<1>2. found[t] = chain
  BY DEF TxInv, LockHolder
<1>3. CASE chain = <<>>
  BY <1>2, <1>3 DEF NewEnvelope
<1>4. CASE chain # <<>>
  <2>1. Len(chain) \in 1 .. Len(chain) /\ Last(chain) = chain[Len(chain)]
    BY <1>1, <1>4 DEF Last
  <2>2. chain[Len(chain)].sequence = Len(chain) - 1
    <3>1. Sealed(chain, Len(chain))
      BY <2>1 DEF TxInv, ChainShape
    <3> QED BY <3>1, SealFields DEF Sealed
  <2>3. Last(found[t]).sequence + 1 = Len(chain)
    BY <1>1, <1>2, <2>1, <2>2
  <2> QED BY <1>2, <1>4, <2>1, <2>3 DEF NewEnvelope
<1> QED BY <1>3, <1>4

\* A step that only goes on in its script, writing nothing.
LEMMA StepKeeps ==
  ASSUME TxInv, NEW t \in Tx, NEW op \in {"lock", "row"}, At(t, op), ~Blocked(t),
         StepOn(t), UNCHANGED <<chain, ended, found, pending>>
  PROVE  TxInv'
<1>1. ended[t] = "open" /\ NextOp(t) = op /\ Progress
  BY DEF At, TxInv
<1>2. \A u \in Tx : \A o : Has(u, o)' <=> Has(u, o) \/ (u = t /\ o = op)
  BY <1>1, Stepped
<1>3. done[t] + 1 < Len(Script(Kind[t]))
  BY <1>1, OpOrder DEF Progress
<1>4. Progress'
  <2>1. \A u \in Tx : done'[u] = IF u = t THEN done[u] + 1 ELSE done[u]
    BY <1>1 DEF Progress, StepOn
  <2>2. done' \in [Tx -> Nat]
    <3>1. done \in [Tx -> Nat]
      BY <1>1 DEF Progress
    <3>2. done' = [done EXCEPT ![t] = done[t] + 1]
      BY <1>1 DEF StepOn
    <3> QED BY <3>1, <3>2
  <2> QED BY <1>1, <1>3, <2>1, <2>2 DEF Progress
<1>5. ASSUME NEW u \in Tx, Has(u, "lock"), op = "lock" PROVE u = t
  BY <1>5 DEF Blocked, Waits
<1>6. \A u \in Tx : NewEnvelope(u)' = NewEnvelope(u)
  BY DEF NewEnvelope
<1>7. LockHolder'
  BY <1>2, <1>5, <1>6 DEF TxInv, LockHolder
<1> QED BY <1>4, <1>7 DEF TxInv, ChainShape, Sealed, AppendsNeverCollide

LEMMA ReadKeeps ==
  ASSUME TxInv, NEW t \in Tx, ReadHead(t)
  PROVE  TxInv'
<1>1. ended[t] = "open" /\ NextOp(t) = "head" /\ Progress /\ At(t, "head") /\ StepOn(t)
  BY DEF ReadHead, At, TxInv
<1>2. \A u \in Tx : \A o : Has(u, o)' <=> Has(u, o) \/ (u = t /\ o = "head")
  BY <1>1, Stepped DEF ReadHead
<1>3. Has(t, "lock") /\ ~Has(t, "insert") /\ done[t] + 1 < Len(Script(Kind[t]))
  BY <1>1, OpOrder DEF Progress
<1>4. \A u \in Tx : found'[u] = IF u = t THEN chain ELSE found[u]
  BY <1>1 DEF ReadHead, Progress
<1>5. Progress'
  <2>1. \A u \in Tx : done'[u] = IF u = t THEN done[u] + 1 ELSE done[u]
    BY <1>1 DEF Progress, StepOn
  <2>2. done' \in [Tx -> Nat]
    <3>1. done \in [Tx -> Nat]
      BY <1>1 DEF Progress
    <3>2. done' = [done EXCEPT ![t] = done[t] + 1]
      BY <1>1 DEF StepOn
    <3> QED BY <3>1, <3>2
  <2>3. found' \in [Tx -> {found'[u] : u \in Tx}]
    BY <1>1 DEF Progress, ReadHead
  <2> QED BY <1>1, <1>3, <2>1, <2>2, <2>3 DEF Progress, ReadHead
<1>6. \A u \in Tx : u # t => NewEnvelope(u)' = NewEnvelope(u)
  BY <1>4 DEF NewEnvelope
<1>7. LockHolder'
  BY <1>2, <1>3, <1>4, <1>6 DEF TxInv, LockHolder, ReadHead
<1> QED BY <1>5, <1>7 DEF TxInv, ChainShape, Sealed, AppendsNeverCollide, ReadHead

\* The sequence of an append is free: the unique index refuses nothing.
LEMMA InsertKeeps ==
  ASSUME TxInv, NEW t \in Tx, Insert(t)
  PROVE  TxInv' /\ UNCHANGED <<chain, ended>>
<1>1. ended[t] = "open" /\ NextOp(t) = "insert" /\ Progress /\ At(t, "insert")
  BY DEF Insert, At, TxInv
<1>2. Has(t, "head") /\ ~Has(t, "insert") /\ done[t] + 1 < Len(Script(Kind[t]))
  BY <1>1, OpOrder DEF Progress
<1>3. NewEnvelope(t).sequence = Len(chain)
  BY <1>2, NextEnvelope, SealFields
<1>4. \A i \in DOMAIN chain : chain[i].sequence # Len(chain)
  <2>1. PICK S : chain \in Seq(S)
    BY DEF TxInv, ChainShape
  <2>2. \A i \in 1 .. Len(chain) : Sealed(chain, i)
    BY DEF TxInv, ChainShape
  <2>3. \A i \in 1 .. Len(chain) : chain[i].sequence = i - 1
    BY <2>2, SealFields DEF Sealed
  <2> QED BY <2>1, <2>3
<1>5. /\ pending' = [pending EXCEPT ![t] = NewEnvelope(t)]
      /\ StepOn(t) /\ UNCHANGED <<chain, ended, found>>
  BY <1>3, <1>4 DEF Insert
<1>6. \A u \in Tx : \A o : Has(u, o)' <=> Has(u, o) \/ (u = t /\ o = "insert")
  BY <1>1, <1>5, Stepped
<1>7. Progress'
  <2>1. \A u \in Tx : done'[u] = IF u = t THEN done[u] + 1 ELSE done[u]
    BY <1>1, <1>5 DEF Progress, StepOn
  <2>2. done' \in [Tx -> Nat]
    <3>1. done \in [Tx -> Nat]
      BY <1>1, <1>5 DEF Progress
    <3>2. done' = [done EXCEPT ![t] = done[t] + 1]
      BY <1>1, <1>5 DEF StepOn
    <3> QED BY <3>1, <3>2
  <2>3. pending' \in [Tx -> {pending'[u] : u \in Tx}]
    BY <1>1, <1>5 DEF Progress
  <2> QED BY <1>1, <1>2, <1>5, <2>1, <2>2, <2>3 DEF Progress
<1>8. \A u \in Tx : NewEnvelope(u)' = NewEnvelope(u)
  BY <1>5 DEF NewEnvelope
<1>9. \A u \in Tx : pending'[u] = IF u = t THEN NewEnvelope(t) ELSE pending[u]
  BY <1>1, <1>5 DEF Progress
<1>10. LockHolder'
  BY <1>2, <1>5, <1>6, <1>8, <1>9 DEF TxInv, LockHolder
<1> QED BY <1>5, <1>7, <1>10 DEF TxInv, ChainShape, Sealed, AppendsNeverCollide

LEMMA EndKeeps ==
  ASSUME TxInv, NEW t \in Tx, NEW how \in {"rolled_back", "deadlock"}, EndAs(t, how),
         UNCHANGED <<chain, done, found>>
  PROVE  TxInv'
<1>1. /\ Progress
      /\ how \in Ends \ {"open"}
  BY DEF TxInv, Ends
<1>2. /\ \A u \in Tx : \A op : Has(u, op)' <=> u # t /\ Has(u, op)
      /\ \A u \in Tx : pending'[u] = IF u = t THEN None ELSE pending[u]
      /\ ended' \in [Tx -> Ends] /\ ended'[t] = how
      /\ \A u \in Tx : u # t => ended'[u] = ended[u]
  BY <1>1, Ended
<1>3. Progress'
  BY <1>1, <1>2 DEF Progress, EndAs
<1>4. \A u \in Tx : NewEnvelope(u)' = NewEnvelope(u)
  BY DEF NewEnvelope
<1>5. LockHolder'
  BY <1>2, <1>4 DEF TxInv, LockHolder
<1>6. AppendsNeverCollide'
  BY <1>2 DEF TxInv, AppendsNeverCollide
<1> QED BY <1>3, <1>5, <1>6 DEF TxInv, ChainShape, Sealed

\* A commit appends the envelope that comes next, and the holder lets go.
LEMMA CommitAppends ==
  ASSUME TxInv, NEW t \in Tx, Commit(t)
  PROVE  /\ chain' = Append(chain, NewEnvelope(t))
         /\ NewEnvelope(t) = Seal(Len(chain), IF chain = <<>> THEN Genesis ELSE chain[Len(chain)].hash, t)
         /\ Has(t, "lock")
<1>1. At(t, "commit") /\ Progress
  BY DEF Commit, TxInv
<1>2. Has(t, "insert")
  BY <1>1, OpOrder DEF Progress
<1>3. Has(t, "head") /\ pending[t] = NewEnvelope(t) /\ Has(t, "lock")
  BY <1>2 DEF TxInv, LockHolder
<1> QED BY <1>3, NextEnvelope DEF Commit

LEMMA CommitKeeps ==
  ASSUME TxInv, NEW t \in Tx, Commit(t)
  PROVE  TxInv'
<1> DEFINE e == NewEnvelope(t)
           n == Len(chain)
<1>1. /\ chain' = Append(chain, e) /\ Has(t, "lock")
      /\ e = Seal(n, IF chain = <<>> THEN Genesis ELSE chain[n].hash, t)
  BY CommitAppends
<1>2. /\ Progress /\ "committed" \in Ends \ {"open"}
      /\ EndAs(t, "committed") /\ UNCHANGED <<done, found>>
  BY DEF Commit, TxInv, Ends
<1>3. /\ \A u \in Tx : \A op : Has(u, op)' <=> u # t /\ Has(u, op)
      /\ \A u \in Tx : pending'[u] = IF u = t THEN None ELSE pending[u]
      /\ ended' \in [Tx -> Ends] /\ ended'[t] = "committed"
      /\ \A u \in Tx : u # t => ended'[u] = ended[u]
  BY <1>2, Ended
<1>4. Progress'
  BY <1>2, <1>3 DEF Progress, EndAs
<1>5. \A u \in Tx : ~Has(u, "head")'
  BY <1>1, <1>3 DEF TxInv, LockHolder
<1>6. LockHolder'
  BY <1>3, <1>5 DEF TxInv, LockHolder
<1>7. AppendsNeverCollide'
  BY <1>3 DEF TxInv, AppendsNeverCollide
<1>8. ChainShape'
  <2>1. PICK S : chain \in Seq(S)
    BY DEF TxInv, ChainShape
  <2> HIDE DEF e
  <2>2. chain' \in Seq(S \cup {e}) /\ Len(chain') = n + 1
    BY <1>1, <2>1
  <2>3. /\ n \in Nat /\ \A i \in 1 .. n : chain'[i] = chain[i]
        /\ chain'[n + 1] = e
    BY <1>1, <2>1
  <2>4. \A i \in 1 .. n : chain[i].body \in Tx /\ Sealed(chain, i)
    BY DEF TxInv, ChainShape
  <2>5. chain = <<>> <=> n = 0
    BY <2>1
  <2>6. ASSUME NEW i \in 1 .. n PROVE chain'[i].body \in Tx /\ Sealed(chain', i)
    <3>1. i = 1 \/ i - 1 \in 1 .. n
      BY <2>3
    <3> QED BY <2>3, <2>4, <3>1 DEF Sealed
  <2>7. chain'[n + 1].body \in Tx /\ Sealed(chain', n + 1)
    <3>1. e.body = t
      BY <1>1, SealFields
    <3>2. e = Seal(n, IF n + 1 = 1 THEN Genesis ELSE chain'[n].hash, t)
      BY <1>1, <2>3, <2>5
    <3> QED BY <2>3, <3>1, <3>2 DEF Sealed
  <2>8. \A i \in 1 .. Len(chain') : chain'[i].body \in Tx /\ Sealed(chain', i)
    BY <2>2, <2>3, <2>6, <2>7
  <2> QED BY <2>2, <2>8 DEF ChainShape
<1> QED BY <1>4, <1>6, <1>7, <1>8 DEF TxInv

LEMMA TxKept ==
  ASSUME TxInv, [ChainNext]_chainVars
  PROVE  TxInv'
<1>1. CASE UNCHANGED chainVars
  BY <1>1 DEF TxInv, ChainShape, Sealed, Progress, LockHolder, AppendsNeverCollide, Has,
              NewEnvelope, chainVars
<1>2. ASSUME NEW t \in Tx, TxStep(t) \/ Break(t) PROVE TxInv'
  <2>1. CASE TakeLock(t)
    BY <2>1, StepKeeps DEF TakeLock
  <2>2. CASE TakeRow(t)
    BY <2>2, StepKeeps DEF TakeRow
  <2>3. CASE BreakDeadlock(t)
    BY <2>3, EndKeeps DEF BreakDeadlock
  <2>4. CASE Break(t)
    BY <2>4, EndKeeps DEF Break
  <2> QED BY <1>2, <2>1, <2>2, <2>3, <2>4, ReadKeeps, InsertKeeps, CommitKeeps DEF TxStep
<1> QED BY <1>1, <1>2 DEF ChainNext

THEOREM TxInvariant == ChainSpec => []TxInv
  BY ChainStarts, TxKept, PTL DEF ChainSpec

\* Two appends never claim one sequence: the unique index of the table refuses
\* no append, since the lock already keeps two apart (evidence-ledger.ts).
THEOREM LockKeepsApart == ChainSpec => []AppendsNeverCollide
<1>1. TxInv => AppendsNeverCollide
  BY DEF TxInv
<1> QED BY <1>1, TxInvariant, PTL

-----------------------------------------------------------------------------
(* The chain is the record of what was committed *)

Committed == {t \in Tx : ended[t] = "committed"}

LEMMA RecordKept ==
  ASSUME TxInv, RecordedIffCommitted, [ChainNext]_chainVars
  PROVE  RecordedIffCommitted'
<1>1. PICK S : chain \in Seq(S)
  BY DEF TxInv, ChainShape
<1>2. CASE UNCHANGED chain /\ \A t \in Tx : ended'[t] = "committed" <=> ended[t] = "committed"
  <2>1. Committed' = Committed
    BY <1>2 DEF Committed
  <2> QED BY <1>2, <2>1 DEF RecordedIffCommitted, Committed
<1>3. ASSUME NEW t \in Tx, Commit(t) PROVE RecordedIffCommitted'
  <2>1. /\ Progress /\ "committed" \in Ends \ {"open"} /\ EndAs(t, "committed")
        /\ UNCHANGED done /\ ended[t] = "open"
    BY <1>3 DEF Commit, At, TxInv, Ends
  <2>2. ended'[t] = "committed" /\ \A u \in Tx : u # t => ended'[u] = ended[u]
    BY <2>1, Ended
  <2>3. Committed' = Committed \cup {t} /\ t \notin Committed
    BY <2>1, <2>2 DEF Committed
  <2>4. IsFiniteSet(Committed) /\ Cardinality(Committed \cup {t}) = Cardinality(Committed) + 1
    <3>1. Committed \in SUBSET Tx
      BY DEF Committed
    <3>2. IsFiniteSet(Committed)
      BY <3>1, FS_Subset, TxAssumption
    <3> QED BY <2>3, <3>2, FS_AddElement
  <2> DEFINE e == NewEnvelope(t)
  <2>5. chain' = Append(chain, e) /\ e.body = t
    BY <1>3, CommitAppends, SealFields
  <2> HIDE DEF e
  <2>6. /\ DOMAIN chain = 1 .. Len(chain) /\ Len(chain) \in Nat
        /\ DOMAIN chain' = 1 .. Len(chain) + 1 /\ Len(chain') = Len(chain) + 1
        /\ \A i \in 1 .. Len(chain) : chain'[i] = chain[i]
        /\ chain'[Len(chain) + 1] = e
    BY <1>1, <2>5
  <2>7. {chain'[i].body : i \in DOMAIN chain'} = {chain[i].body : i \in DOMAIN chain} \cup {t}
    <3>1. ASSUME NEW x, x \in {chain'[i].body : i \in DOMAIN chain'}
          PROVE  x \in {chain[i].body : i \in DOMAIN chain} \cup {t}
      <4>1. PICK i \in 1 .. Len(chain) + 1 : x = chain'[i].body
        BY <2>6, <3>1
      <4>2. CASE i \in 1 .. Len(chain)
        BY <2>6, <4>1, <4>2
      <4>3. CASE i = Len(chain) + 1
        BY <2>5, <2>6, <4>1, <4>3
      <4> QED BY <2>6, <4>2, <4>3
    <3>2. ASSUME NEW i \in DOMAIN chain PROVE chain[i].body \in {chain'[j].body : j \in DOMAIN chain'}
      <4>1. i \in DOMAIN chain' /\ chain'[i].body = chain[i].body
        BY <2>6
      <4> QED BY <4>1
    <3>3. t \in {chain'[j].body : j \in DOMAIN chain'}
      <4>1. Len(chain) + 1 \in DOMAIN chain' /\ chain'[Len(chain) + 1].body = t
        BY <2>5, <2>6
      <4> QED BY <4>1
    <3> QED BY <3>1, <3>2, <3>3
  <2> QED BY <2>3, <2>4, <2>6, <2>7 DEF RecordedIffCommitted, Committed
<1>4. CASE UNCHANGED chainVars
  BY <1>2, <1>4 DEF chainVars
<1>5. ASSUME NEW t \in Tx, TakeLock(t) \/ TakeRow(t) \/ ReadHead(t) \/ Insert(t) PROVE RecordedIffCommitted'
  BY <1>2, <1>5, InsertKeeps DEF TakeLock, TakeRow, ReadHead
<1>6. ASSUME NEW t \in Tx, NEW how \in {"rolled_back", "deadlock"}, EndAs(t, how),
             UNCHANGED <<chain, done, found>>, ended[t] = "open"
      PROVE  RecordedIffCommitted'
  <2>1. Progress /\ how \in Ends \ {"open"} /\ how # "committed"
    BY DEF TxInv, Ends
  <2>2. ended'[t] = how /\ \A u \in Tx : u # t => ended'[u] = ended[u]
    BY <1>6, <2>1, Ended
  <2> QED BY <1>2, <1>6, <2>1, <2>2
<1>7. ASSUME NEW t \in Tx, BreakDeadlock(t) \/ Break(t) PROVE RecordedIffCommitted'
  BY <1>6, <1>7 DEF BreakDeadlock, Break, Waits, At
<1> QED BY <1>3, <1>4, <1>5, <1>7 DEF ChainNext, TxStep

\* The chain holds one envelope for each transaction that committed and none
\* for any other: no decision without its record, no record of what was rolled
\* back (unit-of-work.ts, evidence-ledger.ts).
THEOREM RecordsAreCommits == ChainSpec => []RecordedIffCommitted
<1>1. ChainInit => RecordedIffCommitted
  <2> SUFFICES ASSUME ChainInit PROVE RecordedIffCommitted
    OBVIOUS
  <2>1. Committed = {} /\ DOMAIN chain = {} /\ Len(chain) = 0
    BY DEF ChainInit, Committed
  <2> QED BY <2>1, FS_EmptySet DEF RecordedIffCommitted, Committed
<1> QED BY <1>1, RecordKept, TxInvariant, PTL DEF ChainSpec

-----------------------------------------------------------------------------
(* The order in which an audit reads the rows *)

\* Rows of a stored chain: as many as are stored, each with a sequence number.
Rows(rows, n) == /\ n \in Nat /\ DOMAIN rows = 1 .. n
                 /\ \A i \in 1 .. n : rows[i].sequence \in Int

\* A row's place is among the rows, and no two rows share one.
LEMMA Places ==
  ASSUME NEW rows, NEW n, Rows(rows, n)
  PROVE  [i \in 1 .. n |-> Place(rows, i)] \in Bijection(1 .. n, 1 .. n)
<1> DEFINE B(i) == {j \in DOMAIN rows : Before(rows, j, i)}
<1> n \in Nat /\ DOMAIN rows = 1 .. n
  BY DEF Rows
<1>1. IsFiniteSet(1 .. n) /\ Cardinality(1 .. n) = n
  BY FS_Interval
<1>10. \A i \in 1 .. n : B(i) \in SUBSET (1 .. n) /\ i \notin B(i)
  BY DEF Before, Rows
<1>11. \A i, j \in 1 .. n : Before(rows, i, j) => B(i) \in SUBSET B(j) /\ i \in B(j)
  BY DEF Before, Rows
<1>12. \A i \in 1 .. n : Place(rows, i) = Cardinality(B(i)) + 1
  BY DEF Place
<1> HIDE DEF B
<1>2. ASSUME NEW i \in 1 .. n
      PROVE  IsFiniteSet(B(i)) /\ Cardinality(B(i)) \in Nat /\ Cardinality(B(i)) < n
  <2>1. IsFiniteSet(B(i)) /\ Cardinality(B(i)) <= n /\ (Cardinality(B(i)) = n => B(i) = 1 .. n)
    BY <1>1, <1>10, FS_Subset
  <2>2. Cardinality(B(i)) \in Nat
    BY <2>1, FS_CardinalityType
  <2> QED BY <1>10, <2>1, <2>2
<1>3. ASSUME NEW i \in 1 .. n, NEW j \in 1 .. n, Before(rows, i, j)
      PROVE  Cardinality(B(i)) < Cardinality(B(j))
  <2>1. B(i) \in SUBSET B(j) /\ B(i) # B(j)
    BY <1>3, <1>10, <1>11
  <2>2. IsFiniteSet(B(j))
    BY <1>2
  <2>3. Cardinality(B(i)) <= Cardinality(B(j)) /\ Cardinality(B(i)) # Cardinality(B(j))
    BY <2>1, <2>2, FS_Subset
  <2>4. Cardinality(B(i)) \in Nat /\ Cardinality(B(j)) \in Nat
    BY <1>2
  <2> QED BY <2>3, <2>4
<1>4. ASSUME NEW i \in 1 .. n, NEW j \in 1 .. n, i # j
      PROVE  Before(rows, i, j) \/ Before(rows, j, i)
  BY <1>4 DEF Before, Rows
<1> DEFINE place == [i \in 1 .. n |-> Place(rows, i)]
<1>5. \A i \in 1 .. n : place[i] = Cardinality(B(i)) + 1
  BY <1>12
<1> HIDE DEF place
<1>6. place \in [1 .. n -> 1 .. n]
  <2>1. \A i \in 1 .. n : place[i] \in 1 .. n
    <3> TAKE i \in 1 .. n
    <3>1. Cardinality(B(i)) \in Nat /\ Cardinality(B(i)) < n /\ place[i] = Cardinality(B(i)) + 1
      BY <1>2, <1>5
    <3> QED BY <3>1
  <2> QED BY <2>1 DEF place
<1>7. \A i, j \in 1 .. n : i # j => place[i] # place[j]
  <2> SUFFICES ASSUME NEW i \in 1 .. n, NEW j \in 1 .. n, i # j PROVE place[i] # place[j]
    OBVIOUS
  <2>1. Cardinality(B(i)) < Cardinality(B(j)) \/ Cardinality(B(j)) < Cardinality(B(i))
    BY <1>3, <1>4
  <2> QED BY <1>2, <1>5, <2>1
<1>8. place \in Injection(1 .. n, 1 .. n)
  BY <1>6, <1>7 DEF Injection, IsInjective
<1>9. place \in Surjection(1 .. n, 1 .. n)
  BY <1>1, <1>8, FS_Injection
<1> QED BY <1>8, <1>9 DEF Bijection, place

\* p says which row is read at each place of the order, and leaves none out.
Reads(p, rows, n) ==
  /\ p \in [1 .. n -> 1 .. n]
  /\ Sorted(rows) = [k \in 1 .. n |-> rows[p[k]]]
  /\ \A i \in 1 .. n : \E k \in 1 .. n : p[k] = i

\* Sorting moves the rows about: each is read.
LEMMA SortedIsPermutation ==
  ASSUME NEW rows, NEW n, Rows(rows, n)
  PROVE  \E p : Reads(p, rows, n)
<1> DEFINE place == [i \in 1 .. n |-> Place(rows, i)]
           p == [k \in 1 .. n |-> CHOOSE i \in 1 .. n : Place(rows, i) = k]
<1> n \in Nat /\ DOMAIN rows = 1 .. n
  BY DEF Rows
<1>1. place \in Bijection(1 .. n, 1 .. n)
  BY Places
<1>2. /\ \A k \in 1 .. n : \E i \in 1 .. n : Place(rows, i) = k
      /\ \A i, j \in 1 .. n : Place(rows, i) = Place(rows, j) => i = j
      /\ \A i \in 1 .. n : Place(rows, i) \in 1 .. n
  BY <1>1 DEF Bijection, Injection, IsInjective, Surjection
<1>3. \A k \in 1 .. n : p[k] \in 1 .. n /\ Place(rows, p[k]) = k
  BY <1>2
<1>4. \A i \in 1 .. n : p[Place(rows, i)] = i
  BY <1>2, <1>3
<1>5. Sorted(rows) = [k \in 1 .. n |-> rows[p[k]]]
  BY DEF Sorted
<1>6. p \in [1 .. n -> 1 .. n]
  BY <1>3
<1> HIDE DEF p
<1>7. \A i \in 1 .. n : \E k \in 1 .. n : p[k] = i
  BY <1>2, <1>4
<1> QED BY <1>5, <1>6, <1>7 DEF Reads

\* Rows that are in order stay as they are.
LEMMA SortedInOrder ==
  ASSUME NEW rows, NEW n, Rows(rows, n), rows = [i \in 1 .. n |-> rows[i]],
         \A i, j \in 1 .. n : i < j => rows[i].sequence < rows[j].sequence
  PROVE  Sorted(rows) = rows
<1> n \in Nat /\ DOMAIN rows = 1 .. n
  BY DEF Rows
<1>1. ASSUME NEW i \in 1 .. n PROVE Place(rows, i) = i
  <2> DEFINE b == {j \in DOMAIN rows : Before(rows, j, i)}
  <2>1. b = 1 .. (i - 1)
    BY DEF Before, Rows
  <2>3. Place(rows, i) = Cardinality(b) + 1
    BY DEF Place
  <2>2. Cardinality(1 .. (i - 1)) = i - 1
    <3>1. 1 \in Int /\ i - 1 \in Int /\ i >= 1
      OBVIOUS
    <3>2. Cardinality(1 .. (i - 1)) = IF 1 > i - 1 THEN 0 ELSE (i - 1) - 1 + 1
      BY <3>1, FS_Interval
    <3> QED BY <3>1, <3>2
  <2> HIDE DEF b
  <2>4. i - 1 + 1 = i
    OBVIOUS
  <2> QED BY <2>1, <2>2, <2>3, <2>4
<1>2. \A k \in 1 .. n : (CHOOSE i \in DOMAIN rows : Place(rows, i) = k) = k
  BY <1>1
<1> QED BY <1>2 DEF Sorted

-----------------------------------------------------------------------------
(* What verification reports *)

\* A sealed envelope is not nothing, and neither is its hash.
LEMMA SealIsSomething ==
  ASSUME NEW q, NEW p, NEW b
  PROVE  Seal(q, p, b) # None /\ Seal(q, p, b).hash # None
<1>1. <<ThisChain, q, p, b>> # <<>>
  OBVIOUS
<1>2. DOMAIN Seal(q, p, b) # DOMAIN <<>>
  <2>1. "hash" \in DOMAIN Seal(q, p, b)
    BY DEF Seal
  <2>2. DOMAIN <<>> = {}
    OBVIOUS
  <2> QED BY <2>1, <2>2
<1> QED BY <1>1, <1>2, SealFields DEF None

\* A defect of any row, in the order of the audit, is reported.
LEMMA DefectReported ==
  ASSUME NEW rows, NEW h, NEW k \in DOMAIN Sorted(rows),
         LET s == Sorted(rows)
         IN  \/ EnvelopeDefects(s[k], s[1].chainId) # {}
             \/ LinkDefects(s[k], IF k = 1 THEN None ELSE s[k - 1]) # {}
             \/ \E j \in 1 .. (k - 1) : s[j].sequence = s[k].sequence
  PROVE  Verify(rows, h) # {}
<1> DEFINE s == Sorted(rows)
<1>1. RowDefects(s, k) # {}
  BY DEF RowDefects
<1>2. RowDefects(s, k) \subseteq ChainDefects(s)
  <2> HIDE DEF s
  <2> QED BY DEF ChainDefects, s
<1> QED BY <1>1, <1>2 DEF Verify

LEMMA HeadReported ==
  ASSUME NEW rows, NEW h, HeadDefects(Sorted(rows), h) # {}
  PROVE  Verify(rows, h) # {}
  BY DEF Verify

\* An envelope that was edited, or that carries another's signature.
LEMMA EditReported ==
  ASSUME NEW rows, NEW n, Rows(rows, n), NEW h, NEW i \in 1 .. n,
         rows[i].hash # Hash(rows[i]) \/ rows[i].signature # rows[i].hash
  PROVE  Verify(rows, h) # {}
<1>1. PICK p : Reads(p, rows, n)
  BY SortedIsPermutation
<1>2. PICK k \in 1 .. n : p[k] = i
  BY <1>1 DEF Reads
<1>3. k \in DOMAIN Sorted(rows) /\ Sorted(rows)[k] = rows[i]
  BY <1>1, <1>2 DEF Reads
<1>4. \A c : EnvelopeDefects(rows[i], c) # {}
  BY DEF EnvelopeDefects
<1> QED BY <1>3, <1>4, DefectReported

\* Two envelopes of one sequence.
LEMMA DuplicateReported ==
  ASSUME NEW rows, NEW n, Rows(rows, n), NEW h, NEW i \in 1 .. n, NEW j \in 1 .. n,
         i # j, rows[i].sequence = rows[j].sequence
  PROVE  Verify(rows, h) # {}
<1>1. PICK p : Reads(p, rows, n)
  BY SortedIsPermutation
<1>2. PICK k \in 1 .. n, l \in 1 .. n : p[k] = i /\ p[l] = j
  BY <1>1 DEF Reads
<1>3. /\ DOMAIN Sorted(rows) = 1 .. n /\ k # l
      /\ Sorted(rows)[k].sequence = Sorted(rows)[l].sequence
  BY <1>1, <1>2 DEF Reads
<1>4. n \in Nat
  BY DEF Rows
<1>5. l \in 1 .. (k - 1) \/ k \in 1 .. (l - 1)
  BY <1>3, <1>4
<1> QED BY <1>3, <1>5, DefectReported

\* Envelopes of two chains.
LEMMA ForeignReported ==
  ASSUME NEW rows, NEW n, Rows(rows, n), NEW h, NEW i \in 1 .. n, NEW j \in 1 .. n,
         rows[i].chainId # rows[j].chainId
  PROVE  Verify(rows, h) # {}
<1>1. PICK p : Reads(p, rows, n)
  BY SortedIsPermutation
<1>2. PICK k \in 1 .. n, l \in 1 .. n : p[k] = i /\ p[l] = j
  BY <1>1 DEF Reads
<1>3. /\ DOMAIN Sorted(rows) = 1 .. n
      /\ Sorted(rows)[k] = rows[i] /\ Sorted(rows)[l] = rows[j]
  BY <1>1, <1>2 DEF Reads
<1> DEFINE c == Sorted(rows)[1].chainId
<1>4. rows[i].chainId # c => EnvelopeDefects(rows[i], c) # {}
  BY DEF EnvelopeDefects
<1>5. rows[j].chainId # c => EnvelopeDefects(rows[j], c) # {}
  BY DEF EnvelopeDefects
<1> QED BY <1>3, <1>4, <1>5, DefectReported

\* An envelope that does not follow the one before it.
LEMMA GapReported ==
  ASSUME NEW rows, NEW n, Rows(rows, n), NEW h, rows = [i \in 1 .. n |-> rows[i]],
         \A i, j \in 1 .. n : i < j => rows[i].sequence < rows[j].sequence,
         NEW k \in 1 .. n,
         IF k = 1 THEN rows[k].sequence # 0
                  ELSE rows[k].sequence # rows[k - 1].sequence + 1 /\ rows[k - 1] # None
  PROVE  Verify(rows, h) # {}
<1>1. Sorted(rows) = rows /\ DOMAIN rows = 1 .. n
  BY SortedInOrder DEF Rows
<1>2. LinkDefects(rows[k], IF k = 1 THEN None ELSE rows[k - 1]) # {}
  BY DEF LinkDefects
<1> QED BY <1>1, <1>2, DefectReported

\* Rows among which the head that the client holds is not.
LEMMA MissingHeadReported ==
  ASSUME NEW rows, NEW n \in Nat \ {0}, Rows(rows, n), NEW h, h # None,
         \A i \in 1 .. n : rows[i].hash # h
  PROVE  Verify(rows, h) # {}
<1>1. PICK p : Reads(p, rows, n)
  BY SortedIsPermutation
<1> DEFINE s == Sorted(rows)
           S == {rows[i] : i \in 1 .. n}
<1>2. s \in [1 .. n -> S] /\ s[n] = rows[p[n]] /\ p[n] \in 1 .. n
  <2>1. /\ s = [k \in 1 .. n |-> rows[p[k]]]
        /\ p \in [1 .. n -> 1 .. n]
        /\ n \in 1 .. n
    <3>1. n \in 1 .. n
      OBVIOUS
    <3>2. s = [k \in 1 .. n |-> rows[p[k]]]
      BY <1>1, Zenon DEF Reads
    <3>3. p \in [1 .. n -> 1 .. n]
      BY <1>1, Zenon DEF Reads
    <3> QED BY <3>1, <3>2, <3>3
  <2> HIDE DEF s
  <2>2. \A k \in 1 .. n : rows[p[k]] \in S
    BY <2>1
  <2> QED BY <2>1, <2>2
<1> HIDE DEF S
<1>3. s \in Seq(S) /\ Len(s) = n
  <2> HIDE DEF s
  <2>1. s \in Seq(S)
    BY <1>2, SeqDef
  <2> QED BY <1>2, <2>1
<1>4. s # <<>> /\ Last(s) = s[n]
  BY <1>3 DEF Last
<1>5. h \notin {None, HeadOf(s)}
  BY <1>2, <1>4 DEF HeadOf
<1>6. HeadDefects(s, h) # {}
  BY <1>5 DEF HeadDefects
<1> QED BY <1>6, HeadReported

-----------------------------------------------------------------------------
(* The chain the code writes *)

\* What the invariant says of each envelope of the chain.
LEMMA Envelopes ==
  ASSUME TxInv
  PROVE  /\ Len(chain) \in Nat /\ DOMAIN chain = 1 .. Len(chain)
         /\ chain = [i \in 1 .. Len(chain) |-> chain[i]]
         /\ Rows(chain, Len(chain))
         /\ \A i \in 1 .. Len(chain) :
              /\ chain[i] = [chainId |-> ThisChain, sequence |-> i - 1, prev |-> chain[i].prev,
                             body |-> chain[i].body, hash |-> chain[i].hash, signature |-> chain[i].hash]
              /\ chain[i].chainId = ThisChain /\ chain[i].sequence = i - 1
              /\ chain[i].prev = (IF i = 1 THEN Genesis ELSE chain[i - 1].hash)
              /\ chain[i].body \in Tx
              /\ chain[i].hash = <<ThisChain, i - 1, chain[i].prev, chain[i].body>>
              /\ chain[i].signature = chain[i].hash
              /\ chain[i] # None /\ chain[i].hash # None
<1>1. PICK S : chain \in Seq(S)
  BY DEF TxInv, ChainShape
<1>2. Len(chain) \in Nat /\ DOMAIN chain = 1 .. Len(chain) /\ chain = [i \in 1 .. Len(chain) |-> chain[i]]
  BY <1>1
<1>3. ASSUME NEW i \in 1 .. Len(chain)
      PROVE  /\ chain[i] = [chainId |-> ThisChain, sequence |-> i - 1, prev |-> chain[i].prev,
                            body |-> chain[i].body, hash |-> chain[i].hash, signature |-> chain[i].hash]
             /\ chain[i].chainId = ThisChain /\ chain[i].sequence = i - 1
             /\ chain[i].prev = (IF i = 1 THEN Genesis ELSE chain[i - 1].hash)
             /\ chain[i].body \in Tx
             /\ chain[i].hash = <<ThisChain, i - 1, chain[i].prev, chain[i].body>>
             /\ chain[i].signature = chain[i].hash
             /\ chain[i] # None /\ chain[i].hash # None
  <2> DEFINE q == i - 1
             p == IF i = 1 THEN Genesis ELSE chain[i - 1].hash
             b == chain[i].body
  <2>1. chain[i] = Seal(q, p, b) /\ b \in Tx
    BY DEF TxInv, ChainShape, Sealed
  <2> HIDE DEF q, p, b
  <2>2. Seal(q, p, b) = [chainId |-> ThisChain, sequence |-> q, prev |-> p, body |-> b,
                         hash |-> <<ThisChain, q, p, b>>, signature |-> <<ThisChain, q, p, b>>]
    BY DEF Seal, Hash
  <2> QED BY <2>1, <2>2, SealFields, SealIsSomething DEF q, p, b
<1>4. Rows(chain, Len(chain))
  <2>1. \A i \in 1 .. Len(chain) : chain[i].sequence = i - 1
    BY <1>3
  <2> QED BY <1>2, <2>1 DEF Rows
<1> QED BY <1>2, <1>3, <1>4

LEMMA HonestVerifies == TxInv => HonestChainVerifies
<1> SUFFICES ASSUME TxInv PROVE HonestChainVerifies
  OBVIOUS
<1> DEFINE n == Len(chain)
<1>1. \A i \in 1 .. n : chain[i].sequence = i - 1
  BY Envelopes
<1>2. Sorted(chain) = chain
  <2>1. \A i, j \in 1 .. n : i < j => chain[i].sequence < chain[j].sequence
    BY <1>1
  <2> QED BY <2>1, Envelopes, SortedInOrder
<1>3. ASSUME NEW i \in 1 .. n
      PROVE  /\ EnvelopeDefects(chain[i], chain[1].chainId) = {}
             /\ LinkDefects(chain[i], IF i = 1 THEN None ELSE chain[i - 1]) = {}
             /\ ~ \E j \in 1 .. (i - 1) : chain[j].sequence = chain[i].sequence
  <2>1. n \in Nat /\ 1 \in 1 .. n /\ (i = 1 \/ i - 1 \in 1 .. n)
    BY Envelopes
  <2>2. EnvelopeDefects(chain[i], chain[1].chainId) = {}
    <3>1. chain[i].chainId = chain[1].chainId /\ chain[i].signature = chain[i].hash
      BY <2>1, Envelopes
    <3>2. chain[i].hash = Hash(chain[i])
      BY Envelopes DEF Hash
    <3> QED BY <3>1, <3>2 DEF EnvelopeDefects
  <2>3. LinkDefects(chain[i], IF i = 1 THEN None ELSE chain[i - 1]) = {}
    <3>1. CASE i = 1
      BY <1>1, <2>1, <3>1, Envelopes DEF LinkDefects
    <3>2. CASE i # 1
      <4>1. chain[i - 1] # None /\ chain[i].prev = chain[i - 1].hash
        BY <2>1, <3>2, Envelopes
      <4>2. chain[i].sequence = chain[i - 1].sequence + 1
        BY <1>1, <2>1, <3>2
      <4> QED BY <3>2, <4>1, <4>2 DEF LinkDefects
    <3> QED BY <3>1, <3>2
  <2>4. ~ \E j \in 1 .. (i - 1) : chain[j].sequence = chain[i].sequence
    BY <1>1, <2>1
  <2> QED BY <2>2, <2>3, <2>4
<1>4. DOMAIN chain = 1 .. n
  BY Envelopes
<1>5. \A i \in DOMAIN chain : RowDefects(chain, i) = {}
  BY <1>3, <1>4 DEF RowDefects
<1>6. HeadDefects(chain, HeadOf(chain)) = {}
  BY DEF HeadDefects
<1> QED BY <1>2, <1>5, <1>6 DEF HonestChainVerifies, Verify, ChainDefects

\* What the code alone has written verifies: whatever interleaving and rollback,
\* the stored chain has no gap, no fork and no broken link (envelope.ts,
\* verifyChain; evidence-ledger.ts, appendOn).
THEOREM HonestChain == ChainSpec => []HonestChainVerifies
  BY HonestVerifies, TxInvariant, PTL

-----------------------------------------------------------------------------
(* Damage to the chain *)

\* The number of stored envelopes.
Stored == Len(chain)

\* An edited body: the hash no longer commits to it.
LEMMA EditedBody ==
  ASSUME TxInv, NEW i \in DOMAIN chain, NEW h
  PROVE  Verify([chain EXCEPT ![i].body = "forged"], h) # {}
<1> DEFINE rows == [chain EXCEPT ![i].body = "forged"]
<1>1. i \in 1 .. Stored /\ DOMAIN chain = 1 .. Stored /\ Stored \in Nat
  BY Envelopes DEF Stored
<1>2. /\ DOMAIN rows = 1 .. Stored /\ \A j \in 1 .. Stored : rows[j].sequence = j - 1
      /\ rows[i].hash = <<ThisChain, i - 1, chain[i].prev, chain[i].body>>
      /\ Hash(rows[i]) = <<ThisChain, i - 1, chain[i].prev, "forged">>
      /\ chain[i].body # "forged"
  BY <1>1, Envelopes, TxAssumption DEF Stored, Hash
<1> HIDE DEF rows
<1>3. Rows(rows, Stored)
  BY <1>1, <1>2 DEF Rows
<1>4. rows[i].hash # Hash(rows[i])
  BY <1>2
<1> QED BY <1>1, <1>3, <1>4, EditReported DEF rows

\* Two envelopes that exchanged their sequences.
LEMMA Exchanged ==
  ASSUME TxInv, NEW i \in DOMAIN chain, NEW j \in DOMAIN chain, i < j, NEW h
  PROVE  Verify([chain EXCEPT ![i].sequence = chain[j].sequence,
                              ![j].sequence = chain[i].sequence], h) # {}
<1> DEFINE rows == [chain EXCEPT ![i].sequence = chain[j].sequence,
                                 ![j].sequence = chain[i].sequence]
<1>1. /\ i \in 1 .. Stored /\ j \in 1 .. Stored /\ i # j
      /\ DOMAIN chain = 1 .. Stored /\ Stored \in Nat
  BY Envelopes DEF Stored
<1>2. /\ DOMAIN rows = 1 .. Stored
      /\ rows[i].hash = <<ThisChain, i - 1, chain[i].prev, chain[i].body>>
      /\ Hash(rows[i]) = <<ThisChain, j - 1, chain[i].prev, chain[i].body>>
  BY <1>1, Envelopes DEF Stored, Hash
<1>3. \A k \in 1 .. Stored : rows[k].sequence \in Int
  BY <1>1, Envelopes DEF Stored
<1> HIDE DEF rows
<1>4. Rows(rows, Stored)
  BY <1>1, <1>2, <1>3 DEF Rows
<1>5. rows[i].hash # Hash(rows[i])
  BY <1>1, <1>2
<1> QED BY <1>1, <1>4, <1>5, EditReported DEF rows

\* An envelope stored a second time.
LEMMA StoredTwice ==
  ASSUME TxInv, NEW i \in DOMAIN chain, NEW h
  PROVE  Verify(Append(chain, chain[i]), h) # {}
<1> DEFINE rows == Append(chain, chain[i])
<1>1. PICK S : chain \in Seq(S)
  BY DEF TxInv, ChainShape
<1>2. i \in 1 .. Stored /\ Stored \in Nat
  BY Envelopes DEF Stored
<1>3. /\ DOMAIN rows = 1 .. (Stored + 1) /\ rows[Stored + 1] = chain[i]
      /\ \A j \in 1 .. Stored : rows[j] = chain[j]
  BY <1>1, <1>2 DEF Stored
<1> HIDE DEF rows
<1>4. \A j \in 1 .. Stored : chain[j].sequence \in Int
  BY Envelopes DEF Stored
<1>5. Rows(rows, Stored + 1)
  <2>1. \A j \in 1 .. (Stored + 1) : j \in 1 .. Stored \/ j = Stored + 1
    BY <1>2
  <2> QED BY <1>2, <1>3, <1>4, <2>1 DEF Rows
<1>6. /\ i \in 1 .. (Stored + 1) /\ Stored + 1 \in 1 .. (Stored + 1) /\ i # Stored + 1
      /\ rows[i].sequence = rows[Stored + 1].sequence
  BY <1>2, <1>3
<1> QED BY <1>5, <1>6, DuplicateReported DEF rows

\* An envelope of another chain put in the place of one, sealed by the signer.
LEMMA OfAnotherChain ==
  ASSUME TxInv, NEW i \in 2 .. Len(chain), NEW e, NEW h,
         e.chainId = "other", e.sequence = chain[i].sequence
  PROVE  Verify([chain EXCEPT ![i] = e], h) # {}
<1> DEFINE rows == [chain EXCEPT ![i] = e]
<1>1. i \in 1 .. Stored /\ 1 \in 1 .. Stored /\ i # 1 /\ Stored \in Nat
  BY Envelopes DEF Stored
<1>2. /\ DOMAIN rows = 1 .. Stored /\ rows[i] = e
      /\ \A j \in 1 .. Stored : j # i => rows[j] = chain[j]
  BY <1>1, Envelopes DEF Stored
<1> HIDE DEF rows
<1>3. \A j \in 1 .. Stored : chain[j].sequence \in Int
  BY Envelopes DEF Stored
<1>4. Rows(rows, Stored)
  BY <1>1, <1>2, <1>3 DEF Rows
<1>5. rows[1].chainId = "this"
  BY <1>1, <1>2, Envelopes DEF Stored, ThisChain
<1>6. rows[i].chainId # rows[1].chainId
  BY <1>2, <1>5
<1> QED BY <1>1, <1>4, <1>6, ForeignReported DEF rows

\* The newest envelopes are gone, and the client holds the head.
LEMMA Truncated ==
  ASSUME TxInv, NEW n \in 1 .. (Len(chain) - 1)
  PROVE  Verify(SubSeq(chain, 1, n), Last(chain).hash) # {}
<1> DEFINE rows == SubSeq(chain, 1, n)
           h == Last(chain).hash
<1>1. PICK S : chain \in Seq(S)
  BY DEF TxInv, ChainShape
<1>2. Stored \in Nat /\ n \in Nat \ {0} /\ n < Stored /\ Stored \in 1 .. Stored
  BY Envelopes DEF Stored
<1>3. DOMAIN rows = 1 .. n /\ \A j \in 1 .. n : rows[j] = chain[j]
  BY <1>1, <1>2 DEF Stored
<1>4. h = chain[Stored].hash
  BY DEF Last, Stored
<1>5. \A j \in 1 .. n : j \in 1 .. Stored /\ j # Stored
  BY <1>2
<1>6. h # None
  BY <1>2, <1>4, Envelopes DEF Stored
<1>7. ASSUME NEW j \in 1 .. n PROVE rows[j].hash # h /\ rows[j].sequence \in Int
  <2>1. /\ chain[j].hash = <<ThisChain, j - 1, chain[j].prev, chain[j].body>>
        /\ chain[j].sequence = j - 1
    BY <1>5, Envelopes DEF Stored
  <2>2. chain[Stored].hash = <<ThisChain, Stored - 1, chain[Stored].prev, chain[Stored].body>>
    BY <1>2, Envelopes DEF Stored
  <2>3. j - 1 # Stored - 1
    BY <1>2, <1>5
  <2> QED BY <1>3, <1>4, <2>1, <2>2, <2>3
<1>8. Rows(rows, n)
  BY <1>2, <1>3, <1>7 DEF Rows
<1> HIDE DEF rows, h
<1> QED BY <1>2, <1>6, <1>7, <1>8, MissingHeadReported DEF rows, h

\* An envelope removed, other than the newest.
LEMMA Removed ==
  ASSUME TxInv, NEW i \in 1 .. (Len(chain) - 1), NEW h
  PROVE  Verify(RemoveAt(chain, i), h) # {}
<1> DEFINE rows == RemoveAt(chain, i)
           n == Stored - 1
<1>1. PICK S : chain \in Seq(S)
  BY DEF TxInv, ChainShape
<1>2. Stored \in Nat /\ n \in Nat /\ i \in 1 .. n /\ Stored = n + 1
  BY Envelopes DEF Stored
<1>3. /\ rows = [j \in 1 .. n |-> rows[j]]
      /\ \A j \in 1 .. n : rows[j] = IF j < i THEN chain[j] ELSE chain[j + 1]
  <2> DEFINE front == SubSeq(chain, 1, i - 1)
             back == SubSeq(chain, i + 1, Stored)
  <2>1. /\ front \in Seq(S) /\ Len(front) = i - 1
        /\ \A j \in 1 .. (i - 1) : front[j] = chain[j]
    BY <1>1, <1>2 DEF Stored
  <2>2. /\ back \in Seq(S) /\ Len(back) = n - i + 1
        /\ \A j \in 1 .. (n - i + 1) : back[j] = chain[i + j]
    BY <1>1, <1>2 DEF Stored
  <2>3. rows = front \o back
    BY DEF RemoveAt, Stored
  <2> HIDE DEF front, back, rows
  <2>4. rows \in Seq(S) /\ Len(rows) = n
    <3>1. Len(front) + Len(back) = n
      BY <1>2, <2>1, <2>2
    <3>2. front \o back \in Seq(S) /\ Len(front \o back) = Len(front) + Len(back)
      BY <2>1, <2>2, ConcatProperties
    <3> QED BY <2>3, <3>1, <3>2
  <2>5. ASSUME NEW j \in 1 .. n PROVE rows[j] = IF j < i THEN chain[j] ELSE chain[j + 1]
    <3>1. rows[j] = IF j <= i - 1 THEN front[j] ELSE back[j - (i - 1)]
      <4>1. Len(front) + Len(back) = n
        BY <1>2, <2>1, <2>2
      <4>2. \A k \in 1 .. Len(front) + Len(back) :
              (front \o back)[k] = IF k <= Len(front) THEN front[k] ELSE back[k - Len(front)]
        BY <2>1, <2>2, ConcatProperties
      <4> QED BY <2>1, <2>3, <4>1, <4>2
    <3>2. CASE j < i
      BY <1>2, <2>1, <3>1, <3>2
    <3>3. CASE ~(j < i)
      <4>1. j - (i - 1) \in 1 .. (n - i + 1) /\ i + (j - (i - 1)) = j + 1 /\ ~(j <= i - 1)
        BY <1>2, <3>3
      <4> QED BY <2>2, <3>1, <3>3, <4>1
    <3> QED BY <3>2, <3>3
  <2> QED BY <2>4, <2>5
<1> HIDE DEF rows
<1>4. \A j \in 1 .. Stored : chain[j].sequence = j - 1 /\ chain[j] # None
  BY Envelopes DEF Stored
<1>5. \A j \in 1 .. n : rows[j].sequence = (IF j < i THEN j - 1 ELSE j) /\ rows[j] # None
  <2> TAKE j \in 1 .. n
  <2>1. j \in 1 .. Stored /\ j + 1 \in 1 .. Stored
    BY <1>2
  <2> QED BY <1>3, <1>4, <2>1
<1>6. Rows(rows, n)
  <2>1. DOMAIN rows = 1 .. n
    BY <1>3
  <2> QED BY <1>2, <1>5, <2>1 DEF Rows
<1>7. \A j, k \in 1 .. n : j < k => rows[j].sequence < rows[k].sequence
  BY <1>2, <1>5
<1>8. IF i = 1 THEN rows[i].sequence # 0
               ELSE rows[i].sequence # rows[i - 1].sequence + 1 /\ rows[i - 1] # None
  BY <1>2, <1>5
<1> HIDE DEF n
<1> QED BY <1>2, <1>3, <1>6, <1>7, <1>8, GapReported DEF rows

\* The j-th envelope of the chain rewritten from the i-th on, when f holds the
\* envelopes before it.
Rewrite(f, i, j) ==
  IF j < i THEN chain[j]
  ELSE Forged(chain[j], IF j = i THEN "forged" ELSE chain[j].body,
              IF j = 1 THEN Genesis ELSE f[j - 1].hash)

\* There is a rewritten chain of every length: each envelope is made from the
\* one before it. A least length without one cannot be.
LEMMA RewritingExists ==
  ASSUME NEW i, NEW n \in Nat
  PROVE  \E f : f = [j \in 1 .. n |-> Rewrite(f, i, j)]
<1> DEFINE Made(m) == \E f : f = [j \in 1 .. m |-> Rewrite(f, i, j)]
           T == {m \in Nat : ~Made(m)}
<1>1. ASSUME NEW m \in Nat, Made(m) PROVE Made(m + 1)
  <2>1. PICK f : f = [j \in 1 .. m |-> Rewrite(f, i, j)]
    BY <1>1
  <2> DEFINE g == [j \in 1 .. m + 1 |-> IF j = m + 1 THEN Rewrite(f, i, j) ELSE f[j]]
  <2>2. ASSUME NEW j \in 1 .. m + 1 PROVE g[j] = Rewrite(g, i, j)
    <3>1. Rewrite(g, i, j) = Rewrite(f, i, j)
      <4>1. CASE j = 1
        BY <4>1 DEF Rewrite
      <4>2. CASE j # 1
        <5>1. j - 1 \in 1 .. m + 1 /\ j - 1 # m + 1
          BY <4>2
        <5>2. g[j - 1] = f[j - 1]
          BY <5>1
        <5> HIDE DEF g
        <5> QED BY <4>2, <5>2 DEF Rewrite
      <4> QED BY <4>1, <4>2
    <3>2. CASE j = m + 1
      BY <3>1, <3>2
    <3>3. CASE j # m + 1
      <4>1. j \in 1 .. m
        BY <3>3
      <4>2. f[j] = Rewrite(f, i, j)
        BY <2>1, <4>1
      <4> QED BY <3>1, <3>3, <4>2
    <3> QED BY <3>2, <3>3
  <2>3. g = [j \in 1 .. m + 1 |-> g[j]]
    OBVIOUS
  <2> HIDE DEF g
  <2>4. g = [j \in 1 .. m + 1 |-> Rewrite(g, i, j)]
    BY <2>2, <2>3
  <2> QED BY <2>4
<1>2. Made(0)
  <2> DEFINE e == [j \in 1 .. 0 |-> chain[j]]
  <2>1. e = [j \in 1 .. 0 |-> Rewrite(e, i, j)]
    OBVIOUS
  <2> QED BY <2>1
<1>3. T = {}
  <2> SUFFICES ASSUME T # {} PROVE FALSE
    OBVIOUS
  <2>1. PICK x \in T : \A y \in T : <<y, x>> \notin OpToRel(<, Nat)
    <3>1. T \subseteq Nat
      OBVIOUS
    <3> HIDE DEF T
    <3> QED BY <3>1, NatLessThanWellFounded, WFMin
  <2>2. x \in Nat /\ ~Made(x) /\ x # 0
    BY <1>2
  <2> HIDE DEF Made
  <2>3. x - 1 \in Nat /\ x - 1 + 1 = x
    BY <2>2
  <2>4. ~Made(x - 1)
    BY <1>1, <2>2, <2>3
  <2>5. x - 1 \in T
    BY <2>3, <2>4
  <2>6. <<x - 1, x>> \in OpToRel(<, Nat)
    BY <2>2, <2>3 DEF OpToRel
  <2> QED BY <2>1, <2>5, <2>6
<1> QED BY <1>3

\* A chain rewritten from an envelope on, its hashes recomputed: the signature
\* of that envelope is of the hash it had.
LEMMA RewrittenChain ==
  ASSUME TxInv, NEW i \in DOMAIN chain, NEW h
  PROVE  Verify(Rewritten(i), h) # {}
<1> DEFINE rows == Rewritten(i)
<1>1. i \in 1 .. Stored /\ DOMAIN chain = 1 .. Stored /\ Stored \in Nat
  BY Envelopes DEF Stored
<1>2. \E f : f = [j \in DOMAIN chain |-> Rewrite(f, i, j)]
  <2>1. PICK f : f = [j \in 1 .. Stored |-> Rewrite(f, i, j)]
    BY <1>1, RewritingExists
  <2>2. f = [j \in DOMAIN chain |-> Rewrite(f, i, j)]
    BY <1>1, <2>1, Zenon
  <2> QED BY <2>2
<1>3. rows = [j \in DOMAIN chain |-> Rewrite(rows, i, j)]
  BY <1>2 DEF Rewritten, Rewrite
<1> HIDE DEF rows
<1>4. ASSUME NEW j \in 1 .. Stored
      PROVE  /\ rows[j].sequence = j - 1
             /\ j = i => /\ rows[j].hash = <<ThisChain, i - 1, rows[j].prev, "forged">>
                         /\ rows[j].signature = chain[i].hash
  <2>1. rows[j] = Rewrite(rows, i, j)
    BY <1>1, <1>3
  <2>2. chain[j] = [chainId |-> ThisChain, sequence |-> j - 1, prev |-> chain[j].prev,
                    body |-> chain[j].body, hash |-> chain[j].hash, signature |-> chain[j].hash]
    BY Envelopes DEF Stored
  <2>3. CASE j < i
    BY <1>1, <2>1, <2>2, <2>3 DEF Rewrite
  <2>4. CASE ~(j < i)
    <3> DEFINE b == IF j = i THEN "forged" ELSE chain[j].body
               p == IF j = 1 THEN Genesis ELSE rows[j - 1].hash
    <3>1. rows[j] = Forged(chain[j], b, p)
      BY <2>1, <2>4 DEF Rewrite
    <3>2. j = i => b = "forged"
      OBVIOUS
    <3> HIDE DEF b, p
    <3>3. /\ Forged(chain[j], b, p).sequence = j - 1
          /\ Forged(chain[j], b, p).prev = p
          /\ Forged(chain[j], b, p).hash = <<ThisChain, j - 1, p, b>>
          /\ Forged(chain[j], b, p).signature = chain[j].hash
      BY <2>2 DEF Forged, Hash
    <3> QED BY <3>1, <3>2, <3>3
  <2> QED BY <2>3, <2>4
<1>5. Rows(rows, Stored)
  BY <1>1, <1>3, <1>4 DEF Rows
<1>6. rows[i].signature # rows[i].hash
  <2>1. chain[i].hash = <<ThisChain, i - 1, chain[i].prev, chain[i].body>> /\ chain[i].body # "forged"
    BY <1>1, Envelopes, TxAssumption DEF Stored
  <2> QED BY <1>1, <1>4, <2>1
<1> QED BY <1>1, <1>5, <1>6, EditReported DEF rows

LEMMA DamageReported == TxInv => DamageIsReported
<1> SUFFICES ASSUME TxInv PROVE DamageIsReported
  OBVIOUS
<1>1. ASSUME NEW rows \in Damaged PROVE Verify(rows, None) # {}
  <2>1. CASE \E i \in DOMAIN chain : rows = [chain EXCEPT ![i].body = "forged"]
    BY <2>1, EditedBody
  <2>2. CASE \E i \in DOMAIN chain : rows = Rewritten(i)
    BY <2>2, RewrittenChain
  <2>3. CASE \E i \in 1 .. (Len(chain) - 1) : rows = RemoveAt(chain, i)
    BY <2>3, Removed
  <2>4. CASE \E p \in {q \in (DOMAIN chain) \X (DOMAIN chain) : q[1] < q[2]} :
               rows = [chain EXCEPT ![p[1]].sequence = chain[p[2]].sequence,
                                    ![p[2]].sequence = chain[p[1]].sequence]
    <3>1. PICK p \in (DOMAIN chain) \X (DOMAIN chain) :
            p[1] < p[2] /\ rows = [chain EXCEPT ![p[1]].sequence = chain[p[2]].sequence,
                                                ![p[2]].sequence = chain[p[1]].sequence]
      BY <2>4
    <3>2. p[1] \in DOMAIN chain /\ p[2] \in DOMAIN chain
      OBVIOUS
    <3> QED BY <3>1, <3>2, Exchanged
  <2>5. CASE \E i \in DOMAIN chain : rows = Append(chain, chain[i])
    BY <2>5, StoredTwice
  <2>6. CASE \E i \in 2 .. Len(chain) :
               rows = [chain EXCEPT ![i] = LET e == [@ EXCEPT !.chainId = "other"]
                                            IN  [e EXCEPT !.hash = Hash(e), !.signature = Hash(e)]]
    <3>1. PICK i \in 2 .. Len(chain) :
            rows = [chain EXCEPT ![i] = LET e == [@ EXCEPT !.chainId = "other"]
                                         IN  [e EXCEPT !.hash = Hash(e), !.signature = Hash(e)]]
      BY <2>6
    <3> DEFINE e == [chain[i] EXCEPT !.chainId = "other"]
               x == [e EXCEPT !.hash = Hash(e), !.signature = Hash(e)]
    <3>2. i \in 1 .. Stored /\ DOMAIN chain = 1 .. Stored
      BY Envelopes DEF Stored
    <3>3. rows = [chain EXCEPT ![i] = x]
      BY <3>1, <3>2
    <3>4. x.chainId = "other" /\ x.sequence = chain[i].sequence
      BY <3>2, Envelopes DEF Stored
    <3> HIDE DEF x
    <3> QED BY <3>3, <3>4, OfAnotherChain
  <2> QED BY <2>1, <2>2, <2>3, <2>4, <2>5, <2>6 DEF Damaged
<1> QED BY <1>1, Truncated DEF DamageIsReported

\* A defect means damage and damage a defect: what the code's own transactions
\* leave verifies, and each thing that can be done to the stored chain without
\* the key, or by dropping its newest envelopes before a client that holds its
\* head, is reported (envelope.ts, verifyChain).
THEOREM DefectsAreDamage == ChainSpec => []DefectsMeanDamage
<1>1. TxInv => DefectsMeanDamage
  BY HonestVerifies, DamageReported DEF DefectsMeanDamage
<1> QED BY <1>1, TxInvariant, PTL

-----------------------------------------------------------------------------
(* The hand-kept indexes of the in-memory releases *)

\* The maps of releases: a row to an id, and in each index the id of the row that bears the key.
ShelfKept(s) ==
  /\ s = [rows |-> s.rows, session |-> s.session, byKey |-> s.byKey, byReceipt |-> s.byReceipt]
  /\ s.byKey \in [Id -> Id \cup {0}] /\ s.byReceipt \in [Id -> Id \cup {0}]
  /\ s.rows = [k \in 1 .. Len(s.rows) |-> s.rows[k]] /\ Len(s.rows) \in Nat
  /\ \A x \in Range(s.rows) :
       /\ x = [id |-> x.id, mandate |-> x.mandate, key |-> x.key, receipt |-> x.receipt,
               state |-> x.state, provider |-> x.provider, inFlight |-> x.inFlight,
               created |-> x.created, updated |-> x.updated]
       /\ x.id \in Id /\ x.key \in Id /\ x.receipt \in Id
       /\ s.byKey[x.key] = x.id /\ s.byReceipt[x.receipt] = x.id
  /\ \A x, y \in Range(s.rows) : x.id = y.id => x = y
  /\ \A v \in Id : /\ s.byKey[v] # 0 => \E x \in Range(s.rows) : x.id = s.byKey[v] /\ x.key = v
                   /\ s.byReceipt[v] # 0 => \E x \in Range(s.rows) : x.id = s.byReceipt[v] /\ x.receipt = v

StoreInv == table = "releases" => ShelfKept(shelf) /\ ShelfKept(saved)

LEMMA KeptAgrees == ASSUME StoreInv PROVE IndexesAgree
<1> SUFFICES ASSUME table = "releases", NEW v \in Id, NEW i \in Id
             PROVE  LET Bears(c) == \E x \in Range(shelf.rows) : x.id = i /\ x[c] = v
                    IN /\ shelf.byKey[v] = i <=> Bears("key")
                       /\ shelf.byReceipt[v] = i <=> Bears("receipt")
  BY DEF IndexesAgree
<1>1. ShelfKept(shelf) /\ i # 0
  BY StoreAssumption DEF StoreInv
<1>2. shelf.byKey[v] = i <=> \E x \in Range(shelf.rows) : x.id = i /\ x.key = v
  BY <1>1 DEF ShelfKept
<1>3. shelf.byReceipt[v] = i <=> \E x \in Range(shelf.rows) : x.id = i /\ x.receipt = v
  BY <1>1 DEF ShelfKept
<1> QED BY <1>2, <1>3

\* A function on 1 .. n has length n.
LEMMA LengthIs ==
  ASSUME NEW n \in Nat, NEW f, f = [i \in 1 .. n |-> f[i]]
  PROVE  Len(f) = n
<1> DEFINE S == {f[i] : i \in 1 .. n}
<1>1. \A i \in 1 .. n : f[i] \in S
  OBVIOUS
<1> HIDE DEF S
<1>2. f \in [1 .. n -> S]
  BY <1>1
<1>3. f \in Seq(S)
  BY <1>2, SeqDef
<1>4. Len(f) \in Nat /\ DOMAIN f = 1 .. Len(f)
  BY <1>3, LenProperties
<1> QED BY <1>2, <1>4

\* A row that is new is put after the others.
LEMMA PutNew ==
  ASSUME NEW s, ShelfKept(s), NEW r, ~Holds(s, r.id)
  PROVE  LET put == Put(s, r)
         IN /\ put = [rows |-> put.rows, session |-> s.session, byKey |-> s.byKey,
                      byReceipt |-> s.byReceipt]
            /\ Range(put.rows) = Range(s.rows) \cup {r}
            /\ put.rows = [k \in 1 .. Len(put.rows) |-> put.rows[k]] /\ Len(put.rows) \in Nat
<1> DEFINE S == Range(s.rows) \cup {r}
<1>1. Put(s, r) = [s EXCEPT !.rows = Append(s.rows, r)]
  BY DEF Put
<1>2. Put(s, r) = [rows |-> Append(s.rows, r), session |-> s.session, byKey |-> s.byKey,
                   byReceipt |-> s.byReceipt]
  BY <1>1 DEF ShelfKept
<1>3. s.rows \in Seq(S) /\ r \in S
  <2>1. \A k \in 1 .. Len(s.rows) : s.rows[k] \in S
    BY DEF Range, ShelfKept
  <2> HIDE DEF S
  <2>2. s.rows \in [1 .. Len(s.rows) -> S]
    BY <2>1 DEF ShelfKept
  <2>3. s.rows \in Seq(S)
    BY <2>2, SeqDef DEF ShelfKept
  <2> QED BY <2>3 DEF S
<1> HIDE DEF S
<1>4. /\ Append(s.rows, r) \in Seq(S) /\ Len(Append(s.rows, r)) = Len(s.rows) + 1
      /\ \A k \in 1 .. Len(s.rows) : Append(s.rows, r)[k] = s.rows[k]
      /\ Append(s.rows, r)[Len(s.rows) + 1] = r
  BY <1>3, AppendProperties
<1>5. DOMAIN Append(s.rows, r) = 1 .. Len(s.rows) + 1 /\ Len(s.rows) \in Nat
  BY <1>3, <1>4, LenProperties
<1>6. Range(Append(s.rows, r)) = Range(s.rows) \cup {r}
  <2>1. DOMAIN s.rows = 1 .. Len(s.rows)
    BY <1>3, LenProperties
  <2>2. \A k \in 1 .. Len(s.rows) + 1 : k \in 1 .. Len(s.rows) \/ k = Len(s.rows) + 1
    BY <1>5
  <2>3. \A k \in 1 .. Len(s.rows) : k \in 1 .. Len(s.rows) + 1
    BY <1>5
  <2>4. Len(s.rows) + 1 \in 1 .. Len(s.rows) + 1
    BY <1>5
  <2> QED BY <1>4, <1>5, <2>1, <2>2, <2>3, <2>4 DEF Range
<1>7. Append(s.rows, r) = [k \in 1 .. Len(Append(s.rows, r)) |-> Append(s.rows, r)[k]]
      /\ Len(Append(s.rows, r)) \in Nat
  BY <1>4, <1>5, LenProperties
<1> QED BY <1>2, <1>6, <1>7

\* A row that is held already takes its place.
LEMMA PutHeld ==
  ASSUME NEW s, ShelfKept(s), NEW r, NEW x \in Range(s.rows), x.id = r.id
  PROVE  LET put == Put(s, r)
         IN /\ put = [rows |-> put.rows, session |-> s.session, byKey |-> s.byKey,
                      byReceipt |-> s.byReceipt]
            /\ Range(put.rows) = (Range(s.rows) \ {x}) \cup {r}
            /\ put.rows = [k \in 1 .. Len(put.rows) |-> put.rows[k]] /\ Len(put.rows) \in Nat
<1> DEFINE rows == [k \in DOMAIN s.rows |-> IF s.rows[k].id = r.id THEN r ELSE s.rows[k]]
<1>1. Put(s, r) = [s EXCEPT !.rows = rows]
  BY DEF Put, Holds
<1>2. DOMAIN s.rows = 1 .. Len(s.rows) /\ Len(s.rows) \in Nat
  BY DEF ShelfKept
<1>3. Range(rows) = (Range(s.rows) \ {x}) \cup {r}
  <2>1. \A k \in DOMAIN s.rows : s.rows[k].id = r.id <=> s.rows[k] = x
    BY DEF ShelfKept, Range
  <2>2. PICK j \in DOMAIN s.rows : s.rows[j] = x
    BY DEF Range
  <2> QED BY <2>1, <2>2 DEF Range
<1>4. rows = [k \in 1 .. Len(s.rows) |-> rows[k]] /\ Len(rows) = Len(s.rows)
  <2>1. rows = [k \in 1 .. Len(s.rows) |-> rows[k]]
    BY <1>2
  <2> HIDE DEF rows
  <2>2. Len(rows) = Len(s.rows)
    BY <1>2, <2>1, LengthIs
  <2> QED BY <2>1, <2>2
<1> HIDE DEF rows
<1>5. Put(s, r) = [rows |-> rows, session |-> s.session, byKey |-> s.byKey, byReceipt |-> s.byReceipt]
  BY <1>1 DEF ShelfKept
<1> QED BY <1>2, <1>3, <1>4, <1>5

\* A release that is inserted is filed under its key and its receipt.
LEMMA FilingKeeps ==
  ASSUME NEW s, ShelfKept(s), NEW p \in NewReleases, NEW at
  PROVE  ShelfKept(MemInsertRelease(s, Fresh(p, at)).shelf)
<1> DEFINE r == Fresh(p, at)
           put == Put(s, r)
           filed == [put EXCEPT !.byKey[r.key] = r.id, !.byReceipt[r.receipt] = r.id]
           outcome == MemInsertRelease(s, r)
<1>1. CASE outcome.shelf = s
  BY <1>1
<1>2. CASE outcome.shelf # s
  <2>1. outcome.shelf = filed /\ ~Holds(s, r.id) /\ s.byKey[r.key] = 0 /\ s.byReceipt[r.receipt] = 0
    <3> HIDE DEF filed, r
    <3>1. outcome = IF s.byKey[r.key] # 0 THEN Leaves(s, "duplicate_key", Get(s, s.byKey[r.key]))
                    ELSE IF First(Where(s, LAMBDA x : x.mandate = r.mandate /\ x.state \notin Terminal)) # <<>>
                      THEN Leaves(s, "busy", First(Where(s, LAMBDA x : x.mandate = r.mandate
                                                                         /\ x.state \notin Terminal)))
                    ELSE IF Holds(s, r.id) \/ s.byReceipt[r.receipt] # 0 \/ IdTaken(s, r.id, r.provider)
                      THEN Thrown(s)
                    ELSE Leaves(filed, "inserted", <<r>>)
      BY Zenon DEF MemInsertRelease, filed
    <3>2. \A kind, rs : Leaves(s, kind, rs).shelf = s
      BY DEF Leaves
    <3>3. Thrown(s).shelf = s
      BY <3>2 DEF Thrown
    <3>4. Leaves(filed, "inserted", <<r>>).shelf = filed
      BY DEF Leaves
    <3> HIDE DEF outcome
    <3> QED BY <1>2, <3>1, <3>2, <3>3, <3>4
  <2>2. /\ r = [id |-> r.id, mandate |-> r.mandate, key |-> r.key, receipt |-> r.receipt,
                state |-> r.state, provider |-> r.provider, inFlight |-> r.inFlight,
                created |-> r.created, updated |-> r.updated]
        /\ r.id \in Id /\ r.key \in Id /\ r.receipt \in Id
    BY StoreAssumption DEF Fresh
  <2> HIDE DEF r
  <2>3. /\ put = [rows |-> put.rows, session |-> s.session, byKey |-> s.byKey, byReceipt |-> s.byReceipt]
        /\ Range(put.rows) = Range(s.rows) \cup {r}
        /\ put.rows = [k \in 1 .. Len(put.rows) |-> put.rows[k]] /\ Len(put.rows) \in Nat
    BY <2>1, PutNew
  <2> HIDE DEF put
  <2>4. filed = [rows |-> put.rows, session |-> s.session, byKey |-> [s.byKey EXCEPT ![r.key] = r.id],
                 byReceipt |-> [s.byReceipt EXCEPT ![r.receipt] = r.id]]
    <3>1. ASSUME NEW rows, NEW session, NEW k, NEW q,
                 put = [rows |-> rows, session |-> session, byKey |-> k, byReceipt |-> q]
          PROVE  filed = [rows |-> rows, session |-> session, byKey |-> [k EXCEPT ![r.key] = r.id],
                          byReceipt |-> [q EXCEPT ![r.receipt] = r.id]]
      <4> DEFINE one == [put EXCEPT !.byKey[r.key] = r.id]
      <4>1. filed = [one EXCEPT !.byReceipt[r.receipt] = r.id]
        BY <3>1
      <4>2. one = [rows |-> rows, session |-> session, byKey |-> [k EXCEPT ![r.key] = r.id],
                   byReceipt |-> q]
        BY <3>1
      <4> HIDE DEF one, filed
      <4> QED BY <4>1, <4>2
    <3> HIDE DEF filed
    <3> QED BY <2>3, <3>1, Zenon
  <2> HIDE DEF filed, outcome
  <2>5. \A x \in Range(s.rows) : x.id # r.id /\ x.key # r.key /\ x.receipt # r.receipt
    BY <2>1, StoreAssumption DEF Holds, ShelfKept
  <2>6. /\ filed.byKey \in [Id -> Id \cup {0}] /\ filed.byReceipt \in [Id -> Id \cup {0}]
        /\ filed.byKey[r.key] = r.id /\ filed.byReceipt[r.receipt] = r.id
        /\ \A v \in Id \ {r.key} : filed.byKey[v] = s.byKey[v]
        /\ \A v \in Id \ {r.receipt} : filed.byReceipt[v] = s.byReceipt[v]
        /\ filed.rows = put.rows
    BY <2>2, <2>4 DEF ShelfKept
  <2>7. ASSUME NEW x \in Range(filed.rows)
        PROVE  /\ x = [id |-> x.id, mandate |-> x.mandate, key |-> x.key, receipt |-> x.receipt,
                       state |-> x.state, provider |-> x.provider, inFlight |-> x.inFlight,
                       created |-> x.created, updated |-> x.updated]
               /\ x.id \in Id /\ x.key \in Id /\ x.receipt \in Id
               /\ filed.byKey[x.key] = x.id /\ filed.byReceipt[x.receipt] = x.id
    <3>1. CASE x = r
      BY <2>2, <2>6, <3>1
    <3>2. CASE x \in Range(s.rows)
      BY <2>5, <2>6, <3>2 DEF ShelfKept
    <3> QED BY <2>3, <2>6, <3>1, <3>2
  <2>8. \A x, y \in Range(filed.rows) : x.id = y.id => x = y
    BY <2>3, <2>5, <2>6 DEF ShelfKept
  <2>9. \A v \in Id :
          /\ filed.byKey[v] # 0 => \E x \in Range(filed.rows) : x.id = filed.byKey[v] /\ x.key = v
          /\ filed.byReceipt[v] # 0 =>
               \E x \in Range(filed.rows) : x.id = filed.byReceipt[v] /\ x.receipt = v
    BY <2>3, <2>6 DEF ShelfKept
  <2>10. filed = [rows |-> filed.rows, session |-> filed.session, byKey |-> filed.byKey,
                  byReceipt |-> filed.byReceipt]
    BY <2>4
  <2>11. ShelfKept(filed)
    BY <2>3, <2>6, <2>7, <2>8, <2>9, <2>10 DEF ShelfKept
  <2> QED BY <2>1, <2>11 DEF outcome, r
<1> QED BY <1>1, <1>2

\* A release that is moved keeps its key and its receipt.
LEMMA MovingKeeps ==
  ASSUME NEW s, ShelfKept(s), NEW id \in Id, NEW m, NEW at
  PROVE  ShelfKept(MemMoveRelease(s, id, m, at).shelf)
<1> DEFINE x == RowWith(s, id)
           n == Moved(x, m, at)
           put == Put(s, n)
           outcome == MemMoveRelease(s, id, m, at)
<1>1. CASE outcome.shelf = s
  BY <1>1
<1>2. CASE outcome.shelf # s
  <2>1. outcome.shelf = put /\ Holds(s, id)
    <3> HIDE DEF put, x, n
    <3>1. outcome = IF ~Holds(s, id) \/ x.state \notin m.from THEN Told(s, <<>>)
                    ELSE IF IdTaken(s, id, m.binds) THEN Thrown(s)
                    ELSE Told(put, <<n>>)
      BY Zenon DEF MemMoveRelease, put, x, n
    <3>2. \A t, rs : Told(t, rs).shelf = t
      BY DEF Told, Leaves
    <3>3. Thrown(s).shelf = s
      BY DEF Thrown, Leaves
    <3> HIDE DEF outcome
    <3> QED BY <1>2, <3>1, <3>2, <3>3
  <2>2. x \in Range(s.rows) /\ x.id = id
    <3>1. \E y \in Range(s.rows) : y.id = id
      BY <2>1 DEF Holds
    <3> QED BY <3>1, Zenon DEF RowWith
  <2>3. x = [id |-> x.id, mandate |-> x.mandate, key |-> x.key, receipt |-> x.receipt,
             state |-> x.state, provider |-> x.provider, inFlight |-> x.inFlight,
             created |-> x.created, updated |-> x.updated]
    BY <2>2 DEF ShelfKept
  <2> HIDE DEF x
  <2>4. /\ n.id = x.id /\ n.key = x.key /\ n.receipt = x.receipt
        /\ n = [id |-> n.id, mandate |-> n.mandate, key |-> n.key, receipt |-> n.receipt,
                state |-> n.state, provider |-> n.provider, inFlight |-> n.inFlight,
                created |-> n.created, updated |-> n.updated]
    <3> DEFINE provider == IF m.binds # 0 THEN m.binds ELSE x.provider
               inFlight == CASE m.clock = "set" -> at [] m.clock = "clear" -> 0 [] OTHER -> x.inFlight
    <3>1. n = [x EXCEPT !.state = m.to, !.provider = provider, !.inFlight = inFlight, !.updated = at]
      BY Zenon DEF Moved
    <3> HIDE DEF n, provider, inFlight
    <3> QED BY <2>3, <3>1
  <2> HIDE DEF n
  <2>5. /\ put = [rows |-> put.rows, session |-> s.session, byKey |-> s.byKey, byReceipt |-> s.byReceipt]
        /\ Range(put.rows) = (Range(s.rows) \ {x}) \cup {n}
        /\ put.rows = [k \in 1 .. Len(put.rows) |-> put.rows[k]] /\ Len(put.rows) \in Nat
    BY <2>2, <2>4, PutHeld
  <2> HIDE DEF put, outcome
  <2>6. put.byKey = s.byKey /\ put.byReceipt = s.byReceipt
    BY <2>5
  <2>7. ASSUME NEW y \in Range(put.rows)
        PROVE  /\ y = [id |-> y.id, mandate |-> y.mandate, key |-> y.key, receipt |-> y.receipt,
                       state |-> y.state, provider |-> y.provider, inFlight |-> y.inFlight,
                       created |-> y.created, updated |-> y.updated]
               /\ y.id \in Id /\ y.key \in Id /\ y.receipt \in Id
               /\ put.byKey[y.key] = y.id /\ put.byReceipt[y.receipt] = y.id
    <3>1. CASE y = n
      <4>1. /\ x.id \in Id /\ x.key \in Id /\ x.receipt \in Id
            /\ s.byKey[x.key] = x.id /\ s.byReceipt[x.receipt] = x.id
        BY <2>2 DEF ShelfKept
      <4> QED BY <2>4, <2>6, <3>1, <4>1
    <3>2. CASE y \in Range(s.rows)
      BY <2>6, <3>2 DEF ShelfKept
    <3> QED BY <2>5, <3>1, <3>2
  <2>8. \A y, z \in Range(put.rows) : y.id = z.id => y = z
    BY <2>2, <2>4, <2>5 DEF ShelfKept
  <2>9. ASSUME NEW v \in Id
        PROVE  /\ put.byKey[v] # 0 => \E y \in Range(put.rows) : y.id = put.byKey[v] /\ y.key = v
               /\ put.byReceipt[v] # 0 =>
                    \E y \in Range(put.rows) : y.id = put.byReceipt[v] /\ y.receipt = v
    <3>1. \A y \in Range(s.rows) : \E z \in Range(put.rows) :
             z.id = y.id /\ z.key = y.key /\ z.receipt = y.receipt
      BY <2>4, <2>5
    <3>2. /\ s.byKey[v] # 0 => \E y \in Range(s.rows) : y.id = s.byKey[v] /\ y.key = v
          /\ s.byReceipt[v] # 0 => \E y \in Range(s.rows) : y.id = s.byReceipt[v] /\ y.receipt = v
      BY DEF ShelfKept
    <3> QED BY <2>6, <3>1, <3>2
  <2>10. put.byKey \in [Id -> Id \cup {0}] /\ put.byReceipt \in [Id -> Id \cup {0}]
    BY <2>6 DEF ShelfKept
  <2>11. ShelfKept(put)
    BY <2>5, <2>6, <2>7, <2>8, <2>9, <2>10 DEF ShelfKept
  <2> QED BY <2>1, <2>11 DEF outcome
<1> QED BY <1>1, <1>2

LEMMA EmptyIsKept == ShelfKept(EmptyShelf)
<1>1. /\ EmptyShelf.rows = <<>> /\ EmptyShelf.byKey = NoIndex /\ EmptyShelf.byReceipt = NoIndex
      /\ EmptyShelf = [rows |-> EmptyShelf.rows, session |-> EmptyShelf.session,
                       byKey |-> EmptyShelf.byKey, byReceipt |-> EmptyShelf.byReceipt]
  BY DEF EmptyShelf
<1>2. Len(EmptyShelf.rows) = 0 /\ Range(EmptyShelf.rows) = {}
  BY <1>1 DEF Range
<1>3. EmptyShelf.rows = [k \in 1 .. Len(EmptyShelf.rows) |-> EmptyShelf.rows[k]]
  BY <1>1, <1>2
<1>4. NoIndex \in [Id -> Id \cup {0}] /\ \A v \in Id : NoIndex[v] = 0
  BY DEF NoIndex
<1> HIDE DEF EmptyShelf
<1> QED BY <1>1, <1>2, <1>3, <1>4 DEF ShelfKept

\* A query leaves the maps alone.
LEMMA AskingKeeps ==
  ASSUME NEW s, NEW rs PROVE Told(s, rs).shelf = s
  BY DEF Told, Leaves

LEMMA StoreStep == StoreInv /\ [MemNext]_memVars => StoreInv'
<1> SUFFICES ASSUME StoreInv, [MemNext]_memVars, table' = "releases" PROVE ShelfKept(shelf)' /\ ShelfKept(saved)'
  BY DEF StoreInv
<1>1. CASE UNCHANGED memVars
  BY <1>1 DEF memVars, StoreInv, ShelfKept
<1>2. CASE MemReleases
  <2>1. table = "releases" /\ UNCHANGED saved
    BY <1>2, Zenon DEF MemReleases, Do
  <2>2. ShelfKept(shelf) /\ ShelfKept(saved)
    BY <2>1 DEF StoreInv
  <2>3. ASSUME NEW call, NEW o, Do("releases", call, o), ShelfKept(o.shelf) PROVE ShelfKept(shelf')
    BY <2>3 DEF Do
  <2>4. ASSUME NEW call, NEW rs, Do("releases", call, Told(shelf, rs)) PROVE ShelfKept(shelf')
    BY <2>2, <2>3, <2>4, AskingKeeps
  <2>5. ASSUME NEW p \in NewReleases, NEW at \in Moment,
               Do("releases", <<"InsertRelease", Fresh(p, at)>>, MemInsertRelease(shelf, Fresh(p, at)))
        PROVE  ShelfKept(shelf')
    BY <2>2, <2>3, <2>5, FilingKeeps
  <2>6. ASSUME NEW i \in Id, NEW m \in Moves, NEW at \in Moment,
               Do("releases", <<"MoveRelease", i, m, at>>, MemMoveRelease(shelf, i, m, at))
        PROVE  ShelfKept(shelf')
    BY <2>2, <2>3, <2>6, MovingKeeps
  <2>7. ASSUME NEW i \in Id, NEW c \in {"id", "key", "receipt", "provider"},
               Do("releases", <<"Find", c, i>>, MemFind(shelf, c, i))
        PROVE  ShelfKept(shelf')
    <3>1. MemFind(shelf, c, i).shelf = shelf
      BY Zenon, AskingKeeps DEF MemFind, ByIndex
    <3> QED BY <2>2, <2>3, <2>7, <3>1
  <2>8. /\ \A i \in Id :
               /\ Do("releases", <<"FindActive", i>>, MemFindActive(shelf, i)) => ShelfKept(shelf')
               /\ Do("releases", <<"ListByMandate", i>>, MemListByMandate(shelf, i)) => ShelfKept(shelf')
        /\ \A at \in Moment :
               /\ Do("releases", <<"ToReconcile", at>>, MemToReconcile(shelf, at)) => ShelfKept(shelf')
               /\ Do("releases", <<"Abandoned", at>>, MemAbandoned(shelf, at)) => ShelfKept(shelf')
    BY <2>4, Zenon DEF MemFindActive, MemListByMandate, MemToReconcile, MemAbandoned
  <2>9. Do("releases", <<"NeedingAttention">>, MemNeedingAttention(shelf)) => ShelfKept(shelf')
    BY <2>4, Zenon DEF MemNeedingAttention
  <2>10. ShelfKept(shelf')
    <3>1. CASE \E p \in NewReleases, at \in Moment :
                 Do("releases", <<"InsertRelease", Fresh(p, at)>>, MemInsertRelease(shelf, Fresh(p, at)))
      BY <2>5, <3>1
    <3>2. CASE \E i \in Id, m \in Moves, at \in Moment :
                 Do("releases", <<"MoveRelease", i, m, at>>, MemMoveRelease(shelf, i, m, at))
      BY <2>6, <3>2
    <3>3. CASE \E i \in Id, c \in {"id", "key", "receipt", "provider"} :
                 Do("releases", <<"Find", c, i>>, MemFind(shelf, c, i))
      BY <2>7, <3>3
    <3>4. CASE \/ \E i \in Id : \/ Do("releases", <<"FindActive", i>>, MemFindActive(shelf, i))
                               \/ Do("releases", <<"ListByMandate", i>>, MemListByMandate(shelf, i))
               \/ \E at \in Moment : \/ Do("releases", <<"ToReconcile", at>>, MemToReconcile(shelf, at))
                                     \/ Do("releases", <<"Abandoned", at>>, MemAbandoned(shelf, at))
      BY <2>8, <3>4
    <3> QED BY <1>2, <2>9, <3>1, <3>2, <3>3, <3>4, Zenon DEF MemReleases
  <2> QED BY <2>1, <2>2, <2>10
<1>3. CASE MemBegin \/ MemCommit \/ MemRollback
  BY <1>3 DEF MemBegin, MemCommit, MemRollback, Restore, StoreInv
<1>4. ~(MemSnapshots \/ MemEvaluations \/ MemReviews \/ MemInbox \/ MemPurchases \/ MemMandates)
  BY Zenon DEF MemSnapshots, MemEvaluations, MemReviews, MemInbox, MemPurchases, MemMandates, Do
<1> QED BY <1>1, <1>2, <1>3, <1>4, Zenon DEF MemNext

\* The two hand-kept indexes of the in-memory releases name exactly the rows that bear their keys, for
\* any rows, moves and calls, also after a rollback (memory/repositories.ts, memory/unit-of-work.ts).
THEOREM IndexesAreKept == MemSpec => []IndexesAgree
<1>1. MemInit => StoreInv
  BY EmptyIsKept DEF MemInit, StoreInv
<1>2. StoreInv /\ [MemNext]_memVars => StoreInv'
  BY StoreStep
<1>3. StoreInv => IndexesAgree
  BY KeptAgrees
<1> QED BY <1>1, <1>2, <1>3, PTL DEF MemSpec
=============================================================================
