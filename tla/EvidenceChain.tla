--------------------------- MODULE EvidenceChain ---------------------------
(***************************************************************************)
(* One evidence chain under concurrent transactions: appendOn              *)
(* (persistence/src/postgres/evidence-ledger.ts), the transactions that    *)
(* call it, with the release rows they lock before or after it, and the    *)
(* verification of the stored chain (evidence/src/envelope.ts).            *)
(*                                                                         *)
(* The database is READ COMMITTED: a transaction reads what is committed   *)
(* and what it wrote itself; a row it updated and an advisory lock it took *)
(* are its own until it ends; of two transactions that wait for each       *)
(* other, one is chosen and rolled back.                                   *)
(*                                                                         *)
(* A hash is the tuple of what it commits to, and a signature the hash it  *)
(* signs: nobody but the signer makes one that verifies.                   *)
(***************************************************************************)
EXTENDS Integers, SequencesExt

CONSTANTS Tx,      \* the transactions that append to the chain
          Kind,    \* what each is: "decision", "outcome" or "single"
          RowOf    \* the release whose row each updates

ASSUME TxAssumption == /\ Kind \in [Tx -> {"decision", "outcome", "single"}]
                       /\ IsFiniteSet(Tx)
                       /\ "forged" \notin Tx

VARIABLES chain,    \* the committed envelopes, by sequence
          done,     \* how many of its steps each transaction has made
          ended,    \* how each transaction ended, or "open"
          found,    \* the head each has read
          pending   \* the envelope each has inserted and not committed

chainVars == <<chain, done, ended, found, pending>>

None == <<>>
Genesis == <<>>  \* GENESIS_CHAIN_HASH, the hash of nothing
ThisChain == "this"

-----------------------------------------------------------------------------

Hash(e) == <<e.chainId, e.sequence, e.prev, e.body>>

Seal(seq, prev, body) ==
  LET h == Hash([chainId |-> ThisChain, sequence |-> seq, prev |-> prev, body |-> body])
  IN  [chainId |-> ThisChain, sequence |-> seq, prev |-> prev, body |-> body,
       hash |-> h, signature |-> h]

\* Mutant of EnvelopeDefects: the signature is not checked.
EnvelopeDefectsUnsigned(e, chainId) ==
  (IF e.chainId # chainId THEN {"CHAIN_ID_MISMATCH"} ELSE {}) \cup
  (IF e.hash # Hash(e) THEN {"PAYLOAD_MODIFIED"} ELSE {})

EnvelopeDefects(e, chainId) ==
  (IF e.chainId # chainId THEN {"CHAIN_ID_MISMATCH"} ELSE {}) \cup
  (IF e.hash # Hash(e) THEN {"PAYLOAD_MODIFIED"}
   ELSE IF e.signature # e.hash THEN {"SIGNATURE_INVALID"} ELSE {})

\* What e says of its place after `previous`, None when it is the first.
LinkDefects(e, previous) ==
  IF previous = None
    THEN (IF e.sequence # 0 THEN {"SEQUENCE_GAP"} ELSE {}) \cup
         (IF e.prev # Genesis THEN {"BAD_GENESIS"} ELSE {})
    ELSE (IF e.sequence # previous.sequence + 1 THEN {"SEQUENCE_GAP"} ELSE {}) \cup
         (IF e.prev # previous.hash THEN {"CHAIN_BROKEN"} ELSE {})

\* The rows sorted by sequence; those of one sequence stay as they were.
Before(rows, j, i) == \/ rows[j].sequence < rows[i].sequence
                      \/ rows[j].sequence = rows[i].sequence /\ j < i
Place(rows, i) == Cardinality({j \in DOMAIN rows : Before(rows, j, i)}) + 1
Sorted(rows) == [k \in DOMAIN rows |-> rows[CHOOSE i \in DOMAIN rows : Place(rows, i) = k]]

\* What is wrong with the i-th of the sorted rows: with the envelope, with its
\* place after the one before it, with its sequence.
RowDefects(s, i) ==
  EnvelopeDefects(s[i], s[1].chainId)
  \cup LinkDefects(s[i], IF i = 1 THEN None ELSE s[i - 1])
  \cup (IF \E j \in 1..(i - 1) : s[j].sequence = s[i].sequence THEN {"DUPLICATE_SEQUENCE"} ELSE {})

ChainDefects(s) == UNION {RowDefects(s, i) : i \in DOMAIN s}

HeadOf(s) == IF s = <<>> THEN None ELSE Last(s).hash
HeadDefects(s, expectedHead) ==
  IF expectedHead \notin {None, HeadOf(s)} THEN {"HEAD_MISMATCH"} ELSE {}

Verify(rows, expectedHead) ==
  ChainDefects(Sorted(rows)) \cup HeadDefects(Sorted(rows), expectedHead)

-----------------------------------------------------------------------------

\* A decision is recorded before its release moves, an outcome after it; a
\* sweep's and a webhook's record is an append of its own.
Script(k) == CASE k = "decision" -> <<"lock", "head", "insert", "row", "commit">>
               [] k = "outcome"  -> <<"row", "lock", "head", "insert", "commit">>
               [] k = "single"   -> <<"lock", "head", "insert", "commit">>

Has(t, op) == ended[t] = "open" /\ \E i \in 1..done[t] : Script(Kind[t])[i] = op
NextOp(t) == Script(Kind[t])[done[t] + 1]
At(t, op) == ended[t] = "open" /\ NextOp(t) = op

ChainInit == /\ chain = <<>>
             /\ done = [t \in Tx |-> 0]
             /\ ended = [t \in Tx |-> "open"]
             /\ found = [t \in Tx |-> None]
             /\ pending = [t \in Tx |-> None]

StepOn(t) == done' = [done EXCEPT ![t] = @ + 1]

\* t needs what u holds until it ends.
Waits(t, u) ==
  /\ t # u
  /\ \/ At(t, "lock") /\ Has(u, "lock")
     \/ At(t, "row") /\ Has(u, "row") /\ RowOf[t] = RowOf[u]
     \/ At(t, "insert") /\ ended[u] = "open" /\ pending[u] # None /\ found[u] = found[t]

Blocked(t) == \E u \in Tx : Waits(t, u)

\* Mutant of TakeLock: the advisory lock is not awaited, as pg_try_advisory_xact_lock would.
TakeLockAnyway(t) == At(t, "lock") /\ StepOn(t) /\ UNCHANGED <<chain, ended, found, pending>>

\* pg_advisory_xact_lock
TakeLock(t) == /\ At(t, "lock") /\ ~Blocked(t)
               /\ StepOn(t)
               /\ UNCHANGED <<chain, ended, found, pending>>

\* The UPDATE of the release.
TakeRow(t) == /\ At(t, "row") /\ ~Blocked(t)
              /\ StepOn(t)
              /\ UNCHANGED <<chain, ended, found, pending>>

ReadHead(t) == /\ At(t, "head")
               /\ found' = [found EXCEPT ![t] = chain]
               /\ StepOn(t)
               /\ UNCHANGED <<chain, ended, pending>>

EndAs(t, how) == /\ ended' = [ended EXCEPT ![t] = how]
                 /\ pending' = [pending EXCEPT ![t] = None]

NewEnvelope(t) ==
  IF found[t] = <<>> THEN Seal(0, Genesis, t)
  ELSE Seal(Last(found[t]).sequence + 1, Last(found[t]).hash, t)

\* Mutant of Insert: the ledger writes through the pool, in a transaction of its own.
InsertOnPool(t) ==
  /\ At(t, "insert") /\ ~Blocked(t)
  /\ chain' = Append(chain, NewEnvelope(t))
  /\ pending' = [pending EXCEPT ![t] = NewEnvelope(t)]
  /\ StepOn(t)
  /\ UNCHANGED <<ended, found>>

\* The INSERT fails on UNIQUE (chain_id, sequence) when the sequence is taken.
Insert(t) ==
  /\ At(t, "insert") /\ ~Blocked(t)
  /\ IF \E i \in DOMAIN chain : chain[i].sequence = NewEnvelope(t).sequence
       THEN EndAs(t, "conflict") /\ UNCHANGED done
       ELSE /\ pending' = [pending EXCEPT ![t] = NewEnvelope(t)]
            /\ StepOn(t)
            /\ UNCHANGED ended
  /\ UNCHANGED <<chain, found>>

Commit(t) == /\ At(t, "commit")
             /\ chain' = Append(chain, pending[t])
             /\ EndAs(t, "committed")
             /\ UNCHANGED <<done, found>>

\* Any statement may fail, and the process may die: ROLLBACK.
Break(t) == /\ ended[t] = "open"
           /\ EndAs(t, "rolled_back")
           /\ UNCHANGED <<chain, done, found>>

\* Mutant of BreakDeadlock: transactions that wait for each other wait for ever.
BreakNoDeadlock(t) == FALSE /\ UNCHANGED chainVars

\* deadlock_detected: t is the one that is rolled back.
BreakDeadlock(t) == /\ \E u \in Tx : Waits(t, u) /\ Waits(u, t)
                    /\ EndAs(t, "deadlock")
                    /\ UNCHANGED <<chain, done, found>>

TxStep(t) == \/ TakeLock(t) \/ TakeRow(t) \/ ReadHead(t) \/ Insert(t) \/ Commit(t)
             \/ BreakDeadlock(t)

ChainNext == \E t \in Tx : TxStep(t) \/ Break(t)

\* A transaction that can go on does, and the database looks for deadlocks.
ChainFairness == \A t \in Tx : WF_chainVars(TxStep(t))

ChainSpec == ChainInit /\ [][ChainNext]_chainVars /\ ChainFairness

-----------------------------------------------------------------------------

ChainTypeOK ==
  /\ \A i \in DOMAIN chain : chain[i].sequence \in Nat /\ chain[i].body \in Tx
  /\ \A t \in Tx : done[t] \in 0..Len(Script(Kind[t]))
  /\ ended \in [Tx -> {"open", "committed", "conflict", "rolled_back", "deadlock"}]
  /\ \A t \in Tx : pending[t] # None => ended[t] = "open"

\* What the code alone has written: no gap, no fork, no broken link.
HonestChainVerifies == Verify(chain, HeadOf(chain)) = {}

\* Two appends never claim one sequence: the unique index is the backstop of a lock that already
\* keeps them apart (evidence-ledger.ts), so no decision is lost to it.
AppendsNeverCollide == \A t \in Tx : ended[t] # "conflict"

\* The chain holds the record of a transaction exactly when the release's move is committed with
\* it: no decision without its record, no record of what was rolled back (unit-of-work.ts).
RecordedIffCommitted ==
  /\ {chain[i].body : i \in DOMAIN chain} = {t \in Tx : ended[t] = "committed"}
  /\ Len(chain) = Cardinality({t \in Tx : ended[t] = "committed"})

\* What can be done to a stored chain without the signing key: an envelope's body is edited, the
\* chain is rewritten from an envelope on with its hashes recomputed, an envelope is removed,
\* two change places, one is stored twice, one of another chain is put in its place.
Forged(e, body, prev) ==
  LET f == [e EXCEPT !.body = body, !.prev = prev] IN [f EXCEPT !.hash = Hash(f)]

Rewritten(i) == \* with the old signatures
  LET new[j \in DOMAIN chain] ==
        IF j < i THEN chain[j]
        ELSE Forged(chain[j], IF j = i THEN "forged" ELSE chain[j].body,
                    IF j = 1 THEN Genesis ELSE new[j - 1].hash)
  IN  new

Damaged ==
  {[chain EXCEPT ![i].body = "forged"] : i \in DOMAIN chain}
  \cup {Rewritten(i) : i \in DOMAIN chain}
  \cup {RemoveAt(chain, i) : i \in 1..(Len(chain) - 1)}
  \cup {[chain EXCEPT ![p[1]].sequence = chain[p[2]].sequence, ![p[2]].sequence = chain[p[1]].sequence] :
          p \in {q \in (DOMAIN chain) \X (DOMAIN chain) : q[1] < q[2]}}
  \cup {Append(chain, chain[i]) : i \in DOMAIN chain}
  \cup {[chain EXCEPT ![i] = LET e == [@ EXCEPT !.chainId = "other"]
                              IN  [e EXCEPT !.hash = Hash(e), !.signature = Hash(e)]] : i \in 2..Len(chain)}

\* Every such damage, and with the head a client holds that the newest envelopes are gone.
DamageIsReported ==
  /\ \A rows \in Damaged : Verify(rows, None) # {}
  /\ \A n \in 1..(Len(chain) - 1) : Verify(SubSeq(chain, 1, n), Last(chain).hash) # {}

\* A defect means damage and damage a defect: what any interleaving and any rollback of the
\* code's own transactions leaves verifies, and nothing done to it without the key does
\* (envelope.ts, verifyChain).
DefectsMeanDamage == HonestChainVerifies /\ DamageIsReported

\* A transaction ends, although decisions and outcomes of one release take the chain's lock and
\* the release's row in opposite orders: one of two that wait for each other is rolled back.
TransactionsEnd == \A t \in Tx : <>(ended[t] # "open")

=============================================================================
