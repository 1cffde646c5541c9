--------------------------- MODULE ReleaseStore ---------------------------
(***************************************************************************)
(* The Postgres rows every service shares: releases, authorizations,       *)
(* review_requests and the evidence chain, with the compare-and-set that   *)
(* is the only way a release row moves                                     *)
(* (packages/persistence/src/postgres, migrations/0001_init.sql).          *)
(*                                                                         *)
(* A release is one (authorization, snapshot, client key) triple: the      *)
(* receipt is derived from the first two and UNIQUE, and so is the key, so *)
(* a triple has at most one row for ever. "ABSENT" is a row not inserted.  *)
(*                                                                         *)
(* Time is counted in units of 30 s, the greatest common unit of the       *)
(* configured windows. age[r] is the time since in_flight_since in an      *)
(* indeterminate state and since updated_at in a transient one; no query   *)
(* reads either column in another state, where age is 0.                   *)
(***************************************************************************)
EXTENDS ReleaseFSM, Naturals

CONSTANTS Release,            \* the releases that may come to exist
          Authorization,      \* the mandates they spend
          AuthorizationOf,    \* [Release -> Authorization]
          MaxAttempts,        \* maxAttemptsInWindow
          ReconcileAfter,     \* reconcileAfterSeconds
          LookupWindow,       \* providerLookupConsistencySeconds
          AbandonAfter,       \* abandonTransientAfterSeconds
          GrantTtl,           \* grantTtlSeconds
          Horizon             \* clocks saturate here

ASSUME StoreAssumption ==
  /\ AuthorizationOf \in [Release -> Authorization]
  /\ MaxAttempts \in Nat
  /\ {ReconcileAfter, LookupWindow, AbandonAfter, GrantTtl, Horizon} \subseteq Nat
  /\ ReconcileAfter <= Horizon /\ LookupWindow <= Horizon
  /\ AbandonAfter <= Horizon /\ GrantTtl < Horizon

VARIABLES
  state,          \* releases.state
  orderId,        \* releases.provider_order_id IS NOT NULL
  paymentId,      \* releases.provider_payment_id IS NOT NULL
  attempts,       \* releases.attempt_count, saturating at MaxAttempts + 1
  age,            \* time since in_flight_since or updated_at, see above
  authorization,  \* authorizations.state
  openReview,     \* the OPEN review of a release, or NoReview
  approved,       \* the pause codes approved for a release at a gate, {} for none
  evidence        \* what the evidence chain says of a release

releaseRow == <<state, orderId, paymentId, attempts, age>>
reviewRows == <<openReview, approved>>
storeVars  == <<state, orderId, paymentId, attempts, age, authorization,
                openReview, approved, evidence>>

Gate == {"ORDER_CREATION", "CAPTURE"}

\* The findings of PAUSE severity the kernel can reach: an operator's policy
\* rule, and the attempt limit.
PauseCode == {"POLICY", "RETRY_VELOCITY_EXCEEDED"}

Review   == [gate : Gate, codes : SUBSET PauseCode]
NoReview == [gate |-> "NONE", codes |-> {}]

\* A DECISION envelope with verdict ALLOW at a gate, and the envelope of the
\* liveness sweep, which says that the provider was never called.
EvidenceKind == Gate \cup {"ABANDONED"}

StoreTypeOK ==
  /\ state \in [Release -> ReleaseState \cup {"ABSENT"}]
  /\ orderId \in [Release -> BOOLEAN]
  /\ paymentId \in [Release -> BOOLEAN]
  /\ attempts \in [Release -> 0 .. MaxAttempts + 1]
  /\ age \in [Release -> 0 .. Horizon]
  /\ authorization \in [Authorization -> {"ACTIVE", "CONSUMED", "REVOKED"}]
  /\ openReview \in [Release -> Review \cup {NoReview}]
  /\ approved \in [Release -> [Gate -> SUBSET PauseCode]]
  /\ evidence \in [Release -> SUBSET EvidenceKind]

StoreInit ==
  /\ state = [r \in Release |-> "ABSENT"]
  /\ orderId = [r \in Release |-> FALSE]
  /\ paymentId = [r \in Release |-> FALSE]
  /\ attempts = [r \in Release |-> 0]
  /\ age = [r \in Release |-> 0]
  /\ authorization = [a \in Authorization |-> "ACTIVE"]
  /\ openReview = [r \in Release |-> NoReview]
  /\ approved = [r \in Release |-> [g \in Gate |-> {}]]
  /\ evidence = [r \in Release |-> {}]

\* The rows the index releases_one_active_per_authorization covers.
Active(r) == state[r] \notin Terminal \cup {"ABSENT"}

OtherActive(r) == \E q \in Release \ {r} :
                     Active(q) /\ AuthorizationOf[q] = AuthorizationOf[r]

\* transition(): the compare-and-set's effect on the state and the clocks. A
\* caller guards it with the source states. in_flight_since survives the move
\* to an indeterminate state and is set or cleared by every other move.
MoveTo(r, to) ==
  /\ state' = [state EXCEPT ![r] = to]
  /\ age' = IF to \in {"ORDER_INDETERMINATE", "CAPTURE_INDETERMINATE"}
            THEN age
            ELSE [age EXCEPT ![r] = 0]

\* The same into a transient state, stamped with a time the caller read earlier.
MoveAsOf(r, to, passed) ==
  /\ state' = [state EXCEPT ![r] = to]
  /\ age' = [age EXCEPT ![r] = passed]

\* A same-state write: only updated_at changes, which only the liveness sweep
\* reads; it may go back to the time the caller read.
Touch(r, passed) ==
  age' = [age EXCEPT ![r] = IF state[r] \in Transient THEN passed ELSE age[r]]

CountAttempt(r) ==
  attempts' = [attempts EXCEPT ![r] = IF attempts[r] > MaxAttempts
                                      THEN attempts[r] ELSE attempts[r] + 1]

Record(r, kind) == evidence' = [evidence EXCEPT ![r] = evidence[r] \cup {kind}]

\* authorizations.transition(id, ['ACTIVE'], to)
LeaveActive(a, to) ==
  authorization' = [authorization EXCEPT ![a] = IF authorization[a] = "ACTIVE"
                                                THEN to ELSE authorization[a]]

\* AuthorizationService.revoke
Revoke(a) ==
  /\ authorization[a] = "ACTIVE"
  /\ LeaveActive(a, "REVOKED")
  /\ UNCHANGED <<releaseRow, reviewRows, evidence>>
=============================================================================
