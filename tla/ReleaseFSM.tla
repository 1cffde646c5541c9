---------------------------- MODULE ReleaseFSM ----------------------------
(***************************************************************************)
(* The release lifecycle as data: the 18 states, the transition table and  *)
(* the operators every service uses to consult it                          *)
(* (packages/kernel/src/release-fsm.ts, packages/core/src/domain/release.ts). *)
(*                                                                         *)
(* The source lists 25 rules and looks a rule up by trigger; each trigger  *)
(* has exactly one rule, so the table is the pair of records From and To   *)
(* indexed by the trigger's name.                                          *)
(***************************************************************************)

Terminal == {"SETTLED", "DENIED", "CAPTURE_REJECTED", "FAILED", "ABORTED"}

Indeterminate == {"ORDER_IN_FLIGHT", "ORDER_INDETERMINATE",
                  "CAPTURE_IN_FLIGHT", "CAPTURE_INDETERMINATE"}

Transient == {"DRAFT", "VERIFYING", "VERIFIED",
              "CAPTURE_VERIFYING", "CAPTURE_APPROVED"}

ReleaseState == Terminal \cup Indeterminate \cup Transient \cup
                {"ORDER_CREATED", "PAYMENT_AUTHORIZED", "CAPTURED", "PAUSED"}

\* The states in which the code reports that the payer's money has left.
MoneyHasMoved == {"CAPTURED", "SETTLED"}

From == [ RELEASE_REQUESTED               |-> {"DRAFT"},
          VERIFICATION_ALLOWED            |-> {"VERIFYING"},
          VERIFICATION_PAUSED             |-> {"VERIFYING", "CAPTURE_VERIFYING"},
          VERIFICATION_DENIED             |-> {"VERIFYING", "CAPTURE_VERIFYING"},
          ORDER_CALL_STARTED              |-> {"VERIFIED"},
          ORDER_CREATED                   |-> {"ORDER_IN_FLIGHT"},
          ORDER_CALL_INDETERMINATE        |-> {"ORDER_IN_FLIGHT"},
          ORDER_REJECTED                  |-> {"ORDER_IN_FLIGHT"},
          ORDER_RECONCILED_FOUND          |-> {"ORDER_INDETERMINATE", "ORDER_IN_FLIGHT"},
          ORDER_RECONCILED_ABSENT         |-> {"ORDER_INDETERMINATE", "ORDER_IN_FLIGHT"},
          PAYMENT_AUTHORIZED              |-> {"ORDER_CREATED"},
          CAPTURE_REQUESTED               |-> {"PAYMENT_AUTHORIZED", "CAPTURE_VERIFYING"},
          CAPTURE_ALLOWED                 |-> {"CAPTURE_VERIFYING"},
          CAPTURE_CALL_STARTED            |-> {"CAPTURE_APPROVED"},
          CAPTURE_SUCCEEDED               |-> {"CAPTURE_IN_FLIGHT"},
          CAPTURE_CALL_INDETERMINATE      |-> {"CAPTURE_IN_FLIGHT"},
          CAPTURE_PROVIDER_REJECTED       |-> {"CAPTURE_IN_FLIGHT"},
          CAPTURE_RECONCILED_CAPTURED     |-> {"CAPTURE_INDETERMINATE", "CAPTURE_IN_FLIGHT"},
          CAPTURE_RECONCILED_NOT_CAPTURED |-> {"CAPTURE_INDETERMINATE", "CAPTURE_IN_FLIGHT"},
          SETTLEMENT_CONFIRMED            |-> {"CAPTURED"},
          PAYMENT_FAILED                  |-> {"ORDER_CREATED", "PAYMENT_AUTHORIZED"},
          REVIEW_APPROVED                 |-> {"PAUSED"},
          REVIEW_APPROVED_AT_ORDER_GATE   |-> {"PAUSED"},
          REVIEW_REJECTED                 |-> {"PAUSED"},
          ABORT                           |-> {"DRAFT", "VERIFYING", "VERIFIED", "ORDER_CREATED",
                                               "PAUSED", "CAPTURE_VERIFYING", "CAPTURE_APPROVED"} ]

To == [ RELEASE_REQUESTED               |-> "VERIFYING",
        VERIFICATION_ALLOWED            |-> "VERIFIED",
        VERIFICATION_PAUSED             |-> "PAUSED",
        VERIFICATION_DENIED             |-> "DENIED",
        ORDER_CALL_STARTED              |-> "ORDER_IN_FLIGHT",
        ORDER_CREATED                   |-> "ORDER_CREATED",
        ORDER_CALL_INDETERMINATE        |-> "ORDER_INDETERMINATE",
        ORDER_REJECTED                  |-> "FAILED",
        ORDER_RECONCILED_FOUND          |-> "ORDER_CREATED",
        ORDER_RECONCILED_ABSENT         |-> "FAILED",
        PAYMENT_AUTHORIZED              |-> "PAYMENT_AUTHORIZED",
        CAPTURE_REQUESTED               |-> "CAPTURE_VERIFYING",
        CAPTURE_ALLOWED                 |-> "CAPTURE_APPROVED",
        CAPTURE_CALL_STARTED            |-> "CAPTURE_IN_FLIGHT",
        CAPTURE_SUCCEEDED               |-> "CAPTURED",
        CAPTURE_CALL_INDETERMINATE      |-> "CAPTURE_INDETERMINATE",
        CAPTURE_PROVIDER_REJECTED       |-> "CAPTURE_REJECTED",
        CAPTURE_RECONCILED_CAPTURED     |-> "CAPTURED",
        CAPTURE_RECONCILED_NOT_CAPTURED |-> "CAPTURE_REJECTED",
        SETTLEMENT_CONFIRMED            |-> "SETTLED",
        PAYMENT_FAILED                  |-> "FAILED",
        REVIEW_APPROVED                 |-> "CAPTURE_VERIFYING",
        REVIEW_APPROVED_AT_ORDER_GATE   |-> "VERIFYING",
        REVIEW_REJECTED                 |-> "ABORTED",
        ABORT                           |-> "ABORTED" ]

\* nextState(s, t) # null: the move is declared, and s is not terminal.
Declares(s, t) == s \notin Terminal /\ s \in From[t]
=============================================================================
