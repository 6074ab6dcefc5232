------------------------------ MODULE FsmMatrix ------------------------------
(***************************************************************************)
(* The frozen transition matrix of execution/fsm.py.  Every trigger has    *)
(* exactly one destination, so the table is written trigger by trigger:    *)
(* the states it may leave, and the state it leads to.                     *)
(***************************************************************************)

\* CANONICAL_STATES, RECOVERY_REQUIRED and the two terminal response states.
FsmStates ==
  {"READY", "SUBMITTING", "ACKNOWLEDGED", "PARTIAL", "FILLED", "PROTECTED",
   "MANAGED", "CLOSED", "RECONCILED", "RECOVERY_REQUIRED", "REJECTED",
   "CANCELLED"}

\* States in which an order may still be working or a position may be open.
OpenStates ==
  {"SUBMITTING", "ACKNOWLEDGED", "PARTIAL", "FILLED", "PROTECTED", "MANAGED"}

Edges(from, trigger, to) == from \X {trigger} \X {to}

LegalTransitions ==
  UNION {
    Edges({"READY"}, "SUBMIT_ORDER", "SUBMITTING"),
    Edges({"READY"}, "VALIDATION_FAILED", "REJECTED"),
    Edges({"READY"}, "CANCEL_REQUESTED", "CANCELLED"),
    Edges({"SUBMITTING"}, "EXCHANGE_ACK", "ACKNOWLEDGED"),
    Edges({"SUBMITTING", "ACKNOWLEDGED"}, "PARTIAL_FILL", "PARTIAL"),
    Edges({"SUBMITTING", "ACKNOWLEDGED", "PARTIAL"}, "FULL_FILL", "FILLED"),
    Edges({"SUBMITTING", "ACKNOWLEDGED"}, "EXCHANGE_REJECT", "REJECTED"),
    Edges({"SUBMITTING", "ACKNOWLEDGED", "PARTIAL"},
          "CANCEL_CONFIRMED", "CANCELLED"),
    Edges({"SUBMITTING"}, "SUBMISSION_TIMEOUT", "RECOVERY_REQUIRED"),
    Edges({"ACKNOWLEDGED", "PARTIAL"}, "FILL_TIMEOUT", "RECOVERY_REQUIRED"),
    Edges({"SUBMITTING", "ACKNOWLEDGED", "PARTIAL", "FILLED"},
          "UNKNOWN_OUTCOME", "RECOVERY_REQUIRED"),
    Edges({"ACKNOWLEDGED", "PARTIAL", "FILLED"},
          "PROTECTION_PLACED", "PROTECTED"),
    Edges({"FILLED", "PROTECTED", "MANAGED"},
          "PROTECTION_FAILED", "RECOVERY_REQUIRED"),
    Edges({"PROTECTED"}, "MANAGEMENT_ACTIVE", "MANAGED"),
    Edges({"FILLED", "PROTECTED", "MANAGED"}, "POSITION_CLOSED", "CLOSED"),
    Edges({"CLOSED", "RECOVERY_REQUIRED", "REJECTED", "CANCELLED"},
          "RECONCILE_MATCH", "RECONCILED"),
    Edges({"READY", "CLOSED", "RECOVERY_REQUIRED"} \cup OpenStates,
          "RECONCILE_DIVERGENCE", "RECOVERY_REQUIRED"),
    Edges({"RECOVERY_REQUIRED"}, "RECONCILE_RESOLVED_ACK", "ACKNOWLEDGED"),
    Edges({"RECOVERY_REQUIRED"}, "RECONCILE_RESOLVED_PARTIAL", "PARTIAL"),
    Edges({"RECOVERY_REQUIRED"}, "RECONCILE_RESOLVED_FILLED", "FILLED"),
    Edges({"RECOVERY_REQUIRED"}, "RECONCILE_RESOLVED_PROTECTED", "PROTECTED"),
    Edges({"RECOVERY_REQUIRED"}, "RECONCILE_RESOLVED_MANAGED", "MANAGED"),
    Edges({"RECOVERY_REQUIRED"}, "RECONCILE_RESOLVED_CLOSED", "CLOSED"),
    Edges({"RECOVERY_REQUIRED"}, "RECONCILE_RESOLVED_CANCELLED", "CANCELLED"),
    Edges({"RECOVERY_REQUIRED"}, "RECONCILE_RESOLVED_REJECTED", "REJECTED")}

Triggers == {e[2] : e \in LegalTransitions}

\* (src, trigger) is a key of LEGAL_TRANSITIONS.
IsLegal(src, trigger) ==
  \E dst \in FsmStates : <<src, trigger, dst>> \in LegalTransitions

\* LEGAL_TRANSITIONS[(src, trigger)], for a legal pair.
Destination(src, trigger) ==
  CHOOSE dst \in FsmStates : <<src, trigger, dst>> \in LegalTransitions
=============================================================================
