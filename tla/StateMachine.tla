---------------------------- MODULE StateMachine ----------------------------
(***************************************************************************)
(* domain/state_machine.py: which edges of the intent lifecycle exist at   *)
(* all.  Guards (distinctness, expiry, authorization) belong to the        *)
(* command layer; every handler asks this table before it moves a row.     *)
(***************************************************************************)

IntentState == {
    "REQUESTED", "RISK_EVALUATED", "POLICY_EVALUATED", "AUTO_APPROVED",
    "PENDING_APPROVAL_1", "APPROVED_BY_LEVEL_1", "PENDING_APPROVAL_2",
    "APPROVED", "REVALIDATING", "EXECUTING", "EXECUTION_UNKNOWN",
    "SUCCEEDED", "FAILED", "BLOCKED", "REJECTED", "CANCELLED", "EXPIRED",
    "STALE" }

LegalTransitions(s) ==
    CASE s = "REQUESTED"           -> {"RISK_EVALUATED", "CANCELLED"}
      [] s = "RISK_EVALUATED"      -> {"POLICY_EVALUATED", "CANCELLED"}
      [] s = "POLICY_EVALUATED"    -> {"AUTO_APPROVED", "PENDING_APPROVAL_1",
                                       "BLOCKED", "CANCELLED"}
      [] s = "AUTO_APPROVED"       -> {"REVALIDATING", "CANCELLED"}
      [] s = "PENDING_APPROVAL_1"  -> {"APPROVED", "APPROVED_BY_LEVEL_1",
                                       "REJECTED", "CANCELLED", "EXPIRED"}
      [] s = "APPROVED_BY_LEVEL_1" -> {"PENDING_APPROVAL_2", "REJECTED",
                                       "CANCELLED", "EXPIRED"}
      [] s = "PENDING_APPROVAL_2"  -> {"APPROVED", "REJECTED", "CANCELLED",
                                       "EXPIRED"}
      [] s = "APPROVED"            -> {"REVALIDATING", "CANCELLED", "EXPIRED"}
      [] s = "REVALIDATING"        -> {"EXECUTING", "STALE", "EXPIRED"}
      [] s = "EXECUTING"           -> {"SUCCEEDED", "FAILED",
                                       "EXECUTION_UNKNOWN", "STALE", "EXPIRED"}
      [] s = "EXECUTION_UNKNOWN"   -> {"SUCCEEDED", "FAILED"}
      [] OTHER                     -> {}

CancellableStates == {
    "REQUESTED", "RISK_EVALUATED", "POLICY_EVALUATED", "AUTO_APPROVED",
    "PENDING_APPROVAL_1", "APPROVED_BY_LEVEL_1", "PENDING_APPROVAL_2",
    "APPROVED" }

ExpirableStates == {
    "PENDING_APPROVAL_1", "APPROVED_BY_LEVEL_1", "PENDING_APPROVAL_2",
    "APPROVED" }

\* require_transition: a handler that asks for an edge not in the table
\* raises IllegalTransitionError and its transaction rolls back.
IsLegal(current, target) == target \in LegalTransitions(current)

IsTerminal(s) == LegalTransitions(s) = {}
=============================================================================
