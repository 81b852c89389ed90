---------------------------- MODULE Authorization ----------------------------
(***************************************************************************)
(* infrastructure/identity.py and authorization.py: current authority is   *)
(* evaluated from role-assignment rows every time it is needed, never from *)
(* the token.  A row is [actor, role, envs, scopes, until]; envs = {}      *)
(* means every environment, until = None means no end.  Revoked rows are   *)
(* skipped by every reader, so `assignments' holds the unrevoked ones.     *)
(***************************************************************************)
EXTENDS Naturals

CONSTANT None   \* SQL NULL

ASSUME NoneAssumption == None \notin Nat

\* The validity rules shared by evaluate_current_roles and _scopes.  The
\* administrator check evaluates with environment None, which only an
\* unrestricted assignment covers.
IsCurrent(a, at, environment) ==
    /\ a.until = None \/ a.until > at
    /\ a.envs = {} \/ environment \in a.envs

CurrentAssignments(assignments, actor, at, environment) ==
    {a \in assignments : a.actor = actor /\ IsCurrent(a, at, environment)}

CurrentRoles(assignments, actor, at, environment) ==
    {a.role : a \in CurrentAssignments(assignments, actor, at, environment)}

CurrentScopes(assignments, actor, at, environment) ==
    UNION {a.scopes : a \in CurrentAssignments(assignments, actor, at, environment)}

\* require_administrator, and the administrator branch of cancel.
IsAdministrator(assignments, actor, at) ==
    "administrator" \in CurrentRoles(assignments, actor, at, None)

\* The actors of the APPROVE rows of one level in approval_decisions.
ApproversOf(decisions, level) ==
    {d.actor : d \in {e \in decisions : e.decision = "APPROVE" /\ e.level = level}}
=============================================================================
