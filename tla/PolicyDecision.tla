--------------------------- MODULE PolicyDecision ---------------------------
(* The result of evaluate_policy, as every later handler reads it. *)
EXTENDS Authorization, Sequences

Routes       == {"NONE", "SINGLE", "CRITICAL_TWO_STEP"}
Dispositions == {"ALLOW", "REQUIRE_APPROVAL", "BLOCK"}

\* A tuple of role names: any word a bundle holds.
IsRoles(roles) == Len(roles) \in Nat /\ DOMAIN roles = 1..Len(roles)

\* The shape evaluate_policy guarantees: an approval is required exactly when
\* there is a route, a positive TTL and at least one role for it.
IsPolicy(p) ==
    /\ p.disposition \in Dispositions
    /\ p.route \in Routes
    /\ IsRoles(p.roles)
    /\ IF p.disposition = "REQUIRE_APPROVAL"
       THEN p.route # "NONE" /\ Len(p.roles) > 0 /\ p.ttl \in Nat \ {0}
       ELSE p.route = "NONE" /\ p.ttl = None
=============================================================================
