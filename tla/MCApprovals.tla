----------------------------- MODULE MCApprovals -----------------------------
(* Three people, one of them an administrator, and one policy per route and *)
(* disposition.  SeedPolicies has the critical rule the seed bundle yields  *)
(* for an expensive provision_resource: two levels, one role.               *)
EXTENDS Approvals, TLC

CONSTANTS alice, bob, carol

MCActors == {alice, bob, carol}

Assignment(actor, role, envs, scopes, until) ==
    [actor |-> actor, role |-> role, envs |-> envs, scopes |-> scopes, until |-> until]

MCPolicy(disposition, route, roles, scopes, obligations, ttl) ==
    [disposition |-> disposition, route |-> route, roles |-> roles,
     scopes |-> scopes, obligations |-> obligations, ttl |-> ttl]

Allow    == MCPolicy("ALLOW", "NONE", <<>>, {"ops:read"}, {}, None)
Block    == MCPolicy("BLOCK", "NONE", <<>>, {}, {}, None)
Single   == MCPolicy("REQUIRE_APPROVAL", "SINGLE", <<"approver">>,
                     {"ops:write"}, {"announce"}, 1)
Critical == MCPolicy("REQUIRE_APPROVAL", "CRITICAL_TWO_STEP",
                     <<"critical_approver_l1", "critical_approver_l2">>,
                     {"ops:write"}, {}, 2)

OneRoleCritical == [Critical EXCEPT !.roles = <<"approver">>]

MCPolicies   == {Allow, Block, Single, Critical}
SeedPolicies == {Allow, Single, OneRoleCritical}

\* alice and bob may both come to hold the critical roles; alice's level-2
\* grant ends early, bob's comes without scopes, and his approver grant is for
\* another environment.
MCInitialAssignments == {
    Assignment(alice, "approver", {}, {"ops:write"}, None),
    Assignment(alice, "critical_approver_l1", {}, {"ops:write"}, None),
    Assignment(bob, "critical_approver_l1", {"production"}, {"ops:write"}, None),
    Assignment(carol, "administrator", {}, {}, None) }

MCGrants == {
    Assignment(alice, "critical_approver_l2", {}, {"ops:write"}, 1),
    Assignment(bob, "critical_approver_l2", {"production"}, {}, None),
    Assignment(bob, "approver", {"staging"}, {"ops:write"}, None) }
==============================================================================
