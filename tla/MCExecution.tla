----------------------------- MODULE MCExecution -----------------------------
(* Three people: an approver, somebody without a role, and an administrator  *)
(* whose role is also what level 2 of the critical policy asks for.          *)
EXTENDS Execution, TLC

CONSTANTS alice, bob, carol, w1, w2

MCActors == {alice, bob, carol}

Assignment(actor, role, scopes) ==
    [actor |-> actor, role |-> role, envs |-> {}, scopes |-> scopes, until |-> None]

MCPolicy(disposition, route, roles, ttl) ==
    [disposition |-> disposition, route |-> route, roles |-> roles,
     scopes |-> {"ops:write"}, obligations |-> {}, ttl |-> ttl]

Allow    == MCPolicy("ALLOW", "NONE", <<>>, None)
Single   == MCPolicy("REQUIRE_APPROVAL", "SINGLE", <<"approver">>, 1)
Critical == MCPolicy("REQUIRE_APPROVAL", "CRITICAL_TWO_STEP",
                     <<"approver", "administrator">>, 1)

AllowOnly        == {Allow}
AllowOrSingle    == {Allow, Single}
SingleOrCritical == {Single, Critical}

\* The two workers run the same code.
WorkerSymmetry == Permutations({w1, w2})

Approver == Assignment(alice, "approver", {"ops:write"})

MCInitialAssignments == {Approver, Assignment(carol, "administrator", {"ops:write"})}

\* A revoked approver can be given the role back.
MCGrants == {Approver}
==============================================================================
