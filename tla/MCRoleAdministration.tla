------------------------ MODULE MCRoleAdministration ------------------------
(* Small instances of RoleAdministration for TLC. *)
EXTENDS RoleAdministration, TLC

CONSTANTS admin, user

\* One administrator and one approver of _DEMO_ROLES.
SmallDemo == {<<admin, "administrator">>, <<user, "approver">>}

\* The approver may be granted again, and be made an administrator.
SmallOffer == {<<user, "administrator">>, <<user, "approver">>}

Interchangeable == Permutations(Requests)
=============================================================================
