CONSTANTS
    None = None
    alice = alice
    bob = bob
    carol = carol
    Actors <- MCActors
    Policies <- SeedPolicies
    Environment = "production"
    InitialAssignments <- MCInitialAssignments
    Grants <- MCGrants
    MaxTime = 1
SPECIFICATION ApprovalsSpec
INVARIANT LevelsHaveRoles
CHECK_DEADLOCK FALSE
