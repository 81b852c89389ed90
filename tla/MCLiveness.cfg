CONSTANTS
    None = None
    alice = alice
    bob = bob
    carol = carol
    w1 = w1
    w2 = w2
    Actors = {alice}
    Policies <- AllowOnly
    Environment = "production"
    InitialAssignments = {}
    Grants = {}
    MaxTime = 4
    Workers = {w1}
    ClaimLease = 1
    RecoveryLease = 1
    MaxReconcile = 3
    BackoffBase = 1
    BackoffCeiling = 3
    MaxCommands = 2
    MaxCrashes = 2
    MaxTargetVersion = 2
SPECIFICATION FairSpec
PROPERTIES
    ExecutingResolves
    UnknownSettles
CHECK_DEADLOCK FALSE
