CONSTANTS
    None = None
    alice = alice
    bob = bob
    carol = carol
    w1 = w1
    w2 = w2
    Actors = {alice}
    Policies <- AllowOnly
    Environment = "production"
    InitialAssignments = {}
    Grants = {}
    MaxTime = 2
    Workers = {w1}
    ClaimLease = 1
    RecoveryLease = 1
    MaxReconcile = 2
    BackoffBase = 1
    BackoffCeiling = 2
    MaxCommands = 1
    MaxCrashes = 0
    MaxTargetVersion = 1
SPECIFICATION FairSpec
PROPERTY ClaimResolves
CHECK_DEADLOCK FALSE
