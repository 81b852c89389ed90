CONSTANTS
    None = None
    alice = alice
    bob = bob
    carol = carol
    w1 = w1
    w2 = w2
    Actors <- MCActors
    Policies <- AllowOrSingle
    Environment = "production"
    InitialAssignments <- MCInitialAssignments
    Grants = {}
    MaxTime = 2
    Workers = {w1}
    ClaimLease = 1
    RecoveryLease = 1
    MaxReconcile = 2
    BackoffBase = 1
    BackoffCeiling = 2
    MaxCommands = 0
    MaxCrashes = 0
    MaxTargetVersion = 1
SPECIFICATION Spec
PROPERTY GatesUseCurrentPolicy
CHECK_DEADLOCK FALSE
