CONSTANTS
    None = None
    alice = alice
    bob = bob
    carol = carol
    w1 = w1
    w2 = w2
    Actors <- MCActors
    Policies <- SingleOrCritical
    Environment = "production"
    InitialAssignments <- MCInitialAssignments
    Grants <- MCGrants
    MaxTime = 2
    Workers = {w1, w2}
    ClaimLease = 1
    RecoveryLease = 1
    MaxReconcile = 2
    BackoffBase = 1
    BackoffCeiling = 2
    MaxCommands = 2
    MaxCrashes = 1
    MaxTargetVersion = 2
SYMMETRY WorkerSymmetry
SPECIFICATION Spec
INVARIANTS
    TypeOK
    LegalWalk
    EveryTransitionAnnounced
    AtMostOneSend
    ClosedNeverSent
    OutcomeIsEvidence
    EffectOnCheckedTarget
    RowsAgree
    ClaimIsExclusive
    UnknownNotAbandoned
PROPERTIES
    PassesOnCurrentAuthority
    SettledForGood
    ImplementsOperation
CHECK_DEADLOCK FALSE
