CONSTANTS
    None = None
    alice = alice
    bob = bob
    carol = carol
    Actors <- MCActors
    Policies <- MCPolicies
    Environment = "production"
    InitialAssignments <- MCInitialAssignments
    Grants <- MCGrants
    MaxTime = 2
SPECIFICATION ApprovalsSpec
INVARIANTS
    ApprovalsTypeOK
    ApprovalEvidence
    DecisionsBindWhatWasSeen
    DecisionsInWindow
PROPERTIES
    ImplementsGate
CHECK_DEADLOCK FALSE
