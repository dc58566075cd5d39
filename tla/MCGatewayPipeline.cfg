SPECIFICATION MeteredSpec
CHECK_DEADLOCK FALSE
SYMMETRY MCSymmetry
CONSTANTS
    r1 = r1
    r2 = r2
    Requests = {r1, r2}
    RequestKinds <- MCKinds
    Jtis = {"j1"}
    Scores <- MCScores
    HashTrigger = 1
    Levels <- MCLevels
    ChallengeT <- MCChallengeT
    DenyT <- MCDenyT
    WalMaxRetries = 2
    MaxCrashes = 1
INVARIANTS
    TypeOK
    AuditBeforeForward
    ForwardedForCause
    RevokedNeverServed
    LostRowsAreCounted
    AuditTrailCoherent
PROPERTIES
    ImplementsAuditedGateway
