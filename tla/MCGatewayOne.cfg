SPECIFICATION MeteredFairSpec
CHECK_DEADLOCK FALSE
CONSTANTS
    r1 = r1
    r2 = r2
    Requests = {r1}
    RequestKinds <- MCKinds
    Jtis = {"j1"}
    Scores <- MCScores
    HashTrigger = 1
    Levels <- MCLevels
    ChallengeT <- MCChallengeT
    DenyT <- MCDenyT
    WalMaxRetries = 3
    MaxCrashes = 1
PROPERTIES
    EveryRequestAnswered
