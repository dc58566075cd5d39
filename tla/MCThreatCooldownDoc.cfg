SPECIFICATION PolicySpec
CONSTANTS
    Signals <- MCSignals
    Window = 3
    MaxEvents = 8
    Cooldown = 6
    ElevatedAt <- MCElevatedAt
    CriticalAt <- MCCriticalAt
    MaxTime = 7
    QuietAfter = 7
    Asks <- MCNoAsks
    ChallengeT <- MCChallengeT
    DenyT <- MCDenyT
PROPERTIES
    DeescalatesOnlyAfterCooldown
