SPECIFICATION PolicyFairSpec
CONSTANTS
    Signals <- MCSignals
    Window = 2
    MaxEvents = 3
    Cooldown = 2
    ElevatedAt <- MCElevatedAt
    CriticalAt <- MCCriticalAt
    MaxTime = 5
    QuietAfter = 2
    Asks <- MCAsks
    ChallengeT <- MCChallengeT
    DenyT <- MCDenyT
INVARIANTS
    TypeOK
    GaugeTruthful
    LevelBacked
    EscalationHolds
    ServedThresholdsOrdered
PROPERTIES
    LadderRecorded
    CoolsDown
    DenialsTighten
