SPECIFICATION Spec
CONSTANTS
    Times = {0, 1, 3}
    PerHour = 2
    PerMinute = 6
    Prints = {"null", "f"}
    KnownThreshold = 2
    FrequencyNormalMax = 1
    AnomalyWarmupN = 2
    Anomalies = {0, 250, 400}
    DecayFactors = {0, 50, 100}
    MaxAllows = 2
    Fingerprints = {p1, p2}
    Requests = {r1, r2, r3}
    Ttl = 2
    MaxNow = 5
    Secrets <- RandomBytes
    Period = 3
    Skews <- TwoPeriods
    Start = 6
    MaxClock = 14
SYMMETRY Symmetric
INVARIANTS
    TypeOK
    RateStatisticsExact
    OutageAndDecayFailClosed
    HandlersNeedAuthority
    AuthenticatorAgrees
PROPERTIES
    LockedUpdatesCount
    CaughtStaysOut
CHECK_DEADLOCK FALSE
