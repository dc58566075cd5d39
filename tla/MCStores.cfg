SPECIFICATION Spec
CONSTANTS
    Clients = {alice, bob}
    Admins = {admin}
    Jtis = {j1, j2}
    Exps = {0, 2, 3, 4}
    MaxTokenTime = 5
    Scores = {720, 850}
    DiffMin = 18
    DiffMax = 22
    NonceTtl = 1
    Capacity = 1
    MaxPad = 1
    MaxLead = 0
    MaxIssued = 3
    MaxNonceTime = 1
    MaxSolved = 3
    AdminCalls = {a1, a2}
    Rules = {p1, p2}
    MaxCalls = 3
    Txs = {t1, t2, t3, t4}
    Limit = 2
    Window = 2
    MaxChallengeTime = 4
SYMMETRY Symmetric
INVARIANTS
    TypeOK
    RevocationHolds
    ReplayNeedsFlood
    FileFollowsEnforcer
    RateLimitHolds
CHECK_DEADLOCK FALSE
