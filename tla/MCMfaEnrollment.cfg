SPECIFICATION Spec
CONSTANTS
    u1 = u1
    u2 = u2
    c1 = c1
    c2 = c2
    Users <- MCUsers
    Calls <- MCCalls
    MaxAttempts = 2
    PendingTtl = 1
    MaxIds = 3
    MaxNow = 1
    MaxCrashes = 1
SYMMETRY Symmetric
INVARIANTS
    TypeOK
    GuessingBounded
    StoredSecretProven
