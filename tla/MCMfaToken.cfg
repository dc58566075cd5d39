SPECIFICATION Spec
CONSTANTS
    u1 = u1
    u2 = u2
    p1 = p1
    j1 = j1
    j2 = j2
    c1 = c1
    c2 = c2
    Users <- MCUsers
    Places <- MCPlaces
    Jtis <- MCJtis
    Calls <- MCCalls
    ChallengeTtl = 1
    TokenTtl = 2
    Second = 2
    MaxNow = 2
SYMMETRY Symmetric
INVARIANTS
    TypeOK
    AcceptedIsGenuine
