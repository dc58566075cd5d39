SPECIFICATION Spec
CONSTANTS
    Users = {alice}
    Scores = {850}
    DiffMin = 18
    DiffMax = 22
    Ttl = 2
    Capacity = 2
    MaxPad = 1
    MaxLead = 1
    MaxIssued = 2
    MaxNow = 2
    MaxSolved = 2
INVARIANT SolutionUsedOnce
CHECK_DEADLOCK FALSE
