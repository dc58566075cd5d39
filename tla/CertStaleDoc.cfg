SPECIFICATION Spec
CONSTANTS
    Files = {cert}
    Requests = {r1, r2}
    MaxVersion = 2
INVARIANT RotationPickedUp
CHECK_DEADLOCK FALSE
