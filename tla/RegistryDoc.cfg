SPECIFICATION Spec
CONSTANTS
    Forwarded = {r1, r2, r3}
    MaxRetries = 1
    VolumeThreshold = 2
    ErrorThreshold = 50
    Files = {cert, key}
    Senders = {s1, s2}
    MaxVersion = 2
    Environments <- MCEnvironments
    Routes <- MCRoutes
    Addresses <- MCAddresses
    FieldPolicies <- MCFieldPolicies
    Names = {"id", "card"}
    MaxItems = 2
    Json <- MCJson
    ServedPaths = {"/orders", "/users", "/billing"}
    Callers <- MCCallers
INVARIANT OnlyRegisteredContacted
CHECK_DEADLOCK FALSE
