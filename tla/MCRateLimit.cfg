CONSTANTS
    Clients = {c1, c2}
    WindowMs = 3
    Limit = 2
    Second = 2
    None = None
    MaxTime = 7
    MaxCount = 4
SPECIFICATION Spec
INVARIANTS
    BurstBounded
    MapBounded
PROPERTIES
    RetryAfterSuffices
CHECK_DEADLOCK FALSE
