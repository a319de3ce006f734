SPECIFICATION LightSpec
CONSTANTS
    b1 = b1
    b2 = b2
    zero = zero
    Bulbs = {b1, b2}
    NoBulb = zero
    FailureCnt = 2
    Depth = 2
    Worlds <- LateJoin
CHECK_DEADLOCK FALSE
INVARIANTS
    JoinedSearches
