SPECIFICATION FairSpec
CONSTANTS
    DevNumber = 2
    zc = zc
    b1 = b1
    b2 = b2
    s1 = s1
    p1 = p1
    Zero = zc
    Devices = {b1, b2, s1}
    OnOffDevs = {b1, b2}
    IasDevs = {s1}
    Problems = 1
    MaxCalls = 2
    Env = {"overlap", "again", "toggle"}
CHECK_DEADLOCK FALSE
INVARIANTS
    EveryAnswerCounts
PROPERTIES
    OnOffCompletes
    KeepsToggling
