SPECIFICATION FairSpec
CONSTANTS
    Apps = {"sample", "cli"}
    Fixed = 2
    Files <- MCFiles
    Blocks <- MCBlocks
    SizeRange = 16
    Capacity = 4
    MaxRepeats = 2
    MaxReboots = 1
    b1 = b1
    b2 = b2
    zero = zero
    Bulbs = {b1, b2}
    NoBulb = zero
    FailureCnt = 2
    Depth = 2
    Worlds <- MCWorlds
    d1 = d1
    d2 = d2
    NoAddr = NoAddr
    Devices = {d1, d2}
    Endpoints <- MCEndpoints
    NSlots = 2
    MaxEp = 2
    MaxClusters = 2
    MaxReuse = 1
    MaxLocks = 3
    QueueSize = 2
    MaxCount = 2
    MaxEvents = 3
    MaxResets = 1
    MaxCalls = 2
    Refusals = TRUE
CHECK_DEADLOCK FALSE
INVARIANTS
    OtaTypeOK
    AcceptedIfTold
    NothingMisplaced
    ReadyIsWhole
    SearchGoesOn
    OneChain
    StopsOnFailures
    DiscoveryGoesOn
    LocksMatch
    ZoneTypeOK
    SenderAwake
    OneOwner
    LostOnlyByReset
    NewestArrives
PROPERTIES
    AppliedIsWhole
    Drains
