SPECIFICATION ZoneSpec
CONSTANTS
    QueueSize = 2
    MaxCount = 2
    MaxEvents = 2
    MaxResets = 1
    MaxCalls = 2
    Refusals = FALSE
CHECK_DEADLOCK FALSE
INVARIANTS
    NothingLost
