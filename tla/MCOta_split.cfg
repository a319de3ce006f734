SPECIFICATION OtaSpec
CONSTANTS
    Apps = {"sample"}
    Fixed = 2
    Files <- MCFiles
    Blocks <- MCBlocks
    SizeRange = 16
    Capacity = 4
    MaxRepeats = 1
    MaxReboots = 1
CHECK_DEADLOCK FALSE
INVARIANTS
    CompleteIsAccepted
