SPECIFICATION Spec
CONSTANTS
    Packet <- MCPacket
    Filter <- MCFilter
    NoFilter = NoFilter
    Counts = {0, 2}
    MaxFrames = 3
    MaxBreaks = 1
    MaxCalls = 2
PROPERTIES
    BreakReturns
CHECK_DEADLOCK FALSE
