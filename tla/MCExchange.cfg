SPECIFICATION Spec
CONSTANTS
    hostA = hostA
    hostB = hostB
    AnyAddress = AnyAddress
    None = None
    Address = {hostA, hostB}
    Port = {1, 2}
    Filters <- ToBOnly
    Wire <- ExchangeWire
    ISN <- MCISN
    SeqSpace = 64
    MAX_PACKETS_IN_BUFFER = 2
    MAX_BUFFER_SIZE = 2
    MaxConns = 2
    MaxDuplicates = 0
INVARIANTS
    TypeOK
    CountersFollow
    FinishedComplete
    AckNeverAhead
    BufferSound
    AnnouncedOnce
PROPERTIES
    NeverBackwards
    PickReturns
CHECK_DEADLOCK FALSE
