SPECIFICATION SSpec
CONSTANTS
    hostA = hostA
    hostB = hostB
    AnyAddress = AnyAddress
    None = None
    Address = {hostA, hostB}
    Port = {1, 2}
    Filters = {}
    Wire <- ShortWire
    ISN <- MCISN
    SeqSpace = 64
    MAX_PACKETS_IN_BUFFER = 2
    MAX_BUFFER_SIZE = 4
    MaxConns = 2
    MaxDuplicates = 0
    BROKEN_TIMEOUT = 1
    HALF_CLOSED_TIMEOUT = 1
    TCP_CONNECTION_TIME_OUT = 2
    MaxAge = 2
INVARIANTS
    STypeOK
PROPERTIES
    NeverReopens
    ClosesOnlyHalfClosed
    IdleEstablishedRemoved
CHECK_DEADLOCK FALSE
