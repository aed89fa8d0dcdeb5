SPECIFICATION Spec
CONSTANTS
    hostA = hostA
    hostB = hostB
    AnyAddress = AnyAddress
    None = None
    Address = {hostA, hostB}
    Port = {1, 2}
    Filters = {}
    Wire <- WrapWire
    ISN <- WrapISN
    SeqSpace = 64
    MAX_PACKETS_IN_BUFFER = 2
    MAX_BUFFER_SIZE = 4
    MaxConns = 2
    MaxDuplicates = 0
PROPERTIES
    DropsOnlyRepetitions
CHECK_DEADLOCK FALSE
