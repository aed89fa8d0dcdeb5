SPECIFICATION QuietSpec
CONSTANTS
    Acceptor = {a1}
    MaxEstablished = 2
PROPERTIES
    AcceptReturns
CHECK_DEADLOCK FALSE
