SPECIFICATION Spec
CONSTANTS
    Acceptor = {a1, a2}
    MaxEstablished = 4
INVARIANTS
    HandedOutInOrder
    WakeupPerConnection
