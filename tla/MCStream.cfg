SPECIFICATION Spec
CONSTANTS
    MAX_BUFFER_SIZE = 2
    MaxBytes = 4
    MaxLen = 2
INVARIANTS
    StreamTypeOK
    Conserved
    EOFNeverEarly
    NoLostWakeup
PROPERTIES
    DeliveredInTheEnd
CHECK_DEADLOCK FALSE
