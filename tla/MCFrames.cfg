SPECIFICATION Spec
CONSTANTS
    Composed <- MCComposed
    Foreign <- MCForeign
    LinkType = {"EN10MB", "IEEE802", "RAW", "PPP"}
    Snaplen = 84
    MaxFrames = 2
    MaxHops = 2
INVARIANTS
    PathTypeOK
    PayloadExact
    Survives
    ChecksumsVerify
CHECK_DEADLOCK FALSE
