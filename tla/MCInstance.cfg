SPECIFICATION Spec
CONSTANTS
    Instance = {i1, i2, i3}
    Writer = {w1, w2}
    NULL = NULL
    MAX_NUMBER_OF_INSTANCE = 2
SYMMETRY Symmetry
INVARIANTS
    IdsApart
    SlotFreeWithId
    HandleOwned
    IdsAccounted
CHECK_DEADLOCK FALSE
