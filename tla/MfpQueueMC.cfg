SPECIFICATION Spec
CONSTANTS
    MAX_ITEMS = 3
    DATA_MAX_LEN = 2
    Keys = {k1, k2}
    Lens = {2, 3}
    Repeats = {1, 2}
    NoFrame = NoFrame
INVARIANTS RingInv
PROPERTIES ImplementsFifo HeadLeaves
