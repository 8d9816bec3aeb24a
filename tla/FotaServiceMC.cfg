SPECIFICATION MCSpec
CONSTANTS
    Images = {a, b}
    NSECTORS = 2
    NSEGS = 2
    FinishCmds <- CopyAndMore
    MAX_UPDATES = 3
    MAX_LOST = 2
    MAX_DROPS = 1
    MAX_CRASHES = 2
INVARIANTS
    RunsWhole AckedIsStored BusyIsConnected
PROPERTIES ImplementsFirmware CopyLands TransferEnds
CHECK_DEADLOCK FALSE
