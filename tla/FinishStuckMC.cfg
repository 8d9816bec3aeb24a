SPECIFICATION MCSpec
CONSTANTS
    Images = {a}
    NSECTORS = 1
    NSEGS = 1
    FinishCmds <- CopyOnly
    MAX_UPDATES = 6
    MAX_LOST = 0
    MAX_DROPS = 0
    MAX_CRASHES = 0
INVARIANT FinishResets
CHECK_DEADLOCK FALSE
