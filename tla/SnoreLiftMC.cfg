SPECIFICATION MCSpec
CONSTANTS
    MAX_ITEMS = 2
    WINDOW <- MCWindow
    CYCLE <- MCCycle
    TICKS_PER_SEC = 1
    RUN_PERIOD = 2
    MAX_TIMER = 12
    TmrValues = {0, 12}
    Bursts = {7}
    MAX_SNORES = 7
    Boxes = {TRUE, FALSE}
    VoiceCommands = {"STOP", "ALL_UP", "MEMORY", "MOVE", "FLAT_26", "FLAT_33", "MASSAGE"}
    REPEAT <- MCRepeat
    MAX_REQUESTS = 1
PROPERTIES LiftReleased
