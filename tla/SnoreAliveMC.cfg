SPECIFICATION MCSpec
CONSTANTS
    MAX_ITEMS = 2
    WINDOW <- MCWindow
    CYCLE <- MCCycle
    TICKS_PER_SEC = 1
    RUN_PERIOD = 1
    MAX_TIMER = 24
    TmrValues = {6}
    Bursts = {7}
    MAX_SNORES = 7
    Boxes = {TRUE}
    VoiceCommands = {"STOP", "MOVE"}
    REPEAT <- MCRepeat
    MAX_REQUESTS = 3
PROPERTIES DetectionAlive
