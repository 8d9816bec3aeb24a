SPECIFICATION MCSpec
CONSTANTS
    MAX_ITEMS = 2
    WINDOW <- MCWindow
    CYCLE <- MCCycle
    TICKS_PER_SEC = 1
    RUN_PERIOD = 1
    MAX_TIMER = 18
    TmrValues = {12}
    Bursts = {7}
    MAX_SNORES = 7
    Boxes = {TRUE}
    VoiceCommands = {"MOVE", "FLAT_33"}
    REPEAT <- MCRepeat
    MAX_REQUESTS = 3
INVARIANTS
    NoStrayLift SegmentBounded
    CycleStarted CycleBounded WindowOfMode TestSingleStage
