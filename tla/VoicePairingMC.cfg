SPECIFICATION MCSpec
CONSTANTS
    PAIR_TIMEOUT = 8
    GREEN_TIMEOUT = 3
    CLOSE_TIMEOUT = 6
    SLOW = 2
    FAST = 1
    MAX_REQUESTS = 12
INVARIANTS
    VoiceLightInSession EnabledInSession
    PairTaskWhilePairing ChipFollowsSwitch
PROPERTIES AdvertisingKept IndicationEnds
