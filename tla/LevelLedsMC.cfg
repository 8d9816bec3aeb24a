SPECIFICATION MCSpec
CONSTANTS
    LEVEL_TIMEOUT = 5
    GREEN_TIMEOUT = 6
    RED_TIMEOUT = 8
    FLASH_TIMEOUT = 5
    FAST = 1
    MAX_REQUESTS = 6
INVARIANTS
    LitIsOwned RedNotBlue LevelIsShown GreenOnlyCharging
PROPERTIES AllGoDark
