SPECIFICATION MCSpec
CONSTANTS
    PAIR_AT = 2
    OFF_AT = 5
    REPEAT_MAX = 7
INVARIANTS OncePerHold
PROPERTIES DebouncedIsSteady HoldIsNoPress
