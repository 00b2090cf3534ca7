\* Two undisturbed uneven wheels of three spokes.
CONSTANTS
    COUNT_MIN = 2
    COUNT_MAX = 4
    CONFIDENCE_EVENTS = 8
    BLOCK_MIN_US = 7
    BLOCK_MAX_US = 60
    LINK_LOSS_US = 38
    GATE_FLOOR_US = 8
    LUT_SCALE = 25
    Gaps = {}
    Durations = {}
    MAX_PULSES = 0
    MAX_REJECTED = 0
    Wheels <- UnevenWheels
    Disturbed = {}
    MAX_SPOKES = 28
    MAX_MISSED = 0
SPECIFICATION WheelSpec
\* The wheel stops at the bound.
CHECK_DEADLOCK FALSE
INVARIANT LutFollowsWheel
