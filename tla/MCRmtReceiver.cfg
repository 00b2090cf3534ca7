CONSTANTS
    COUNT_MIN = 2
    COUNT_MAX = 3
    CONFIDENCE_EVENTS = 4
    BLOCK_MIN_US = 4
    BLOCK_MAX_US = 60
    LINK_LOSS_US = 25
    GATE_FLOOR_US = 8
    LUT_SCALE = 25
    Gaps <- MCGaps
    Durations <- MCDurations
    MAX_PULSES = 100
    MAX_REJECTED = 100
    Captures <- MCCaptures
    Latencies <- MCLatencies
    QUEUE_LENGTH = 3
    MICROS = 2
    RESOLUTION_HZ = 3
    MAX_CAPTURES = 4
    MaxBlockages = 4
    MaxRestarts = 2
SPECIFICATION MCSpec
\* After the last capture the task waits for ever, and the other parts end at
\* their bounds.
CHECK_DEADLOCK FALSE
INVARIANT TypeOK
INVARIANT RevolutionConservation
INVARIANT PatternWellFormed
INVARIANT ScanFindsWinner
PROPERTY RevolutionsATurnApart
INVARIANT OneCaptureAtATime
INVARIANT EveryBlockageCounted
INVARIANT TelemetryIsWhole
PROPERTY FirstBlockagesGetThrough
PROPERTY ImplementsPipeline
PROPERTY AlwaysListensAgain
PROPERTY DropsGetReported
