\* Every primitive wheel of 3 to 5 spokes with intervals of 100, 130 and
\* 200 us and every uniform one, undisturbed; and two uneven wheels with up to
\* three spokes missed anywhere; the interval over a missed spoke may exceed
\* LINK_LOSS_US.
CONSTANTS
    COUNT_MIN = 2
    COUNT_MAX = 5
    CONFIDENCE_EVENTS = 10
    BLOCK_MIN_US = 7
    BLOCK_MAX_US = 60
    LINK_LOSS_US = 28
    GATE_FLOOR_US = 8
    LUT_SCALE = 25
    Gaps = {}
    Durations = {}
    MAX_PULSES = 0
    MAX_REJECTED = 0
    Wheels <- MCWheels
    Disturbed <- UnevenWheels
    MAX_SPOKES = 28
    MAX_MISSED = 3
\* The service.
    SECOND = 10
    EVENT_TICKS = 4
    ROLLOVER_S = 2
    MAX_REVOLUTIONS = 3
    Handles = {h0, h1}
    NONE = none
    Values = {0, 3}
    TurnTimes <- MCTurnTimes
    NOTIFY_INTERVAL_US = 10
    SentReports = {TRUE, FALSE}
    MAX_TIME = 24
    MAX_WRITES = 2
    MAX_ADV_FAILURES = 1
\* The link monitor.
    Tasks = {receive, monitor}
    Reporter = monitor
    Pulses <- MCPulses
    STATUS_TICK = 2
    BEAT_TICKS = 2
    HEARTBEAT = 0
    CARRIER_HZ = 4
    MIN_PERCENT = 25
    SAMPLE = 2
    HIGH_LIMIT = 32
    MAX_LATE = 1
    MAX_FAILURES = 1
SPECIFICATION MCSpec
\* The wheel and the service stop at their bounds.
CHECK_DEADLOCK FALSE
INVARIANT UniformNeverLocks
INVARIANT LockedCountIsTrue
INVARIANT NonUniformLocks
INVARIANT IndexFollowsWheel
INVARIANT NeverAheadOfWheel
INVARIANT NothingOutlivesConnection
INVARIANT MeasurementIsOfItsRevolution
PROPERTY NotificationsSpaced
PROPERTY CollectorSeesElapsedTime
PROPERTY CountOnlyResetByPeer
PROPERTY ProcedureEnds
INVARIANT LedTypeOK
INVARIANT FlashCannotStick
PROPERTY HealthyLinkIsUp
PROPERTY DeadLinkIsDown
PROPERTY SteadyUpIsLit
