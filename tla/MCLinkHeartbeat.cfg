\* The documented distance of one second is 20 units.
CONSTANTS
    Tasks = {receive, monitor}
    Reporter = monitor
    Pulses <- MCPulses
    STATUS_TICK = 2
    BEAT_TICKS = 10
    HEARTBEAT = 20
    CARRIER_HZ = 4
    MIN_PERCENT = 25
    SAMPLE = 2
    HIGH_LIMIT = 32
    MAX_LATE = 1
    MAX_FAILURES = 1
SPECIFICATION LinkSpec
PROPERTY HeartbeatIsSlow
