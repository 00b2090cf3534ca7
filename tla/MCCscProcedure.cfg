CONSTANTS
    SECOND = 10
    EVENT_TICKS = 4
    ROLLOVER_S = 2
    MAX_REVOLUTIONS = 3
    Handles = {h0, h1}
    NONE = none
    Values = {0, 3}
    TurnTimes <- MCTurnTimes
    NOTIFY_INTERVAL_US = 10
    SentReports = {TRUE, FALSE}
    MAX_TIME = 24
    MAX_WRITES = 2
    MAX_ADV_FAILURES = 1
SPECIFICATION CscFairSpec

CHECK_DEADLOCK FALSE
INVARIANT OneProcedureAtATime
