--------------------------- MODULE CscMeasurement ---------------------------
(***************************************************************************)
(* The pure part of the CSC service, include/csc_measurement.hpp: the      *)
(* event time of a measurement and the wheel state it is taken from.       *)
(***************************************************************************)
EXTENDS Integers

CONSTANTS SECOND,          \* time units per second (1000000)
          EVENT_TICKS,     \* event time ticks per second (1024)
          ROLLOVER_S,      \* seconds until the event time repeats (64)
          MAX_REVOLUTIONS  \* the largest cumulative count (2^32 - 1)

ASSUME MeasurementAssumption ==
    /\ SECOND \in Nat \ {0} /\ EVENT_TICKS \in Nat \ {0} /\ ROLLOVER_S \in Nat \ {0}
    /\ MAX_REVOLUTIONS \in Nat

\* The event time has as many values as a roll-over period has ticks: 2^16.
EVENT_TIMES == ROLLOVER_S * EVENT_TICKS

\* Mutant: multiplied first.
event_time_late_reduction(timestamp_us) ==
    ((timestamp_us * EVENT_TICKS) % (ROLLOVER_S * SECOND)) \div SECOND

\* Reduced first, so that the product does not overflow; the result fits 16
\* bits because the roll-over period is exactly 2^16 ticks.
event_time_1024(timestamp_us) ==
    (((timestamp_us % (ROLLOVER_S * SECOND)) * EVENT_TICKS) \div SECOND) % EVENT_TIMES

WheelStateInit == [revolutions |-> 0, last_event_time |-> 0]

\* Mutant: the count wraps.
on_revolution_wrapping(state, timestamp_us) ==
    [revolutions     |-> (state.revolutions + 1) % (MAX_REVOLUTIONS + 1),
     last_event_time |-> event_time_1024(timestamp_us)]

\* The count saturates, the event time is always that of the revolution.
on_revolution(state, timestamp_us) ==
    [revolutions     |-> IF state.revolutions # MAX_REVOLUTIONS
                         THEN state.revolutions + 1 ELSE state.revolutions,
     last_event_time |-> event_time_1024(timestamp_us)]

\* Mutant: the whole state starts anew.
set_cumulative_afresh(state, value) == [WheelStateInit EXCEPT !.revolutions = value]

set_cumulative(state, value) == [state EXCEPT !.revolutions = value]
=============================================================================
