----------------------------- MODULE SpokeWheel -----------------------------
(***************************************************************************)
(* SpokePipeline behind a turning wheel.  The wheel is a fixed sequence of *)
(* intervals between neighbouring spokes, repeated for ever; a spoke is    *)
(* either seen (one accepted blockage) or missed (none, the next interval  *)
(* is longer), as when the RMT queue was full.  The wheel is the physical  *)
(* environment of the firmware, so only Seen has source lines.             *)
(***************************************************************************)
EXTENDS SpokePipeline, Sequences

CONSTANTS Wheels,       \* sequences of spoke intervals
          Disturbed,    \* the wheels of which spokes may pass unseen
          MAX_SPOKES,   \* bound: spokes that pass the beam
          MAX_MISSED    \* bound: spokes that pass unseen

ASSUME WheelAssumption == \A w \in Wheels : w \in Seq(Nat) /\ Len(w) > 0

VARIABLES wheel,      \* the mounted wheel
          passed,     \* spokes that have passed the beam
          missed,     \* of which unseen
          waiting_us, \* time since the last seen spoke
          locked_at   \* history: passed when the count was locked

wheel_vars == <<vars, wheel, passed, missed, waiting_us, locked_at>>

WheelInit ==
    /\ Init
    /\ wheel \in Wheels
    /\ passed = 0 /\ missed = 0 /\ waiting_us = 0 /\ locked_at = 0

\* The time from the previous spoke to the next one.
SpokeInterval == wheel[(passed % Len(wheel)) + 1]

Seen ==
    /\ passed < MAX_SPOKES
    /\ AcceptedPulse(pattern.last_edge_us + waiting_us + SpokeInterval, BLOCK_MIN_US)
    /\ passed' = passed + 1
    /\ waiting_us' = 0
    /\ locked_at' = IF pattern'.count_locked /\ ~pattern.count_locked
                    THEN passed ELSE locked_at
    /\ UNCHANGED <<wheel, missed>>

Missed ==
    /\ passed < MAX_SPOKES /\ missed < MAX_MISSED /\ wheel \in Disturbed
    /\ passed' = passed + 1
    /\ missed' = missed + 1
    /\ waiting_us' = waiting_us + SpokeInterval
    /\ UNCHANGED <<vars, wheel, locked_at>>

WheelNext == Seen \/ Missed

WheelSpec == WheelInit /\ [][WheelNext]_wheel_vars

-----------------------------------------------------------------------------
(* Properties.                                                             *)

Uniform(w) == \A i, j \in DOMAIN w : w[i] = w[j]

\* A wheel whose spokes are all alike gives no phase, so no count is ever
\* inferred from it.
UniformNeverLocks == missed = 0 /\ Uniform(wheel) => ~pattern.count_locked

\* A count inferred while no spoke was missed is the wheel's own count.
LockedCountIsTrue ==
    missed = 0 /\ pattern.count_locked => pattern.spoke_count = Len(wheel)

\* Once enough intervals are in, one more turn of an undisturbed wheel that
\* is not uniform is enough to lock.
NonUniformLocks ==
    (/\ missed = 0
     /\ ~Uniform(wheel)
     /\ pattern.accepted_events >= CONFIDENCE_EVENTS + Len(wheel))
        => pattern.count_locked

\* The spoke number stays with the spoke: on an undisturbed wheel the index
\* names the same physical spoke in every turn.
IndexFollowsWheel ==
    missed = 0 /\ pattern.count_locked =>
        pattern.spoke_index = (passed - locked_at) % pattern.spoke_count

\* Missed spokes only ever make the reported distance too short: with the
\* true count locked, the revolutions reported do not exceed the turns made.
NeverAheadOfWheel ==
    pattern.count_locked /\ pattern.spoke_count = Len(wheel) =>
        revolutions * Len(wheel) <= passed - locked_at

\* The table holds one expected interval per spoke: on an undisturbed wheel
\* the cell the next interval is compared with was filled by the same spoke.
LutFollowsWheel ==
    missed = 0 /\ pattern.count_locked =>
        pattern.interval_lut[pattern.spoke_index] = LUT_SCALE * SpokeInterval
=============================================================================
