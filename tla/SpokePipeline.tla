--------------------------- MODULE SpokePipeline ----------------------------
(***************************************************************************)
(* The spoke pipeline as its only user, receive_loop of                    *)
(* main/ir_spoke_rmt_adapter.c, drives it: each blockage taken from the    *)
(* queue goes through the detector and, if accepted, the pattern; a wheel  *)
(* revolution is reported to the BLE service when the locked pattern       *)
(* returns to spoke 0.                                                     *)
(*                                                                         *)
(* The three variables after pattern are history variables: they count     *)
(* what the program reports, and no action reads them.                     *)
(***************************************************************************)
EXTENDS SpokePattern

CONSTANTS Gaps,          \* time from the previous accepted blockage to this one
          Durations,     \* lengths of a blockage
          MAX_PULSES,    \* bound: blockages the detector accepts
          MAX_REJECTED   \* bound: blockages the detector rejects

ASSUME PipelineAssumption == Gaps \subseteq Nat /\ Durations \subseteq Nat

VARIABLES detector,            \* accepted, rejected_short, rejected_long
          pattern,             \* ir_spoke_pattern_t
          mapped,              \* history: intervals given to update_map
          revolutions,         \* history: calls of on_wheel_revolution
          last_revolution_us   \* history: timestamp of the newest of them

vars == <<detector, pattern, mapped, revolutions, last_revolution_us>>

DetectorInit == [accepted |-> 0, rejected_short |-> 0, rejected_long |-> 0]

Init ==
    /\ detector = DetectorInit
    /\ pattern = PatternInit
    /\ mapped = 0 /\ revolutions = 0 /\ last_revolution_us = 0

\* Mutant: standing at spoke 0 is enough.
StandsAtZero(before, after) ==
    before.count_locked /\ after.count_locked /\ after.current_spoke = 0

\* The condition of receive_loop on the pattern before and after an accepted
\* blockage: it was locked and not at spoke 0, and now it is at spoke 0.
CompletesRevolution(before, after) ==
    /\ before.count_locked
    /\ before.current_spoke # 0
    /\ after.count_locked
    /\ after.current_spoke = 0

\* A blockage the detector lets through.
AcceptedPulse(edge, duration) ==
    /\ PulseResult(duration) = "ACCEPTED"
    /\ detector' = [detector EXCEPT !.accepted = @ + 1]
    /\ pattern' = ingest_edge(pattern, edge)
    /\ mapped' = IF UsesEdge(pattern, edge) /\ pattern'.count_locked
                 THEN mapped + 1 ELSE mapped
    /\ IF CompletesRevolution(pattern, pattern')
       THEN revolutions' = revolutions + 1 /\ last_revolution_us' = edge
       ELSE UNCHANGED <<revolutions, last_revolution_us>>

\* A blockage the detector rejects changes nothing but its counter.
RejectedPulse(duration) ==
    /\ \/ /\ PulseResult(duration) = "REJECT_SHORT"
          /\ detector' = [detector EXCEPT !.rejected_short = @ + 1]
       \/ /\ PulseResult(duration) = "REJECT_LONG"
          /\ detector' = [detector EXCEPT !.rejected_long = @ + 1]
    /\ UNCHANGED <<pattern, mapped, revolutions, last_revolution_us>>

Accept(gap, duration) ==
    /\ detector.accepted < MAX_PULSES
    /\ AcceptedPulse(pattern.last_edge_us + gap, duration)

Reject(duration) ==
    /\ detector.rejected_short + detector.rejected_long < MAX_REJECTED
    /\ RejectedPulse(duration)

Next ==
    \E duration \in Durations :
        \/ \E gap \in Gaps : Accept(gap, duration)
        \/ Reject(duration)

Spec == Init /\ [][Next]_vars

-----------------------------------------------------------------------------
(* Invariants.                                                             *)

TypeOK ==
    /\ detector \in [accepted : Nat, rejected_short : Nat, rejected_long : Nat]
    /\ pattern \in PatternType
    /\ mapped \in Nat /\ revolutions \in Nat /\ last_revolution_us \in Nat

\* Every mapped interval is accounted for exactly once: it belongs to a
\* reported revolution or to the turn under way.  So an edge whose interval
\* is thrown away while the pattern stands at spoke 0 reports nothing, the
\* event that locks the count reports nothing, and no turn is reported twice
\* or lost (the was_locked and previous_spoke tests of receive_loop).
RevolutionConservation ==
    IF pattern.count_locked
    THEN mapped = pattern.spoke_count * revolutions + pattern.spoke_index
    ELSE mapped = 0 /\ revolutions = 0

\* infer_count, update_map: the index that the estimate shows is the one the
\* table is read with and stays below the locked count; the ring is filled
\* without holes, so back never reads a cell nobody wrote; and every table
\* cell in use is an interval the receiver could have measured, because
\* infer_count reads filled cells only and the averaging of update_map never
\* leaves the range of its inputs.
PatternWellFormed ==
    /\ IndexWellFormed(pattern)
    /\ RingWellFormed(pattern)
    /\ LutWellFormed(pattern)

\* Since the last reported revolution every step of the spoke index took at
\* least the shortest interval.
RevolutionSpacing ==
    revolutions > 0 =>
        pattern.last_edge_us - last_revolution_us >= pattern.spoke_index * BLOCK_MIN_US

\* Two successive reports are at least a full turn of shortest intervals
\* apart, whatever mixture of noise, gaps and rejected edges lies between
\* them: the rate bound the BLE service lives on.
RevolutionsATurnApart ==
    [][revolutions > 0 /\ revolutions' # revolutions =>
         last_revolution_us' - last_revolution_us
            >= pattern.spoke_count * BLOCK_MIN_US]_vars

\* The declarative choice of the count and the one-pass loop of infer_count
\* agree on every history the program can have.
ScanFindsWinner ==
    LET s == CandidateScan(pattern)
    IN  Winners(pattern) =
            IF s.best_count # 0 /\ GoodScore(s.best) /\ ClearScore(s.best, s.second)
            THEN {s.best_count} ELSE {}
=============================================================================
