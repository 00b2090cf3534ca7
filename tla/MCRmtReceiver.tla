--------------------------- MODULE MCRmtReceiver ----------------------------
(***************************************************************************)
(* RmtReceiver with captures of up to four symbols and a queue of three    *)
(* events.  Durations are in RMT ticks, of which three make two time       *)
(* units, so that every kind of rounding happens.                          *)
(*                                                                         *)
(* The task also calls the CAN publisher for every accepted blockage.  The *)
(* publisher reads nothing of the receiver but the estimate, and gives     *)
(* nothing back.  And what the pipeline makes of longer sequences does not *)
(* depend on how they were captured.  A behaviour is spent on one part:    *)
(* reception, publication, or the pipeline on every sequence of a few gaps.*)
(***************************************************************************)
EXTENDS RmtReceiver, CanTelemetry

VARIABLE part

Symbol(level0, duration0, level1, duration1) ==
    [level0 |-> level0, duration0 |-> duration0,
     level1 |-> level1, duration1 |-> duration1]

\* A blockage and the carrier after it: 6 or 14 time units to the next
\* blockage, or 27, which the pattern does not accept.
Near    == Symbol(0, 8, 1, 2)
Middle  == Symbol(0, 8, 1, 14)
Far     == Symbol(0, 9, 1, 31)
TooLong == Symbol(0, 92, 1, 3)

\* A capture ends with the carrier, whose idle time has duration zero, or
\* with a glitch that is too short for a spoke.
Ending == Symbol(0, 8, 1, 0)
Glitch == Symbol(1, 5, 0, 3)

MCCaptures ==
    {<<Ending>>, <<Glitch>>, <<Near, Ending>>, <<TooLong, Ending>>,
     <<Near, Middle, Ending>>, <<Middle, Near, Glitch>>,
     <<Near, Far, Middle, Ending>>}

\* More than LINK_LOSS_US of silence ends a capture.
MCLatencies == {LINK_LOSS_US + 1}
MCGaps == 1 .. 460
MCDurations == {2, 5, 6, 61}

\* The pipeline by itself: a gap too short, two usable ones and a lost one;
\* blockages too short, usable and too long.
PipelineGaps == {3, 10, 16, LINK_LOSS_US + 5}
PipelineDurations == {2, 5, 61}
MaxAccepted == 10
MaxRejected == 1

-----------------------------------------------------------------------------
MCInit == RxInit /\ CanInit /\ part \in {"pipeline", "receive", "publish"}

\* Each blockage is handled as soon as it is there.
Estimating ==
    /\ part = "pipeline"
    /\ \E duration \in PipelineDurations :
        \/ /\ detector.accepted < MaxAccepted
           /\ \E gap \in PipelineGaps : Accept(gap, duration)
        \/ /\ detector.rejected_short + detector.rejected_long < MaxRejected
           /\ Reject(duration)
    /\ produced' = produced + 1
    /\ UNCHANGED <<now, armed, isr, event_queue, notified, pc, rx_capture_count,
                   rx_queue_drops, reported_queue_drops, canVars>>

Receiving == part = "receive" /\ RxNext /\ UNCHANGED canVars
Publishing == part = "publish" /\ CanNext /\ UNCHANGED all_vars

MCNext == (Estimating \/ Receiving \/ Publishing) /\ UNCHANGED part

\* Fairness is that of the reception; the other parts are checked for safety.
MCSpec == MCInit /\ [][MCNext]_<<all_vars, canVars, part>> /\ RxFairness
=============================================================================
