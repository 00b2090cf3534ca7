------------------------------ MODULE MCSensor ------------------------------
(***************************************************************************)
(* What the sensor makes of a wheel and shows of it: the estimator on      *)
(* turning wheels, the service that tells collectors of the revolutions,   *)
(* and the LED that shows the link.  The three share no state, so a        *)
(* behaviour is spent on one of them, chosen at the start.                 *)
(***************************************************************************)
EXTENDS MCSpokeWheel, MCCscService, MCLinkMonitor

VARIABLE part

OnWheel == part = "wheel"
InService == part = "service"
OnLink == part = "link"

MCInit ==
    /\ WheelInit /\ CscInit /\ MonitorInit
    /\ part \in {"wheel", "service", "link"}
    /\ ~OnWheel => wheel = <<10, 10>>
    /\ ~OnLink => carrier

MCNext ==
    /\ \/ OnWheel /\ WheelNext /\ UNCHANGED <<csc_vars, link_vars>>
       \/ InService /\ CscNext /\ UNCHANGED <<wheel_vars, link_vars>>
       \/ OnLink /\ LinkNext /\ UNCHANGED <<wheel_vars, csc_vars>>
    /\ UNCHANGED part

\* CscFairness and LinkFairness, each where its steps are taken: without the
\* first conjunct it would rule out the behaviours of the other parts.
ServiceFairness ==
    /\ WF_csc_vars(InService /\ OnSync)
    /\ WF_csc_vars(InService /\ AccessCallback)
    /\ WF_csc_vars(InService /\ (Snapshot \/ Send))
    /\ WF_csc_vars(InService /\ IndicationEnds)

MonitorFairness ==
    /\ WF_link_vars(OnLink /\ Monitor)
    /\ WF_link_vars(OnLink /\ TimerStep /\ UNCHANGED monitor_vars)
    /\ \A t \in Tasks :
         WF_link_vars(OnLink /\ SignalStep(t) /\ UNCHANGED monitor_vars)
    /\ WF_link_vars(OnLink /\ TimePasses)

MCSpec ==
    /\ MCInit /\ [][MCNext]_<<wheel_vars, csc_vars, link_vars, part>>
    /\ ServiceFairness /\ MonitorFairness
=============================================================================
