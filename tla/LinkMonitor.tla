---------------------------- MODULE LinkMonitor -----------------------------
(***************************************************************************)
(* main/ir_spoke_link_monitor.c above the LED module: a task that counts   *)
(* carrier edges with the PCNT peripheral and reports the link state after *)
(* every sample.  The peripheral, the carrier and the clock are external:  *)
(* the counter gains CARRIER_HZ edges per time unit while the carrier is   *)
(* there, and starts again at zero when it reaches HIGH_LIMIT.             *)
(***************************************************************************)
EXTENDS DebugLed

CONSTANTS CARRIER_HZ,     \* edges of the carrier per time unit
          MIN_PERCENT,    \* of the carrier for LINK UP (25)
          SAMPLE,         \* CONFIG_IR_SPOKE_DEBUG_LINK_SAMPLE_MS
          HIGH_LIMIT,     \* high_limit of the counter (30000)
          MAX_LATE,       \* bound: time units from starting the counter to
                          \* the first report, and from reading to clearing
          MAX_FAILURES    \* bound: samples in a row that fail

ASSUME MonitorAssumption ==
    /\ CARRIER_HZ \in Nat \ {0} /\ MIN_PERCENT \in Nat
    /\ SAMPLE \in Nat \ {0} /\ HIGH_LIMIT \in Nat \ {0}
    /\ MAX_LATE \in Nat /\ MAX_FAILURES \in Nat

VARIABLES carrier,      \* does light reach the receiver?
          edge_count,   \* the counter of the peripheral
          elapsed,      \* time since sample_start_us
          sample,       \* where the task is, and what it has read (with the
                        \* history of what the carrier was meanwhile)
          delay,        \* time until vTaskDelay returns
          late,         \* time units since the counter was started or read
          failures,     \* samples failed in a row
          window        \* history: what the carrier was since the counter
                        \* was last cleared: a set of BOOLEANs

monitor_vars == <<carrier, edge_count, elapsed, sample, delay, late, failures, window>>
link_vars == <<led_vars, monitor_vars>>

At(pc) == [pc |-> pc]

MonitorInit ==
    /\ LedInit
    /\ carrier \in BOOLEAN
    /\ edge_count = 0 /\ elapsed = 0
    /\ sample = At("off") /\ delay = 0 /\ late = 0 /\ failures = 0
    /\ window = {}

\* The counter is cleared and started, and the task created.
StartMonitor ==
    /\ sample.pc = "off"
    /\ sample' = At("start")
    /\ UNCHANGED <<led_vars, carrier, edge_count, elapsed, delay, late, failures,
                   window>>

\* The first report, before any sample; the counter already runs.
FirstReport ==
    /\ sample.pc = "start"
    /\ CarrierLinkState("UNKNOWN")
    /\ sample' = At("delay") /\ delay' = SAMPLE /\ late' = 0
    /\ UNCHANGED <<carrier, edge_count, elapsed, failures, window>>

\* The task has painted and reported, and no flash of its own is under way.
ReporterReady == painting[Reporter] = Resting /\ signal[Reporter] = Resting

\* Mutant: the counter is cleared before it is read.
ReadTooLate ==
    /\ sample.pc = "delay" /\ delay = 0 /\ ReporterReady
    /\ sample' = [pc |-> "clear", edges |-> 0, elapsed |-> elapsed,
                   carrier |-> window]
    /\ elapsed' = 0
    /\ UNCHANGED <<led_vars, carrier, edge_count, delay, late, failures, window>>

\* Read the counter and the clock; the next sample starts now.
ReadCount ==
    /\ sample.pc = "delay" /\ delay = 0 /\ ReporterReady
    /\ sample' = [pc |-> "clear", edges |-> edge_count, elapsed |-> elapsed,
                   carrier |-> window]
    /\ elapsed' = 0
    /\ UNCHANGED <<led_vars, carrier, edge_count, delay, late, failures, window>>

\* Mutant: the count goes on.
ClearNothing ==
    /\ sample.pc = "clear"
    /\ window' = {} /\ late' = 0
    /\ sample' = [sample EXCEPT !.pc = "report"]
    /\ UNCHANGED <<led_vars, carrier, edge_count, elapsed, delay, failures>>

ClearCount ==
    /\ sample.pc = "clear"
    /\ edge_count' = 0
    /\ window' = {} /\ late' = 0
    /\ sample' = [sample EXCEPT !.pc = "report"]
    /\ UNCHANGED <<led_vars, carrier, elapsed, delay, failures>>

\* Reading or clearing fails: the sample is dropped with an error event, and
\* the counter keeps what it has unless it was cleared all the same.
SampleFails(pulse) ==
    /\ sample.pc = "clear" /\ failures < MAX_FAILURES
    /\ failures' = failures + 1 /\ late' = 0
    /\ \/ edge_count' = 0 /\ window' = {}
       \/ UNCHANGED <<edge_count, window>>
    /\ SignalEvent(Reporter, pulse)
    /\ sample' = At("delay") /\ delay' = SAMPLE
    /\ UNCHANGED <<carrier, elapsed>>

\* Edges per time unit, rounded to the nearest.
MeasuredHz(edges, time) ==
    LET elapsed_us == IF time > 0 THEN time ELSE SAMPLE
    IN  (edges + elapsed_us \div 2) \div elapsed_us

MinimumHz == (CARRIER_HZ * MIN_PERCENT) \div 100

StateOf(s) == IF MeasuredHz(s.edges, s.elapsed) >= MinimumHz THEN "UP" ELSE "DOWN"

Report ==
    /\ sample.pc = "report"
    /\ CarrierLinkState(StateOf(sample))
    /\ sample' = At("delay") /\ delay' = SAMPLE
    /\ failures' = 0
    /\ UNCHANGED <<carrier, edge_count, elapsed, late, window>>

Monitor ==
    \/ StartMonitor \/ FirstReport \/ ReadCount \/ ClearCount \/ Report
    \/ (ResetTick \/ Look(Reporter) \/ Paint(Reporter)) /\ UNCHANGED monitor_vars

-----------------------------------------------------------------------------
(* The environment.                                                        *)

CarrierChanges ==
    /\ carrier' = ~carrier
    /\ UNCHANGED <<led_vars, edge_count, elapsed, sample, delay, late,
                   failures, window>>

\* A time unit passes while every task waits, the monitor task possibly for
\* the processor or for its start.
TimePasses ==
    /\ LedQuiet
    /\ \/ sample.pc = "delay" /\ delay > 0
          /\ delay' = delay - 1 /\ UNCHANGED late
       \/ sample.pc \in {"start", "clear"} /\ late < MAX_LATE
          /\ late' = late + 1 /\ UNCHANGED delay
       \/ sample.pc = "off" /\ UNCHANGED <<delay, late>>
    /\ LedTimePasses
    /\ elapsed' = IF sample.pc \in {"off", "start"} THEN elapsed ELSE elapsed + 1
    /\ IF sample.pc = "off" THEN UNCHANGED <<edge_count, window>>
       ELSE /\ edge_count' = IF carrier THEN (edge_count + CARRIER_HZ) % HIGH_LIMIT
                                        ELSE edge_count
            /\ window' = window \cup {carrier}
    /\ UNCHANGED <<carrier, sample, failures>>

Signalling ==
    \/ \E t \in Tasks : SignalStep(t)
    \/ \E t \in Tasks \ {Reporter}, pulse \in Pulses : SignalEvent(t, pulse)

LinkNext ==
    \/ Monitor \/ (\E pulse \in Pulses : SampleFails(pulse))
    \/ (TimerStep \/ Signalling) /\ UNCHANGED monitor_vars
    \/ CarrierChanges \/ TimePasses

LinkSpec == MonitorInit /\ [][LinkNext]_link_vars

\* Tasks and callbacks run when they can, and time goes on.
LinkFairness ==
    /\ WF_link_vars(Monitor)
    /\ WF_link_vars(TimerStep /\ UNCHANGED monitor_vars)
    /\ \A t \in Tasks : WF_link_vars(SignalStep(t) /\ UNCHANGED monitor_vars)
    /\ WF_link_vars(TimePasses)

LinkFairSpec == LinkSpec /\ LinkFairness

-----------------------------------------------------------------------------
(* Properties.                                                             *)

\* The verdict of a sample.
Judges == sample.pc = "report" /\ sample'.pc = "delay"

\* A carrier that was there for the whole of a sample is reported as LINK UP,
\* also when the task was held up between reading and clearing, so that
\* edges are lost, and after samples that failed.
HealthyLinkIsUp == [][Judges /\ sample.carrier = {TRUE} => link_state' = "UP"]_link_vars

\* A carrier that was missing for the whole of a sample is reported as LINK
\* DOWN: no edge of an earlier sample is counted.
DeadLinkIsDown == [][Judges /\ sample.carrier = {FALSE} => link_state' = "DOWN"]_link_vars

NoFlash == \A t \in Tasks : signal[t] = Resting

\* While the link stays up and nothing flashes any more, the LED ends up lit:
\* whatever the unlocked writers painted over each other is repaired.
SteadyUpIsLit == <>[](link_state = "UP" /\ NoFlash) => <>[]led
=============================================================================
