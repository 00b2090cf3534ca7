------------------------- MODULE LinkMonitorProofs --------------------------
(***************************************************************************)
(* Proofs about the LED under the whole link monitor: for any number of    *)
(* tasks that report events, any flash lengths and any sampling, a flash   *)
(* cannot stick.                                                           *)
(***************************************************************************)
EXTENDS LinkMonitor, TLAPS

Signalled == [pc : {"light", "stop", "start"}, pulse : Pulses]

SignalTyped == signal \in [Tasks -> {Resting} \cup Signalled]

OffDueTyped == off_due \in Int /\ off_due >= Stopped

\* FlashCannotStick is inductive once it is known that a task on its way to
\* the timer carries a real flash length, so that starting the timer leaves
\* it running, and that the timer counts down to zero and no further.
FlashInv == SignalTyped /\ OffDueTyped /\ FlashCannotStick

\* MonitorInit gives FlashInv: nothing flashes.
LEMMA FlashInvInitially == MonitorInit => FlashInv
  BY DEF MonitorInit, LedInit, FlashInv, SignalTyped, OffDueTyped,
         FlashCannotStick, Resting, Stopped

\* Steps that leave signal_led, the off timer and its callback alone keep
\* FlashInv (apply_led_base_state, reports and status ticks).
LEMMA OtherStepsKeep ==
  ASSUME FlashInv,
         UNCHANGED <<signal, off_due, led_event_active>>,
         timer'.pc = "led_off" \/ timer.pc # "led_off"
  PROVE  FlashInv'
  BY DEF FlashInv, SignalTyped, OffDueTyped, FlashCannotStick, Signalled, Stopped, Resting

\* An event starts a flash: the task is on its way to the timer.
LEMMA SignalEventKeeps ==
  ASSUME FlashInv, NEW t \in Tasks, NEW pulse \in Pulses, SignalEvent(t, pulse)
  PROVE  FlashInv'
<1>1. SignalTyped' /\ OffDueTyped'
  BY DEF SignalEvent, FlashInv, SignalTyped, OffDueTyped, Signalled
<1>2. signal'[t].pc = "light"
  BY DEF SignalEvent, FlashInv, SignalTyped
<1>3. FlashCannotStick'
  BY <1>2 DEF FlashCannotStick
<1> QED
  BY <1>1, <1>3 DEF FlashInv

\* The rest of signal_led: whoever stops the timer goes on to start it, and a
\* refused start means that it runs already.
LEMMA SignalStepKeeps ==
  ASSUME LedAssumption, FlashInv, NEW t \in Tasks, SignalStep(t)
  PROVE  FlashInv'
<1>1. CASE LightLed(t)
  <2>1. signal[t] \in Signalled
    BY <1>1 DEF LightLed, FlashInv, SignalTyped, Resting
  <2>2. signal' = [signal EXCEPT ![t].pc = "stop"]
    BY <1>1 DEF LightLed
  <2>3. SignalTyped' /\ OffDueTyped'
    BY <1>1, <2>1, <2>2 DEF LightLed, FlashInv, SignalTyped, OffDueTyped, Signalled
  <2>4. signal'[t].pc = "stop"
    BY <2>1, <2>2 DEF FlashInv, SignalTyped, Signalled
  <2> QED
    BY <2>3, <2>4 DEF FlashInv, FlashCannotStick
<1>2. CASE StopTimer(t)
  <2>1. signal[t] \in Signalled
    BY <1>2 DEF StopTimer, FlashInv, SignalTyped, Resting
  <2>2. signal' = [signal EXCEPT ![t].pc = "start"]
    BY <1>2 DEF StopTimer
  <2>3. SignalTyped' /\ OffDueTyped'
    BY <1>2, <2>1, <2>2 DEF StopTimer, FlashInv, SignalTyped, OffDueTyped, Signalled, Stopped
  <2>4. signal'[t].pc = "start"
    BY <2>1, <2>2 DEF FlashInv, SignalTyped, Signalled
  <2> QED
    BY <2>3, <2>4 DEF FlashInv, FlashCannotStick
<1>3. CASE StartTimer(t)
  <2>1. signal[t] \in Signalled
    BY <1>3 DEF StartTimer, FlashInv, SignalTyped, Resting
  <2>2. signal[t].pulse \in Nat
    BY <2>1 DEF Signalled, LedAssumption
  <2>3. SignalTyped'
    BY <1>3 DEF StartTimer, FlashInv, SignalTyped
  <2>4. off_due' \in Int /\ off_due' >= Stopped /\ off_due' # Stopped
    BY <1>3, <2>2 DEF StartTimer, FlashInv, OffDueTyped, Stopped
  <2> QED
    BY <2>3, <2>4 DEF FlashInv, OffDueTyped, FlashCannotStick
<1> QED
  BY <1>1, <1>2, <1>3 DEF SignalStep

\* The timers: when the off timer stops by itself, its callback is on the way
\* and ends the flash.
LEMMA TimerStepKeeps ==
  ASSUME FlashInv, TimerStep
  PROVE  FlashInv'
<1>1. CASE OffTimerExpires
  BY <1>1 DEF OffTimerExpires, FlashInv, SignalTyped, OffDueTyped, FlashCannotStick, Stopped
<1>2. CASE led_off
  BY <1>2 DEF led_off, FlashInv, SignalTyped, OffDueTyped, FlashCannotStick
<1>3. CASE StatusTimerExpires
  BY <1>3, OtherStepsKeep DEF StatusTimerExpires, TimerIdle, Resting
<1>4. CASE ReadTick
  BY <1>4, OtherStepsKeep DEF ReadTick
<1>5. CASE StoreTick
  BY <1>5, OtherStepsKeep DEF StoreTick
<1>6. CASE Look(TimerTask)
  BY <1>6, OtherStepsKeep DEF Look
<1>7. CASE Paint(TimerTask)
  BY <1>7, OtherStepsKeep DEF Paint
<1> QED
  BY <1>1, <1>2, <1>3, <1>4, <1>5, <1>6, <1>7 DEF TimerStep

\* Time passes only while no timer is due, so the off timer does not run past
\* zero unnoticed.
LEMMA TimePassesKeeps ==
  ASSUME FlashInv, TimePasses
  PROVE  FlashInv'
  BY DEF TimePasses, LedQuiet, LedTimePasses, FlashInv, SignalTyped, OffDueTyped,
         FlashCannotStick, Stopped

\* The monitor task touches neither the timer nor the flag, except by an
\* error event of its own.
LEMMA MonitorKeeps ==
  ASSUME FlashInv, Monitor
  PROVE  FlashInv'
<1>1. UNCHANGED <<signal, off_due, led_event_active, timer>>
  BY DEF Monitor, StartMonitor, FirstReport, ReadCount, ClearCount, Report, ResetTick, Look,
         Paint, CarrierLinkState, led_vars
<1> QED
  BY <1>1, OtherStepsKeep

\* Every step of the system keeps FlashInv.
LEMMA NextKeeps ==
  ASSUME LedAssumption, FlashInv, [LinkNext]_link_vars
  PROVE  FlashInv'
<1>1. CASE Monitor
  BY <1>1, MonitorKeeps
<1>2. ASSUME NEW pulse \in Pulses, SampleFails(pulse)
      PROVE  FlashInv'
  BY <1>2, SignalEventKeeps DEF SampleFails, LedAssumption
<1>3. CASE TimerStep
  BY <1>3, TimerStepKeeps
<1>4. CASE Signalling
  BY <1>4, SignalEventKeeps, SignalStepKeeps DEF Signalling
<1>5. CASE CarrierChanges
  BY <1>5, OtherStepsKeep DEF CarrierChanges, led_vars
<1>6. CASE TimePasses
  BY <1>6, TimePassesKeeps
<1>7. CASE UNCHANGED link_vars
  BY <1>7, OtherStepsKeep DEF link_vars, led_vars
<1> QED
  BY <1>1, <1>2, <1>3, <1>4, <1>5, <1>6, <1>7 DEF LinkNext

\* No interleaving of event reports, timer callbacks and samples leaves the
\* LED in a flash that nobody will end.
THEOREM FlashNeverSticks == LinkSpec => []FlashCannotStick
<1>1. FlashInv /\ [LinkNext]_link_vars => FlashInv'
  BY NextKeeps, LedAssumption
<1>2. FlashInv => FlashCannotStick
  BY DEF FlashInv
<1> QED
  BY FlashInvInitially, <1>1, <1>2, PTL DEF LinkSpec

-----------------------------------------------------------------------------
(* Types.                                                                  *)

LinkStates == {"UNKNOWN", "UP", "DOWN"}
Ticks == 0 .. LED_CYCLE - 1
SignalStates == {Resting} \cup Signalled
TimerStates == [pc : {"idle", "led_off", "tick"}] \cup [pc : {"store"}, tick : Ticks]
PaintStates == [pc : {"idle", "reset", "look"}] \cup [pc : {"paint"}, on : BOOLEAN]

\* There is a longest flash, and it is a flash.
LEMMA LongestPulseIsLongest ==
  /\ LongestPulse \in Nat \ {0}
  /\ \A q \in Pulses : q \in Nat \ {0} /\ q <= LongestPulse
  BY LedAssumption DEF LongestPulse

\* The steps of signal_led.
LEMMA SignallingIsTyped ==
  ASSUME LedTypeOK, NEW t \in Tasks, NEW pulse \in Pulses,
         SignalEvent(t, pulse) \/ SignalStep(t)
  PROVE  LedTypeOK'
<1>1. /\ signal \in [Tasks -> SignalStates] /\ signal[t] \in SignalStates
      /\ off_due \in Stopped .. LongestPulse /\ since_beat \in 0 .. HEARTBEAT
      /\ HEARTBEAT \in Nat
  BY LedAssumption DEF LedTypeOK, SignalStates, Signalled
<1>2. signal' \in [Tasks -> SignalStates]
  <2>1. CASE SignalEvent(t, pulse)
    BY <1>1, <2>1 DEF SignalEvent, SignalStates, Signalled
  <2>2. CASE StartTimer(t)
    BY <1>1, <2>2 DEF StartTimer, SignalStates
  <2>3. CASE LightLed(t) \/ StopTimer(t)
    <3>1. signal[t] \in Signalled
      BY <1>1, <2>3 DEF LightLed, StopTimer, SignalStates, Resting
    <3>2. PICK pc \in {"stop", "start"} : signal' = [signal EXCEPT ![t].pc = pc]
      BY <2>3 DEF LightLed, StopTimer
    <3>3. [signal[t] EXCEPT !.pc = pc] \in Signalled
      BY <3>1 DEF Signalled
    <3> QED
      BY <1>1, <3>2, <3>3 DEF SignalStates
  <2> QED
    BY <2>1, <2>2, <2>3 DEF SignalStep
<1>3. off_due' \in Stopped .. LongestPulse
  <2>1. CASE StartTimer(t)
    <3>1. signal[t] \in Signalled
      BY <1>1, <2>1 DEF StartTimer, SignalStates, Resting
    <3>2. signal[t].pulse \in Pulses
      BY <3>1 DEF Signalled
    <3> QED
      BY <1>1, <2>1, <3>2, LongestPulseIsLongest DEF StartTimer, Stopped
  <2>2. CASE ~StartTimer(t)
    BY <1>1, <2>2, LongestPulseIsLongest
    DEF SignalEvent, SignalStep, LightLed, StopTimer, Stopped
  <2> QED
    BY <2>1, <2>2
<1>4. /\ led_event_active' = led_event_active \/ led_event_active' = TRUE
      /\ led' = led \/ led' = TRUE
      /\ since_beat' = since_beat \/ since_beat' = HEARTBEAT
      /\ UNCHANGED <<link_state, led_status_tick, status_due, timer, painting>>
  BY DEF SignalEvent, SignalStep, LightLed, StopTimer, StartTimer
<1>5. /\ led_event_active' \in BOOLEAN /\ led' \in BOOLEAN
      /\ since_beat' \in 0 .. HEARTBEAT
  <2>1. led_event_active \in BOOLEAN /\ led \in BOOLEAN
    BY DEF LedTypeOK
  <2>2. led_event_active' \in BOOLEAN /\ led' \in BOOLEAN
    BY <1>4, <2>1
  <2>3. since_beat' \in 0 .. HEARTBEAT
    BY <1>1, <1>4
  <2> QED
    BY <2>2, <2>3
<1> QED
  BY <1>2, <1>3, <1>4, <1>5 DEF LedTypeOK, SignalStates, Signalled

\* Painting the base state.
LEMMA PaintingIsTyped ==
  ASSUME LedTypeOK, NEW w \in Writers, Look(w) \/ Paint(w)
  PROVE  LedTypeOK'
<1>1. /\ painting \in [Writers -> PaintStates] /\ painting[w] \in PaintStates
      /\ HEARTBEAT \in Nat /\ since_beat \in 0 .. HEARTBEAT
  BY LedAssumption DEF LedTypeOK, PaintStates
<1>2. CASE Look(w)
  <2>1. link_status_led_on \in BOOLEAN
    <3>1. CASE link_state = "UP"
      BY <3>1 DEF link_status_led_on
    <3>2. CASE link_state = "DOWN"
      BY <3>2 DEF link_status_led_on
    <3>3. CASE link_state = "UNKNOWN"
      BY <3>3 DEF link_status_led_on
    <3> QED
      BY <3>1, <3>2, <3>3 DEF LedTypeOK
  <2>2. painting' \in [Writers -> PaintStates]
    BY <1>1, <1>2, <2>1 DEF Look, PaintStates, Resting
  <2> QED
    BY <1>2, <2>2 DEF Look, LedTypeOK, PaintStates
<1>3. CASE Paint(w)
  <2>1. led' \in BOOLEAN
    BY <1>1, <1>3 DEF Paint, PaintStates
  <2>2. painting' \in [Writers -> PaintStates]
    BY <1>1, <1>3 DEF Paint, PaintStates, Resting
  <2>3. since_beat' \in 0 .. HEARTBEAT
    BY <1>1, <1>3 DEF Paint
  <2> QED
    BY <1>3, <2>1, <2>2, <2>3 DEF Paint, LedTypeOK, PaintStates
<1> QED
  BY <1>2, <1>3

\* The callbacks of the timers.
LEMMA TimerIsTyped ==
  ASSUME LedTypeOK, TimerStep
  PROVE  LedTypeOK'
<1>1. /\ painting \in [Writers -> PaintStates] /\ timer \in TimerStates
      /\ led_status_tick \in Ticks
      /\ off_due \in Stopped .. LongestPulse /\ status_due \in 0 .. STATUS_TICK
      /\ STATUS_TICK \in Nat /\ LED_CYCLE \in Nat \ {0}
  BY LedAssumption DEF LedTypeOK, PaintStates, TimerStates, Ticks, LED_CYCLE
<1>2. CASE Look(TimerTask) \/ Paint(TimerTask)
  BY <1>2, PaintingIsTyped DEF Writers
<1>3. CASE ~(Look(TimerTask) \/ Paint(TimerTask))
  <2>1. /\ painting' \in [Writers -> PaintStates]
        /\ UNCHANGED <<link_state, led, signal, since_beat>>
    BY <1>1, <1>3 DEF TimerStep, OffTimerExpires, led_off, StatusTimerExpires,
                      ReadTick, StoreTick, PaintStates
  <2>2. timer' \in TimerStates
    BY <1>1, <1>3 DEF TimerStep, OffTimerExpires, led_off, StatusTimerExpires,
                      ReadTick, StoreTick, TimerStates, Resting
  <2>3. led_status_tick' \in Ticks
    <3>1. CASE StoreTick
      <4>1. timer.tick + 1 \in Nat
        BY <1>1, <3>1 DEF StoreTick, TimerStates, Ticks
      <4> HIDE DEF LED_CYCLE
      <4>2. \A a \in Nat, m \in Nat \ {0} : a % m \in 0 .. m - 1
        BY SMT
      <4> QED
        BY <1>1, <3>1, <4>1, <4>2 DEF StoreTick, Ticks
    <3>2. CASE ~StoreTick
      BY <1>1, <1>3, <3>2 DEF TimerStep, OffTimerExpires, led_off, StatusTimerExpires,
                              ReadTick
    <3> QED
      BY <3>1, <3>2
  <2>4. off_due' \in Stopped .. LongestPulse /\ status_due' \in 0 .. STATUS_TICK
    BY <1>1, <1>3, LongestPulseIsLongest
    DEF TimerStep, OffTimerExpires, led_off, StatusTimerExpires, ReadTick, StoreTick,
        Stopped
  <2>5. led_event_active' \in BOOLEAN
    BY <1>3 DEF TimerStep, OffTimerExpires, led_off, StatusTimerExpires,
                ReadTick, StoreTick, LedTypeOK
  <2> QED
    BY <2>1, <2>2, <2>3, <2>4, <2>5 DEF LedTypeOK, PaintStates, TimerStates, Ticks
<1> QED
  BY <1>2, <1>3

\* What the monitor task does to the LED before it paints.
LEMMA ReportingIsTyped ==
  ASSUME LedTypeOK, (\E s \in LinkStates : CarrierLinkState(s)) \/ ResetTick
  PROVE  LedTypeOK'
<1>1. /\ painting \in [Writers -> PaintStates]
      /\ HEARTBEAT \in Nat /\ since_beat \in 0 .. HEARTBEAT
      /\ BEAT_TICKS \in Nat \ {0}
  BY LedAssumption DEF LedTypeOK, PaintStates
<1>2. ASSUME NEW s \in LinkStates, CarrierLinkState(s)
      PROVE  LedTypeOK'
  <2>1. painting' \in [Writers -> PaintStates]
    BY <1>1, <1>2 DEF CarrierLinkState, PaintStates
  <2>2. since_beat' \in 0 .. HEARTBEAT
    BY <1>1, <1>2 DEF CarrierLinkState
  <2> QED
    BY <1>2, <2>1, <2>2 DEF CarrierLinkState, LedTypeOK, PaintStates, LinkStates
<1>3. CASE ResetTick
  <2>1. painting' \in [Writers -> PaintStates]
    BY <1>1, <1>3 DEF ResetTick, PaintStates
  <2>2. led_status_tick' \in Ticks
    BY <1>1, <1>3 DEF ResetTick, Ticks, LED_CYCLE
  <2> QED
    BY <1>3, <2>1, <2>2 DEF ResetTick, LedTypeOK, PaintStates, Ticks
<1> QED
  BY <1>2, <1>3

\* Time passes while no timer is due.
LEMMA TimeIsTyped ==
  ASSUME LedTypeOK, LedQuiet, LedTimePasses
  PROVE  LedTypeOK'
<1>1. /\ HEARTBEAT \in Nat /\ since_beat \in 0 .. HEARTBEAT
      /\ off_due \in Stopped .. LongestPulse /\ status_due \in 0 .. STATUS_TICK
      /\ STATUS_TICK \in Nat
  BY LedAssumption DEF LedTypeOK
<1>2. off_due' \in Stopped .. LongestPulse /\ status_due' \in 0 .. STATUS_TICK
  BY <1>1, LongestPulseIsLongest DEF LedQuiet, LedTimePasses, Stopped
<1>3. since_beat' \in 0 .. HEARTBEAT
  BY <1>1 DEF LedTimePasses
<1> QED
  BY <1>2, <1>3 DEF LedTimePasses, LedTypeOK

\* Every step keeps the LED typed.
LEMMA LedStaysTyped ==
  ASSUME LedTypeOK, [LinkNext]_link_vars
  PROVE  LedTypeOK'
<1>1. CASE FirstReport \/ Report \/ ResetTick
  BY <1>1, ReportingIsTyped DEF FirstReport, Report, StateOf, LinkStates
<1>2. CASE \/ UNCHANGED link_vars
           \/ StartMonitor \/ ReadCount \/ ClearCount \/ CarrierChanges
  <2>1. UNCHANGED led_vars
    BY <1>2 DEF link_vars, StartMonitor, ReadCount, ClearCount, CarrierChanges
  <2> QED
    BY <2>1 DEF led_vars, LedTypeOK
<1>3. CASE Look(Reporter) \/ Paint(Reporter)
  BY <1>3, PaintingIsTyped DEF Writers
<1>4. ASSUME NEW pulse \in Pulses, SampleFails(pulse)
      PROVE  LedTypeOK'
  BY <1>4, SignallingIsTyped, LedAssumption DEF SampleFails
<1>5. CASE Signalling
  <2>1. Pulses # {}
    BY LedAssumption
  <2> QED
    BY <1>5, <2>1, SignallingIsTyped DEF Signalling
<1>6. CASE TimerStep
  BY <1>6, TimerIsTyped
<1>7. CASE TimePasses
  BY <1>7, TimeIsTyped DEF TimePasses
<1> QED
  BY <1>1, <1>2, <1>3, <1>4, <1>5, <1>6, <1>7 DEF LinkNext, Monitor

\* The LED starts typed.
LEMMA LedTypedInitially == LedInit => LedTypeOK
<1> SUFFICES ASSUME LedInit PROVE LedTypeOK
  OBVIOUS
<1>1. STATUS_TICK \in Nat /\ HEARTBEAT \in Nat /\ LED_CYCLE \in Nat \ {0}
  BY LedAssumption DEF LED_CYCLE
<1>2. /\ 0 \in 0 .. LED_CYCLE - 1 /\ STATUS_TICK \in 0 .. STATUS_TICK
      /\ HEARTBEAT \in 0 .. HEARTBEAT /\ Stopped \in Stopped .. LongestPulse
  BY <1>1, LongestPulseIsLongest DEF Stopped
<1> QED
  BY <1>2 DEF LedInit, LedTypeOK, Resting

\* The LED, its timers and the tasks that use it stay where their code can be,
\* for every flash length, period and number of tasks.
THEOREM LedTypeCorrect == LinkSpec => []LedTypeOK
<1>1. MonitorInit => LedTypeOK
  BY LedTypedInitially DEF MonitorInit
<1>2. LedTypeOK /\ [LinkNext]_link_vars => LedTypeOK'
  BY LedStaysTyped
<1> QED
  BY <1>1, <1>2, PTL DEF LinkSpec

-----------------------------------------------------------------------------
(* The verdicts.                                                           *)

\* The longest time from one reading of the counter to the next.
Round == SAMPLE + MAX_LATE

\* The counter does not pass its limit while as many samples in a row fail as
\* may, and a sample is not so late that a full carrier looks weak.
CounterHolds ==
  CARRIER_HZ * (MAX_FAILURES * Round + MAX_LATE + SAMPLE) < HIGH_LIMIT
Punctual == MIN_PERCENT * Round <= 100 * SAMPLE

Sampled == [pc : {"clear", "report"}, edges : Nat, elapsed : Nat,
            carrier : SUBSET BOOLEAN]

MonitorTypeOK ==
  /\ sample \in Sampled
       \/ sample.pc \in {"off", "start", "delay"}
  /\ carrier \in BOOLEAN /\ window \in SUBSET BOOLEAN
  /\ edge_count \in Nat /\ elapsed \in Nat
  /\ delay \in 0 .. SAMPLE /\ late \in 0 .. MAX_LATE
  /\ failures \in 0 .. MAX_FAILURES

\* Where there was no carrier since the counter was cleared, there is no edge.
NoStrayEdges ==
  /\ TRUE \notin window => edge_count = 0
  /\ sample.pc \in {"clear", "report"} /\ TRUE \notin sample.carrier
        => sample.edges = 0

DeadInv == MonitorTypeOK /\ NoStrayEdges

\* How much time and how many edges there can be at each point of the loop;
\* and how many edges there are at least if the carrier was never missing.
EdgesAddUp ==
  /\ sample.pc \in {"off", "start"} =>
       /\ elapsed = 0 /\ failures = 0 /\ edge_count <= CARRIER_HZ * late
  /\ sample.pc = "delay" =>
       /\ elapsed <= MAX_LATE + (SAMPLE - delay)
       /\ edge_count <= CARRIER_HZ * (failures * Round + MAX_LATE + (SAMPLE - delay))
       /\ FALSE \notin window => edge_count >= CARRIER_HZ * (SAMPLE - delay)
  /\ sample.pc = "clear" =>
       /\ elapsed <= late
       /\ edge_count <= CARRIER_HZ * (failures * Round + MAX_LATE + SAMPLE + late)
  /\ sample.pc = "report" => elapsed <= MAX_LATE /\ edge_count = 0
  /\ sample.pc \in {"clear", "report"} =>
       /\ sample.elapsed <= Round
       /\ FALSE \notin sample.carrier => sample.edges >= CARRIER_HZ * SAMPLE

HealthyInv == MonitorTypeOK /\ EdgesAddUp

\* Edges are counted in proportion to time.
LEMMA EdgesOfTime ==
  /\ CARRIER_HZ \in Nat \ {0}
  /\ \A a \in Nat : CARRIER_HZ * a \in Nat /\ CARRIER_HZ * (a + 1) = CARRIER_HZ * a + CARRIER_HZ
  /\ \A a, b \in Nat : a <= b => CARRIER_HZ * a <= CARRIER_HZ * b
<1>1. \A c, a, b \in Nat : a <= b => c * a \in Nat /\ c * a <= c * b
  BY SMT
<1>2. \A c, a \in Nat : c * a \in Nat /\ c * (a + 1) = c * a + c
  BY SMT
<1> QED
  BY <1>1, <1>2, MonitorAssumption

\* Every step keeps the monitor typed.
LEMMA MonitorStaysTyped ==
  ASSUME MonitorTypeOK, [LinkNext]_link_vars
  PROVE  MonitorTypeOK'
<1>1. /\ SAMPLE \in Nat \ {0} /\ HIGH_LIMIT \in Nat \ {0} /\ MAX_LATE \in Nat
      /\ MAX_FAILURES \in Nat /\ CARRIER_HZ \in Nat
  BY MonitorAssumption
<1>2. CASE StartMonitor \/ FirstReport
  BY <1>1, <1>2 DEF StartMonitor, FirstReport, At, MonitorTypeOK
<1>3. CASE ReadCount
  BY <1>1, <1>3 DEF ReadCount, MonitorTypeOK, Sampled
<1>4. CASE ClearCount
  <2>1. sample \in Sampled
    BY <1>4 DEF ClearCount, MonitorTypeOK
  <2>2. sample' \in Sampled
    BY <1>4, <2>1 DEF ClearCount, Sampled
  <2> QED
    BY <1>1, <1>4, <2>2 DEF ClearCount, MonitorTypeOK
<1>5. CASE Report
  BY <1>1, <1>5 DEF Report, At, MonitorTypeOK
<1>6. ASSUME NEW pulse \in Pulses, SampleFails(pulse)
      PROVE  MonitorTypeOK'
  BY <1>1, <1>6 DEF SampleFails, At, MonitorTypeOK
<1>7. CASE CarrierChanges
  BY <1>7 DEF CarrierChanges, MonitorTypeOK
<1>8. CASE TimePasses
  <2>1. edge_count' \in Nat
    <3>1. \A a \in Nat, m \in Nat \ {0} : a % m \in Nat
      BY SMT
    <3> QED
      BY <1>1, <1>8, <3>1 DEF TimePasses, MonitorTypeOK
  <2>2. elapsed' \in Nat /\ window' \in SUBSET BOOLEAN
        /\ UNCHANGED <<carrier, sample, failures>>
    BY <1>8 DEF TimePasses, MonitorTypeOK
  <2>3. delay' \in 0 .. SAMPLE /\ late' \in 0 .. MAX_LATE
    BY <1>1, <1>8 DEF TimePasses, MonitorTypeOK
  <2> QED
    BY <2>1, <2>2, <2>3 DEF MonitorTypeOK
<1>9. CASE UNCHANGED monitor_vars
  BY <1>9 DEF monitor_vars, MonitorTypeOK
<1> QED
  BY <1>2, <1>3, <1>4, <1>5, <1>6, <1>7, <1>8, <1>9 DEF LinkNext, Monitor, link_vars

\* A verdict is given by Report and by no other step.
LEMMA JudgesReports ==
  ASSUME [LinkNext]_link_vars, Judges
  PROVE  Report
<1>1. CASE UNCHANGED sample
  BY <1>1 DEF Judges
<1>2. CASE StartMonitor \/ FirstReport \/ ReadCount \/ ClearCount
  BY <1>2 DEF StartMonitor, FirstReport, ReadCount, ClearCount, Judges
<1>3. ASSUME NEW pulse \in Pulses, SampleFails(pulse)
      PROVE  FALSE
  BY <1>3 DEF SampleFails, Judges
<1>4. CarrierChanges \/ TimePasses \/ UNCHANGED monitor_vars \/ UNCHANGED link_vars
        => UNCHANGED sample
  BY DEF CarrierChanges, TimePasses, monitor_vars, link_vars
<1> QED
  BY <1>1, <1>2, <1>3, <1>4 DEF LinkNext, Monitor

\* Every step keeps the counter clear of strays.
LEMMA DeadInvKept ==
  ASSUME DeadInv, [LinkNext]_link_vars
  PROVE  DeadInv'
<1>1. MonitorTypeOK'
  BY MonitorStaysTyped DEF DeadInv
<1> SUFFICES NoStrayEdges'
  BY <1>1 DEF DeadInv
<1>2. MonitorTypeOK /\ NoStrayEdges
  BY DEF DeadInv
<1>3. CASE StartMonitor \/ FirstReport \/ Report \/ CarrierChanges
  <2>1. /\ UNCHANGED <<edge_count, window>>
        /\ UNCHANGED sample \/ sample' = At("start") \/ sample' = At("delay")
    BY <1>3 DEF StartMonitor, FirstReport, Report, CarrierChanges
  <2>2. CASE UNCHANGED sample
    BY <1>2, <2>1, <2>2 DEF NoStrayEdges
  <2>3. CASE sample' = At("start") \/ sample' = At("delay")
    <3>1. sample'.pc \notin {"clear", "report"}
      BY <2>3 DEF At
    <3> QED
      BY <1>2, <2>1, <3>1 DEF NoStrayEdges
  <2> QED
    BY <2>1, <2>2, <2>3
<1>4. CASE ReadCount
  BY <1>2, <1>4 DEF ReadCount, NoStrayEdges
<1>5. CASE ClearCount
  <2>1. sample \in Sampled
    BY <1>2, <1>5 DEF ClearCount, MonitorTypeOK
  <2>2. sample'.edges = sample.edges /\ sample'.carrier = sample.carrier
    BY <1>5, <2>1 DEF ClearCount, Sampled
  <2> QED
    BY <1>2, <1>5, <2>2 DEF ClearCount, NoStrayEdges
<1>6. ASSUME NEW pulse \in Pulses, SampleFails(pulse)
      PROVE  NoStrayEdges'
  BY <1>2, <1>6 DEF SampleFails, At, NoStrayEdges
<1>7. CASE TimePasses
  BY <1>2, <1>7 DEF TimePasses, NoStrayEdges, MonitorTypeOK
<1>8. CASE UNCHANGED monitor_vars
  BY <1>2, <1>8 DEF monitor_vars, NoStrayEdges
<1> QED
  BY <1>3, <1>4, <1>5, <1>6, <1>7, <1>8 DEF LinkNext, Monitor, link_vars

\* A sample without carrier and without strays is below every threshold but 0.
LEMMA NoEdgesIsDown ==
  ASSUME MinimumHz > 0, NEW s, s.edges = 0, s.elapsed \in Nat
  PROVE  StateOf(s) = "DOWN"
<1> DEFINE e == IF s.elapsed > 0 THEN s.elapsed ELSE SAMPLE
<1>1. e \in Nat \ {0}
  BY MonitorAssumption
<1>2. \A n \in Nat \ {0} : (0 + n \div 2) \div n = 0
  BY SMT
<1> HIDE DEF e
<1>3. MeasuredHz(s.edges, s.elapsed) = 0
  BY <1>1, <1>2 DEF MeasuredHz, e
<1>4. MinimumHz \in Int
  BY MonitorAssumption DEF MinimumHz
<1> QED
  BY <1>3, <1>4 DEF StateOf

\* A carrier that is missing for a whole sample is reported as LINK DOWN, after
\* any mixture of failed, late and interrupted samples, wherever the counter
\* wrapped; for every threshold of at least one edge per time unit.
THEOREM DeadLinkIsReported ==
  ASSUME MinimumHz > 0
  PROVE  LinkSpec => DeadLinkIsDown
<1>1. MonitorInit => DeadInv
  <2> SUFFICES ASSUME MonitorInit PROVE DeadInv
    OBVIOUS
  <2>1. 0 \in 0 .. SAMPLE /\ 0 \in 0 .. MAX_LATE /\ 0 \in 0 .. MAX_FAILURES
    BY MonitorAssumption
  <2> QED
    BY <2>1 DEF MonitorInit, At, DeadInv, MonitorTypeOK, NoStrayEdges
<1>2. DeadInv /\ [LinkNext]_link_vars => DeadInv'
  BY DeadInvKept
<1>3. ASSUME DeadInv, [LinkNext]_link_vars, Judges, sample.carrier = {FALSE}
      PROVE  link_state' = "DOWN"
  <2>1. Report
    BY <1>3, JudgesReports
  <2>2. sample \in Sampled /\ sample.edges = 0
    BY <1>3 DEF Judges, DeadInv, MonitorTypeOK, NoStrayEdges
  <2>3. StateOf(sample) = "DOWN"
    BY <2>2, NoEdgesIsDown DEF Sampled
  <2> QED
    BY <2>1, <2>3 DEF Report, CarrierLinkState
<1>4. DeadInv /\ [LinkNext]_link_vars =>
        [Judges /\ sample.carrier = {FALSE} => link_state' = "DOWN"]_link_vars
  BY <1>3
<1> QED
  BY <1>1, <1>2, <1>4, PTL DEF LinkSpec, DeadLinkIsDown

\* The time of a round, and how many failed rounds there can be.
LEMMA RoundsAreBounded ==
  /\ Round \in Nat /\ SAMPLE \in Nat \ {0} /\ MAX_LATE \in Nat
  /\ Round = SAMPLE + MAX_LATE
  /\ \A f \in Nat : f * Round \in Nat /\ (f + 1) * Round = f * Round + Round
  /\ \A f \in 0 .. MAX_FAILURES : f * Round <= MAX_FAILURES * Round
  /\ MAX_FAILURES \in Nat
<1>1. /\ Round \in Nat /\ SAMPLE \in Nat \ {0} /\ MAX_LATE \in Nat
      /\ Round = SAMPLE + MAX_LATE /\ MAX_FAILURES \in Nat
  BY MonitorAssumption DEF Round
<1>2. \A f, r \in Nat : f * r \in Nat /\ (f + 1) * r = f * r + r
  BY SMT
<1>3. \A f, g, r \in Nat : f <= g => f * r <= g * r
  BY SMT
<1> QED
  BY <1>1, <1>2, <1>3

\* Time passes: with the carrier, every unit adds its edges.
LEMMA TimeAddsUp ==
  ASSUME CounterHolds, HealthyInv, TimePasses
  PROVE  EdgesAddUp'
<1> DEFINE C == CARRIER_HZ
           n == failures * Round
<1>1. /\ MonitorTypeOK /\ EdgesAddUp
      /\ C \in Nat \ {0} /\ HIGH_LIMIT \in Nat \ {0}
      /\ edge_count \in Nat /\ elapsed \in Nat /\ delay \in 0 .. SAMPLE
      /\ late \in 0 .. MAX_LATE /\ n \in Nat /\ SAMPLE \in Nat /\ MAX_LATE \in Nat
      /\ carrier \in BOOLEAN
  BY MonitorAssumption, RoundsAreBounded DEF HealthyInv, MonitorTypeOK
<1>2. UNCHANGED <<sample, failures, carrier>> /\ sample.pc # "report"
  BY DEF TimePasses
<1>3. \A a \in Nat, m \in Nat \ {0} : a % m \in Nat /\ a % m <= a /\ (a < m => a % m = a)
  BY SMT
<1>4. sample.pc # "off" =>
        /\ edge_count' \in Nat /\ edge_count' <= edge_count + C
        /\ carrier /\ edge_count + C < HIGH_LIMIT => edge_count' = edge_count + C
        /\ window' = window \cup {carrier}
  <2> SUFFICES ASSUME sample.pc # "off"
               PROVE  /\ edge_count' \in Nat /\ edge_count' <= edge_count + C
                      /\ carrier /\ edge_count + C < HIGH_LIMIT
                            => edge_count' = edge_count + C
                      /\ window' = window \cup {carrier}
    OBVIOUS
  <2>1. /\ edge_count' = IF carrier THEN (edge_count + C) % HIGH_LIMIT ELSE edge_count
        /\ window' = window \cup {carrier}
    BY DEF TimePasses
  <2>2. edge_count + C \in Nat
    BY <1>1
  <2>3. /\ (edge_count + C) % HIGH_LIMIT \in Nat
        /\ (edge_count + C) % HIGH_LIMIT <= edge_count + C
        /\ edge_count + C < HIGH_LIMIT => (edge_count + C) % HIGH_LIMIT = edge_count + C
    BY <1>1, <1>3, <2>2
  <2> DEFINE rest == (edge_count + C) % HIGH_LIMIT
  <2> HIDE DEF rest
  <2>4. CASE carrier
    <3>1. edge_count' = rest
      BY <2>1, <2>4 DEF rest
    <3>2. rest \in Nat /\ rest <= edge_count + C
          /\ (edge_count + C < HIGH_LIMIT => rest = edge_count + C)
      BY <2>3 DEF rest
    <3> QED
      BY <2>1, <3>1, <3>2
  <2>5. CASE ~carrier
    <3>1. edge_count' = edge_count
      BY <2>1, <2>5
    <3>2. edge_count' \in Nat /\ edge_count' <= edge_count + C
      BY <1>1, <3>1
    <3> QED
      BY <2>1, <2>5, <3>2
  <2> QED
    BY <2>4, <2>5
<1>5. CASE sample.pc = "off"
  <2>1. UNCHANGED <<edge_count, elapsed, late>>
    BY <1>5 DEF TimePasses
  <2> QED
    BY <1>1, <1>2, <1>5, <2>1 DEF EdgesAddUp
<1>6. CASE sample.pc = "start"
  <2>1. late' = late + 1 /\ elapsed' = elapsed
    BY <1>6 DEF TimePasses
  <2>2. C * (late + 1) = C * late + C /\ C * late \in Nat
    BY <1>1, EdgesOfTime
  <2>3. edge_count <= C * late
    BY <1>1, <1>6 DEF EdgesAddUp
  <2>4. edge_count' <= C * late'
    BY <1>1, <1>4, <1>6, <2>1, <2>2, <2>3
  <2> QED
    BY <1>1, <1>2, <1>6, <2>1, <2>4 DEF EdgesAddUp
<1>7. CASE sample.pc = "delay"
  <2> DEFINE t == SAMPLE - delay
  <2>1. delay' = delay - 1 /\ delay > 0 /\ elapsed' = elapsed + 1
    BY <1>7 DEF TimePasses
  <2>2. t \in Nat /\ SAMPLE - delay' = t + 1
    BY <1>1, <2>1
  <2>3. /\ elapsed <= MAX_LATE + t
        /\ edge_count <= C * (n + MAX_LATE + t)
        /\ FALSE \notin window => edge_count >= C * t
    BY <1>1, <1>7 DEF EdgesAddUp
  <2>4. t + 1 <= SAMPLE
    BY <1>1, <2>1
  <2> HIDE DEF t, n
  <2>5. /\ C * (n + MAX_LATE + (t + 1)) = C * (n + MAX_LATE + t) + C
        /\ C * (t + 1) = C * t + C /\ C * t \in Nat
        /\ C * (n + MAX_LATE + t) \in Nat
    <3>1. n + MAX_LATE + t \in Nat /\ n + MAX_LATE + (t + 1) = (n + MAX_LATE + t) + 1
      BY <1>1, <2>2
    <3> QED
      BY <2>2, <3>1, EdgesOfTime
  <2>6. edge_count' <= C * (n + MAX_LATE + (t + 1))
    BY <1>1, <1>4, <1>7, <2>3, <2>5
  <2>7. edge_count + C < HIGH_LIMIT
    <3>1. n <= MAX_FAILURES * Round /\ MAX_FAILURES * Round \in Nat
      BY <1>1, RoundsAreBounded DEF MonitorTypeOK, n
    <3>2. /\ n + MAX_LATE + (t + 1) <= MAX_FAILURES * Round + MAX_LATE + SAMPLE
          /\ n + MAX_LATE + (t + 1) \in Nat
          /\ MAX_FAILURES * Round + MAX_LATE + SAMPLE \in Nat
      BY <1>1, <2>2, <2>4, <3>1
    <3>3. C * (n + MAX_LATE + (t + 1)) <= C * (MAX_FAILURES * Round + MAX_LATE + SAMPLE)
          /\ C * (MAX_FAILURES * Round + MAX_LATE + SAMPLE) \in Nat
      BY <3>2, EdgesOfTime
    <3> DEFINE top == C * (MAX_FAILURES * Round + MAX_LATE + SAMPLE)
               now == C * (n + MAX_LATE + (t + 1))
               was == C * (n + MAX_LATE + t)
    <3>4. /\ top \in Nat /\ now <= top /\ top < HIGH_LIMIT /\ now = was + C
          /\ was \in Nat /\ edge_count <= was
      BY <2>3, <2>5, <3>3 DEF CounterHolds
    <3> HIDE DEF top, now, was
    <3> QED
      BY <1>1, <3>4
  <2>8. FALSE \notin window' => edge_count' >= C * (t + 1)
    <3> SUFFICES ASSUME FALSE \notin window' PROVE edge_count' >= C * (t + 1)
      OBVIOUS
    <3>1. carrier /\ FALSE \notin window
      BY <1>1, <1>4, <1>7
    <3> QED
      BY <1>1, <1>4, <1>7, <2>3, <2>5, <2>7, <3>1
  <2>9. elapsed' <= MAX_LATE + (t + 1)
    BY <1>1, <2>1, <2>2, <2>3
  <2> QED
    BY <1>2, <1>7, <2>2, <2>6, <2>8, <2>9 DEF EdgesAddUp, n
<1>8. CASE sample.pc = "clear"
  <2>1. late' = late + 1 /\ elapsed' = elapsed + 1
    BY <1>8 DEF TimePasses
  <2>2. elapsed <= late /\ edge_count <= C * (n + MAX_LATE + SAMPLE + late)
    BY <1>1, <1>8 DEF EdgesAddUp
  <2> HIDE DEF n
  <2>3. /\ C * (n + MAX_LATE + SAMPLE + (late + 1)) = C * (n + MAX_LATE + SAMPLE + late) + C
        /\ C * (n + MAX_LATE + SAMPLE + late) \in Nat
    <3>1. /\ n + MAX_LATE + SAMPLE + late \in Nat
          /\ n + MAX_LATE + SAMPLE + (late + 1) = (n + MAX_LATE + SAMPLE + late) + 1
      BY <1>1
    <3> QED
      BY <3>1, EdgesOfTime
  <2>4. edge_count' <= C * (n + MAX_LATE + SAMPLE + late')
    BY <1>1, <1>4, <1>8, <2>1, <2>2, <2>3
  <2>5. elapsed' <= late'
    BY <1>1, <2>1, <2>2
  <2>6. sample.elapsed <= Round
        /\ (FALSE \notin sample.carrier => sample.edges >= C * SAMPLE)
    BY <1>1, <1>8 DEF EdgesAddUp
  <2> QED
    BY <1>2, <1>8, <2>4, <2>5, <2>6 DEF EdgesAddUp, n
<1>9. sample.pc \in {"off", "start", "delay", "clear"}
  BY DEF TimePasses
<1> QED
  BY <1>5, <1>6, <1>7, <1>8, <1>9

\* The other steps: what is counted belongs to the sample that reads it.
LEMMA CountAddsUp ==
  ASSUME HealthyInv, [LinkNext]_link_vars, ~TimePasses
  PROVE  EdgesAddUp'
<1> DEFINE C == CARRIER_HZ
           n == failures * Round
<1>1. /\ MonitorTypeOK /\ EdgesAddUp
      /\ C \in Nat \ {0} /\ edge_count \in Nat /\ elapsed \in Nat
      /\ delay \in 0 .. SAMPLE /\ late \in 0 .. MAX_LATE /\ n \in Nat
      /\ SAMPLE \in Nat /\ MAX_LATE \in Nat /\ Round = SAMPLE + MAX_LATE
  BY MonitorAssumption, RoundsAreBounded DEF HealthyInv, MonitorTypeOK
<1>2. CASE StartMonitor
  BY <1>1, <1>2 DEF StartMonitor, At, EdgesAddUp
<1>3. CASE FirstReport
  <2>1. /\ sample'.pc = "delay" /\ delay' = SAMPLE /\ SAMPLE - delay' = 0
        /\ UNCHANGED <<edge_count, elapsed, failures, window>>
    BY <1>1, <1>3 DEF FirstReport, At
  <2>2. elapsed = 0 /\ failures = 0 /\ edge_count <= C * late
    BY <1>3 DEF FirstReport, HealthyInv, EdgesAddUp
  <2>3. C * late <= C * MAX_LATE /\ C * late \in Nat /\ C * MAX_LATE \in Nat /\ C * 0 = 0
    BY <1>1, EdgesOfTime
  <2>4. failures' * Round + MAX_LATE + (SAMPLE - delay') = MAX_LATE
    BY <1>1, <2>1, <2>2, RoundsAreBounded
  <2> HIDE DEF n
  <2>5. edge_count' <= C * MAX_LATE /\ edge_count' >= C * 0
    BY <1>1, <2>1, <2>2, <2>3
  <2>6. elapsed' <= MAX_LATE + (SAMPLE - delay')
    BY <1>1, <2>1, <2>2
  <2> QED
    BY <2>1, <2>4, <2>5, <2>6 DEF EdgesAddUp
<1>4. CASE ReadCount
  <2>1. /\ sample.pc = "delay" /\ delay = 0 /\ SAMPLE - delay = SAMPLE
        /\ sample'.pc = "clear" /\ sample'.edges = edge_count
        /\ sample'.elapsed = elapsed /\ sample'.carrier = window
        /\ elapsed' = 0 /\ UNCHANGED <<edge_count, late, failures>>
    BY <1>1, <1>4 DEF ReadCount
  <2>2. /\ elapsed <= MAX_LATE + SAMPLE /\ edge_count <= C * (n + MAX_LATE + SAMPLE)
        /\ FALSE \notin window => edge_count >= C * SAMPLE
    BY <1>1, <2>1 DEF EdgesAddUp
  <2> HIDE DEF n
  <2>3. edge_count <= C * (n + MAX_LATE + SAMPLE + late)
    <3>1. /\ n + MAX_LATE + SAMPLE \in Nat /\ n + MAX_LATE + SAMPLE + late \in Nat
          /\ n + MAX_LATE + SAMPLE <= n + MAX_LATE + SAMPLE + late
      BY <1>1
    <3>2. /\ C * (n + MAX_LATE + SAMPLE) <= C * (n + MAX_LATE + SAMPLE + late)
          /\ C * (n + MAX_LATE + SAMPLE) \in Nat
          /\ C * (n + MAX_LATE + SAMPLE + late) \in Nat
      BY <3>1, EdgesOfTime
    <3> DEFINE few == C * (n + MAX_LATE + SAMPLE)
               many == C * (n + MAX_LATE + SAMPLE + late)
    <3>3. edge_count <= few /\ few <= many /\ few \in Nat /\ many \in Nat
      BY <2>2, <3>2
    <3> HIDE DEF few, many
    <3>4. edge_count <= many
      BY <1>1, <3>3
    <3> QED
      BY <3>4 DEF many
  <2>4. elapsed' <= late' /\ sample'.elapsed <= Round
    BY <1>1, <2>1, <2>2
  <2> QED
    BY <2>1, <2>2, <2>3, <2>4 DEF EdgesAddUp, n
<1>5. CASE ClearCount
  <2>1. sample \in Sampled /\ sample.pc = "clear"
    BY <1>1, <1>5 DEF ClearCount, MonitorTypeOK
  <2>2. /\ sample'.pc = "report" /\ sample'.edges = sample.edges
        /\ sample'.elapsed = sample.elapsed /\ sample'.carrier = sample.carrier
        /\ edge_count' = 0 /\ elapsed' = elapsed
    BY <1>5, <2>1 DEF ClearCount, Sampled
  <2>3. elapsed <= late
    BY <1>1, <2>1 DEF EdgesAddUp
  <2>4. elapsed' <= MAX_LATE
    BY <1>1, <2>2, <2>3
  <2>5. sample.elapsed <= Round
        /\ (FALSE \notin sample.carrier => sample.edges >= C * SAMPLE)
    BY <1>1, <2>1 DEF EdgesAddUp
  <2> QED
    BY <2>2, <2>4, <2>5 DEF EdgesAddUp
<1>6. CASE Report
  <2>1. /\ sample.pc = "report" /\ sample'.pc = "delay" /\ delay' = SAMPLE
        /\ SAMPLE - delay' = 0 /\ failures' = 0
        /\ UNCHANGED <<edge_count, elapsed, window>>
    BY <1>1, <1>6 DEF Report, At
  <2>2. elapsed <= MAX_LATE /\ edge_count = 0
    BY <1>1, <2>1 DEF EdgesAddUp
  <2>3. failures' * Round + MAX_LATE + (SAMPLE - delay') = MAX_LATE
    BY <1>1, <2>1, RoundsAreBounded
  <2>4. C * 0 = 0 /\ C * MAX_LATE \in Nat
    BY <1>1, EdgesOfTime
  <2>5. edge_count' <= C * MAX_LATE /\ edge_count' >= C * 0
    <3> HIDE DEF n
    <3> QED
      BY <2>1, <2>2, <2>4
  <2>6. elapsed' <= MAX_LATE + (SAMPLE - delay')
    BY <1>1, <2>1, <2>2
  <2> QED
    BY <2>1, <2>3, <2>5, <2>6 DEF EdgesAddUp
<1>7. ASSUME NEW pulse \in Pulses, SampleFails(pulse)
      PROVE  EdgesAddUp'
  <2>1. /\ sample.pc = "clear" /\ sample'.pc = "delay" /\ delay' = SAMPLE
        /\ SAMPLE - delay' = 0 /\ failures' = failures + 1 /\ elapsed' = elapsed
        /\ edge_count' = 0 \/ edge_count' = edge_count
    BY <1>1, <1>7 DEF SampleFails, At
  <2>2. elapsed <= late /\ edge_count <= C * (n + MAX_LATE + SAMPLE + late)
    BY <1>1, <2>1 DEF EdgesAddUp
  <2>3. failures' * Round = n + Round
    BY <1>1, <2>1, RoundsAreBounded DEF MonitorTypeOK
  <2> HIDE DEF n
  <2>4. /\ n + Round + MAX_LATE + 0 \in Nat /\ n + MAX_LATE + SAMPLE + late \in Nat
        /\ n + MAX_LATE + SAMPLE + late <= n + Round + MAX_LATE + 0
    BY <1>1
  <2>5. /\ C * (n + MAX_LATE + SAMPLE + late) <= C * (n + Round + MAX_LATE + 0)
        /\ C * (n + MAX_LATE + SAMPLE + late) \in Nat
        /\ C * (n + Round + MAX_LATE + 0) \in Nat /\ C * 0 = 0
    BY <1>1, <2>4, EdgesOfTime
  <2> DEFINE few == C * (n + MAX_LATE + SAMPLE + late)
             many == C * (n + Round + MAX_LATE + 0)
  <2>6. /\ edge_count <= few /\ few <= many /\ few \in Nat /\ many \in Nat
    BY <2>2, <2>5
  <2> HIDE DEF few, many
  <2>7. edge_count' <= many /\ edge_count' >= 0
    BY <1>1, <2>1, <2>6
  <2>8. elapsed' <= MAX_LATE + (SAMPLE - delay')
    BY <1>1, <2>1, <2>2
  <2>9. edge_count' <= C * (failures' * Round + MAX_LATE + (SAMPLE - delay'))
    BY <2>1, <2>3, <2>7 DEF many
  <2>10. edge_count' >= C * (SAMPLE - delay')
    BY <2>1, <2>5, <2>7
  <2> QED
    BY <2>1, <2>8, <2>9, <2>10 DEF EdgesAddUp
<1>8. CASE CarrierChanges \/ UNCHANGED monitor_vars
  BY <1>1, <1>8 DEF CarrierChanges, monitor_vars, EdgesAddUp
<1> QED
  BY <1>2, <1>3, <1>4, <1>5, <1>6, <1>7, <1>8 DEF LinkNext, Monitor, link_vars

\* The rounded mean of a sample is at least h if it has h edges for each unit.
LEMMA MeanIsHighEnough ==
  ASSUME NEW h \in Nat, NEW t \in Nat \ {0}, NEW edges \in Nat, h * t <= edges
  PROVE  (edges + t \div 2) \div t >= h
<1>1. t \div 2 \in Nat
  BY SMT
<1> DEFINE sum == edges + t \div 2
<1>2. sum \in Nat /\ h * t <= sum
  <2>1. h * t \in Nat
    BY SMT
  <2> QED
    BY <1>1, <2>1
<1> HIDE DEF sum
<1>3. sum \div t \in Nat /\ sum < (sum \div t + 1) * t
  BY <1>2, SMT
<1>4. \A q \in Nat : q < h => (q + 1) * t <= h * t
  BY SMT
<1>5. h * t \in Nat /\ (sum \div t + 1) * t \in Nat
  BY <1>3, SMT
<1>6. ~(sum \div t < h)
  BY <1>2, <1>3, <1>4, <1>5
<1> QED
  BY <1>3, <1>6 DEF sum

\* A full carrier over a sample that is not too late is above the threshold.
LEMMA FullCarrierIsUp ==
  ASSUME Punctual, NEW s, s.edges \in Nat, s.elapsed \in Nat,
         s.elapsed <= Round, s.edges >= CARRIER_HZ * SAMPLE
  PROVE  StateOf(s) = "UP"
<1> DEFINE t == IF s.elapsed > 0 THEN s.elapsed ELSE SAMPLE
<1>1. t \in Nat \ {0} /\ t <= Round
  BY RoundsAreBounded
<1>2. MinimumHz \in Nat /\ 100 * MinimumHz <= CARRIER_HZ * MIN_PERCENT
  <2>1. \A a \in Nat : a \div 100 \in Nat /\ 100 * (a \div 100) <= a
    BY SMT
  <2>2. \A a, b \in Nat : a * b \in Nat
    BY SMT
  <2> QED
    BY <2>1, <2>2, MonitorAssumption DEF MinimumHz
<1> HIDE DEF t
<1>3. MinimumHz * t <= CARRIER_HZ * SAMPLE
  <2> DEFINE h == MinimumHz
             C == CARRIER_HZ
             p == MIN_PERCENT
  <2>1. h \in Nat /\ C \in Nat /\ p \in Nat /\ SAMPLE \in Nat /\ Round \in Nat
    BY <1>2, RoundsAreBounded, MonitorAssumption
  <2>2. 100 * h <= C * p /\ p * Round <= 100 * SAMPLE
    BY <1>2 DEF Punctual
  <2> HIDE DEF h, C, p
  <2>3. \A a, b, c \in Nat : a <= b => a * c \in Nat /\ b * c \in Nat /\ a * c <= b * c
    BY SMT
  <2>4. h * t <= h * Round /\ h * t \in Nat /\ h * Round \in Nat
    <3>1. \A a, b, c \in Nat : a <= b => c * a \in Nat /\ c * b \in Nat /\ c * a <= c * b
      BY SMT
    <3> QED
      BY <1>1, <2>1, <3>1
  <2>5. 100 * h \in Nat /\ C * p \in Nat /\ p * Round \in Nat /\ 100 * SAMPLE \in Nat
    <3>1. \A a, b \in Nat : a * b \in Nat
      BY SMT
    <3> QED
      BY <2>1, <3>1
  <2>6. (100 * h) * Round <= (C * p) * Round
    BY <2>1, <2>2, <2>3, <2>5
  <2>7. (p * Round) * C <= (100 * SAMPLE) * C
    BY <2>1, <2>2, <2>3, <2>5
  <2>8. \A a, b, c \in Nat : (a * b) * c = (b * c) * a /\ (a * b) * c = a * (b * c)
    BY SMT
  <2>9. /\ (100 * h) * Round = 100 * (h * Round) /\ (C * p) * Round = (p * Round) * C
        /\ (100 * SAMPLE) * C = 100 * (SAMPLE * C)
    BY <2>1, <2>8
  <2>10. SAMPLE * C = C * SAMPLE /\ SAMPLE * C \in Nat
    <3>1. \A a, b \in Nat : a * b = b * a /\ a * b \in Nat
      BY SMT
    <3> QED
      BY <2>1, <3>1
  <2>11. 100 * (h * Round) <= 100 * (SAMPLE * C)
    <3> DEFINE x == (C * p) * Round
    <3>1. x \in Nat
      <4>1. \A a, b \in Nat : a * b \in Nat
        BY SMT
      <4> QED
        BY <2>1, <2>5, <4>1
    <3>2. /\ 100 * (h * Round) <= x /\ x <= 100 * (SAMPLE * C)
      BY <2>6, <2>7, <2>9
    <3> DEFINE y == h * Round
               z == SAMPLE * C
    <3>3. y \in Nat /\ z \in Nat /\ 100 * y <= x /\ x <= 100 * z
      BY <2>4, <2>10, <3>2
    <3> HIDE DEF x, y, z
    <3>4. 100 * y <= 100 * z
      BY <3>1, <3>3
    <3> QED
      BY <3>4 DEF y, z
  <2> DEFINE y == h * Round
             z == SAMPLE * C
  <2>12. y <= z
    <3>1. y \in Nat /\ z \in Nat /\ 100 * y <= 100 * z
      BY <2>4, <2>10, <2>11
    <3> HIDE DEF y, z
    <3> QED
      BY <3>1
  <2>13. h * t <= z
    <3>1. y \in Nat /\ z \in Nat /\ h * t \in Nat /\ h * t <= y
      BY <2>4, <2>10
    <3> HIDE DEF y, z
    <3> DEFINE w == h * t
    <3>2. w \in Nat /\ w <= y
      BY <3>1
    <3> HIDE DEF w
    <3>3. w <= z
      BY <2>12, <3>1, <3>2
    <3> QED
      BY <3>3 DEF w
  <2> QED
    BY <2>10, <2>13 DEF h, C
<1>4. MinimumHz * t <= s.edges
  <2> DEFINE x == MinimumHz * t
             y == CARRIER_HZ * SAMPLE
  <2>1. x \in Nat /\ y \in Nat
    <3>1. \A a, b \in Nat : a * b \in Nat
      BY SMT
    <3> QED
      BY <1>1, <1>2, <3>1, MonitorAssumption
  <2>2. x <= y /\ y <= s.edges
    BY <1>3
  <2> HIDE DEF x, y
  <2>3. x <= s.edges
    BY <2>1, <2>2
  <2> QED
    BY <2>3 DEF x
<1>5. (s.edges + t \div 2) \div t >= MinimumHz
  BY <1>1, <1>2, <1>4, MeanIsHighEnough
<1> QED
  BY <1>5 DEF StateOf, MeasuredHz, t

\* A carrier that is there for a whole sample is reported as LINK UP, also when
\* the task is held up between reading and clearing and after samples that
\* failed, as long as the counter cannot pass its limit before it is cleared.
THEOREM HealthyLinkIsReported ==
  ASSUME CounterHolds, Punctual
  PROVE  LinkSpec => HealthyLinkIsUp
<1>1. MonitorInit => HealthyInv
  <2> SUFFICES ASSUME MonitorInit PROVE HealthyInv
    OBVIOUS
  <2>1. 0 \in 0 .. SAMPLE /\ 0 \in 0 .. MAX_LATE /\ 0 \in 0 .. MAX_FAILURES
    BY MonitorAssumption
  <2>2. MonitorTypeOK
    BY <2>1 DEF MonitorInit, At, MonitorTypeOK
  <2>3. CARRIER_HZ * 0 = 0
    BY MonitorAssumption
  <2> QED
    BY <2>2, <2>3 DEF MonitorInit, At, HealthyInv, EdgesAddUp
<1>2. ASSUME HealthyInv, [LinkNext]_link_vars
      PROVE  HealthyInv'
  <2>1. MonitorTypeOK'
    BY <1>2, MonitorStaysTyped DEF HealthyInv
  <2>2. EdgesAddUp'
    BY <1>2, TimeAddsUp, CountAddsUp
  <2> QED
    BY <2>1, <2>2 DEF HealthyInv
<1>3. ASSUME HealthyInv, [LinkNext]_link_vars, Judges, sample.carrier = {TRUE}
      PROVE  link_state' = "UP"
  <2>1. Report
    BY <1>3, JudgesReports
  <2>2. sample \in Sampled
    BY <1>3 DEF Judges, HealthyInv, MonitorTypeOK
  <2>3. sample.elapsed <= Round /\ sample.edges >= CARRIER_HZ * SAMPLE
    BY <1>3 DEF Judges, HealthyInv, EdgesAddUp
  <2>4. StateOf(sample) = "UP"
    BY <2>2, <2>3, FullCarrierIsUp DEF Sampled
  <2> QED
    BY <2>1, <2>4 DEF Report, CarrierLinkState
<1>4. HealthyInv /\ [LinkNext]_link_vars =>
        [Judges /\ sample.carrier = {TRUE} => link_state' = "UP"]_link_vars
  BY <1>3
<1> QED
  BY <1>1, <1>2, <1>4, PTL DEF LinkSpec, HealthyLinkIsUp
=============================================================================
