------------------------------ MODULE DebugLed ------------------------------
(***************************************************************************)
(* components/ir_spoke_debug: one LED that shows the state of the optical  *)
(* link and flashes on events.  Written by any task that reports an event  *)
(* (signal_led), by the esp_timer task (the callbacks of the off timer and *)
(* of the status timer) and by the task that reports the link state, all   *)
(* without a lock; each step below is one access to what they share.  The  *)
(* options are the defaults of the Kconfig.  Serial output is left out.    *)
(***************************************************************************)
EXTENDS Integers

CONSTANTS Tasks,        \* tasks that report events
          Reporter,     \* the one of them that reports the link state
          Pulses,       \* flash lengths of the events the LED shows
          STATUS_TICK,  \* period of the status timer (100 ms)
          BEAT_TICKS,   \* ticks from one beat of LINK DOWN to the next (10)
          HEARTBEAT     \* documented distance of two LINK DOWN beats (1 s)

ASSUME LedAssumption ==
    /\ Reporter \in Tasks
    /\ Pulses \subseteq Nat \ {0}
    /\ \E p \in Pulses : \A q \in Pulses : q <= p
    /\ STATUS_TICK \in Nat \ {0} /\ HEARTBEAT \in Nat
    /\ BEAT_TICKS \in Nat \ {0} /\ BEAT_TICKS % 2 = 0

VARIABLES link_state,
          led_status_tick,   \* modulo LED_CYCLE
          led_event_active,
          led,         \* is the LED lit?
          off_due,     \* time until led_off_timer expires, or Stopped
          status_due,  \* time until led_status_timer expires
          signal,      \* for each task, where it is in signal_led
          timer,       \* which callback the esp_timer task runs, and where
          painting,    \* for each writer, where it is in apply_led_base_state
          since_beat   \* history: time since the LED last came on in steady
                       \* LINK DOWN, HEARTBEAT when longer ago or never

led_vars == <<link_state, led_status_tick, led_event_active, led, off_due,
              status_due, signal, timer, painting, since_beat>>

Stopped == -1
LED_CYCLE == 2 * BEAT_TICKS  \* after which both blink patterns repeat
TimerTask == "esp_timer"
Writers == {TimerTask, Reporter}

Resting == [pc |-> "idle"]

LedInit ==
    /\ link_state = "UNKNOWN"
    /\ led_status_tick = 0
    /\ led_event_active = FALSE
    /\ led = FALSE
    /\ off_due = Stopped
    /\ status_due = STATUS_TICK
    /\ signal = [t \in Tasks |-> Resting]
    /\ timer = Resting
    /\ painting = [w \in Writers |-> Resting]
    /\ since_beat = HEARTBEAT

-----------------------------------------------------------------------------
(* The base state of the LED.                                              *)

\* Mutant: the case of LINK UP falls through to that of LINK DOWN.
up_falls_through ==
    IF link_state = "UNKNOWN" THEN led_status_tick % 4 < 2 ELSE led_status_tick % BEAT_TICKS = 0

link_status_led_on ==
    CASE link_state = "UP"      -> TRUE
      [] link_state = "DOWN"    -> led_status_tick % BEAT_TICKS = 0
      [] link_state = "UNKNOWN" -> led_status_tick % 4 < 2

\* apply_led_base_state reads everything first and sets the LED later.
Look(w) ==
    /\ painting[w].pc = "look"
    /\ painting' = [painting EXCEPT ![w] =
                       IF led_event_active THEN Resting
                       ELSE [pc |-> "paint", on |-> link_status_led_on]]
    /\ UNCHANGED <<link_state, led_status_tick, led_event_active, led, off_due,
                   status_due, signal, timer, since_beat>>

Paint(w) ==
    /\ painting[w].pc = "paint"
    /\ led' = painting[w].on
    /\ since_beat' = IF ~led /\ led' THEN 0 ELSE since_beat
    /\ painting' = [painting EXCEPT ![w] = Resting]
    /\ UNCHANGED <<link_state, led_status_tick, led_event_active, off_due,
                   status_due, signal, timer>>

-----------------------------------------------------------------------------
(* signal_led.                                                             *)

\* An event the LED shows: from now on the base state is not painted.
SignalEvent(t, pulse) ==
    /\ signal[t].pc = "idle"
    /\ led_event_active' = TRUE
    /\ signal' = [signal EXCEPT ![t] = [pc |-> "light", pulse |-> pulse]]
    /\ since_beat' = HEARTBEAT
    /\ UNCHANGED <<link_state, led_status_tick, led, off_due, status_due,
                   timer, painting>>

LightLed(t) ==
    /\ signal[t].pc = "light"
    /\ led' = TRUE
    /\ signal' = [signal EXCEPT ![t].pc = "stop"]
    /\ UNCHANGED <<link_state, led_status_tick, led_event_active, off_due,
                   status_due, timer, painting, since_beat>>

\* Mutant: a timer that runs is stopped and left so.
StopForGood(t) ==
    /\ signal[t].pc = "stop"
    /\ off_due' = Stopped
    /\ signal' = [signal EXCEPT ![t] = IF off_due = Stopped
                                       THEN [@ EXCEPT !.pc = "start"] ELSE Resting]
    /\ UNCHANGED <<link_state, led_status_tick, led_event_active, led,
                   status_due, timer, painting, since_beat>>

StopTimer(t) ==
    /\ signal[t].pc = "stop"
    /\ off_due' = Stopped
    /\ signal' = [signal EXCEPT ![t].pc = "start"]
    /\ UNCHANGED <<link_state, led_status_tick, led_event_active, led,
                   status_due, timer, painting, since_beat>>

\* Mutant: the time runs on top of what is left.
StartTimerLonger(t) ==
    /\ signal[t].pc = "start"
    /\ off_due' = off_due + signal[t].pulse + 1
    /\ signal' = [signal EXCEPT ![t] = Resting]
    /\ UNCHANGED <<link_state, led_status_tick, led_event_active, led,
                   status_due, timer, painting, since_beat>>

\* esp_timer_start_once refuses a timer that another task has started since;
\* the result is ignored.
StartTimer(t) ==
    /\ signal[t].pc = "start"
    /\ off_due' = IF off_due = Stopped THEN signal[t].pulse ELSE off_due
    /\ signal' = [signal EXCEPT ![t] = Resting]
    /\ UNCHANGED <<link_state, led_status_tick, led_event_active, led,
                   status_due, timer, painting, since_beat>>

SignalStep(t) == LightLed(t) \/ StopTimer(t) \/ StartTimer(t)

-----------------------------------------------------------------------------
(* The esp_timer task: one callback at a time.                             *)

TimerIdle == timer = Resting /\ painting[TimerTask] = Resting

\* The off timer expires; its callback is entered, and stopping the timer no
\* longer keeps it from running.
OffTimerExpires ==
    /\ TimerIdle /\ off_due = 0
    /\ off_due' = Stopped
    /\ timer' = [pc |-> "led_off"]
    /\ UNCHANGED <<link_state, led_status_tick, led_event_active, led,
                   status_due, signal, painting, since_beat>>

led_off ==
    /\ timer.pc = "led_off"
    /\ led_event_active' = FALSE
    /\ timer' = Resting
    /\ painting' = [painting EXCEPT ![TimerTask] = [pc |-> "look"]]
    /\ UNCHANGED <<link_state, led_status_tick, led, off_due, status_due,
                   signal, since_beat>>

StatusTimerExpires ==
    /\ TimerIdle /\ status_due = 0
    /\ status_due' = STATUS_TICK
    /\ timer' = [pc |-> "tick"]
    /\ UNCHANGED <<link_state, led_status_tick, led_event_active, led, off_due,
                   signal, painting, since_beat>>

\* ++led_status_tick is a read and a write; a reset in between is lost.
ReadTick ==
    /\ timer.pc = "tick"
    /\ timer' = [pc |-> "store", tick |-> led_status_tick]
    /\ UNCHANGED <<link_state, led_status_tick, led_event_active, led, off_due,
                   status_due, signal, painting, since_beat>>

StoreTick ==
    /\ timer.pc = "store"
    /\ led_status_tick' = (timer.tick + 1) % LED_CYCLE
    /\ timer' = Resting
    /\ painting' = [painting EXCEPT ![TimerTask] = [pc |-> "look"]]
    /\ UNCHANGED <<link_state, led_event_active, led, off_due, status_due,
                   signal, since_beat>>

TimerStep ==
    \/ OffTimerExpires \/ led_off
    \/ StatusTimerExpires \/ ReadTick \/ StoreTick
    \/ Look(TimerTask) \/ Paint(TimerTask)

-----------------------------------------------------------------------------
(* What ir_spoke_debug_carrier_link_state does before it paints, and how   *)
(* time passes for the two timers.                                         *)

CarrierLinkState(state) ==
    /\ painting[Reporter] = Resting
    /\ link_state' = state
    /\ painting' = [painting EXCEPT ![Reporter] = [pc |-> "reset"]]
    /\ since_beat' = IF state # link_state THEN HEARTBEAT ELSE since_beat
    /\ UNCHANGED <<led_status_tick, led_event_active, led, off_due, status_due,
                   signal, timer>>

ResetTick ==
    /\ painting[Reporter].pc = "reset"
    /\ led_status_tick' = 0
    /\ painting' = [painting EXCEPT ![Reporter] = [pc |-> "look"]]
    /\ UNCHANGED <<link_state, led_event_active, led, off_due, status_due,
                   signal, timer, since_beat>>

\* Nobody is between two steps, and no timer is due.
LedQuiet ==
    /\ TimerIdle /\ painting[Reporter] = Resting
    /\ \A t \in Tasks : signal[t] = Resting
    /\ off_due # 0 /\ status_due # 0

LedTimePasses ==
    /\ off_due' = IF off_due = Stopped THEN Stopped ELSE off_due - 1
    /\ status_due' = status_due - 1
    /\ since_beat' = IF since_beat < HEARTBEAT THEN since_beat + 1 ELSE HEARTBEAT
    /\ UNCHANGED <<link_state, led_status_tick, led_event_active, led, signal,
                   timer, painting>>

-----------------------------------------------------------------------------
(* Properties.                                                             *)

LongestPulse == CHOOSE p \in Pulses : \A q \in Pulses : q <= p

LedTypeOK ==
    /\ link_state \in {"UNKNOWN", "UP", "DOWN"}
    /\ led_status_tick \in 0 .. LED_CYCLE - 1
    /\ led_event_active \in BOOLEAN /\ led \in BOOLEAN
    /\ off_due \in Stopped .. LongestPulse /\ status_due \in 0 .. STATUS_TICK
    /\ signal \in [Tasks -> {Resting}
                     \cup [pc : {"light", "stop", "start"}, pulse : Pulses]]
    /\ timer \in [pc : {"idle", "led_off", "tick"}]
                 \cup [pc : {"store"}, tick : 0 .. LED_CYCLE - 1]
    /\ painting \in [Writers -> [pc : {"idle", "reset", "look"}]
                                  \cup [pc : {"paint"}, on : BOOLEAN]]
    /\ since_beat \in 0 .. HEARTBEAT

\* A flash always ends: while an event is shown, the off timer runs, its
\* callback is about to clear the flag, or a task is about to start it.  So
\* it does no harm that two tasks stop and start the one timer at the same
\* time and that a refused start is ignored.
FlashCannotStick ==
    led_event_active =>
        \/ off_due # Stopped
        \/ timer.pc = "led_off"
        \/ \E t \in Tasks : signal[t].pc \in {"light", "stop", "start"}

\* Two beats of LINK DOWN are the documented time apart, if nothing else was
\* shown between them.
HeartbeatIsSlow ==
    [][(~led /\ led' /\ link_state = "DOWN" /\ ~led_event_active)
         => since_beat >= HEARTBEAT]_led_vars
=============================================================================
