---------------------------- MODULE RmtReceiver -----------------------------
(***************************************************************************)
(* main/ir_spoke_rmt_adapter.c: the interrupt handler rx_done, the queue   *)
(* of blockage events, and the task that runs receive_loop and drives the  *)
(* pipeline.  The handler and the task run on different cores, so the      *)
(* handler's sends interleave with whatever the task does.                 *)
(*                                                                         *)
(* The RMT peripheral is external: while the channel is armed it may       *)
(* complete one capture, a sequence of symbols of two phases each, which   *)
(* began after the channel was armed.  now advances by the time this took. *)
(* What is read for debug messages only is left out.                       *)
(***************************************************************************)
EXTENDS SpokePipeline, Sequences, SequencesExt

CONSTANTS Captures,       \* what one capture may hold: sequences of symbols
          Latencies,      \* from arming to the first edge, plus the idle time
                          \* that ends a capture (signal_range_max_ns, which is
                          \* LINK_LOSS_US) and the interrupt latency
          QUEUE_LENGTH,   \* events the queue holds (32)
          MICROS,         \* time units per second (1000000)
          RESOLUTION_HZ,  \* RMT ticks per second
          MAX_CAPTURES    \* bound: captures in a run

ASSUME ReceiverAssumption ==
    /\ QUEUE_LENGTH \in Nat \ {0}
    /\ MICROS \in Nat \ {0} /\ RESOLUTION_HZ \in Nat \ {0}
    /\ Latencies \subseteq Nat
    /\ Captures \subseteq Seq([level0 : {0, 1}, duration0 : Nat,
                             level1 : {0, 1}, duration1 : Nat])

VARIABLES now,               \* esp_timer_get_time
          armed,             \* is the channel receiving?
          isr,               \* phases rx_done has still to send, and how many
                             \* it found in the capture; Idle outside it
          event_queue,       \* blockage events, oldest first
          notified,          \* the task's notification value
          pc,                \* where the task is in receive_loop
          rx_capture_count,
          rx_queue_drops,
          reported_queue_drops,
          produced           \* history: phases rx_done had to send, ever

rx_vars == <<now, armed, isr, event_queue, notified, pc, rx_capture_count,
             rx_queue_drops, reported_queue_drops, produced>>
all_vars == <<vars, rx_vars>>

Idle == [active |-> FALSE, phases |-> <<>>, size |-> 0]

RxInit ==
    /\ Init
    /\ now = 0
    /\ armed = FALSE /\ isr = Idle /\ event_queue = <<>>
    /\ notified = 0 /\ pc = "receive"
    /\ rx_capture_count = 0 /\ rx_queue_drops = 0 /\ reported_queue_drops = 0
    /\ produced = 0

-----------------------------------------------------------------------------
(* The peripheral and the interrupt handler.                               *)

\* Rounded to the nearest time unit.
ticks_to_us(ticks) == (ticks * MICROS + RESOLUTION_HZ \div 2) \div RESOLUTION_HZ

SymbolUs(s) == ticks_to_us(s.duration0) + ticks_to_us(s.duration1)

\* How long the first n symbols of a capture are, as rx_done adds it up.
CapturedUs(symbols, n) ==
    SumFunctionOnSet([i \in DOMAIN symbols |-> SymbolUs(symbols[i])], 1 .. n)

\* How long the capture really took, in whole time units.
ElapsedUs(symbols) ==
    (SumFunction([i \in DOMAIN symbols |-> symbols[i].duration0 + symbols[i].duration1])
        * MICROS) \div RESOLUTION_HZ

\* A phase with no carrier is a blockage; one with the carrier present gets
\* duration zero, and a phase of duration zero is not sent.
Blockage(level, start, duration) ==
    IF level = 1 \/ duration = 0 THEN <<>>
    ELSE <<[timestamp_us |-> start, duration_us |-> duration]>>

\* What the two phases of a symbol that starts at the cursor give.
SymbolBlockages(s, cursor) ==
    Blockage(s.level0, cursor, ticks_to_us(s.duration0)) \o
    Blockage(s.level1, cursor + ticks_to_us(s.duration0), ticks_to_us(s.duration1))

\* When a capture began that ended at the given time.
StartUs(symbols, end) ==
    LET captured == CapturedUs(symbols, Len(symbols))
    IN  IF end > captured THEN end - captured ELSE 0

\* Mutant: the cursor does not move on.
BlockagesAtStart(symbols, end) ==
    FlattenSeq([i \in DOMAIN symbols |-> SymbolBlockages(symbols[i], StartUs(symbols, end))])

\* The blockages the handler tries to send, in order.
Blockages(symbols, end) ==
    FlattenSeq([i \in DOMAIN symbols |->
        SymbolBlockages(symbols[i], StartUs(symbols, end) + CapturedUs(symbols, i - 1))])

\* A capture completes and rx_done is entered.
CaptureDone(symbols, latency) ==
    /\ armed /\ rx_capture_count < MAX_CAPTURES
    /\ now' = now + latency + ElapsedUs(symbols)
    /\ armed' = FALSE
    /\ LET found == Blockages(symbols, now')
       IN  /\ isr' = [active |-> TRUE, phases |-> found, size |-> Len(found)]
           /\ produced' = produced + Len(found)
    /\ UNCHANGED <<vars, event_queue, notified, pc, rx_capture_count,
                   rx_queue_drops, reported_queue_drops>>

\* Mutant: a refused event is not counted.
IsrSendUncounted ==
    /\ isr.active /\ isr.phases # <<>>
    /\ event_queue' = IF Len(event_queue) < QUEUE_LENGTH
                      THEN Append(event_queue, Head(isr.phases)) ELSE event_queue
    /\ isr' = [isr EXCEPT !.phases = Tail(@)]
    /\ UNCHANGED <<vars, now, armed, notified, pc, rx_capture_count,
                   rx_queue_drops, reported_queue_drops, produced>>

\* xQueueSendFromISR: a full queue refuses the event, which is then lost.
IsrSend ==
    /\ isr.active /\ isr.phases # <<>>
    /\ IF Len(event_queue) < QUEUE_LENGTH
       THEN /\ event_queue' = Append(event_queue, Head(isr.phases))
            /\ UNCHANGED rx_queue_drops
       ELSE /\ rx_queue_drops' = rx_queue_drops + 1
            /\ UNCHANGED event_queue
    /\ isr' = [isr EXCEPT !.phases = Tail(@)]
    /\ UNCHANGED <<vars, now, armed, notified, pc, rx_capture_count,
                   reported_queue_drops, produced>>

\* The end of rx_done: count the capture and notify the task.
IsrNotify ==
    /\ isr.active /\ isr.phases = <<>>
    /\ rx_capture_count' = rx_capture_count + 1
    /\ notified' = notified + 1
    /\ isr' = Idle
    /\ UNCHANGED <<vars, now, armed, event_queue, pc, rx_queue_drops,
                   reported_queue_drops, produced>>

-----------------------------------------------------------------------------
(* The receive task.                                                       *)

\* rmt_receive arms the channel.  An error ends the program.
Arm ==
    /\ pc = "receive"
    /\ armed' = TRUE
    /\ pc' = "wait"
    /\ UNCHANGED <<vars, now, isr, event_queue, notified, rx_capture_count,
                   rx_queue_drops, reported_queue_drops, produced>>

\* Mutant: the wait has a timeout.
TakeWithTimeout ==
    /\ pc = "wait"
    /\ notified' = 0
    /\ pc' = "report"
    /\ UNCHANGED <<vars, now, armed, isr, event_queue, rx_capture_count,
                   rx_queue_drops, reported_queue_drops, produced>>

\* ulTaskNotifyTake blocks until there is a notification and clears it.
TakeNotification ==
    /\ pc = "wait" /\ notified > 0
    /\ notified' = 0
    /\ pc' = "report"
    /\ UNCHANGED <<vars, now, armed, isr, event_queue, rx_capture_count,
                   rx_queue_drops, reported_queue_drops, produced>>

\* Mutant: reports the number known before.
ReportKnownDrops ==
    /\ pc = "report"
    /\ pc' = "drain"
    /\ UNCHANGED <<vars, now, armed, isr, event_queue, notified,
                   rx_capture_count, rx_queue_drops, reported_queue_drops, produced>>

ReportDrops ==
    /\ pc = "report"
    /\ reported_queue_drops' = rx_queue_drops
    /\ pc' = "drain"
    /\ UNCHANGED <<vars, now, armed, isr, event_queue, notified,
                   rx_capture_count, rx_queue_drops, produced>>

\* Mutant: one event for each notification.
HandleOneEvent ==
    /\ pc = "drain" /\ event_queue # <<>>
    /\ event_queue' = Tail(event_queue)
    /\ pc' = "receive"
    /\ LET event == Head(event_queue)
       IN  \/ AcceptedPulse(event.timestamp_us, event.duration_us)
           \/ RejectedPulse(event.duration_us)
    /\ UNCHANGED <<now, armed, isr, notified, rx_capture_count,
                   rx_queue_drops, reported_queue_drops, produced>>

\* xQueueReceive without waiting, and the body of the inner loop.
HandleEvent ==
    /\ pc = "drain" /\ event_queue # <<>>
    /\ event_queue' = Tail(event_queue)
    /\ LET event == Head(event_queue)
       IN  \/ AcceptedPulse(event.timestamp_us, event.duration_us)
           \/ RejectedPulse(event.duration_us)
    /\ UNCHANGED <<now, armed, isr, notified, pc, rx_capture_count,
                   rx_queue_drops, reported_queue_drops, produced>>

\* Mutant: the channel is armed only once.
WaitAgain ==
    /\ pc = "drain" /\ event_queue = <<>>
    /\ pc' = "wait"
    /\ UNCHANGED <<vars, now, armed, isr, event_queue, notified,
                   rx_capture_count, rx_queue_drops, reported_queue_drops, produced>>

QueueDrained ==
    /\ pc = "drain" /\ event_queue = <<>>
    /\ pc' = "receive"
    /\ UNCHANGED <<vars, now, armed, isr, event_queue, notified,
                   rx_capture_count, rx_queue_drops, reported_queue_drops, produced>>

Capture == \E symbols \in Captures, latency \in Latencies : CaptureDone(symbols, latency)
Isr == IsrSend \/ IsrNotify
Task == Arm \/ TakeNotification \/ ReportDrops \/ HandleEvent \/ QueueDrained

RxNext == Capture \/ Isr \/ Task

RxSpec == RxInit /\ [][RxNext]_all_vars

\* An interrupt handler that was entered finishes, and the scheduler runs the
\* task, the only one of its priority, whenever it is ready.  Nothing makes
\* the wheel turn.
RxFairness == WF_all_vars(Isr) /\ WF_all_vars(Task)

-----------------------------------------------------------------------------
(* Properties.                                                             *)

\* Handler and task never overlap: the channel is armed only when the queue
\* is empty and no notification is pending, and the task leaves its wait only
\* after the handler has sent the whole capture.
OneCaptureAtATime ==
    /\ armed => pc = "wait" /\ ~isr.active /\ notified = 0 /\ event_queue = <<>>
    /\ isr.active => pc = "wait" /\ notified = 0
    /\ pc \in {"report", "drain"} => ~armed /\ ~isr.active /\ notified = 0

\* Every blockage is handled, queued, still to be sent or counted as a drop,
\* once each.
EveryBlockageCounted ==
    produced = detector.accepted + detector.rejected_short + detector.rejected_long
               + Len(event_queue) + rx_queue_drops + Len(isr.phases)

\* The first QUEUE_LENGTH blockages of every capture get through: the room in
\* the queue is never taken by an older capture, and never short because the
\* task is late.
FirstBlockagesGetThrough ==
    [][rx_queue_drops' # rx_queue_drops =>
         isr.size - Len(isr.phases) >= QUEUE_LENGTH]_all_vars

\* The pipeline gets the blockages in the order of their timestamps, across
\* captures, roundings and drops: the receiver implements SpokePipeline with
\* strictly positive gaps.
ImplementsPipeline == Spec

\* The task always goes back to listening.
AlwaysListensAgain == []<>armed

\* A lost event is reported, not only counted.
DropsGetReported == []<>(rx_queue_drops = reported_queue_drops)
=============================================================================
