----------------------------- MODULE CscService -----------------------------
(***************************************************************************)
(* components/ir_spoke_ble_csc: the NimBLE cycling speed service.  Two     *)
(* tasks share its state: the receive task reports wheel revolutions and   *)
(* sends measurements, and the NimBLE host task handles connections,       *)
(* subscriptions and the control point.  Each section guarded by           *)
(* state_lock_ is one step; between sections the other task may run.       *)
(*                                                                         *)
(* The NimBLE host and the peer are external: advertising, link and        *)
(* unconfirmed stand for what the host knows, and the events are raised    *)
(* one at a time by the host task.                                         *)
(***************************************************************************)
EXTENDS CscMeasurement

CONSTANTS Handles,            \* connection handles the host gives out
          NONE,               \* BLE_HS_CONN_HANDLE_NONE
          Values,             \* values a peer writes with Set Cumulative
          TurnTimes,               \* times between wheel revolutions
          NOTIFY_INTERVAL_US, \* shortest time between notifications (1 s)
          SentReports,        \* does the host raise NOTIFY_TX for an indication
                              \* when it sends it (TRUE), or only at its end?
          MAX_TIME,           \* bound: the time of the last revolution
          MAX_WRITES,         \* bound: control point writes
          MAX_ADV_FAILURES    \* bound: failures to start advertising

ASSUME ServiceAssumption ==
    /\ NONE \notin Handles
    /\ Values \subseteq 0 .. MAX_REVOLUTIONS
    /\ TurnTimes \subseteq Nat \ {0} /\ NOTIFY_INTERVAL_US \in Nat
    /\ SentReports \subseteq BOOLEAN /\ SentReports # {}

VARIABLES
    state,                        \* state_: the wheel state
    connection_handle,
    control_connection_handle,
    control_procedure_in_progress,
    measurement_subscribed,
    control_indications_enabled,
    last_notification_us,
    rx,          \* the receive task inside on_wheel_revolution
    host,        \* the host task inside the access callback
    advertising, \* external: is the peripheral advertising?
    link,        \* external: the live connection, or NONE
    unconfirmed, \* external: control point indications not yet confirmed
    synced,      \* external: has the host synchronized?
    clock,       \* time of the newest revolution
    writes, adv_failures,         \* counters for the bounds
    sent,      \* history: the newest notification sent
    turns,     \* history: revolutions of the wheel so far
    reference  \* history: the count a peer set last, and the turn it followed

service_vars == <<state, connection_handle, control_connection_handle,
                  control_procedure_in_progress, measurement_subscribed,
                  control_indications_enabled>>
history == <<turns, reference>>
report_vars == <<last_notification_us, rx, clock, sent, history>>
host_vars == <<host, writes>>
peer_vars == <<advertising, link, unconfirmed, synced, adv_failures>>
csc_vars == <<service_vars, report_vars, host_vars, peer_vars>>

RxIdle == [pc |-> "idle"]
HostIdle == [pc |-> "idle"]

CscInit ==
    /\ state = WheelStateInit
    /\ connection_handle = NONE /\ control_connection_handle = NONE
    /\ control_procedure_in_progress = FALSE
    /\ measurement_subscribed = FALSE /\ control_indications_enabled = FALSE
    /\ last_notification_us = 0
    /\ rx = RxIdle /\ host = HostIdle
    /\ advertising = FALSE /\ link = NONE /\ unconfirmed = 0 /\ synced = FALSE
    /\ clock = 0 /\ writes = 0 /\ adv_failures = 0
    /\ sent = [time_us |-> 0, count |-> 0, event_time |-> 0, due |-> 0, any |-> FALSE]
    /\ turns = 0 /\ reference = [count |-> 0, turn |-> 0]

\* The count a collector expects at a turn of the wheel: one for each turn
\* since the last Set Cumulative, up to the limit.  No handler reads it.
CountAt(turn) ==
    LET count == reference.count + (turn - reference.turn)
    IN  IF count < MAX_REVOLUTIONS THEN count ELSE MAX_REVOLUTIONS

-----------------------------------------------------------------------------
(* The receive task: ir_spoke_ble_csc_on_wheel_revolution.                 *)

\* Mutant: the interval is not started anew.
NotifyEveryRevolution(gap) ==
    LET timestamp_us == clock + gap
    IN  /\ rx.pc = "idle" /\ timestamp_us <= MAX_TIME
        /\ clock' = timestamp_us
        /\ state' = on_revolution(state, timestamp_us)
        /\ rx' = IF timestamp_us - last_notification_us >= NOTIFY_INTERVAL_US
                 THEN [pc |-> "snapshot", time_us |-> timestamp_us, turn |-> turns + 1]
                 ELSE rx
        /\ turns' = turns + 1
        /\ UNCHANGED <<connection_handle, control_connection_handle,
                       control_procedure_in_progress, measurement_subscribed,
                       control_indications_enabled, last_notification_us, sent,
                       reference, host_vars, peer_vars>>

\* Count the revolution; go on to notify if the last one is old enough.
OnWheelRevolution(gap) ==
    LET timestamp_us == clock + gap
    IN  /\ rx.pc = "idle" /\ timestamp_us <= MAX_TIME
        /\ clock' = timestamp_us
        /\ state' = on_revolution(state, timestamp_us)
        /\ IF timestamp_us - last_notification_us >= NOTIFY_INTERVAL_US
           THEN /\ last_notification_us' = timestamp_us
                /\ rx' = [pc |-> "snapshot", time_us |-> timestamp_us, turn |-> turns + 1]
           ELSE UNCHANGED <<last_notification_us, rx>>
        /\ turns' = turns + 1
        /\ UNCHANGED <<connection_handle, control_connection_handle,
                       control_procedure_in_progress, measurement_subscribed,
                       control_indications_enabled, sent, reference, host_vars, peer_vars>>

\* notify: read everything under the lock, and give up without a subscriber.
Snapshot ==
    /\ rx.pc = "snapshot"
    /\ rx' = IF connection_handle = NONE \/ ~measurement_subscribed
             THEN RxIdle
             ELSE [pc |-> "send", time_us |-> rx.time_us, to |-> connection_handle,
                   value |-> state, due |-> CountAt(rx.turn)]
    /\ UNCHANGED <<service_vars, last_notification_us, clock, sent, history,
                   host_vars, peer_vars>>

\* The notification goes out if there is memory for it and the connection
\* still exists; otherwise it is lost.
Send ==
    /\ rx.pc = "send"
    /\ rx' = RxIdle
    /\ \/ UNCHANGED sent
       \/ /\ link = rx.to
          /\ sent' = [time_us |-> rx.time_us, count |-> rx.value.revolutions,
                      event_time |-> rx.value.last_event_time, due |-> rx.due,
                      any |-> TRUE]
    /\ UNCHANGED <<service_vars, last_notification_us, clock, history,
                   host_vars, peer_vars>>

-----------------------------------------------------------------------------
(* The host task: advertising and connections.                             *)

\* start_advertising as the last call of a handler.  Its result is returned
\* or dropped, and nobody tries again.
StartAdvertising ==
    \/ advertising' = TRUE /\ UNCHANGED adv_failures
    \/ /\ adv_failures < MAX_ADV_FAILURES
       /\ adv_failures' = adv_failures + 1
       /\ advertising' = FALSE

HostReady == synced /\ host.pc = "idle"

OnSync ==
    /\ ~synced
    /\ synced' = TRUE
    /\ StartAdvertising
    /\ UNCHANGED <<service_vars, report_vars, host_vars, link, unconfirmed>>

\* A peer connects, which ends advertising.
Connect(handle) ==
    /\ HostReady /\ advertising /\ link = NONE
    /\ link' = handle
    /\ advertising' = FALSE
    /\ connection_handle' = handle
    /\ UNCHANGED <<state, control_connection_handle, control_procedure_in_progress,
                   measurement_subscribed, control_indications_enabled,
                   report_vars, host_vars, unconfirmed, synced, adv_failures>>

ConnectFails ==
    /\ HostReady /\ advertising /\ link = NONE
    /\ StartAdvertising
    /\ UNCHANGED <<service_vars, report_vars, host_vars, link, unconfirmed, synced>>

\* Mutant: a procedure in progress is left to its confirmation.
DisconnectKeepsProcedure ==
    /\ HostReady /\ link # NONE
    /\ link' = NONE
    /\ unconfirmed' = 0
    /\ connection_handle' = NONE
    /\ measurement_subscribed' = FALSE
    /\ control_indications_enabled' = FALSE
    /\ StartAdvertising
    /\ UNCHANGED <<state, control_connection_handle, control_procedure_in_progress,
                   report_vars, host_vars, synced>>

\* Everything that belongs to the connection is cleared in one section.
Disconnect ==
    /\ HostReady /\ link # NONE
    /\ link' = NONE
    /\ unconfirmed' = 0
    /\ connection_handle' = NONE
    /\ control_connection_handle' = NONE
    /\ control_procedure_in_progress' = FALSE
    /\ measurement_subscribed' = FALSE
    /\ control_indications_enabled' = FALSE
    /\ StartAdvertising
    /\ UNCHANGED <<state, report_vars, host_vars, synced>>

SubscribeMeasurement ==
    /\ HostReady /\ link # NONE
    /\ \E on \in BOOLEAN : measurement_subscribed' = on
    /\ UNCHANGED <<state, connection_handle, control_connection_handle,
                   control_procedure_in_progress, control_indications_enabled,
                   report_vars, host_vars, peer_vars>>

SubscribeControlPoint ==
    /\ HostReady /\ link # NONE
    /\ \E on \in BOOLEAN : control_indications_enabled' = on
    /\ UNCHANGED <<state, connection_handle, control_connection_handle,
                   control_procedure_in_progress, measurement_subscribed,
                   report_vars, host_vars, peer_vars>>
-----------------------------------------------------------------------------
(* The host task: a write to the control point.                            *)

\* What a peer may write: nothing, Set Cumulative with a value or with a
\* wrong length, or another op code.
Requests == [op : {"set"}, value : Values]
              \cup [op : {"empty", "set_wrong_length", "unsupported"}]

ControlIndicationsEnabled(handle) ==
    connection_handle = handle /\ control_indications_enabled

\* The write is refused with 0x81 unless indications are on.
ControlWrite(request) ==
    /\ HostReady /\ link # NONE /\ writes < MAX_WRITES
    /\ writes' = writes + 1
    /\ host' = IF ControlIndicationsEnabled(link)
               THEN [pc |-> "begin", request |-> request] ELSE HostIdle
    /\ UNCHANGED <<service_vars, report_vars, peer_vars>>

\* The write is refused with 0x80 while a procedure is in progress.
BeginControlProcedure ==
    /\ host.pc = "begin"
    /\ IF control_procedure_in_progress
       THEN /\ host' = HostIdle
            /\ UNCHANGED <<control_procedure_in_progress, control_connection_handle>>
       ELSE /\ host' = [host EXCEPT !.pc = "apply"]
            /\ control_procedure_in_progress' = TRUE
            /\ control_connection_handle' = link
    /\ UNCHANGED <<state, connection_handle, measurement_subscribed,
                   control_indications_enabled, report_vars, writes, peer_vars>>

CancelControlProcedure ==
    /\ control_procedure_in_progress' = FALSE
    /\ control_connection_handle' = NONE

\* An unreadable request ends the procedure at once.
RejectRequest ==
    /\ host.pc = "apply" /\ host.request.op = "empty"
    /\ CancelControlProcedure
    /\ host' = HostIdle
    /\ UNCHANGED <<state, connection_handle, measurement_subscribed,
                   control_indications_enabled, report_vars, writes, peer_vars>>

\* Set Cumulative takes effect before its response is sent; the other op
\* codes only choose another response.
ApplyRequest ==
    /\ host.pc = "apply" /\ host.request.op # "empty"
    /\ IF host.request.op = "set"
       THEN /\ state' = set_cumulative(state, host.request.value)
            /\ reference' = [count |-> host.request.value, turn |-> turns]
       ELSE UNCHANGED <<state, reference>>
    /\ host' = [host EXCEPT !.pc = "indicate"]
    /\ UNCHANGED <<connection_handle, control_connection_handle,
                   control_procedure_in_progress, measurement_subscribed,
                   control_indications_enabled, last_notification_us, rx, clock,
                   sent, turns, writes, peer_vars>>

\* NOTIFY_TX for the control point ends the procedure of this connection.
\* The status of the event, which tells sent from confirmed, is not looked at.
EndProcedure ==
    IF control_connection_handle = link
    THEN CancelControlProcedure
    ELSE UNCHANGED <<control_procedure_in_progress, control_connection_handle>>

\* The response is given to the host for indication.
Indicate(reports_sent) ==
    /\ host.pc = "indicate"
    /\ unconfirmed' = unconfirmed + 1
    /\ IF reports_sent
       THEN EndProcedure
       ELSE UNCHANGED <<control_procedure_in_progress, control_connection_handle>>
    /\ host' = HostIdle
    /\ UNCHANGED <<state, connection_handle, measurement_subscribed,
                   control_indications_enabled, report_vars, writes,
                   advertising, link, synced, adv_failures>>

\* Mutant: a failed indication leaves the procedure to its confirmation.
IndicateFailsSilently ==
    /\ host.pc = "indicate"
    /\ host' = HostIdle
    /\ UNCHANGED <<service_vars, report_vars, writes, peer_vars>>

\* No memory for the response, or the host refuses it.
IndicateFails ==
    /\ host.pc = "indicate"
    /\ CancelControlProcedure
    /\ host' = HostIdle
    /\ UNCHANGED <<state, connection_handle, measurement_subscribed,
                   control_indications_enabled, report_vars, writes, peer_vars>>

\* The peer confirms a response, or the host gives up on it.
NotifyTx ==
    /\ HostReady /\ unconfirmed > 0
    /\ unconfirmed' = unconfirmed - 1
    /\ EndProcedure
    /\ UNCHANGED <<state, connection_handle, measurement_subscribed,
                   control_indications_enabled, report_vars, host_vars,
                   advertising, link, synced, adv_failures>>

-----------------------------------------------------------------------------
ReceiveTask == Snapshot \/ Send \/ \E gap \in TurnTimes : OnWheelRevolution(gap)

AccessCallback ==
    \/ BeginControlProcedure \/ RejectRequest \/ ApplyRequest
    \/ IndicateFails \/ \E reports_sent \in SentReports : Indicate(reports_sent)

Peer ==
    \/ \E handle \in Handles : Connect(handle)
    \/ ConnectFails \/ Disconnect
    \/ SubscribeMeasurement \/ SubscribeControlPoint
    \/ \E request \in Requests : ControlWrite(request)
    \/ NotifyTx

CscNext == ReceiveTask \/ AccessCallback \/ Peer \/ OnSync

CscSpec == CscInit /\ [][CscNext]_csc_vars

\* Both tasks run when they can, and the host ends every indication: the peer
\* confirms it, or the ATT transaction times out and the connection is closed.
\* Nothing makes the wheel turn or a peer connect, subscribe or write.
IndicationEnds == unconfirmed > 0 /\ (NotifyTx \/ Disconnect)

CscFairness ==
    /\ WF_csc_vars(OnSync) /\ WF_csc_vars(AccessCallback)
    /\ WF_csc_vars(Snapshot \/ Send)
    /\ WF_csc_vars(IndicationEnds)

CscFairSpec == CscSpec /\ CscFairness

-----------------------------------------------------------------------------
(* Properties.                                                             *)

\* What belongs to a connection never outlives it: flags and procedure are
\* those of the live link, and a procedure has an owner exactly while it runs.
NothingOutlivesConnection ==
    /\ connection_handle = link
    /\ link = NONE => ~measurement_subscribed /\ ~control_indications_enabled
    /\ IF control_procedure_in_progress
       THEN control_connection_handle = link /\ link # NONE
       ELSE control_connection_handle = NONE

\* One procedure at a time: while the peer has not confirmed a response, the
\* procedure it belongs to is still in progress, so another one is refused.
OneProcedureAtATime ==
    /\ unconfirmed > 0 => control_procedure_in_progress
    /\ unconfirmed <= 1

\* Count and event time of a measurement belong to the revolution that caused
\* it: the time is when it happened, and the count has one for it and for each
\* before it since the last Set Cumulative (no more if that came in between).
MeasurementIsOfItsRevolution ==
    sent.any => /\ sent.event_time = event_time_1024(sent.time_us)
                /\ sent.count = sent.due

\* Two notifications are caused by revolutions a notification interval apart,
\* whatever was lost in between.
NotificationsSpaced ==
    [][sent' # sent => sent'.time_us - sent.time_us >= NOTIFY_INTERVAL_US]_csc_vars

\* A collector that subtracts the event times of two notifications modulo
\* their range gets the time between the two revolutions, to a tick, if less
\* than a roll-over period has passed.
CollectorSeesElapsedTime ==
    [][LET elapsed == sent'.time_us - sent.time_us
           ticks   == (elapsed * EVENT_TICKS) \div SECOND
       IN  sent.any /\ sent' # sent /\ elapsed < ROLLOVER_S * SECOND =>
               (sent'.event_time - sent.event_time - ticks) % EVENT_TIMES \in {0, 1}
      ]_csc_vars

\* The count goes down only when the peer sets it: it does not wrap.
CountOnlyResetByPeer ==
    [][state'.revolutions < state.revolutions =>
         host.pc = "apply" /\ host.request.op = "set"]_csc_vars

\* Every accepted procedure ends, also when its request or its response fails.
ProcedureEnds == []<>~control_procedure_in_progress
=============================================================================
