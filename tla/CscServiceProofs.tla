--------------------------- MODULE CscServiceProofs ----------------------------
(***************************************************************************)
(* Proofs about CscService, for every number of connections, revolutions   *)
(* and writes, and for every scale of the event time: first the arithmetic *)
(* of event_time_1024, then the connection, then the measurements.         *)
(***************************************************************************)
EXTENDS CscService, TLAPS

-----------------------------------------------------------------------------
(* The event time.                                                         *)

\* What division gives, and that nothing else does.
LEMMA Division ==
    ASSUME NEW a \in Int, NEW b \in Nat \ {0}
    PROVE  /\ a \div b \in Int /\ a % b \in 0 .. b - 1
           /\ a = b * (a \div b) + (a % b)
  BY SMT

LEMMA DivisionIsUnique ==
    ASSUME NEW a \in Int, NEW b \in Nat \ {0}, NEW q \in Int, NEW r \in 0 .. b - 1,
           a = b * q + r
    PROVE  a \div b = q /\ a % b = r
  BY SMT

\* A product of natural numbers keeps the order of its factors.
LEMMA ProductOrder ==
    ASSUME NEW a \in Nat, NEW b \in Nat, NEW c \in Nat \ {0}
    PROVE  /\ a * c \in Nat /\ c * a = a * c
           /\ a < b <=> a * c < b * c
  BY SMT

\* A quotient of a natural number is one.
LEMMA QuotientIsNatural ==
    ASSUME NEW b \in Nat \ {0}, NEW q \in Int, NEW r \in 0 .. b - 1, b * q + r \in Nat
    PROVE  q \in Nat
  <1>1. ASSUME q < 0 PROVE FALSE
    <2>1. b * q <= -b
      BY <1>1, SMT
    <2> QED BY <2>1
  <1> QED BY <1>1

\* The event times, and the ticks since the start without the roll-over.
EventTimes == 0 .. EVENT_TIMES - 1
Ticks(time_us) == (time_us * EVENT_TICKS) \div SECOND

\* The event time is the number of ticks, less the roll-overs.
LEMMA EventTimeIsTicks ==
    ASSUME NEW t \in Nat
    PROVE  /\ Ticks(t) \in Nat
           /\ event_time_1024(t) \in EventTimes
           /\ \E q \in Nat : event_time_1024(t) = Ticks(t) - q * EVENT_TIMES
  <1> DEFINE S == SECOND
             T == EVENT_TICKS
             P == ROLLOVER_S * S
             E == ROLLOVER_S * T
             q == t \div P
             r == t % P
             d == (r * T) \div S
             e == (r * T) % S
  <1>1. /\ S \in Nat \ {0} /\ T \in Nat \ {0} /\ ROLLOVER_S \in Nat \ {0}
        /\ P \in Nat \ {0} /\ E \in Nat \ {0}
    <2>1. S \in Nat \ {0} /\ T \in Nat \ {0} /\ ROLLOVER_S \in Nat \ {0}
      BY MeasurementAssumption
    <2>2. \A a, b \in Nat \ {0} : a * b \in Nat \ {0}
      BY SMT
    <2> QED BY <2>1, <2>2
  <1>2. /\ q \in Int /\ r \in Nat /\ r < P /\ t = P * q + r
    <2> HIDE DEF P
    <2>1. q \in Int /\ r \in 0 .. P - 1 /\ t = P * q + r
      BY <1>1, Division
    <2> QED BY <1>1, <2>1
  <1>3. q \in Nat
    <2> HIDE DEF P, q, r
    <2>1. r \in 0 .. P - 1 /\ P * q + r \in Nat
      BY <1>1, <1>2
    <2> QED BY <1>1, <1>2, <2>1, QuotientIsNatural
  <1>4. r * T \in Nat /\ d \in Int /\ e \in 0 .. S - 1 /\ r * T = S * d + e
    <2>1. r * T \in Nat
      BY <1>1, <1>2, ProductOrder
    <2> DEFINE w == r * T
    <2> HIDE DEF w
    <2>2. w \in Int
      BY <2>1 DEF w
    <2>3. w \div S \in Int /\ w % S \in 0 .. S - 1 /\ w = S * (w \div S) + (w % S)
      BY <1>1, <2>2, Division
    <2> QED BY <2>1, <2>3 DEF w
  <1>5. d \in Nat /\ d < E
    <2> HIDE DEF d, e, r, q
    <2>1. d \in Nat
      BY <1>1, <1>4, QuotientIsNatural
    <2>2. r * T < P * T
      BY <1>1, <1>2, ProductOrder
    <2>3. P * T = S * E
      BY <1>1
    <2> HIDE DEF P, E
    <2>4. ASSUME d >= E PROVE FALSE
      <3>1. S * d >= S * E
        BY <1>1, <1>4, <2>1, <2>4
      <3> QED BY <1>1, <1>2, <1>4, <2>2, <2>3, <3>1
    <2> QED BY <1>1, <1>4, <2>1, <2>4
  <1>6. Ticks(t) = E * q + d
    <2>1. t * T = S * (E * q + d) + e
      <3>1. t * T = (P * q) * T + r * T
        <4> HIDE DEF P, q, r
        <4> QED BY <1>1, <1>2, <1>3
      <3>2. (P * q) * T = S * (E * q)
        <4> HIDE DEF q
        <4> QED BY <1>1, <1>3
      <3>3. S * (E * q) + S * d = S * (E * q + d) /\ E * q \in Nat
        <4> HIDE DEF q, d, E
        <4> QED BY <1>1, <1>3, <1>5
      <3>4. S * (E * q) \in Nat /\ S * d \in Nat /\ e \in Nat
        <4> HIDE DEF q, d, E, e
        <4> QED BY <1>1, <1>3, <1>4, <1>5, <3>3
      <3> HIDE DEF P, q, r, d, e, E
      <3> QED BY <1>1, <1>4, <3>1, <3>2, <3>3, <3>4
    <2>2. E * q + d \in Int /\ t * T \in Int
      <3> HIDE DEF q, d, E
      <3> QED BY <1>1, <1>3, <1>5
    <2> HIDE DEF q, d, e, E
    <2>3. (t * T) \div S = E * q + d
      BY <1>1, <1>4, <2>1, <2>2, DivisionIsUnique
    <2> QED BY <2>3 DEF Ticks
  <1>7. event_time_1024(t) = d
    <2>1. event_time_1024(t) = d % E
      BY DEF event_time_1024, EVENT_TIMES
    <2> HIDE DEF d, E
    <2>2. d = E * 0 + d /\ d \in 0 .. E - 1
      BY <1>1, <1>5
    <2>3. d % E = d
      BY <1>1, <1>5, <2>2, DivisionIsUnique
    <2> QED BY <2>1, <2>3
  <1>8. E * q = q * EVENT_TIMES /\ E * q \in Nat
    <2>1. E = EVENT_TIMES
      BY DEF EVENT_TIMES
    <2> HIDE DEF q, E
    <2> QED BY <1>1, <1>3, <2>1
  <1>9. d \in EventTimes
    <2>1. E = EVENT_TIMES
      BY DEF EVENT_TIMES
    <2> HIDE DEF d, E
    <2> QED BY <1>1, <1>5, <2>1 DEF EventTimes
  <1> HIDE DEF q, d, E
  <1> QED BY <1>3, <1>5, <1>6, <1>7, <1>8, <1>9

\* The ticks of a sum are those of its parts, or one more.
LEMMA TicksOfSum ==
    ASSUME NEW a \in Nat, NEW b \in Nat
    PROVE  Ticks(a + b) - Ticks(a) - Ticks(b) \in {0, 1}
  <1> DEFINE S == SECOND
             T == EVENT_TICKS
             x == a * T
             y == b * T
  <1>1. S \in Nat \ {0} /\ T \in Nat \ {0} /\ x \in Nat /\ y \in Nat
    BY MeasurementAssumption
  <1>2. (a + b) * T = x + y
    BY <1>1
  <1>3. Ticks(a) = x \div S /\ Ticks(b) = y \div S /\ Ticks(a + b) = (x + y) \div S
    BY <1>2 DEF Ticks
  <1> DEFINE u == x \div S
             v == y \div S
             m == x % S
             n == y % S
  <1> HIDE DEF x, y
  <1>4. /\ u \in Int /\ m \in 0 .. S - 1 /\ x = S * u + m
        /\ v \in Int /\ n \in 0 .. S - 1 /\ y = S * v + n
    BY <1>1, Division
  <1> HIDE DEF u, v, m, n
  <1>5. CASE m + n < S
    <2>1. x + y = S * (u + v) + (m + n) /\ m + n \in 0 .. S - 1
      BY <1>1, <1>4, <1>5
    <2>2. x + y \in Int /\ u + v \in Int
      BY <1>1, <1>4
    <2>3. (x + y) \div S = u + v
      BY <1>1, <2>1, <2>2, DivisionIsUnique
    <2> QED BY <1>3, <1>4, <2>3 DEF u, v
  <1>6. CASE m + n >= S
    <2>1. x + y = S * (u + v + 1) + (m + n - S) /\ m + n - S \in 0 .. S - 1
      BY <1>1, <1>4, <1>6
    <2>2. x + y \in Int /\ u + v + 1 \in Int
      BY <1>1, <1>4
    <2>3. (x + y) \div S = u + v + 1
      BY <1>1, <2>1, <2>2, DivisionIsUnique
    <2> QED BY <1>3, <1>4, <2>3 DEF u, v
  <1> QED BY <1>1, <1>4, <1>5, <1>6

\* What a collector sees that subtracts event times modulo their range.
LEMMA CollectorSubtracts ==
    ASSUME NEW early \in Nat, NEW late \in Nat, early <= late
    PROVE  (event_time_1024(late) - event_time_1024(early) - Ticks(late - early))
               % EVENT_TIMES \in {0, 1}
  <1> DEFINE E == EVENT_TIMES
             k == Ticks(late) - Ticks(early) - Ticks(late - early)
             x == event_time_1024(late) - event_time_1024(early) - Ticks(late - early)
  <1>1. E \in Nat \ {0}
    <2>1. \A a, b \in Nat \ {0} : a * b \in Nat \ {0}
      BY SMT
    <2> QED BY <2>1, MeasurementAssumption DEF EVENT_TIMES
  <1>2. late - early \in Nat /\ early + (late - early) = late
    BY SMT
  <1>3. k \in {0, 1}
    BY <1>2, TicksOfSum
  <1>4. PICK p \in Nat, q \in Nat :
          /\ event_time_1024(early) = Ticks(early) - p * E
          /\ event_time_1024(late) = Ticks(late) - q * E
    BY EventTimeIsTicks
  <1>5. Ticks(late) \in Nat /\ Ticks(early) \in Nat /\ Ticks(late - early) \in Nat
    BY <1>2, EventTimeIsTicks
  <1>6. x = E * (p - q) + k /\ x \in Int
    <2>1. p * E = E * p /\ q * E = E * q /\ E * (p - q) = E * p - E * q
          /\ E * p \in Nat /\ E * q \in Nat
      BY <1>1, <1>4
    <2> QED BY <1>1, <1>4, <1>5, <2>1
  <1> HIDE DEF E, k, x
  <1>7. CASE E = 1
    <2>1. x % E \in 0 .. E - 1
      BY <1>1, <1>6, Division
    <2> QED BY <1>7, <2>1 DEF x, E
  <1>8. CASE E # 1
    <2>1. k \in 0 .. E - 1 /\ p - q \in Int
      BY <1>1, <1>3, <1>4, <1>8
    <2>2. x % E = k
      BY <1>1, <1>6, <2>1, DivisionIsUnique
    <2> QED BY <1>3, <2>2 DEF x, E
  <1> QED BY <1>7, <1>8

-----------------------------------------------------------------------------
(* The inductive invariant.                                                *)

WheelState == [revolutions : 0 .. MAX_REVOLUTIONS, last_event_time : EventTimes]

Notifications(latest) ==
    [time_us : 0 .. latest, count : 0 .. MAX_REVOLUTIONS,
     event_time : EventTimes, due : 0 .. MAX_REVOLUTIONS, any : BOOLEAN]

\* A notification is no newer than the latest; it stays one when time goes on.
LEMMA NotificationTimes ==
    ASSUME NEW early \in Nat, NEW late \in Nat, early <= late,
           NEW n \in Notifications(early)
    PROVE  n \in Notifications(late) /\ n.time_us \in 0 .. early
  <1>1. 0 .. early \subseteq 0 .. late
    BY SMT
  <1> QED BY <1>1 DEF Notifications

\* The count fits 32 bits and the event time 16; the tasks are where their
\* code can be.
CscTypeOK ==
    /\ state \in WheelState
    /\ clock \in Nat /\ last_notification_us \in 0 .. clock
    /\ sent \in Notifications(last_notification_us)
    /\ rx.pc \in {"idle", "snapshot", "send"}
    /\ host = HostIdle
         \/ host \in [pc : {"begin", "apply", "indicate"}, request : Requests]
    /\ turns \in Nat /\ reference \in [count : 0 .. MAX_REVOLUTIONS, turn : 0 .. turns]

\* The counter counts what a collector expects.
CountIsTrue == state.revolutions = CountAt(turns)

\* Only a live connection has a write under way.
WriterIsConnected == host.pc # "idle" => link # NONE

\* A measurement under way is that of the revolution that was the last to
\* restart the notification interval.  The wheel does not turn until it is
\* read, so the state keeps its event time, and only a peer changes its count.
MeasurementUnderWay ==
    /\ rx.pc # "idle" =>
         /\ rx.time_us = last_notification_us
         /\ last_notification_us - sent.time_us >= NOTIFY_INTERVAL_US
    /\ rx.pc = "snapshot" => /\ state.last_event_time = event_time_1024(rx.time_us)
                             /\ rx.turn = turns
    /\ rx.pc = "send" => /\ rx.value \in WheelState
                         /\ rx.value.last_event_time = event_time_1024(rx.time_us)
                         /\ rx.value.revolutions = rx.due

CscIInv ==
    /\ CscTypeOK
    /\ CountIsTrue
    /\ WriterIsConnected
    /\ NothingOutlivesConnection
    /\ MeasurementUnderWay
    /\ MeasurementIsOfItsRevolution

-----------------------------------------------------------------------------
(* The receive task.                                                       *)

\* A revolution is counted once, up to the largest count, and its event time
\* is kept.
LEMMA RevolutionCounts ==
    ASSUME NEW s \in WheelState, NEW t \in Nat
    PROVE  /\ on_revolution(s, t) \in WheelState
           /\ s.revolutions <= on_revolution(s, t).revolutions
           /\ on_revolution(s, t).last_event_time = event_time_1024(t)
  <1>1. event_time_1024(t) \in EventTimes
    BY EventTimeIsTicks
  <1>2. s.revolutions \in 0 .. MAX_REVOLUTIONS /\ MAX_REVOLUTIONS \in Nat
    BY MeasurementAssumption DEF WheelState
  <1> DEFINE n == IF s.revolutions # MAX_REVOLUTIONS
                  THEN s.revolutions + 1 ELSE s.revolutions
  <1>3. n \in 0 .. MAX_REVOLUTIONS /\ s.revolutions <= n
    BY <1>2
  <1>4. on_revolution(s, t) = [revolutions |-> n, last_event_time |-> event_time_1024(t)]
    BY DEF on_revolution
  <1> HIDE DEF n
  <1> QED BY <1>1, <1>3, <1>4 DEF WheelState

\* Counting a turn and counting a revolution stop at the same limit.
LEMMA TurnCounts ==
    ASSUME CscTypeOK, CountIsTrue, NEW t \in Nat,
           state' = on_revolution(state, t), turns' = turns + 1, reference' = reference
    PROVE  CountIsTrue' /\ reference' \in [count : 0 .. MAX_REVOLUTIONS, turn : 0 .. turns']
  <1> DEFINE n == reference.count + (turns - reference.turn)
  <1>1. /\ MAX_REVOLUTIONS \in Nat /\ turns \in Nat
        /\ reference.count \in 0 .. MAX_REVOLUTIONS /\ reference.turn \in 0 .. turns
    BY MeasurementAssumption DEF CscTypeOK
  <1>2. n \in Nat /\ reference.count + ((turns + 1) - reference.turn) = n + 1
    BY <1>1
  <1>3. state.revolutions = IF n < MAX_REVOLUTIONS THEN n ELSE MAX_REVOLUTIONS
    BY DEF CountIsTrue, CountAt
  <1>4. state'.revolutions = IF state.revolutions # MAX_REVOLUTIONS
                             THEN state.revolutions + 1 ELSE state.revolutions
    BY DEF on_revolution
  <1>5. CountAt(turns)' = IF n + 1 < MAX_REVOLUTIONS THEN n + 1 ELSE MAX_REVOLUTIONS
    BY <1>2 DEF CountAt
  <1>6. 0 .. turns \subseteq 0 .. turns'
    BY <1>1
  <1> HIDE DEF n
  <1>7. CountIsTrue'
    BY <1>1, <1>2, <1>3, <1>4, <1>5 DEF CountIsTrue
  <1> QED BY <1>6, <1>7 DEF CscTypeOK

\* Everything that the host task and the peer own stays as it is.
LEMMA ReceiveTaskKeepsConnection ==
    ASSUME CscIInv, ReceiveTask
    PROVE  /\ WriterIsConnected' /\ NothingOutlivesConnection'
           /\ UNCHANGED <<host, link>>
  <1>1. UNCHANGED <<connection_handle, control_connection_handle,
                    control_procedure_in_progress, measurement_subscribed,
                    control_indications_enabled, host, link>>
    BY DEF ReceiveTask, Snapshot, Send, OnWheelRevolution, service_vars,
           host_vars, peer_vars
  <1> QED BY <1>1 DEF CscIInv, WriterIsConnected, NothingOutlivesConnection

\* A revolution, and perhaps the start of a measurement.
LEMMA OnWheelRevolutionKeeps ==
    ASSUME CscIInv, NEW gap \in TurnTimes, OnWheelRevolution(gap)
    PROVE  /\ CscIInv' /\ sent' = sent
           /\ state.revolutions <= state'.revolutions
  <1> DEFINE t == clock + gap
  <1>1. /\ rx.pc = "idle" /\ clock' = t /\ state' = on_revolution(state, t)
        /\ sent' = sent /\ turns' = turns + 1 /\ reference' = reference
        /\ \/ /\ t - last_notification_us >= NOTIFY_INTERVAL_US
              /\ last_notification_us' = t
              /\ rx' = [pc |-> "snapshot", time_us |-> t, turn |-> turns + 1]
           \/ UNCHANGED <<last_notification_us, rx>>
    BY DEF OnWheelRevolution
  <1>2. /\ state \in WheelState /\ clock \in Nat /\ last_notification_us \in 0 .. clock
        /\ sent \in Notifications(last_notification_us)
        /\ gap \in Nat /\ NOTIFY_INTERVAL_US \in Nat
    BY ServiceAssumption DEF CscIInv, CscTypeOK
  <1>3. t \in Nat /\ clock <= t
    BY <1>2
  <1> HIDE DEF t
  <1>4. /\ state' \in WheelState /\ state.revolutions <= state'.revolutions
        /\ state'.last_event_time = event_time_1024(t)
    BY <1>1, <1>2, <1>3, RevolutionCounts
  <1>5. last_notification_us' \in 0 .. t /\ last_notification_us <= last_notification_us'
    BY <1>1, <1>2, <1>3
  <1>6. CscTypeOK'
    <2>1. last_notification_us \in Nat /\ last_notification_us' \in Nat
      BY <1>2, <1>3, <1>5
    <2>2. sent' \in Notifications(last_notification_us')
      BY <1>1, <1>2, <1>5, <2>1, NotificationTimes
    <2>3. rx'.pc \in {"idle", "snapshot", "send"}
      BY <1>1
    <2>4. host' = host
      BY ReceiveTaskKeepsConnection DEF ReceiveTask
    <2>5. turns' \in Nat
          /\ reference' \in [count : 0 .. MAX_REVOLUTIONS, turn : 0 .. turns']
      BY <1>1, <1>3, TurnCounts DEF CscIInv, CscTypeOK
    <2> QED BY <1>1, <1>3, <1>4, <1>5, <2>2, <2>3, <2>4, <2>5 DEF CscIInv, CscTypeOK
  <1>7. MeasurementUnderWay'
    <2>1. CASE UNCHANGED rx
      BY <1>1, <2>1 DEF MeasurementUnderWay
    <2>2. CASE /\ t - last_notification_us >= NOTIFY_INTERVAL_US
               /\ last_notification_us' = t
               /\ rx' = [pc |-> "snapshot", time_us |-> t, turn |-> turns + 1]
      <3>1. rx'.pc = "snapshot" /\ rx'.time_us = t /\ rx'.turn = turns'
        BY <1>1, <2>2
      <3>2. t - sent'.time_us >= NOTIFY_INTERVAL_US
        <4>1. sent.time_us \in 0 .. last_notification_us
          BY <1>2, NotificationTimes
        <4> QED BY <1>1, <1>2, <1>3, <2>2, <4>1
      <3> QED BY <1>4, <2>2, <3>1, <3>2 DEF MeasurementUnderWay
    <2> QED BY <1>1, <2>1, <2>2
  <1>8. MeasurementIsOfItsRevolution'
    BY <1>1 DEF CscIInv, MeasurementIsOfItsRevolution
  <1>9. CountIsTrue'
    BY <1>1, <1>3, TurnCounts DEF CscIInv
  <1> QED BY <1>1, <1>4, <1>6, <1>7, <1>8, <1>9, ReceiveTaskKeepsConnection
          DEF CscIInv, ReceiveTask

\* notify reads the state, which still has the event time of the revolution.
LEMMA SnapshotKeeps ==
    ASSUME CscIInv, Snapshot
    PROVE  CscIInv' /\ UNCHANGED <<sent, state>>
  <1>1. /\ rx.pc = "snapshot"
        /\ UNCHANGED <<state, last_notification_us, clock, sent, host, turns, reference>>
        /\ rx' = IF connection_handle = NONE \/ ~measurement_subscribed
                 THEN RxIdle
                 ELSE [pc |-> "send", time_us |-> rx.time_us, to |-> connection_handle,
                       value |-> state, due |-> CountAt(rx.turn)]
    BY DEF Snapshot, service_vars, host_vars, history
  <1>2. \/ rx'.pc = "idle"
        \/ /\ rx'.pc = "send" /\ rx'.time_us = rx.time_us /\ rx'.value = state
           /\ rx'.due = CountAt(rx.turn)
    BY <1>1 DEF RxIdle
  <1>3. CscTypeOK'
    BY <1>1, <1>2 DEF CscIInv, CscTypeOK
  <1>4. MeasurementUnderWay'
    <2>1. rx.turn = turns /\ state.revolutions = CountAt(turns)
      BY <1>1 DEF CscIInv, MeasurementUnderWay, CountIsTrue
    <2> QED BY <1>1, <1>2, <2>1 DEF CscIInv, MeasurementUnderWay, CscTypeOK
  <1>5. MeasurementIsOfItsRevolution' /\ CountIsTrue'
    BY <1>1 DEF CscIInv, MeasurementIsOfItsRevolution, CountIsTrue, CountAt
  <1> QED BY <1>1, <1>3, <1>4, <1>5, ReceiveTaskKeepsConnection DEF CscIInv, ReceiveTask

\* The notification goes out or is lost.
LEMMA SendKeeps ==
    ASSUME CscIInv, Send
    PROVE  /\ CscIInv' /\ state' = state
           /\ sent' # sent =>
                /\ sent'.time_us - sent.time_us >= NOTIFY_INTERVAL_US
                /\ sent'.time_us \in Nat /\ sent.time_us \in Nat
                /\ sent'.event_time = event_time_1024(sent'.time_us)
  <1>1. /\ rx.pc = "send" /\ rx' = RxIdle
        /\ UNCHANGED <<state, last_notification_us, clock, host, turns, reference>>
        /\ \/ sent' = sent
           \/ sent' = [time_us |-> rx.time_us, count |-> rx.value.revolutions,
                       event_time |-> rx.value.last_event_time, due |-> rx.due,
                       any |-> TRUE]
    BY DEF Send, service_vars, host_vars, history
  <1>2. /\ rx.time_us = last_notification_us
        /\ last_notification_us - sent.time_us >= NOTIFY_INTERVAL_US
        /\ rx.value \in WheelState
        /\ rx.value.last_event_time = event_time_1024(rx.time_us)
        /\ rx.value.revolutions = rx.due
        /\ last_notification_us \in Nat
    BY <1>1 DEF CscIInv, MeasurementUnderWay, CscTypeOK
  <1>3. sent \in Notifications(last_notification_us)
    BY DEF CscIInv, CscTypeOK
  <1>4. sent' \in Notifications(last_notification_us)
    <2>1. rx.value.revolutions \in 0 .. MAX_REVOLUTIONS
          /\ rx.value.last_event_time \in EventTimes
      BY <1>2 DEF WheelState
    <2>2. rx.time_us \in 0 .. last_notification_us
      BY <1>2
    <2>3. [time_us |-> rx.time_us, count |-> rx.value.revolutions,
           event_time |-> rx.value.last_event_time, due |-> rx.due, any |-> TRUE]
             \in Notifications(last_notification_us)
      BY <1>2, <2>1, <2>2 DEF Notifications
    <2> QED BY <1>1, <1>3, <2>3
  <1>5. CscTypeOK'
    BY <1>1, <1>4 DEF CscIInv, CscTypeOK, RxIdle
  <1>6. MeasurementUnderWay'
    BY <1>1 DEF MeasurementUnderWay, RxIdle
  <1>7. MeasurementIsOfItsRevolution' /\ CountIsTrue'
    BY <1>1, <1>2 DEF CscIInv, MeasurementIsOfItsRevolution, CountIsTrue, CountAt
  <1>8. sent.time_us \in Nat
    BY <1>2, <1>3, NotificationTimes
  <1>9. sent' # sent => /\ sent'.time_us = rx.time_us
                        /\ sent'.event_time = rx.value.last_event_time
    BY <1>1
  <1>10. CscIInv'
    BY <1>5, <1>6, <1>7, ReceiveTaskKeepsConnection DEF CscIInv, ReceiveTask
  <1> QED BY <1>1, <1>2, <1>8, <1>9, <1>10

-----------------------------------------------------------------------------
(* The host task and the peer.                                             *)

\* What the host task does to the measurements: nothing, but for the count,
\* and then a peer has set it.
LEMMA HostKeepsMeasurements ==
    ASSUME CscIInv, UNCHANGED <<last_notification_us, rx, clock, sent, turns>>,
           state' \in WheelState, state'.last_event_time = state.last_event_time,
           \/ UNCHANGED <<state, reference>>
           \/ reference' = [count |-> state'.revolutions, turn |-> turns],
           host' = HostIdle
             \/ host' \in [pc : {"begin", "apply", "indicate"}, request : Requests]
    PROVE  /\ CscTypeOK' /\ CountIsTrue'
           /\ MeasurementUnderWay' /\ MeasurementIsOfItsRevolution'
  <1>1. turns \in Nat /\ MAX_REVOLUTIONS \in Nat /\ state'.revolutions \in 0 .. MAX_REVOLUTIONS
    BY MeasurementAssumption DEF CscIInv, CscTypeOK, WheelState
  <1>2. reference' \in [count : 0 .. MAX_REVOLUTIONS, turn : 0 .. turns]
    BY <1>1 DEF CscIInv, CscTypeOK
  <1>3. CscTypeOK'
    BY <1>2 DEF CscIInv, CscTypeOK
  <1>4. CountIsTrue'
    <2>1. CASE UNCHANGED <<state, reference>>
      BY <2>1 DEF CscIInv, CountIsTrue, CountAt
    <2>2. CASE reference' = [count |-> state'.revolutions, turn |-> turns]
      <3>1. reference'.count = state'.revolutions /\ reference'.turn = turns'
        BY <2>2
      <3>2. state'.revolutions + (turns' - turns') = state'.revolutions
        BY <1>1
      <3> QED BY <1>1, <3>1, <3>2 DEF CountIsTrue, CountAt
    <2> QED BY <2>1, <2>2
  <1>5. MeasurementUnderWay'
    BY DEF CscIInv, MeasurementUnderWay
  <1>6. MeasurementIsOfItsRevolution'
    BY DEF CscIInv, MeasurementIsOfItsRevolution
  <1> QED BY <1>3, <1>4, <1>5, <1>6

\* Connecting, disconnecting, subscribing and advertising.
LEMMA PeerKeeps ==
    ASSUME CscIInv, Peer \/ OnSync
    PROVE  CscIInv' /\ UNCHANGED <<report_vars, state>>
  <1>1. NothingOutlivesConnection /\ WriterIsConnected /\ CscTypeOK
    BY DEF CscIInv
  <1>2. UNCHANGED <<report_vars, state>>
    BY DEF Peer, OnSync, Connect, ConnectFails, Disconnect, SubscribeMeasurement,
           SubscribeControlPoint, ControlWrite, NotifyTx, service_vars
  <1>3. \/ UNCHANGED host
        \/ /\ host' = HostIdle
           /\ UNCHANGED <<service_vars, link>>
        \/ /\ \E request \in Requests : host' = [pc |-> "begin", request |-> request]
           /\ UNCHANGED <<service_vars, link>> /\ link # NONE
    BY DEF Peer, OnSync, Connect, ConnectFails, Disconnect, SubscribeMeasurement,
           SubscribeControlPoint, ControlWrite, NotifyTx, host_vars, peer_vars
  <1>4. /\ CscTypeOK' /\ CountIsTrue'
        /\ MeasurementUnderWay' /\ MeasurementIsOfItsRevolution'
    <2>1. host' = HostIdle
            \/ host' \in [pc : {"begin", "apply", "indicate"}, request : Requests]
      BY <1>1, <1>3 DEF CscTypeOK
    <2>2. state' \in WheelState /\ state'.last_event_time = state.last_event_time
      BY <1>1, <1>2 DEF CscTypeOK
    <2> QED BY <1>2, <2>1, <2>2, HostKeepsMeasurements DEF report_vars, history
  <1>5. WriterIsConnected' /\ NothingOutlivesConnection'
    <2>1. CASE \E handle \in Handles : Connect(handle)
      <3>1. PICK handle \in Handles : Connect(handle)
        BY <2>1
      <3> QED BY <1>1, <3>1, ServiceAssumption
              DEF Connect, HostReady, host_vars, HostIdle, WriterIsConnected,
                  NothingOutlivesConnection
    <2>2. CASE ConnectFails \/ OnSync
      BY <1>1, <2>2 DEF ConnectFails, OnSync, host_vars, service_vars,
                        WriterIsConnected, NothingOutlivesConnection
    <2>3. CASE Disconnect
      BY <1>1, <2>3 DEF Disconnect, HostReady, host_vars, WriterIsConnected,
                        NothingOutlivesConnection
    <2>4. CASE SubscribeMeasurement \/ SubscribeControlPoint
      BY <1>1, <2>4 DEF SubscribeMeasurement, SubscribeControlPoint, host_vars,
                        peer_vars, WriterIsConnected, NothingOutlivesConnection
    <2>5. CASE \E request \in Requests : ControlWrite(request)
      BY <1>1, <2>5 DEF ControlWrite, peer_vars, service_vars, WriterIsConnected,
                        NothingOutlivesConnection
    <2>6. CASE NotifyTx
      BY <1>1, <2>6 DEF NotifyTx, EndProcedure, CancelControlProcedure, host_vars,
                        WriterIsConnected, NothingOutlivesConnection
    <2> QED BY <2>1, <2>2, <2>3, <2>4, <2>5, <2>6 DEF Peer
  <1> QED BY <1>2, <1>4, <1>5 DEF CscIInv

\* A write to the control point.
LEMMA AccessCallbackKeeps ==
    ASSUME CscIInv, AccessCallback
    PROVE  /\ CscIInv' /\ sent' = sent
           /\ state' # state => host.pc = "apply" /\ host.request.op = "set"
  <1>1. /\ NothingOutlivesConnection /\ WriterIsConnected /\ CscTypeOK
        /\ state \in WheelState
    BY DEF CscIInv, CscTypeOK
  <1>2. /\ host.pc \in {"begin", "apply", "indicate"} /\ link # NONE
        /\ UNCHANGED <<last_notification_us, rx, clock, sent, turns>>
        /\ UNCHANGED <<link, connection_handle, measurement_subscribed,
                       control_indications_enabled>>
    BY <1>1 DEF AccessCallback, BeginControlProcedure, RejectRequest, ApplyRequest,
           IndicateFails, Indicate, peer_vars, report_vars, history, WriterIsConnected
  <1>3. host \in [pc : {"begin", "apply", "indicate"}, request : Requests]
    BY <1>1, <1>2 DEF CscTypeOK, HostIdle
  <1>4. host' = HostIdle
          \/ host' \in [pc : {"begin", "apply", "indicate"}, request : Requests]
    BY <1>3 DEF AccessCallback, BeginControlProcedure, RejectRequest, ApplyRequest,
                IndicateFails, Indicate
  <1>5. WriterIsConnected'
    BY <1>2 DEF WriterIsConnected
  <1>6. NothingOutlivesConnection'
    BY <1>1, <1>2 DEF AccessCallback, BeginControlProcedure, RejectRequest,
                ApplyRequest, IndicateFails, Indicate, EndProcedure,
                CancelControlProcedure, NothingOutlivesConnection
  <1>7. \/ UNCHANGED <<state, reference>>
        \/ /\ host.pc = "apply" /\ host.request.op = "set"
           /\ state' = set_cumulative(state, host.request.value)
           /\ reference' = [count |-> host.request.value, turn |-> turns]
    BY DEF AccessCallback, BeginControlProcedure, RejectRequest, ApplyRequest,
           IndicateFails, Indicate, report_vars, history
  <1>8. host.request.op = "set" => host.request.value \in 0 .. MAX_REVOLUTIONS
    <2>1. host.request \in Requests
      BY <1>3
    <2> QED BY <2>1, ServiceAssumption DEF Requests
  <1>9. /\ state' \in WheelState /\ state'.last_event_time = state.last_event_time
        /\ \/ UNCHANGED <<state, reference>>
           \/ reference' = [count |-> state'.revolutions, turn |-> turns]
    BY <1>1, <1>7, <1>8 DEF WheelState, set_cumulative
  <1> QED BY <1>2, <1>4, <1>5, <1>6, <1>7, <1>9, HostKeepsMeasurements DEF CscIInv

-----------------------------------------------------------------------------
(* The service.                                                            *)

\* The inductive invariant holds initially.
LEMMA CscInitEstablishes == CscInit => CscIInv
  <1> SUFFICES ASSUME CscInit PROVE CscIInv
    OBVIOUS
  <1>1. EVENT_TIMES \in Nat \ {0}
    <2>1. \A a, b \in Nat \ {0} : a * b \in Nat \ {0}
      BY SMT
    <2> QED BY <2>1, MeasurementAssumption DEF EVENT_TIMES
  <1>2. 0 \in EventTimes /\ 0 \in 0 .. MAX_REVOLUTIONS /\ 0 \in 0 .. 0
    BY <1>1, MeasurementAssumption DEF EventTimes
  <1>3. state \in WheelState /\ sent \in Notifications(0)
    BY <1>2 DEF CscInit, WheelStateInit, WheelState, Notifications
  <1>4. CscTypeOK
    BY <1>2, <1>3 DEF CscInit, CscTypeOK, RxIdle
  <1>5. CountIsTrue
    <2>1. 0 + (0 - 0) = 0
      BY SMT
    <2> QED BY <2>1, MeasurementAssumption DEF CscInit, CountIsTrue, CountAt, WheelStateInit
  <1> QED BY <1>4, <1>5 DEF CscInit, CscIInv, WriterIsConnected, NothingOutlivesConnection,
             MeasurementUnderWay, MeasurementIsOfItsRevolution, RxIdle, HostIdle

\* A step that sends is a revolution's; a step that lowers the count a peer's.
LEMMA CscNextKeeps ==
    ASSUME CscIInv, [CscNext]_csc_vars
    PROVE  /\ CscIInv'
           /\ sent' # sent =>
                /\ sent'.time_us - sent.time_us >= NOTIFY_INTERVAL_US
                /\ sent'.time_us \in Nat /\ sent.time_us \in Nat
                /\ sent'.event_time = event_time_1024(sent'.time_us)
           /\ state'.revolutions < state.revolutions =>
                host.pc = "apply" /\ host.request.op = "set"
  <1>1. state.revolutions \in Int
    <2>1. MAX_REVOLUTIONS \in Nat
      BY MeasurementAssumption
    <2> QED BY <2>1 DEF CscIInv, CscTypeOK, WheelState
  <1>2. ASSUME NEW gap \in TurnTimes, OnWheelRevolution(gap)
        PROVE  CscIInv' /\ sent' = sent /\ ~(state'.revolutions < state.revolutions)
    <2>1. CscIInv' /\ sent' = sent /\ state.revolutions <= state'.revolutions
      BY <1>2, OnWheelRevolutionKeeps
    <2>2. state'.revolutions \in Int
      <3>1. MAX_REVOLUTIONS \in Nat
        BY MeasurementAssumption
      <3> QED BY <2>1, <3>1 DEF CscIInv, CscTypeOK, WheelState
    <2> QED BY <1>1, <2>1, <2>2
  <1>3. CASE Snapshot
    BY <1>1, <1>3, SnapshotKeeps
  <1>4. CASE Send
    BY <1>1, <1>4, SendKeeps
  <1>5. CASE AccessCallback
    BY <1>1, <1>5, AccessCallbackKeeps DEF report_vars
  <1>6. CASE Peer \/ OnSync
    BY <1>1, <1>6, PeerKeeps DEF report_vars
  <1>7. CASE UNCHANGED csc_vars
    <2>1. UNCHANGED <<report_vars, state, host>>
          /\ CscTypeOK' /\ CountIsTrue'
          /\ MeasurementUnderWay' /\ MeasurementIsOfItsRevolution'
      BY <1>7, HostKeepsMeasurements
      DEF csc_vars, service_vars, host_vars, report_vars, history, CscIInv, CscTypeOK
    <2>2. WriterIsConnected' /\ NothingOutlivesConnection'
      BY <1>7 DEF csc_vars, service_vars, host_vars, peer_vars, CscIInv,
                  WriterIsConnected, NothingOutlivesConnection
    <2> QED BY <1>1, <2>1, <2>2 DEF CscIInv, report_vars
  <1> QED BY <1>2, <1>3, <1>4, <1>5, <1>6, <1>7 DEF CscNext, ReceiveTask

\* The inductive invariant holds in every run of the service.
THEOREM CscInvariance == CscSpec => []CscIInv
  <1>1. CscIInv /\ [CscNext]_csc_vars => CscIInv'
    BY CscNextKeeps
  <1> QED BY <1>1, CscInitEstablishes, PTL DEF CscSpec

\* Connections: nothing of a connection outlives it, however connections,
\* subscriptions, writes and their failures follow each other.
THEOREM NothingIsLeftBehind == CscSpec => []NothingOutlivesConnection
  <1>1. CscIInv => NothingOutlivesConnection
    BY DEF CscIInv
  <1> QED BY <1>1, CscInvariance, PTL

\* A measurement that is sent has count and event time of its revolution,
\* whatever the host task does between the revolution and the notification,
\* but for a Set Cumulative, whose value it then has as its count.
THEOREM MeasurementsAreWhole == CscSpec => []MeasurementIsOfItsRevolution
  <1>1. CscIInv => MeasurementIsOfItsRevolution
    BY DEF CscIInv
  <1> QED BY <1>1, CscInvariance, PTL

\* Two notifications are a notification interval apart.
THEOREM NotificationsKeepTheirDistance == CscSpec => NotificationsSpaced
  <1>1. CscIInv /\ [CscNext]_csc_vars =>
          [sent' # sent => sent'.time_us - sent.time_us >= NOTIFY_INTERVAL_US]_csc_vars
    BY CscNextKeeps
  <1> QED BY <1>1, CscInvariance, PTL DEF CscSpec, NotificationsSpaced

\* A collector gets the true time between two notifications to a tick, for
\* every clock rate, tick rate and roll-over period.
THEOREM CollectorsSeeElapsedTime == CscSpec => CollectorSeesElapsedTime
  <1> DEFINE Elapsed == sent'.time_us - sent.time_us
             Fits == sent.any /\ sent' # sent /\ Elapsed < ROLLOVER_S * SECOND =>
                       (sent'.event_time - sent.event_time
                          - ((Elapsed * EVENT_TICKS) \div SECOND)) % EVENT_TIMES
                              \in {0, 1}
  <1>1. ASSUME CscIInv, [CscNext]_csc_vars, sent.any, sent' # sent
        PROVE  (sent'.event_time - sent.event_time
                  - ((Elapsed * EVENT_TICKS) \div SECOND)) % EVENT_TIMES \in {0, 1}
    <2>1. /\ sent'.time_us - sent.time_us >= NOTIFY_INTERVAL_US
          /\ sent'.time_us \in Nat /\ sent.time_us \in Nat
          /\ sent'.event_time = event_time_1024(sent'.time_us)
      BY <1>1, CscNextKeeps
    <2>2. sent.event_time = event_time_1024(sent.time_us)
      BY <1>1 DEF CscIInv, MeasurementIsOfItsRevolution
    <2>3. sent.time_us <= sent'.time_us
      BY <2>1, ServiceAssumption
    <2>4. (event_time_1024(sent'.time_us) - event_time_1024(sent.time_us)
             - Ticks(sent'.time_us - sent.time_us)) % EVENT_TIMES \in {0, 1}
      BY <2>1, <2>3, CollectorSubtracts
    <2> QED BY <2>1, <2>2, <2>4 DEF Ticks
  <1>2. CscIInv /\ [CscNext]_csc_vars => [Fits]_csc_vars
    BY <1>1
  <1> HIDE DEF Fits
  <1>3. CscSpec => [][Fits]_csc_vars
    BY <1>2, CscInvariance, PTL DEF CscSpec
  <1> QED BY <1>3 DEF Fits, CollectorSeesElapsedTime

\* The count never falls but by a write of the peer: it does not wrap.
THEOREM CountNeverWraps == CscSpec => CountOnlyResetByPeer
  <1>1. CscIInv /\ [CscNext]_csc_vars =>
          [state'.revolutions < state.revolutions =>
             host.pc = "apply" /\ host.request.op = "set"]_csc_vars
    BY CscNextKeeps
  <1> QED BY <1>1, CscInvariance, PTL DEF CscSpec, CountOnlyResetByPeer
=============================================================================
