--------------------------- MODULE ReceiverProofs ---------------------------
(***************************************************************************)
(* The receiver and the publisher of its results.                          *)
(*                                                                         *)
(* The receiver is proved for every queue length, every set of captures    *)
(* and every latency.  The task arms the channel with an empty queue and   *)
(* no notification, and leaves its wait only by taking the one that the    *)
(* handler gives when it has sent everything: so they take turns.  With    *)
(* that, the events in the queue during a capture are at most those the    *)
(* handler has sent of this capture.  Rounding makes a capture longer by   *)
(* at most one time unit for each symbol, which the silence at its end     *)
(* covers: so the timestamps go up from one capture to the next, and the   *)
(* receiver implements SpokePipeline.                                      *)
(*                                                                         *)
(* The publisher is proved for every number of blockages, of restarts and  *)
(* of failed transfers.  Its inductive invariant follows a telemetry       *)
(* through the transmit buffer: while send_frame writes the buffer, no     *)
(* frame waits in it, and a waiting frame is newer than all on the bus.    *)
(***************************************************************************)
EXTENDS RmtReceiver, CanTelemetry, SpokePipelineProofs, FoldLemmas,
        SequenceTheorems

-----------------------------------------------------------------------------
(* Handler and task.                                                       *)


(* Whose turn it is, at every place of the task. *)
Turns ==
    /\ pc \in {"receive", "wait", "report", "drain"}
    /\ isr = [active |-> isr.active, phases |-> isr.phases, size |-> isr.size]
    /\ armed \in BOOLEAN /\ isr.active \in BOOLEAN /\ notified \in {0, 1}
    /\ pc # "wait" => ~armed /\ ~isr.active /\ notified = 0
    /\ pc = "receive" => event_queue = <<>>
    /\ armed => ~isr.active /\ notified = 0 /\ event_queue = <<>>
    /\ isr.active => notified = 0

\* Every step of the receiver keeps the turns.
LEMMA TurnsStep == Turns /\ [RxNext]_all_vars => Turns'
  <1> SUFFICES ASSUME Turns, [RxNext]_all_vars PROVE Turns'
    OBVIOUS
  <1> USE DEF Turns
  <1>1. ASSUME NEW symbols, NEW latency, CaptureDone(symbols, latency) PROVE Turns'
    <2>1. armed /\ armed' = FALSE /\ UNCHANGED <<event_queue, notified, pc>>
      BY <1>1 DEF CaptureDone
    <2>2. PICK found, size : isr' = [active |-> TRUE, phases |-> found, size |-> size]
      BY <1>1 DEF CaptureDone
    <2>3. isr' = [active |-> isr'.active, phases |-> isr'.phases, size |-> isr'.size] /\ isr'.active
      BY <2>2
    <2> QED BY <2>1, <2>3
  <1>2. CASE IsrSend
    <2>1. /\ isr.active /\ UNCHANGED <<armed, notified, pc>>
          /\ isr' = [isr EXCEPT !.phases = Tail(@)]
      BY <1>2 DEF IsrSend
    <2>2. isr' = [active |-> isr.active, phases |-> Tail(isr.phases), size |-> isr.size]
      BY <2>1
    <2> QED BY <2>1, <2>2
  <1>3. CASE IsrNotify
    BY <1>3 DEF IsrNotify, Idle
  <1>4. CASE Arm
    BY <1>4 DEF Arm
  <1>5. CASE TakeNotification
    BY <1>5 DEF TakeNotification
  <1>6. CASE ReportDrops
    BY <1>6 DEF ReportDrops
  <1>7. CASE HandleEvent
    BY <1>7 DEF HandleEvent
  <1>8. CASE QueueDrained
    BY <1>8 DEF QueueDrained
  <1>9. CASE UNCHANGED all_vars
    BY <1>9 DEF all_vars, rx_vars
  <1> QED BY <1>1, <1>2, <1>3, <1>4, <1>5, <1>6, <1>7, <1>8, <1>9
          DEF RxNext, Capture, Isr, Task

\* Handler and task take turns in every run.
LEMMA TurnsAlways == RxSpec => []Turns
  <1>1. ASSUME RxInit PROVE Turns
    <2>1. /\ pc = "receive" /\ armed = FALSE /\ notified = 0 /\ event_queue = <<>>
          /\ isr = [active |-> FALSE, phases |-> <<>>, size |-> 0]
      BY <1>1 DEF RxInit, Idle
    <2> QED BY <2>1 DEF Turns
  <1> QED BY <1>1, TurnsStep, PTL DEF RxSpec

(* ir_spoke_rmt_adapter.c: rx_done and the task never work on a capture,   *)
(* the queue or the receive buffer at the same time.                       *)
THEOREM HandlerAndTaskTakeTurns == RxSpec => []OneCaptureAtATime
  <1>1. Turns => OneCaptureAtATime
    BY DEF Turns, OneCaptureAtATime
  <1> QED BY <1>1, TurnsAlways, PTL

-----------------------------------------------------------------------------
(* The sums over a capture.                                                *)

\* A quotient of natural numbers is one, and stays below the next multiple.
LEMMA Quotient ==
    ASSUME NEW a \in Nat, NEW b \in Nat \ {0}
    PROVE  /\ a \div b \in Nat
           /\ b * (a \div b) <= a /\ a < b * (a \div b) + b
  <1> DEFINE q == a \div b
             r == a % b
  <1>1. q \in Int /\ r \in 0 .. b - 1 /\ a = b * q + r
    BY SMT
  <1> HIDE DEF q, r
  <1>2. ASSUME q < 0 PROVE FALSE
    <2>1. b * q <= -b
      BY <1>1, <1>2, SMT
    <2> QED BY <1>1, <2>1
  <1>3. b * q \in Int
    BY <1>1
  <1>4. b * q <= a /\ a < b * q + b
    BY <1>1, <1>3
  <1> QED BY <1>1, <1>2, <1>4 DEF q

\* What a capture is made of, and what the handler makes of it.
Symbols == [level0 : {0, 1}, duration0 : Nat, level1 : {0, 1}, duration1 : Nat]
BlockageEvents == [timestamp_us : Nat, duration_us : Nat]

\* The terms of the two sums, and the sum of the ticks.
SymbolLengths(symbols) == [i \in DOMAIN symbols |-> SymbolUs(symbols[i])]
SymbolTicks(symbols) == [i \in DOMAIN symbols |-> symbols[i].duration0 + symbols[i].duration1]
TicksOf(symbols, n) == SumFunctionOnSet(SymbolTicks(symbols), 1 .. n)

\* Rounding adds at most half a time unit to a phase.
LEMMA RoundedPhase ==
    ASSUME NEW ticks \in Nat
    PROVE  /\ ticks_to_us(ticks) \in Nat
           /\ 2 * (RESOLUTION_HZ * ticks_to_us(ticks)) <= 2 * (ticks * MICROS) + RESOLUTION_HZ
  <1> DEFINE R == RESOLUTION_HZ
             x == ticks * MICROS
             h == R \div 2
  <1>1. R \in Nat \ {0} /\ x \in Nat
    <2>1. \A a, b \in Nat : a * b \in Nat
      BY SMT
    <2> QED BY <2>1, ReceiverAssumption
  <1>2. h \in Nat /\ 2 * h <= R
    BY <1>1
  <1> HIDE DEF h, x
  <1>3. x + h \in Nat
    BY <1>1, <1>2
  <1> DEFINE q == (x + h) \div R
  <1>4. q \in Nat /\ R * q <= x + h
    BY <1>1, <1>3, Quotient
  <1>5. ticks_to_us(ticks) = q
    BY DEF ticks_to_us, x, h
  <1> HIDE DEF q, R
  <1>6. R * q \in Nat
    BY <1>1, <1>4
  <1> DEFINE y == R * q
  <1>7. 2 * y <= 2 * x + R
    <2>1. y \in Nat /\ y <= x + h
      BY <1>4, <1>6
    <2> HIDE DEF y
    <2> QED BY <1>1, <1>2, <2>1
  <1> QED BY <1>4, <1>5, <1>7 DEF x, R

\* So it adds at most one time unit to a symbol.
LEMMA SymbolIsRounded ==
    ASSUME NEW s \in Symbols
    PROVE  /\ ticks_to_us(s.duration0) \in Nat /\ ticks_to_us(s.duration1) \in Nat
           /\ SymbolUs(s) = ticks_to_us(s.duration0) + ticks_to_us(s.duration1)
           /\ SymbolUs(s) \in Nat
           /\ s.duration0 + s.duration1 \in Nat
           /\ RESOLUTION_HZ * SymbolUs(s)
                <= (s.duration0 + s.duration1) * MICROS + RESOLUTION_HZ
  <1> DEFINE R == RESOLUTION_HZ
             M == MICROS
             a == ticks_to_us(s.duration0)
             b == ticks_to_us(s.duration1)
             c == s.duration0
             d == s.duration1
  <1>1. /\ c \in Nat /\ d \in Nat /\ R \in Nat \ {0} /\ M \in Nat
    BY ReceiverAssumption DEF Symbols
  <1>2. /\ a \in Nat /\ b \in Nat
        /\ 2 * (R * a) <= 2 * (c * M) + R /\ 2 * (R * b) <= 2 * (d * M) + R
    BY <1>1, RoundedPhase
  <1>3. SymbolUs(s) = a + b
    BY DEF SymbolUs
  <1> HIDE DEF R, M, a, b, c, d
  <1>4. R * a \in Nat /\ R * b \in Nat /\ c * M \in Nat /\ d * M \in Nat
    BY <1>1, <1>2
  <1>5. R * (a + b) = R * a + R * b /\ (c + d) * M = c * M + d * M
    BY <1>1, <1>2
  <1>6. R * (a + b) <= (c + d) * M + R
    <2> DEFINE u == R * a
               v == R * b
               w == c * M
               z == d * M
    <2>1. u \in Nat /\ v \in Nat /\ w \in Nat /\ z \in Nat
          /\ 2 * u <= 2 * w + R /\ 2 * v <= 2 * z + R
      BY <1>2, <1>4
    <2> HIDE DEF u, v, w, z
    <2>2. u + v <= w + z + R
      BY <1>1, <2>1
    <2> QED BY <1>5, <2>2 DEF u, v, w, z
  <1>7. a + b \in Nat /\ c + d \in Nat
    BY <1>1, <1>2
  <1> QED BY <1>2, <1>3, <1>6, <1>7 DEF R, M, a, b, c, d

\* What a capture's sums grow by.
LEMMA CaptureGrows ==
    ASSUME NEW symbols \in Seq(Symbols), NEW k \in Nat, k < Len(symbols)
    PROVE  /\ k + 1 \in DOMAIN symbols /\ symbols[k + 1] \in Symbols
           /\ CapturedUs(symbols, k) \in Nat /\ TicksOf(symbols, k) \in Nat
           /\ CapturedUs(symbols, k + 1) = CapturedUs(symbols, k) + SymbolUs(symbols[k + 1])
           /\ TicksOf(symbols, k + 1) = TicksOf(symbols, k)
                + (symbols[k + 1].duration0 + symbols[k + 1].duration1)
  <1> DEFINE n == Len(symbols)
             us == SymbolLengths(symbols)
             ticks == SymbolTicks(symbols)
  <1>1. /\ n \in Nat /\ DOMAIN symbols = 1 .. n
        /\ \A i \in 1 .. n : symbols[i] \in Symbols
    OBVIOUS
  <1>2. /\ \A i \in 1 .. n : us[i] = SymbolUs(symbols[i]) /\ us[i] \in Nat
        /\ \A i \in 1 .. n : /\ ticks[i] = symbols[i].duration0 + symbols[i].duration1
                             /\ ticks[i] \in Nat
    BY <1>1, SymbolIsRounded DEF SymbolLengths, SymbolTicks
  <1>3. k + 1 \in 1 .. n
    BY <1>1
  <1> HIDE DEF us, ticks
  <1>4. /\ SumFunctionOnSet(us, 1 .. k + 1) = SumFunctionOnSet(us, 1 .. k) + us[k + 1]
        /\ SumFunctionOnSet(ticks, 1 .. k + 1) = SumFunctionOnSet(ticks, 1 .. k) + ticks[k + 1]
    BY <1>1, <1>2, SumGrows
  <1>5. SumFunctionOnSet(us, 1 .. k) \in Nat /\ SumFunctionOnSet(ticks, 1 .. k) \in Nat
    <2>1. \A i \in 1 .. k : us[i] \in Nat /\ ticks[i] \in Nat
      BY <1>1, <1>2
    <2>2. IsFiniteSet(1 .. k)
      BY FS_Interval
    <2> QED BY <2>1, <2>2, SumIsNatural
  <1>6. \A j \in Nat : /\ CapturedUs(symbols, j) = SumFunctionOnSet(us, 1 .. j)
                       /\ TicksOf(symbols, j) = SumFunctionOnSet(ticks, 1 .. j)
    BY DEF CapturedUs, TicksOf, us, ticks, SymbolLengths
  <1> QED BY <1>1, <1>2, <1>3, <1>4, <1>5, <1>6

\* Rounding makes a capture at most one time unit longer for each symbol.
LEMMA CaptureIsRounded ==
    ASSUME NEW symbols \in Seq(Symbols)
    PROVE  /\ \A k \in 0 .. Len(symbols) : CapturedUs(symbols, k) \in Nat
           /\ CapturedUs(symbols, 0) = 0
           /\ ElapsedUs(symbols) \in Nat
           /\ CapturedUs(symbols, Len(symbols)) <= ElapsedUs(symbols) + Len(symbols)
  <1> DEFINE R == RESOLUTION_HZ
             M == MICROS
             n == Len(symbols)
             us(k) == CapturedUs(symbols, k)
             ticks(k) == TicksOf(symbols, k)
             P == {k \in 0 .. n : /\ us(k) \in Nat /\ ticks(k) \in Nat
                                  /\ R * us(k) <= ticks(k) * M + k * R}
  <1>1. n \in Nat /\ DOMAIN symbols = 1 .. n /\ R \in Nat \ {0} /\ M \in Nat \ {0}
    BY ReceiverAssumption
  <1>2. us(0) = 0 /\ ticks(0) = 0
    <2>1. 1 .. 0 = {}
      OBVIOUS
    <2> QED BY <2>1, SumOfNone DEF CapturedUs, TicksOf
  <1>3. 0 \in P
    <2> HIDE DEF us, ticks, R, M
    <2>1. R * 0 = 0 /\ 0 * M = 0 /\ 0 * R = 0
      BY <1>1
    <2> QED BY <1>1, <1>2, <2>1
  <1>4. ASSUME NEW k \in 0 .. n - 1, k \in P
        PROVE  k + 1 \in P
    <2> DEFINE s == symbols[k + 1]
               u == us(k)
               t == ticks(k)
               a == SymbolUs(s)
               b == s.duration0 + s.duration1
    <2>1. k \in Nat /\ k < n
      BY <1>1
    <2>2. s \in Symbols /\ us(k + 1) = u + a /\ ticks(k + 1) = t + b
      BY <2>1, CaptureGrows
    <2>3. a \in Nat /\ b \in Nat /\ R * a <= b * M + R
      BY <2>2, SymbolIsRounded
    <2>4. u \in Nat /\ t \in Nat /\ R * u <= t * M + k * R
      BY <1>4
    <2> HIDE DEF us, ticks, R, M, s, u, t, a, b
    <2>5. /\ R * (u + a) = R * u + R * a /\ (t + b) * M = t * M + b * M
          /\ (k + 1) * R = k * R + R
          /\ R * u \in Nat /\ R * a \in Nat /\ t * M \in Nat /\ b * M \in Nat /\ k * R \in Nat
      BY <1>1, <2>1, <2>3, <2>4
    <2>6. R * (u + a) <= (t + b) * M + (k + 1) * R
      <3> DEFINE x == R * u
                 y == R * a
                 z == t * M
                 w == b * M
                 v == k * R
      <3>1. /\ x \in Nat /\ y \in Nat /\ z \in Nat /\ w \in Nat /\ v \in Nat
            /\ x <= z + v /\ y <= w + R
        BY <2>3, <2>4, <2>5
      <3> HIDE DEF x, y, z, w, v
      <3>2. x + y <= (z + w) + (v + R)
        BY <1>1, <3>1
      <3> QED BY <2>5, <3>2 DEF x, y, z, w, v
    <2> QED BY <1>1, <2>1, <2>2, <2>3, <2>4, <2>6
  <1>5. 0 .. n \subseteq P
    <2> HIDE DEF P
    <2>1. 0 \in Int /\ n \in Int /\ \A k \in 0 .. n - 1 : k \in P => k + 1 \in P
      BY <1>1, <1>4
    <2> QED BY <1>3, <2>1, EveryIndex
  <1> DEFINE t == ticks(n)
             c == us(n)
             x == t * M
             e == x \div R
  <1>6. t \in Nat /\ c \in Nat /\ R * c <= x + n * R /\ n \in 0 .. n
    BY <1>1, <1>5
  <1>7. ElapsedUs(symbols) = e
    BY <1>1 DEF ElapsedUs, TicksOf, SymbolTicks, SumFunction
  <1>8. \A k \in 0 .. n : us(k) \in Nat
    BY <1>5
  <1> HIDE DEF us, ticks, t, c, R, M, P
  <1>9. x \in Nat
    BY <1>1, <1>6
  <1> HIDE DEF x
  <1>10. e \in Nat /\ x < R * e + R
    BY <1>1, <1>9, Quotient
  <1> HIDE DEF e
  <1>11. c <= e + n
    <2>1. R * c < R * e + R + n * R
      <3> DEFINE u == R * c
                 v == R * e
                 w == n * R
      <3>1. u \in Nat /\ v \in Nat /\ w \in Nat /\ u <= x + w /\ x < v + R
        BY <1>1, <1>6, <1>10
      <3> HIDE DEF u, v, w
      <3>2. u < v + R + w
        BY <1>1, <1>9, <3>1
      <3> QED BY <3>2 DEF u, v, w
    <2>2. R * e + R + n * R = R * (e + n + 1)
      BY <1>1, <1>6, <1>10
    <2>3. \A a, b \in Nat : R * a < R * b => a < b
      BY <1>1, SMT
    <2>4. e + n + 1 \in Nat
      BY <1>1, <1>10
    <2>5. c < e + n + 1
      BY <1>6, <2>1, <2>2, <2>3, <2>4
    <2> QED BY <1>1, <1>6, <1>10, <2>5
  <1> QED BY <1>2, <1>7, <1>8, <1>10, <1>11 DEF us, c

-----------------------------------------------------------------------------
(* The blockages of a capture.                                             *)

\* Events in the order of their timestamps, from one time to another.
Within(events, low, high) ==
    /\ events \in Seq(BlockageEvents)
    /\ \A k \in 1 .. Len(events) : /\ low <= events[k].timestamp_us
                                   /\ events[k].timestamp_us < high
    /\ \A k, l \in 1 .. Len(events) : k < l => events[k].timestamp_us < events[l].timestamp_us

\* One stretch of time after another.
LEMMA WithinConcat ==
    ASSUME NEW a, NEW b, NEW low \in Nat, NEW middle \in Nat, NEW high \in Nat,
           low <= middle, middle <= high,
           Within(a, low, middle), Within(b, middle, high)
    PROVE  Within(a \o b, low, high) /\ Len(a \o b) = Len(a) + Len(b)
  <1> DEFINE c == a \o b
             m == Len(a)
             n == Len(b)
  <1>1. a \in Seq(BlockageEvents) /\ b \in Seq(BlockageEvents)
    BY DEF Within
  <1>2. m \in Nat /\ n \in Nat /\ c \in Seq(BlockageEvents) /\ Len(c) = m + n
    BY <1>1, ConcatProperties
  <1>3. \A i \in 1 .. m + n : c[i] = IF i <= m THEN a[i] ELSE b[i - m]
    BY <1>1, ConcatProperties
  <1>4. /\ \A i \in 1 .. m : /\ a[i].timestamp_us \in Nat
                             /\ low <= a[i].timestamp_us /\ a[i].timestamp_us < middle
        /\ \A i \in 1 .. n : /\ b[i].timestamp_us \in Nat
                             /\ middle <= b[i].timestamp_us /\ b[i].timestamp_us < high
    <2>1. /\ \A i \in 1 .. m : a[i] \in BlockageEvents
          /\ \A i \in 1 .. n : b[i] \in BlockageEvents
      BY <1>1
    <2>2. \A e \in BlockageEvents : e.timestamp_us \in Nat
      BY DEF BlockageEvents
    <2> QED BY <2>1, <2>2 DEF Within
  <1>5. /\ \A i, j \in 1 .. m : i < j => a[i].timestamp_us < a[j].timestamp_us
        /\ \A i, j \in 1 .. n : i < j => b[i].timestamp_us < b[j].timestamp_us
    BY DEF Within
  <1> HIDE DEF c, m, n
  <1>6. ASSUME NEW k \in 1 .. m + n
        PROVE  \/ k \in 1 .. m /\ c[k] = a[k]
               \/ k \notin 1 .. m /\ k - m \in 1 .. n /\ c[k] = b[k - m]
    BY <1>2, <1>3
  <1>7. ASSUME NEW k \in 1 .. m + n
        PROVE  low <= c[k].timestamp_us /\ c[k].timestamp_us < high
    <2>1. CASE k \in 1 .. m /\ c[k] = a[k]
      <3>1. /\ a[k].timestamp_us \in Nat
            /\ low <= a[k].timestamp_us /\ a[k].timestamp_us < middle
        BY <1>4, <2>1
      <3> QED BY <2>1, <3>1
    <2>2. CASE k - m \in 1 .. n /\ c[k] = b[k - m]
      <3>1. /\ b[k - m].timestamp_us \in Nat
            /\ middle <= b[k - m].timestamp_us /\ b[k - m].timestamp_us < high
        BY <1>4, <2>2
      <3> QED BY <2>2, <3>1
    <2> QED BY <1>6, <2>1, <2>2
  <1>8. ASSUME NEW k \in 1 .. m + n, NEW l \in 1 .. m + n, k < l
        PROVE  c[k].timestamp_us < c[l].timestamp_us
    <2>1. CASE k \in 1 .. m /\ c[k] = a[k] /\ l \in 1 .. m /\ c[l] = a[l]
      BY <1>5, <1>8, <2>1
    <2>2. CASE k \in 1 .. m /\ c[k] = a[k] /\ l - m \in 1 .. n /\ c[l] = b[l - m]
      <3>1. /\ a[k].timestamp_us \in Nat /\ a[k].timestamp_us < middle
            /\ b[l - m].timestamp_us \in Nat /\ middle <= b[l - m].timestamp_us
        BY <1>4, <2>2
      <3> QED BY <2>2, <3>1
    <2>3. CASE k \notin 1 .. m /\ k - m \in 1 .. n /\ c[k] = b[k - m]
               /\ l - m \in 1 .. n /\ c[l] = b[l - m]
      <3>1. k - m < l - m
        BY <1>2, <1>8
      <3> QED BY <1>5, <2>3, <3>1
    <2>4. CASE k \notin 1 .. m /\ l \in 1 .. m
      BY <1>2, <1>8, <2>4
    <2>5. \/ k \in 1 .. m /\ c[k] = a[k]
          \/ k \notin 1 .. m /\ k - m \in 1 .. n /\ c[k] = b[k - m]
      BY <1>6
    <2>6. \/ l \in 1 .. m /\ c[l] = a[l]
          \/ l \notin 1 .. m /\ l - m \in 1 .. n /\ c[l] = b[l - m]
      BY <1>6
    <2> QED BY <2>1, <2>2, <2>3, <2>4, <2>5, <2>6
  <1>9. Within(c, low, high)
    BY <1>2, <1>7, <1>8 DEF Within
  <1> QED BY <1>2, <1>9 DEF c, m, n

\* A phase gives at most one event, at its beginning.
LEMMA BlockageWithin ==
    ASSUME NEW level, NEW start \in Nat, NEW duration \in Nat
    PROVE  /\ Within(Blockage(level, start, duration), start, start + duration)
           /\ Len(Blockage(level, start, duration)) \in 0 .. 1
  <1> DEFINE e == [timestamp_us |-> start, duration_us |-> duration]
             none == <<>>
             one == <<e>>
  <1>1. CASE level = 1 \/ duration = 0
    <2>1. Blockage(level, start, duration) = none
      BY <1>1 DEF Blockage
    <2>2. none \in Seq(BlockageEvents) /\ Len(none) = 0 /\ 1 .. 0 = {}
      OBVIOUS
    <2> QED BY <2>1, <2>2 DEF Within
  <1>2. CASE ~(level = 1 \/ duration = 0)
    <2>1. Blockage(level, start, duration) = one
      BY <1>2 DEF Blockage
    <2>2. e \in BlockageEvents /\ e.timestamp_us = start
      BY DEF BlockageEvents
    <2> HIDE DEF e
    <2>3. /\ one \in Seq(BlockageEvents) /\ Len(one) = 1 /\ one[1] = e
          /\ \A k \in 1 .. 1 : k = 1
      BY <2>2
    <2> HIDE DEF one
    <2>4. start < start + duration
      BY <1>2
    <2>5. Within(one, start, start + duration)
      BY <2>2, <2>3, <2>4 DEF Within
    <2> QED BY <2>1, <2>3, <2>5
  <1> QED BY <1>1, <1>2

\* A symbol gives its blockages within its length.
LEMMA SymbolWithin ==
    ASSUME NEW s \in Symbols, NEW cursor \in Nat
    PROVE  /\ Within(SymbolBlockages(s, cursor), cursor, cursor + SymbolUs(s))
           /\ Len(SymbolBlockages(s, cursor)) \in 0 .. 2
  <1> DEFINE u == ticks_to_us(s.duration0)
             v == ticks_to_us(s.duration1)
             a == Blockage(s.level0, cursor, u)
             b == Blockage(s.level1, cursor + u, v)
  <1>1. u \in Nat /\ v \in Nat /\ SymbolUs(s) = u + v
    BY SymbolIsRounded
  <1>2. SymbolBlockages(s, cursor) = a \o b
    BY DEF SymbolBlockages
  <1> HIDE DEF u, v
  <1>3. /\ cursor + u \in Nat /\ cursor + u + v \in Nat
        /\ cursor <= cursor + u /\ cursor + u <= cursor + u + v
        /\ cursor + (u + v) = cursor + u + v
    BY <1>1
  <1>4. /\ Within(a, cursor, cursor + u) /\ Within(b, cursor + u, cursor + u + v)
        /\ Len(a) \in 0 .. 1 /\ Len(b) \in 0 .. 1
    BY <1>1, <1>3, BlockageWithin
  <1> HIDE DEF a, b
  <1>5. Within(a \o b, cursor, cursor + u + v) /\ Len(a \o b) = Len(a) + Len(b)
    BY <1>3, <1>4, WithinConcat
  <1> QED BY <1>1, <1>2, <1>3, <1>4, <1>5

\* The handler finds the blockages of a capture in the order of time.
LEMMA BlockagesWithin ==
    ASSUME NEW symbols \in Seq(Symbols), NEW end \in Nat
    PROVE  LET start == StartUs(symbols, end)
               us    == CapturedUs(symbols, Len(symbols))
           IN  /\ start \in Nat /\ us \in Nat
               /\ us < end => start + us = end
               /\ Within(Blockages(symbols, end), start, start + us)
               /\ Len(Blockages(symbols, end)) \in 0 .. 2 * Len(symbols)
  <1> DEFINE n == Len(symbols)
             start == StartUs(symbols, end)
             us(k) == CapturedUs(symbols, k)
             parts == [i \in DOMAIN symbols |-> SymbolBlockages(symbols[i], start + us(i - 1))]
             found == Blockages(symbols, end)
  <1>1. n \in Nat /\ DOMAIN symbols = 1 .. n /\ \A i \in 1 .. n : symbols[i] \in Symbols
    OBVIOUS
  <1>2. /\ \A k \in 0 .. n : us(k) \in Nat
        /\ us(0) = 0
    BY CaptureIsRounded
  <1>3. start \in Nat /\ (us(n) < end => start + us(n) = end)
    <2>1. us(n) \in Nat
      BY <1>1, <1>2
    <2>2. start = IF end > us(n) THEN end - us(n) ELSE 0
      BY DEF StartUs
    <2> HIDE DEF us, start
    <2> QED BY <2>1, <2>2
  <1>4. found = FlattenSeq(parts)
    BY DEF Blockages
  <1>5. \A k \in 0 .. n - 1 : us(k + 1) = us(k) + SymbolUs(symbols[k + 1])
    <2>1. \A k \in 0 .. n - 1 : k \in Nat /\ k < n
      BY <1>1
    <2> QED BY <2>1, CaptureGrows
  <1>6. ASSUME NEW i \in 1 .. n
        PROVE  /\ parts[i] = SymbolBlockages(symbols[i], start + us(i - 1))
               /\ us(i - 1) \in Nat /\ us(i) \in Nat /\ us(i - 1) <= us(i)
               /\ Within(parts[i], start + us(i - 1), start + us(i))
               /\ Len(parts[i]) \in 0 .. 2
    <2>1. i - 1 \in 0 .. n - 1 /\ i - 1 \in 0 .. n /\ i \in 0 .. n /\ (i - 1) + 1 = i
      BY <1>1
    <2>2. us(i) = us(i - 1) + SymbolUs(symbols[i]) /\ us(i - 1) \in Nat /\ us(i) \in Nat
      BY <1>2, <1>5, <2>1
    <2>3. SymbolUs(symbols[i]) \in Nat
      BY <1>1, SymbolIsRounded
    <2>4. parts[i] = SymbolBlockages(symbols[i], start + us(i - 1))
      BY <1>1
    <2> HIDE DEF us, start, parts
    <2>5. /\ start + us(i - 1) \in Nat
          /\ (start + us(i - 1)) + SymbolUs(symbols[i]) = start + us(i)
          /\ us(i - 1) <= us(i)
      BY <1>3, <2>2, <2>3
    <2>6. /\ Within(parts[i], start + us(i - 1), start + us(i))
          /\ Len(parts[i]) \in 0 .. 2
      BY <1>1, <2>4, <2>5, SymbolWithin
    <2> QED BY <2>2, <2>4, <2>5, <2>6
  <1>7. parts \in Seq(Seq(BlockageEvents)) /\ Len(parts) = n
    <2>1. \A i \in 1 .. n : parts[i] \in Seq(BlockageEvents)
      BY <1>6 DEF Within
    <2>2. parts = [i \in 1 .. n |-> parts[i]]
      BY <1>1
    <2> HIDE DEF parts
    <2>3. parts \in [1 .. n -> Seq(BlockageEvents)]
      BY <2>1, <2>2
    <2> QED BY <1>1, <2>3
  <1> HIDE DEF parts, us, start, found
  <1>8. CASE n = 0
    <2>1. parts = <<>> /\ found = <<>>
      BY <1>4, <1>7, <1>8 DEF FlattenSeq
    <2>2. us(n) = 0 /\ start + us(n) \in Nat
      BY <1>2, <1>3, <1>8
    <2>3. Within(found, start, start + us(n)) /\ Len(found) = 0
      BY <1>8, <2>1, <2>2 DEF Within
    <2> QED BY <1>3, <1>8, <2>2, <2>3 DEF start, us, found
  <1>9. CASE n # 0
    <2>1. n > 0 /\ parts # <<>>
      BY <1>1, <1>7, <1>9
    <2>2. PICK f \in [1 .. n -> Seq(BlockageEvents)] :
            Flattens(f, parts) /\ FlattenSeq(parts) = f[n]
      BY <1>7, <2>1, FlattenAppends
    <2> DEFINE P == {i \in 1 .. n : /\ Within(f[i], start, start + us(i))
                                    /\ Len(f[i]) \in 0 .. 2 * i}
    <2>3. 1 \in P
      <3>1. 1 \in 1 .. n /\ f[1] = parts[1] /\ 1 - 1 = 0 /\ start + us(0) = start
        BY <1>2, <1>3, <1>7, <2>1, <2>2 DEF Flattens
      <3>2. Within(parts[1], start + us(0), start + us(1)) /\ Len(parts[1]) \in 0 .. 2
        BY <1>6, <3>1
      <3>3. Within(f[1], start, start + us(1))
        BY <3>1, <3>2, Zenon
      <3>4. Len(f[1]) \in 0 .. 2 * 1
        <4> DEFINE a == Len(f[1])
        <4>1. a \in 0 .. 2
          BY <3>1, <3>2
        <4> HIDE DEF a
        <4>2. a \in 0 .. 2 * 1
          BY <4>1
        <4> QED BY <4>2 DEF a
      <3> QED BY <3>1, <3>3, <3>4, Zenon
    <2>4. ASSUME NEW i \in 1 .. n - 1, i \in P
          PROVE  i + 1 \in P
      <3> DEFINE j == i + 1
      <3>1. j \in 1 .. n /\ j \in 2 .. n /\ j - 1 = i /\ i \in 1 .. n
        BY <1>1
      <3>2. f[j] = f[i] \o parts[j]
        BY <1>7, <2>2, <3>1 DEF Flattens
      <3>3. /\ us(i) \in Nat /\ us(j) \in Nat /\ us(i) <= us(j)
            /\ Within(parts[j], start + us(i), start + us(j))
            /\ Len(parts[j]) \in 0 .. 2
        BY <1>6, <3>1
      <3>4. /\ Within(f[i], start, start + us(i)) /\ Len(f[i]) \in 0 .. 2 * i
        BY <2>4
      <3>5. /\ start + us(i) \in Nat /\ start + us(j) \in Nat
            /\ start <= start + us(i) /\ start + us(i) <= start + us(j)
        BY <1>3, <3>3
      <3> HIDE DEF j
      <3>6. /\ Within(f[i] \o parts[j], start, start + us(j))
            /\ Len(f[i] \o parts[j]) = Len(f[i]) + Len(parts[j])
        BY <1>3, <3>3, <3>4, <3>5, WithinConcat
      <3>7. Len(f[j]) \in 0 .. 2 * j
        <4> DEFINE a == Len(f[i])
                   b == Len(parts[j])
        <4>1. a \in 0 .. 2 * i /\ b \in 0 .. 2 /\ Len(f[j]) = a + b /\ j = i + 1 /\ i \in Nat
          BY <3>1, <3>2, <3>3, <3>4, <3>6 DEF j
        <4> HIDE DEF a, b
        <4> QED BY <4>1
      <3>8. j \in P
        BY <3>1, <3>2, <3>6, <3>7
      <3> QED BY <3>8 DEF j
    <2>5. n \in P
      <3> HIDE DEF P
      <3>1. /\ 1 \in Int /\ n \in Int /\ n \in 1 .. n
            /\ \A i \in 1 .. n - 1 : i \in P => i + 1 \in P
        BY <1>1, <2>1, <2>4
      <3> QED BY <2>3, <3>1, EveryIndex
    <2> QED BY <1>1, <1>2, <1>3, <1>4, <2>2, <2>5 DEF start, us, found
  <1> QED BY <1>8, <1>9

\* The captures are sequences of such symbols.
LEMMA CapturesAreSymbols == Captures \subseteq Seq(Symbols)
  BY ReceiverAssumption DEF Symbols

-----------------------------------------------------------------------------
(* Every blockage is counted.                                              *)

(* The counters, and the room a capture finds in the queue. *)
Counting ==
    /\ now \in Nat /\ rx_queue_drops \in Nat /\ produced \in Nat
    /\ detector \in [accepted : Nat, rejected_short : Nat, rejected_long : Nat]
    /\ event_queue \in Seq(BlockageEvents)
    /\ isr.phases \in Seq(BlockageEvents) /\ isr.size \in Nat
    /\ Len(isr.phases) <= isr.size
    /\ isr.active => Len(event_queue) <= isr.size - Len(isr.phases)
    /\ ~isr.active => isr.phases = <<>>
    /\ EveryBlockageCounted

(* The receive task hands one event on, and the detector counts it once. *)
LEMMA HandleCounts ==
    ASSUME Turns, Counting, HandleEvent
    PROVE  Counting'
  <1> DEFINE event == Head(event_queue)
             total == detector.accepted + detector.rejected_short + detector.rejected_long
  <1>1. /\ event_queue # <<>> /\ event_queue' = Tail(event_queue)
        /\ UNCHANGED <<now, isr, rx_queue_drops, produced>>
        /\ ~isr.active
    BY DEF HandleEvent, Turns
  <1>2. /\ event_queue' \in Seq(BlockageEvents)
        /\ Len(event_queue) \in Nat /\ Len(event_queue') = Len(event_queue) - 1
    BY <1>1 DEF Counting
  <1>3. /\ detector' \in [accepted : Nat, rejected_short : Nat, rejected_long : Nat]
        /\ total' = total + 1
    <2>1. detector \in [accepted : Nat, rejected_short : Nat, rejected_long : Nat]
      BY DEF Counting
    <2>2. \/ detector' = [detector EXCEPT !.accepted = @ + 1]
          \/ detector' = [detector EXCEPT !.rejected_short = @ + 1]
          \/ detector' = [detector EXCEPT !.rejected_long = @ + 1]
      BY DEF HandleEvent, AcceptedPulse, RejectedPulse
    <2> QED BY <2>1, <2>2
  <1>4. total \in Nat /\ produced \in Nat /\ rx_queue_drops \in Nat /\ Len(isr.phases) \in Nat
    BY DEF Counting
  <1>5. EveryBlockageCounted'
    BY <1>1, <1>2, <1>3, <1>4 DEF Counting, EveryBlockageCounted
  <1> QED BY <1>1, <1>2, <1>3, <1>5 DEF Counting

(* The blockages the detector has seen. *)
Handled == detector.accepted + detector.rejected_short + detector.rejected_long

(* An event that the handler sends is queued or counted as a drop. *)
LEMMA SendCounts ==
    ASSUME Turns, Counting, IsrSend
    PROVE  /\ Counting'
           /\ rx_queue_drops' # rx_queue_drops => isr.size - Len(isr.phases) >= QUEUE_LENGTH
  <1> DEFINE rest == Tail(isr.phases)
  <1>1. /\ isr.active /\ isr.phases # <<>>
        /\ isr' = [isr EXCEPT !.phases = rest]
        /\ UNCHANGED <<vars, now, produced>>
    BY DEF IsrSend
  <1>2. /\ isr'.active = isr.active /\ isr'.phases = rest /\ isr'.size = isr.size
    BY <1>1 DEF Turns
  <1>3. /\ rest \in Seq(BlockageEvents) /\ Head(isr.phases) \in BlockageEvents
        /\ Len(isr.phases) \in Nat /\ Len(rest) = Len(isr.phases) - 1
        /\ Len(event_queue) \in Nat
    BY <1>1 DEF Counting
  <1>4. /\ detector' = detector /\ Handled \in Nat /\ Handled' = Handled
        /\ produced = Handled + Len(event_queue) + rx_queue_drops + Len(isr.phases)
    BY <1>1 DEF Counting, vars, EveryBlockageCounted, Handled
  <1>5. /\ Len(isr.phases) \in Nat /\ Len(event_queue) \in Nat /\ Handled \in Nat
        /\ rx_queue_drops \in Nat
    BY <1>3, <1>4 DEF Counting
  <1>6. (produced' = Handled' + Len(event_queue') + rx_queue_drops' + Len(isr'.phases))
          => EveryBlockageCounted'
    BY DEF EveryBlockageCounted, Handled
  <1>7. /\ now' \in Nat /\ produced' \in Nat /\ isr'.size \in Nat
        /\ rx_queue_drops \in Nat /\ isr'.active
        /\ Len(isr'.phases) <= isr'.size /\ Len(isr.phases) \in Nat
        /\ Len(event_queue) <= isr'.size - (Len(isr'.phases) + 1)
        /\ detector' \in [accepted : Nat, rejected_short : Nat, rejected_long : Nat]
    <2>1. now' \in Nat /\ produced' \in Nat /\ rx_queue_drops \in Nat /\ isr'.size \in Nat
      BY <1>1, <1>2 DEF Counting
    <2>2. detector' \in [accepted : Nat, rejected_short : Nat, rejected_long : Nat]
      BY <1>4 DEF Counting
    <2>3. /\ isr.size \in Nat /\ Len(isr.phases) <= isr.size
          /\ Len(event_queue) <= isr.size - Len(isr.phases)
      BY <1>1 DEF Counting
    <2>4. Len(isr'.phases) = Len(isr.phases) - 1 /\ isr'.size = isr.size /\ isr'.active
      BY <1>1, <1>2, <1>3
    <2> QED BY <1>5, <2>1, <2>2, <2>3, <2>4
  <1> HIDE DEF rest
  <1>8. CASE Len(event_queue) < QUEUE_LENGTH
    <2>1. event_queue' = Append(event_queue, Head(isr.phases)) /\ rx_queue_drops' = rx_queue_drops
      BY <1>8 DEF IsrSend
    <2>2. event_queue' \in Seq(BlockageEvents) /\ Len(event_queue') = Len(event_queue) + 1
      BY <1>3, <2>1 DEF Counting
    <2>3. EveryBlockageCounted'
      <3>1. produced' = produced /\ rx_queue_drops \in Nat
        BY <1>1 DEF Counting
      <3>2. Len(event_queue') = Len(event_queue) + 1 /\ Len(isr'.phases) = Len(isr.phases) - 1
        BY <1>2, <1>3, <2>2
      <3>3. Handled + Len(event_queue) + rx_queue_drops + Len(isr.phases)
              = Handled + (Len(event_queue) + 1) + rx_queue_drops + (Len(isr.phases) - 1)
        <4> DEFINE n == Len(isr.phases)
                   q == Len(event_queue)
        <4>1. n \in Nat /\ q \in Nat /\ Handled \in Nat /\ rx_queue_drops \in Nat
          BY <1>5
        <4> HIDE DEF n, q
        <4>2. Handled + q + rx_queue_drops + n = Handled + (q + 1) + rx_queue_drops + (n - 1)
          BY <4>1
        <4> QED BY <4>2 DEF n, q
      <3>4. produced' = Handled' + Len(event_queue') + rx_queue_drops' + Len(isr'.phases)
        BY <1>4, <2>1, <3>1, <3>2, <3>3, Zenon
      <3> QED BY <1>6, <3>4
    <2>4. Counting'
      <3>1. rx_queue_drops' \in Nat /\ isr'.phases \in Seq(BlockageEvents)
        BY <1>2, <1>3, <1>7, <2>1
      <3>2. Len(event_queue') <= isr'.size - Len(isr'.phases)
        BY <1>2, <1>3, <1>7, <2>2
      <3> QED BY <1>7, <2>2, <2>3, <3>1, <3>2 DEF Counting
    <2> QED BY <2>1, <2>4
  <1>9. CASE ~(Len(event_queue) < QUEUE_LENGTH)
    <2>1. event_queue' = event_queue /\ rx_queue_drops' = rx_queue_drops + 1
      BY <1>9 DEF IsrSend
    <2>2. Len(event_queue) >= QUEUE_LENGTH
      BY <1>3, <1>9, ReceiverAssumption
    <2>3. EveryBlockageCounted'
      <3>1. produced' = produced /\ rx_queue_drops \in Nat
        BY <1>1 DEF Counting
      <3>2. Len(event_queue') = Len(event_queue) /\ Len(isr'.phases) = Len(isr.phases) - 1
        BY <1>2, <1>3, <2>1
      <3>3. Handled + Len(event_queue) + rx_queue_drops + Len(isr.phases)
              = Handled + Len(event_queue) + (rx_queue_drops + 1) + (Len(isr.phases) - 1)
        <4> DEFINE n == Len(isr.phases)
                   q == Len(event_queue)
        <4>1. n \in Nat /\ q \in Nat /\ Handled \in Nat /\ rx_queue_drops \in Nat
          BY <1>5
        <4> HIDE DEF n, q
        <4>2. Handled + q + rx_queue_drops + n = Handled + q + (rx_queue_drops + 1) + (n - 1)
          BY <4>1
        <4> QED BY <4>2 DEF n, q
      <3>4. produced' = Handled' + Len(event_queue') + rx_queue_drops' + Len(isr'.phases)
        BY <1>4, <2>1, <3>1, <3>2, <3>3, Zenon
      <3> QED BY <1>6, <3>4
    <2>4. isr.size - Len(isr.phases) >= QUEUE_LENGTH
      BY <1>1, <1>3, <2>2, ReceiverAssumption DEF Counting
    <2>5. Counting'
      <3>1. /\ rx_queue_drops' \in Nat /\ isr'.phases \in Seq(BlockageEvents)
            /\ event_queue' \in Seq(BlockageEvents)
        BY <1>2, <1>3, <1>7, <2>1 DEF Counting
      <3>2. Len(event_queue') <= isr'.size - Len(isr'.phases)
        BY <1>2, <1>3, <1>7, <2>1
      <3> QED BY <1>7, <2>3, <3>1, <3>2 DEF Counting
    <2> QED BY <2>4, <2>5
  <1> QED BY <1>8, <1>9

(* A new capture finds the queue and the handler empty. *)
LEMMA CaptureCounts ==
    ASSUME Turns, Counting,
           NEW symbols \in Captures, NEW latency \in Latencies, CaptureDone(symbols, latency)
    PROVE  Counting'
  <1> DEFINE found == Blockages(symbols, now')
  <1>1. /\ armed /\ now' = now + latency + ElapsedUs(symbols)
        /\ isr' = [active |-> TRUE, phases |-> found, size |-> Len(found)]
        /\ produced' = produced + Len(found)
        /\ UNCHANGED <<vars, event_queue, rx_queue_drops>>
    BY DEF CaptureDone
  <1>2. now' \in Nat
    <2>1. ElapsedUs(symbols) \in Nat
      BY CapturesAreSymbols, CaptureIsRounded
    <2>2. latency \in Nat /\ now \in Nat
      BY ReceiverAssumption DEF Counting
    <2> QED BY <1>1, <2>1, <2>2
  <1>3. found \in Seq(BlockageEvents)
    <2>1. symbols \in Seq(Symbols)
      BY CapturesAreSymbols
    <2> QED BY <1>2, <2>1, BlockagesWithin DEF Within
  <1>4. ~isr.active /\ event_queue = <<>> /\ isr.phases = <<>>
    BY <1>1 DEF Turns, Counting
  <1> HIDE DEF found
  <1>5. Len(found) \in Nat
    BY <1>3
  <1>6. detector' = detector
    BY <1>1 DEF vars
  <1>7. EveryBlockageCounted'
    BY <1>1, <1>4, <1>5, <1>6 DEF Counting, EveryBlockageCounted
  <1> QED BY <1>1, <1>2, <1>3, <1>4, <1>5, <1>6, <1>7 DEF Counting

(* Every step of the receiver keeps the count. *)
LEMMA CountingStep ==
    ASSUME Turns, Counting, [RxNext]_all_vars
    PROVE  /\ Counting'
           /\ rx_queue_drops' # rx_queue_drops => isr.size - Len(isr.phases) >= QUEUE_LENGTH
  <1>1. CASE Capture
    <2>1. UNCHANGED rx_queue_drops
      BY <1>1 DEF Capture, CaptureDone
    <2> QED BY <1>1, <2>1, CaptureCounts DEF Capture
  <1>2. CASE IsrSend
    BY <1>2, SendCounts
  <1>3. CASE HandleEvent
    BY <1>3, HandleCounts DEF HandleEvent
  <1>4. CASE IsrNotify
    <2>1. /\ isr.phases = <<>> /\ isr' = Idle
          /\ UNCHANGED <<detector, now, event_queue, rx_queue_drops, produced>>
      BY <1>4 DEF IsrNotify, vars
    <2> QED BY <2>1 DEF Idle, Counting, EveryBlockageCounted
  <1>5. CASE Arm \/ TakeNotification \/ ReportDrops \/ QueueDrained \/ UNCHANGED all_vars
    <2>1. UNCHANGED <<detector, now, isr, event_queue, rx_queue_drops, produced>>
      BY <1>5 DEF Arm, TakeNotification, ReportDrops, QueueDrained, vars, all_vars, rx_vars
    <2> QED BY <2>1 DEF Counting, EveryBlockageCounted
  <1> QED BY <1>1, <1>2, <1>3, <1>4, <1>5 DEF RxNext, Isr, Task

(* Nothing is counted at first. *)
LEMMA CountingStarts == RxInit => Counting
  BY DEF RxInit, Init, DetectorInit, Idle, Counting, EveryBlockageCounted

(* No blockage that rx_done found is lost without being counted: each is   *)
(* handled, queued, still to be sent, or one of rx_queue_drops.            *)
THEOREM BlockagesAreCounted == RxSpec => []EveryBlockageCounted
  <1>1. Turns /\ Counting /\ [RxNext]_all_vars => Counting'
    BY CountingStep
  <1>2. Counting => EveryBlockageCounted
    BY DEF Counting
  <1> QED BY <1>1, <1>2, CountingStarts, TurnsAlways, PTL DEF RxSpec

(* xQueueSendFromISR refuses an event only after QUEUE_LENGTH events of    *)
(* the same capture, whatever the task did between captures.               *)
THEOREM OnlyLongCapturesDrop == RxSpec => FirstBlockagesGetThrough
  <1>1. Turns /\ Counting /\ [RxNext]_all_vars =>
          Counting' /\ [rx_queue_drops' # rx_queue_drops =>
                          isr.size - Len(isr.phases) >= QUEUE_LENGTH]_all_vars
    BY CountingStep
  <1> QED BY <1>1, CountingStarts, TurnsAlways, PTL DEF RxSpec, FirstBlockagesGetThrough

-----------------------------------------------------------------------------
(* The receiver implements the pipeline.                                   *)

\* A capture ends with more silence than rounding can hide: it has at most
\* RX_SYMBOL_COUNT symbols, and the idle time is LINK_LOSS_US.
EndsInSilence ==
    \A symbols \in Captures, latency \in Latencies : Len(symbols) < latency

\* Enough room in the two bounds of the pipeline for what the captures of a
\* run can hold, each at most most blockages.
RoomFor(most) ==
    /\ most \in Nat /\ MAX_CAPTURES \in Nat
    /\ MAX_PULSES \in Nat /\ MAX_REJECTED \in Nat
    /\ \A symbols \in Captures : 2 * Len(symbols) <= most
    /\ most * MAX_CAPTURES <= MAX_PULSES /\ most * MAX_CAPTURES <= MAX_REJECTED

\* What is queued is newer than what the pattern has seen and older than what
\* the handler has still to send.
InOrder ==
    /\ IInv
    /\ Within(event_queue, pattern.last_edge_us + 1, now)
    /\ Within(isr.phases, pattern.last_edge_us + 1, now)
    /\ \A k \in 1 .. Len(event_queue), l \in 1 .. Len(isr.phases) :
         event_queue[k].timestamp_us < isr.phases[l].timestamp_us
    /\ pattern.last_edge_us <= now

\* How often the handler has been entered.
Entered == rx_capture_count + (IF isr.active THEN 1 ELSE 0)

\* No capture holds more than its share.
InBounds(most) ==
    /\ rx_capture_count \in Nat /\ Entered <= MAX_CAPTURES
    /\ produced <= most * Entered

\* The two windows of the queue and the handler after an event is sent.
LEMMA WithinTail ==
    ASSUME NEW events, NEW low \in Nat, NEW high \in Nat,
           Within(events, low, high), events # <<>>
    PROVE  /\ Head(events) \in BlockageEvents
           /\ low <= Head(events).timestamp_us /\ Head(events).timestamp_us < high
           /\ Within(Tail(events), Head(events).timestamp_us + 1, high)
           /\ Within(Tail(events), low, high)
           /\ Head(events) = events[1]
           /\ Len(Tail(events)) = Len(events) - 1
           /\ \A k \in 1 .. Len(Tail(events)) : /\ k + 1 \in 1 .. Len(events)
                                                /\ Tail(events)[k] = events[k + 1]
  <1> DEFINE n == Len(events)
             t == Tail(events)
             m == Len(t)
             h == Head(events)
  <1>1. /\ events \in Seq(BlockageEvents)
        /\ \A k \in 1 .. n : low <= events[k].timestamp_us /\ events[k].timestamp_us < high
        /\ \A k, l \in 1 .. n : k < l => events[k].timestamp_us < events[l].timestamp_us
    BY DEF Within
  <1>2. n \in Nat /\ n > 0 /\ h = events[1] /\ h \in BlockageEvents
        /\ t \in Seq(BlockageEvents) /\ m = n - 1
    BY <1>1
  <1>3. \A k \in 1 .. m : t[k] = events[k + 1]
    BY <1>1, HeadTailProperties
  <1>4. \A k \in 1 .. n : events[k].timestamp_us \in Nat
    <2>1. \A k \in 1 .. n : events[k] \in BlockageEvents
      BY <1>1
    <2>2. \A e \in BlockageEvents : e.timestamp_us \in Nat
      BY DEF BlockageEvents
    <2> QED BY <2>1, <2>2
  <1> HIDE DEF n, t, m, h
  <1>5. /\ 1 \in 1 .. n /\ \A k \in 1 .. m : k + 1 \in 1 .. n /\ 1 < k + 1
        /\ \A k, l \in 1 .. m : k < l => k + 1 < l + 1
    BY <1>2
  <1>6. /\ h.timestamp_us \in Nat /\ low <= h.timestamp_us /\ h.timestamp_us < high
    BY <1>1, <1>2, <1>4, <1>5
  <1>7. \A k \in 1 .. m : /\ h.timestamp_us < t[k].timestamp_us
                          /\ t[k].timestamp_us \in Nat /\ low <= t[k].timestamp_us
                          /\ t[k].timestamp_us < high
    BY <1>1, <1>2, <1>3, <1>4, <1>5
  <1>8. \A k, l \in 1 .. m : k < l => t[k].timestamp_us < t[l].timestamp_us
    BY <1>1, <1>3, <1>5
  <1>9. \A k \in 1 .. m : h.timestamp_us + 1 <= t[k].timestamp_us
    BY <1>6, <1>7
  <1>10. Within(t, h.timestamp_us + 1, high) /\ Within(t, low, high)
    BY <1>2, <1>7, <1>8, <1>9 DEF Within, m
  <1> QED BY <1>2, <1>3, <1>5, <1>6, <1>10 DEF n, t, m, h

\* The receive task hands the oldest event on: a step of the pipeline.
LEMMA HandleImplements ==
    ASSUME NEW most, RoomFor(most), Nat \ {0} \subseteq Gaps, Nat \subseteq Durations,
           Turns, Counting, InOrder, InBounds(most), HandleEvent
    PROVE  Next /\ InOrder'
  <1> DEFINE event == Head(event_queue)
             edge == event.timestamp_us
             duration == event.duration_us
             last == pattern.last_edge_us
             gap == edge - last
  <1>1. /\ event_queue # <<>> /\ event_queue' = Tail(event_queue)
        /\ UNCHANGED <<now, isr>> /\ ~isr.active
        /\ AcceptedPulse(edge, duration) \/ RejectedPulse(duration)
    BY DEF HandleEvent, Turns
  <1>2. now \in Nat /\ last \in Nat /\ last + 1 \in Nat
    BY DEF Counting, InOrder, IInv, TypeOK, PatternType
  <1>3. /\ event \in BlockageEvents /\ last + 1 <= edge /\ edge < now
        /\ Within(event_queue', edge + 1, now) /\ Within(event_queue', last + 1, now)
    BY <1>1, <1>2, WithinTail DEF InOrder
  <1>4. edge \in Nat /\ duration \in Nat
    BY <1>3 DEF BlockageEvents
  <1> HIDE DEF event, edge, duration, last
  <1>5. /\ gap \in Gaps /\ last + gap = edge /\ last <= edge /\ duration \in Durations
    BY <1>2, <1>3, <1>4
  <1>6. /\ detector.accepted < MAX_PULSES
        /\ detector.rejected_short + detector.rejected_long < MAX_REJECTED
    <2>1. /\ detector.accepted \in Nat /\ detector.rejected_short \in Nat
          /\ detector.rejected_long \in Nat /\ rx_queue_drops \in Nat /\ produced \in Nat
          /\ event_queue \in Seq(BlockageEvents) /\ isr.phases \in Seq(BlockageEvents)
          /\ EveryBlockageCounted
      BY DEF Counting
    <2>2. Len(event_queue) \in Nat /\ Len(event_queue) > 0 /\ Len(isr.phases) \in Nat
      BY <1>1, <2>1
    <2> DEFINE c == Entered
    <2>3. c \in Nat /\ c <= MAX_CAPTURES /\ produced <= most * c
      BY <1>1 DEF InBounds, Entered
    <2> HIDE DEF c
    <2>4. most * c <= most * MAX_CAPTURES /\ most * c \in Nat /\ most * MAX_CAPTURES \in Nat
      BY <2>3 DEF RoomFor
    <2>5. produced <= MAX_PULSES /\ produced <= MAX_REJECTED
      <3> DEFINE x == most * c
                 y == most * MAX_CAPTURES
      <3>1. x \in Nat /\ y \in Nat /\ produced <= x /\ x <= y /\ y <= MAX_PULSES
            /\ y <= MAX_REJECTED /\ MAX_PULSES \in Nat /\ MAX_REJECTED \in Nat
        BY <2>3, <2>4 DEF RoomFor
      <3> HIDE DEF x, y
      <3> QED BY <2>1, <3>1
    <2> DEFINE q == Len(event_queue)
               r == Len(isr.phases)
               a == detector.accepted
               b == detector.rejected_short
               d == detector.rejected_long
    <2>6. /\ produced = a + b + d + q + rx_queue_drops + r
          /\ q \in Nat /\ q > 0 /\ r \in Nat /\ a \in Nat /\ b \in Nat /\ d \in Nat
          /\ MAX_PULSES \in Nat /\ MAX_REJECTED \in Nat
      BY <2>1, <2>2 DEF EveryBlockageCounted, RoomFor
    <2> HIDE DEF q, r, a, b, d
    <2>7. a < MAX_PULSES /\ b + d < MAX_REJECTED
      BY <2>1, <2>5, <2>6
    <2> QED BY <2>7 DEF a, b, d
  <1>7. Next
    <2>1. CASE AcceptedPulse(edge, duration)
      <3>1. Accept(gap, duration)
        BY <1>5, <1>6, <2>1 DEF Accept, last
      <3> HIDE DEF gap
      <3> QED BY <1>5, <3>1 DEF Next
    <2>2. CASE RejectedPulse(duration)
      <3>1. Reject(duration)
        BY <1>6, <2>2 DEF Reject
      <3> QED BY <1>5, <3>1 DEF Next
    <2> QED BY <1>1, <2>1, <2>2
  <1>8. IInv'
    BY <1>7, NextKeeps DEF InOrder
  <1>9. pattern'.last_edge_us \in {edge, last}
    <2>1. CASE AcceptedPulse(edge, duration)
      BY <1>4, <2>1, IngestKeeps DEF AcceptedPulse, InOrder, IInv, last
    <2>2. CASE RejectedPulse(duration)
      BY <2>2 DEF RejectedPulse, last
    <2> QED BY <1>1, <2>1, <2>2
  <1>10. isr'.phases = <<>> /\ isr'.phases \in Seq(BlockageEvents) /\ Len(isr'.phases) = 0
    BY <1>1 DEF Counting
  <1>11. Within(event_queue', pattern'.last_edge_us + 1, now') /\ pattern'.last_edge_us <= now'
    BY <1>1, <1>2, <1>3, <1>4, <1>9
  <1>12. 1 .. 0 = {}
    OBVIOUS
  <1>13. InOrder'
    BY <1>8, <1>10, <1>11, <1>12 DEF InOrder, Within
  <1> QED BY <1>7, <1>13

\* The handler sends the next event: it is newer than those in the queue.
LEMMA SendKeepsOrder ==
    ASSUME Turns, Counting, InOrder, IsrSend
    PROVE  InOrder'
  <1> DEFINE h == Head(isr.phases)
             rest == Tail(isr.phases)
             q == event_queue
             low == pattern.last_edge_us + 1
  <1>1. /\ isr.active /\ isr.phases # <<>>
        /\ isr' = [isr EXCEPT !.phases = rest]
        /\ UNCHANGED <<vars, now>>
        /\ event_queue' \in {q, Append(q, h)}
    BY DEF IsrSend
  <1>2. isr'.phases = rest
    BY <1>1 DEF Turns
  <1>3. now \in Nat /\ low \in Nat
    BY DEF Counting, InOrder, IInv, TypeOK, PatternType
  <1>4. Within(isr.phases, low, now) /\ Within(q, low, now)
    BY DEF InOrder
  <1> HIDE DEF low, h, rest
  <1>5. /\ h \in BlockageEvents /\ low <= h.timestamp_us /\ h.timestamp_us < now
        /\ Within(rest, h.timestamp_us + 1, now) /\ Within(rest, low, now)
        /\ h = isr.phases[1] /\ Len(isr.phases) \in Nat /\ 1 \in 1 .. Len(isr.phases)
        /\ \A k \in 1 .. Len(rest) : /\ k + 1 \in 1 .. Len(isr.phases)
                                     /\ rest[k] = isr.phases[k + 1]
    <2>1. isr.phases \in Seq(BlockageEvents)
      BY DEF Counting
    <2>2. Len(isr.phases) \in Nat /\ 1 \in 1 .. Len(isr.phases)
      BY <1>1, <2>1
    <2> QED BY <1>1, <1>3, <1>4, <2>2, WithinTail DEF h, rest
  <1> DEFINE n == Len(q)
             s == Append(q, h)
  <1>6. /\ q \in Seq(BlockageEvents) /\ n \in Nat
        /\ s \in Seq(BlockageEvents) /\ Len(s) = n + 1
        /\ \A k \in 1 .. n : s[k] = q[k]
        /\ s[n + 1] = h
    BY <1>4, <1>5, AppendProperties DEF Within
  <1>7. /\ \A k \in 1 .. n : /\ q[k].timestamp_us < h.timestamp_us
                             /\ low <= q[k].timestamp_us /\ q[k].timestamp_us < now
        /\ \A k, l \in 1 .. n : k < l => q[k].timestamp_us < q[l].timestamp_us
    BY <1>4, <1>5 DEF InOrder, Within
  <1>8. \A k \in 1 .. n, l \in 1 .. Len(rest) : q[k].timestamp_us < rest[l].timestamp_us
    BY <1>5 DEF InOrder
  <1>9. \A l \in 1 .. Len(rest) : h.timestamp_us < rest[l].timestamp_us
    <2>1. \A l \in 1 .. Len(rest) : /\ rest[l] \in BlockageEvents
                                    /\ h.timestamp_us + 1 <= rest[l].timestamp_us
      BY <1>5 DEF Within
    <2>2. \A e \in BlockageEvents : e.timestamp_us \in Nat
      BY DEF BlockageEvents
    <2> QED BY <1>5, <2>1, <2>2
  <1>10. \A k \in 1 .. n + 1 : k \in 1 .. n \/ k = n + 1
    BY <1>6
  <1> HIDE DEF s, n
  <1>11. Within(s, low, now)
    <2>1. \A k \in 1 .. n + 1 : low <= s[k].timestamp_us /\ s[k].timestamp_us < now
      BY <1>5, <1>6, <1>7, <1>10
    <2>2. ASSUME NEW k \in 1 .. n + 1, NEW l \in 1 .. n + 1, k < l
          PROVE  s[k].timestamp_us < s[l].timestamp_us
      <3>1. k \in 1 .. n
        BY <1>6, <2>2
      <3> QED BY <1>6, <1>7, <1>10, <2>2, <3>1
    <2> QED BY <1>6, <2>1, <2>2 DEF Within
  <1>12. \A k \in 1 .. n + 1, l \in 1 .. Len(rest) : s[k].timestamp_us < rest[l].timestamp_us
    BY <1>6, <1>8, <1>9, <1>10
  <1>13. IInv' /\ pattern' = pattern /\ pattern.last_edge_us <= now
    <2>1. IInv' /\ pattern' = pattern
      BY <1>1, NextKeeps DEF InOrder, vars
    <2> QED BY <2>1 DEF InOrder
  <1>14. /\ Within(event_queue', low, now)
         /\ \A k \in 1 .. Len(event_queue'), l \in 1 .. Len(rest) :
              event_queue'[k].timestamp_us < rest[l].timestamp_us
    <2>1. CASE event_queue' = q
      BY <1>4, <1>8, <2>1 DEF n
    <2>2. CASE event_queue' = s
      BY <1>6, <1>11, <1>12, <2>2
    <2> QED BY <1>1, <2>1, <2>2 DEF s
  <1> QED BY <1>1, <1>2, <1>5, <1>13, <1>14 DEF InOrder, low

\* A capture began after everything that was known when the channel was armed.
LEMMA CaptureKeepsOrder ==
    ASSUME EndsInSilence, NEW most, RoomFor(most), Turns, Counting, InOrder,
           InBounds(most),
           NEW symbols \in Captures, NEW latency \in Latencies, CaptureDone(symbols, latency)
    PROVE  InOrder' /\ InBounds(most)'
  <1> DEFINE found == Blockages(symbols, now')
             us == CapturedUs(symbols, Len(symbols))
             start == StartUs(symbols, now')
             elapsed == ElapsedUs(symbols)
             last == pattern.last_edge_us
             n == Len(symbols)
  <1>1. /\ armed /\ rx_capture_count < MAX_CAPTURES /\ now' = now + latency + elapsed
        /\ isr' = [active |-> TRUE, phases |-> found, size |-> Len(found)]
        /\ produced' = produced + Len(found)
        /\ UNCHANGED <<vars, event_queue, rx_capture_count>>
    BY DEF CaptureDone
  <1>2. symbols \in Seq(Symbols) /\ n \in Nat
    BY CapturesAreSymbols
  <1>3. elapsed \in Nat /\ us \in Nat /\ us <= elapsed + n
    <2>1. n \in 0 .. n
      BY <1>2
    <2> QED BY <1>2, <2>1, CaptureIsRounded
  <1>4. now \in Nat /\ latency \in Nat /\ n < latency /\ last \in Nat /\ last <= now
    <2>1. now \in Nat /\ last \in Nat /\ last <= now
      BY DEF Counting, InOrder, IInv, TypeOK, PatternType
    <2> QED BY <2>1, ReceiverAssumption DEF EndsInSilence
  <1> HIDE DEF us, elapsed, n, last
  <1>5. now' \in Nat /\ us < now' /\ now + us < now'
    BY <1>1, <1>2, <1>3, <1>4
  <1>6. /\ start \in Nat /\ start + us = now' /\ Within(found, start, start + us)
        /\ Len(found) \in 0 .. 2 * n
    BY <1>2, <1>5, BlockagesWithin DEF us, n
  <1> HIDE DEF start, found
  <1>7. last + 1 <= start /\ last <= now'
    BY <1>3, <1>4, <1>5, <1>6
  <1>8. Within(found, last + 1, now')
    <2>1. \A k \in 1 .. Len(found) : found[k].timestamp_us \in Nat
      <3>1. \A k \in 1 .. Len(found) : found[k] \in BlockageEvents
        BY <1>6 DEF Within
      <3> QED BY <3>1 DEF BlockageEvents
    <2>2. \A k \in 1 .. Len(found) : start <= found[k].timestamp_us
                                     => last + 1 <= found[k].timestamp_us
      BY <1>4, <1>6, <1>7, <2>1
    <2> QED BY <1>6, <2>2 DEF Within
  <1>9. event_queue' = <<>> /\ ~isr.active /\ isr'.phases = found /\ isr'.active
    BY <1>1 DEF Turns
  <1>10. IInv' /\ pattern' = pattern
    BY <1>1, NextKeeps DEF InOrder, vars
  <1>11. InOrder'
    <2>1. 1 .. 0 = {} /\ <<>> \in Seq(BlockageEvents) /\ Len(<<>>) = 0
      OBVIOUS
    <2>2. Within(<<>>, last + 1, now')
      BY <2>1 DEF Within
    <2>3. \A k \in 1 .. Len(event_queue'), l \in 1 .. Len(isr'.phases) :
            event_queue'[k].timestamp_us < isr'.phases[l].timestamp_us
      BY <1>9, <2>1
    <2> QED BY <1>7, <1>8, <1>9, <1>10, <2>2, <2>3 DEF InOrder, last
  <1>12. InBounds(most)'
    <2> DEFINE c == rx_capture_count
               f == Len(found)
    <2>1. c \in Nat /\ produced \in Nat /\ produced <= most * c /\ Entered' = c + 1
      BY <1>1, <1>9 DEF InBounds, Entered, Counting
    <2>2. /\ most \in Nat /\ MAX_CAPTURES \in Nat /\ 2 * n <= most /\ f \in 0 .. 2 * n
      BY <1>6 DEF RoomFor, n
    <2>3. c < MAX_CAPTURES /\ c' = c /\ produced' = produced + f
      BY <1>1
    <2> HIDE DEF c, f
    <2>4. most * (c + 1) = most * c + most /\ most * c \in Nat
      BY <2>1, <2>2
    <2>5. produced + f <= most * c + most
      <3> DEFINE x == most * c
      <3>1. x \in Nat /\ produced <= x
        BY <2>1, <2>4
      <3> HIDE DEF x
      <3> QED BY <1>2, <2>1, <2>2, <3>1 DEF x
    <2>6. c' \in Nat /\ c + 1 <= MAX_CAPTURES
      BY <2>1, <2>2, <2>3
    <2> QED BY <2>1, <2>3, <2>4, <2>5, <2>6 DEF InBounds, c
  <1> QED BY <1>11, <1>12

\* Every step of the receiver is one of the pipeline, or a stutter.
LEMMA OrderStep ==
    ASSUME EndsInSilence, NEW most, RoomFor(most),
           Nat \ {0} \subseteq Gaps, Nat \subseteq Durations,
           Turns, Counting, InOrder, InBounds(most), [RxNext]_all_vars
    PROVE  InOrder' /\ InBounds(most)' /\ [Next]_vars
  <1>1. CASE Capture
    <2>1. UNCHANGED vars
      BY <1>1 DEF Capture, CaptureDone
    <2> QED BY <1>1, <2>1, CaptureKeepsOrder DEF Capture
  <1>2. CASE IsrSend
    <2>1. /\ UNCHANGED <<vars, rx_capture_count, produced>> /\ isr.active
          /\ isr' = [isr EXCEPT !.phases = Tail(isr.phases)]
      BY <1>2 DEF IsrSend
    <2>2. isr'.active = isr.active
      BY <2>1 DEF Turns
    <2>3. InBounds(most)'
      BY <2>1, <2>2 DEF InBounds, Entered
    <2> QED BY <1>2, <2>1, <2>3, SendKeepsOrder
  <1>3. CASE IsrNotify
    <2>1. /\ isr.active /\ isr.phases = <<>> /\ isr' = Idle
          /\ rx_capture_count' = rx_capture_count + 1
          /\ UNCHANGED <<vars, now, event_queue, produced>>
      BY <1>3 DEF IsrNotify
    <2>2. isr'.phases = isr.phases /\ ~isr'.active
      BY <2>1 DEF Idle
    <2>3. InBounds(most)'
      BY <2>1, <2>2 DEF InBounds, Entered
    <2>4. IInv' /\ pattern' = pattern
      BY <2>1, NextKeeps DEF InOrder, vars
    <2>5. InOrder'
      BY <2>1, <2>2, <2>4 DEF InOrder
    <2> QED BY <2>1, <2>3, <2>5
  <1>4. CASE HandleEvent
    <2>1. InBounds(most)'
      BY <1>4 DEF HandleEvent, InBounds, Entered
    <2> QED BY <1>4, <2>1, HandleImplements
  <1>5. CASE Arm \/ TakeNotification \/ ReportDrops \/ QueueDrained \/ UNCHANGED all_vars
    <2>1. UNCHANGED <<vars, now, isr, event_queue, rx_capture_count, produced>>
      BY <1>5 DEF Arm, TakeNotification, ReportDrops, QueueDrained, all_vars, rx_vars
    <2>2. IInv' /\ pattern' = pattern
      BY <2>1, NextKeeps DEF InOrder, vars
    <2>3. InOrder'
      BY <2>1, <2>2 DEF InOrder
    <2>4. InBounds(most)'
      BY <2>1 DEF InBounds, Entered
    <2> QED BY <2>1, <2>3, <2>4
  <1> QED BY <1>1, <1>2, <1>3, <1>4, <1>5 DEF RxNext, Isr, Task

(* ir_spoke_rmt_adapter.c and ir_spoke_pattern.c: whatever the captures,   *)
(* the rounding and the drops, what receive_loop hands to the pipeline are *)
(* blockages at strictly increasing times, so that every behaviour of the  *)
(* receiver is one of SpokePipeline.  Where captures end in silence and    *)
(* the two bounds on counted pulses leave room for the captures of a run.  *)
THEOREM ReceiverImplementsPipeline ==
    ASSUME EndsInSilence, NEW most \in Nat, RoomFor(most),
           Nat \ {0} \subseteq Gaps, Nat \subseteq Durations
    PROVE  RxSpec => ImplementsPipeline
  <1>1. RxInit => Init /\ InOrder /\ InBounds(most)
    <2> SUFFICES ASSUME RxInit PROVE Init /\ InOrder /\ InBounds(most)
      OBVIOUS
    <2>1. /\ Init /\ now = 0 /\ event_queue = <<>> /\ isr.phases = <<>> /\ ~isr.active
          /\ rx_capture_count = 0 /\ produced = 0
      BY DEF RxInit, Idle
    <2>2. IInv /\ pattern.last_edge_us = 0
      BY <2>1, InitEstablishes DEF Init, PatternInit
    <2>3. 1 .. 0 = {} /\ <<>> \in Seq(BlockageEvents) /\ Len(<<>>) = 0
      OBVIOUS
    <2>4. InOrder
      BY <2>1, <2>2, <2>3 DEF InOrder, Within
    <2>5. InBounds(most)
      BY <2>1 DEF InBounds, Entered, RoomFor
    <2> QED BY <2>1, <2>4, <2>5
  <1>2. Turns /\ Counting /\ InOrder /\ InBounds(most) /\ [RxNext]_all_vars
          => InOrder' /\ InBounds(most)' /\ [Next]_vars
    BY OrderStep
  <1>3. Turns /\ Counting /\ [RxNext]_all_vars => Counting'
    BY CountingStep
  <1> QED BY <1>1, <1>2, <1>3, CountingStarts, TurnsAlways, PTL
          DEF RxSpec, ImplementsPipeline, Spec
-----------------------------------------------------------------------------
(* The publisher.                                                          *)

Steps == {"reset", "timing", "interrupts", "normal", "status", "ready"}
Modes == {"config", "normal"}
Halves == [1 .. 2 -> Nat]
ChipType == [mode : Modes, asked : Modes, timed : BOOLEAN,
             buffer : Halves, pending : BOOLEAN]
Frame == [halves : Halves, timed : BOOLEAN]

CanTypeOK ==
  /\ boot \in Steps
  /\ chip \in ChipType
  /\ publish \in {"idle", "control", "first half", "second half", "request"}
  /\ restarts \in Nat /\ blockage \in Nat
  /\ bus \in Seq(Frame)

\* A chip that is or will be in the normal mode has its bit timing, and the
\* start asks for the normal mode only after setting it.
TimedBeforeNormal ==
  /\ "normal" \in {chip.mode, chip.asked} => chip.timed
  /\ boot \notin {"reset", "timing"} => chip.timed

\* Nothing is published before the chip is ready.
QuietUntilReady == boot # "ready" => publish = "idle" /\ counted = {}

\* A waiting frame is whole, newer than all on the bus, and older than the
\* one that is being published.
WaitingIsWhole ==
  chip.pending =>
    /\ publish \in {"idle", "control"}
    /\ chip.buffer[1] = chip.buffer[2]
    /\ chip.buffer[1] <= blockage
    /\ publish = "control" => chip.buffer[1] < blockage
    /\ \A k \in 1..Len(bus) : bus[k].halves[1] < chip.buffer[1]

\* The halves that have been written are those of the current blockage, of
\* which nothing is on the bus yet.
WrittenIsCurrent ==
  /\ publish \in {"second half", "request"} => chip.buffer[1] = blockage
  /\ publish = "request" => chip.buffer[2] = blockage
  /\ \A k \in 1..Len(bus) :
       /\ bus[k].halves[1] <= blockage
       /\ publish # "idle" => bus[k].halves[1] < blockage

CanIInv ==
  /\ CanTypeOK
  /\ TimedBeforeNormal
  /\ QuietUntilReady
  /\ WaitingIsWhole
  /\ WrittenIsCurrent
  /\ TelemetryIsWhole

-----------------------------------------------------------------------------
(* Steps that leave the bus alone.                                         *)

\* A step of the start, or a restart: nothing is published, and the chip is
\* no nearer to the normal mode than its bit timing allows.
LEMMA StartKeeps ==
  ASSUME CanIInv, boot' \in Steps, chip' \in ChipType, restarts' \in Nat,
         "normal" \in {chip'.mode, chip'.asked} => chip'.timed,
         boot' \notin {"reset", "timing"} => chip'.timed,
         chip'.pending => chip.pending /\ chip'.buffer = chip.buffer,
         publish' = "idle", counted' = {}, UNCHANGED <<blockage, bus>>
  PROVE  CanIInv'
  <1>1. CanTypeOK'
    BY DEF CanIInv, CanTypeOK
  <1>2. WaitingIsWhole'
    BY DEF CanIInv, WaitingIsWhole
  <1>3. WrittenIsCurrent'
    BY DEF CanIInv, WrittenIsCurrent
  <1>4. TelemetryIsWhole'
    BY DEF CanIInv, TelemetryIsWhole
  <1> QED BY <1>1, <1>2, <1>3, <1>4 DEF CanIInv, TimedBeforeNormal, QuietUntilReady

\* The program is restarted from outside.
LEMMA RestartKeeps == ASSUME CanIInv, Restart PROVE CanIInv'
  <1>1. chip \in ChipType /\ restarts \in Nat
        /\ ("normal" \in {chip.mode, chip.asked} => chip.timed)
    BY DEF CanIInv, CanTypeOK, TimedBeforeNormal
  <1>2. /\ boot' = "reset" /\ publish' = "idle" /\ counted' = {}
        /\ restarts' \in Nat /\ UNCHANGED <<chip, blockage, bus>>
    BY <1>1 DEF Restart, Restarts
  <1>3. boot' \in Steps
    BY <1>2 DEF Steps
  <1> QED BY <1>1, <1>2, <1>3, StartKeeps

\* A step of the start succeeds, or it fails and the program restarts.
LEMMA StartStepKeeps ==
  ASSUME CanIInv, NEW step \in Steps \ {"ready"}, NEW next \in Steps, NEW changed \in ChipType,
         StartStep(step, next, changed),
         "normal" \in {changed.mode, changed.asked} => changed.timed,
         next \notin {"reset", "timing"} => changed.timed,
         changed.pending => chip.pending /\ changed.buffer = chip.buffer
  PROVE  CanIInv'
  <1>1. /\ boot = step /\ UNCHANGED <<blockage, bus>>
        /\ \/ /\ chip' = changed /\ boot' = next
              /\ UNCHANGED <<restarts, publish, counted>>
           \/ chip' \in {chip, changed} /\ Restarts
    BY DEF StartStep
  <1>2. publish = "idle" /\ counted = {} /\ chip \in ChipType /\ restarts \in Nat
        /\ ("normal" \in {chip.mode, chip.asked} => chip.timed)
    BY <1>1 DEF CanIInv, CanTypeOK, QuietUntilReady, TimedBeforeNormal
  <1>3. CASE chip' = changed /\ boot' = next /\ UNCHANGED <<restarts, publish, counted>>
    BY <1>1, <1>2, <1>3, StartKeeps
  <1>4. CASE chip' \in {chip, changed} /\ Restarts
    <2>1. boot' = "reset" /\ publish' = "idle" /\ counted' = {} /\ restarts' \in Nat
      BY <1>2, <1>4 DEF Restarts
    <2> QED BY <1>1, <1>2, <1>4, <2>1, StartKeeps DEF Steps
  <1> QED BY <1>1, <1>3, <1>4

\* The start of the program.
LEMMA StartingKeeps == ASSUME CanIInv, Starting PROVE CanIInv'
  <1>1. /\ chip \in ChipType
        /\ "normal" \in {chip.mode, chip.asked} => chip.timed
        /\ boot \notin {"reset", "timing"} => chip.timed
    BY DEF CanIInv, CanTypeOK, TimedBeforeNormal
  <1>2. CASE ResetCommand
    <2>1. ResetChip \in ChipType /\ ResetChip.mode = "config"
          /\ ResetChip.asked = "config" /\ ~ResetChip.pending
      BY DEF ResetChip, Empty, ChipType, Modes, Halves
    <2> QED BY <1>2, <2>1, StartStepKeeps DEF ResetCommand, Steps
  <1>3. CASE BitTiming
    <2> DEFINE c == [chip EXCEPT !.timed = TRUE]
    <2>1. c \in ChipType /\ c.timed /\ c.pending = chip.pending /\ c.buffer = chip.buffer
      BY <1>1 DEF ChipType
    <2>2. StartStep("timing", "interrupts", c)
      BY <1>3 DEF BitTiming
    <2> HIDE DEF c
    <2> QED BY <2>1, <2>2, StartStepKeeps DEF Steps
  <1>4. CASE InterruptMask
    BY <1>1, <1>4, StartStepKeeps DEF InterruptMask, StartStep, Steps
  <1>5. CASE NormalMode
    <2> DEFINE c == [chip EXCEPT !.asked = "normal"]
    <2>1. StartStep("normal", "status", c) /\ boot = "normal"
      BY <1>5 DEF NormalMode, StartStep
    <2>2. c \in ChipType /\ c.timed /\ c.pending = chip.pending /\ c.buffer = chip.buffer
      BY <1>1, <2>1 DEF ChipType, Modes
    <2> HIDE DEF c
    <2> QED BY <2>1, <2>2, StartStepKeeps DEF Steps
  <1>6. CASE ModeStatus
    BY <1>1, <1>6, StartStepKeeps DEF ModeStatus, StartStep, Steps
  <1>7. CASE ModeNotReached
    BY <1>7, RestartKeeps DEF ModeNotReached
  <1> QED BY <1>2, <1>3, <1>4, <1>5, <1>6, <1>7 DEF Starting

\* A frame on the bus has two halves, each the number of a blockage.
LEMMA FramesAreTyped ==
  ASSUME CanTypeOK
  PROVE  /\ Len(bus) \in Nat
         /\ \A k \in 1..Len(bus) :
              bus[k].halves \in Halves /\ bus[k].halves[1] \in Nat
  <1>1. bus \in Seq(Frame)
    BY DEF CanTypeOK
  <1>2. Len(bus) \in Nat /\ \A k \in 1..Len(bus) : bus[k] \in Frame
    BY <1>1
  <1>3. \A h \in Halves : h[1] \in Nat
    BY DEF Halves
  <1> QED BY <1>2, <1>3 DEF Frame

-----------------------------------------------------------------------------
(* The publisher.                                                          *)

\* Every step of send_frame keeps the inductive invariant.
LEMMA SendingKeeps == ASSUME CanIInv, Sending PROVE CanIInv'
  <1>1. /\ CanTypeOK /\ QuietUntilReady /\ WaitingIsWhole /\ WrittenIsCurrent
        /\ TimedBeforeNormal /\ TelemetryIsWhole
        /\ chip \in ChipType /\ blockage \in Nat
        /\ chip.buffer \in Halves
        /\ Len(bus) \in Nat /\ \A k \in 1..Len(bus) : bus[k].halves[1] \in Nat
    <2>1. chip \in ChipType /\ chip.buffer \in Halves /\ blockage \in Nat
      BY DEF CanIInv, CanTypeOK, ChipType
    <2>2. Len(bus) \in Nat /\ \A k \in 1..Len(bus) : bus[k].halves[1] \in Nat
      BY FramesAreTyped DEF CanIInv
    <2> QED BY <2>1, <2>2 DEF CanIInv
  <1>2. CASE Publish
    <2>1. CanTypeOK' /\ TimedBeforeNormal' /\ QuietUntilReady'
      BY <1>1, <1>2 DEF Publish, CanTypeOK, TimedBeforeNormal, QuietUntilReady
    <2>2. WaitingIsWhole'
      BY <1>1, <1>2 DEF Publish, WaitingIsWhole, Halves
    <2>3. WrittenIsCurrent'
      BY <1>1, <1>2 DEF Publish, WrittenIsCurrent
    <2>4. TelemetryIsWhole'
      BY <1>1, <1>2 DEF Publish, TelemetryIsWhole, SentBlockages, Waiting
    <2> QED BY <2>1, <2>2, <2>3, <2>4 DEF CanIInv
  <1>3. CASE ReadControl \/ WriteFails
    <2>1. /\ publish' \in {"idle", "first half"} /\ publish # "idle"
          /\ publish' = "first half" => ~chip.pending
          /\ UNCHANGED <<boot, restarts, chip, blockage, counted, bus>>
      BY <1>3 DEF ReadControl, WriteFails
    <2>2. CanTypeOK' /\ TimedBeforeNormal' /\ QuietUntilReady'
      BY <1>1, <2>1 DEF CanTypeOK, TimedBeforeNormal, QuietUntilReady
    <2>3. WaitingIsWhole' /\ WrittenIsCurrent'
      BY <1>1, <2>1 DEF WaitingIsWhole, WrittenIsCurrent
    <2>4. TelemetryIsWhole'
      BY <1>1, <2>1 DEF TelemetryIsWhole, SentBlockages, Waiting
    <2> QED BY <2>2, <2>3, <2>4 DEF CanIInv
  <1>4. CASE WriteFirstHalf \/ WriteSecondHalf
    <2> DEFINE h == IF WriteFirstHalf THEN 1 ELSE 2
    <2>1. /\ publish \in {"first half", "second half"} /\ ~chip.pending
          /\ UNCHANGED <<boot, restarts, blockage, counted, bus>>
      BY <1>1, <1>4 DEF WriteFirstHalf, WriteSecondHalf, WaitingIsWhole
    <2>2. chip' = [chip EXCEPT !.buffer = [@ EXCEPT ![h] = blockage]]
      BY <1>4 DEF WriteFirstHalf, WriteSecondHalf
    <2>3. /\ chip' \in ChipType /\ chip'.mode = chip.mode /\ chip'.asked = chip.asked
          /\ chip'.timed = chip.timed /\ chip'.pending = chip.pending
          /\ chip'.buffer = [chip.buffer EXCEPT ![h] = blockage]
      <3>1. [chip.buffer EXCEPT ![h] = blockage] \in Halves
        BY <1>1 DEF Halves
      <3> HIDE DEF h
      <3> QED BY <1>1, <2>2, <3>1 DEF ChipType
    <2>4. /\ WriteFirstHalf => publish = "first half" /\ publish' = "second half"
                               /\ chip'.buffer[1] = blockage
          /\ ~WriteFirstHalf => publish = "second half" /\ publish' \in {"request", "idle"}
                                /\ chip'.buffer[1] = chip.buffer[1]
                                /\ chip'.buffer[2] = blockage
      <3>1. CASE WriteFirstHalf
        <4>1. h = 1
          BY <3>1
        <4> HIDE DEF h
        <4>2. chip'.buffer[1] = blockage
          BY <1>1, <2>3, <4>1 DEF Halves
        <4> QED BY <3>1, <4>2 DEF WriteFirstHalf
      <3>2. CASE ~WriteFirstHalf
        <4>1. h = 2
          BY <3>2
        <4> HIDE DEF h
        <4>2. chip'.buffer[1] = chip.buffer[1] /\ chip'.buffer[2] = blockage
          BY <1>1, <2>3, <4>1 DEF Halves
        <4> QED BY <1>4, <3>2, <4>2 DEF WriteSecondHalf
      <3> QED BY <3>1, <3>2
    <2>5. publish' \in {"second half", "request", "idle"}
      BY <2>4
    <2>6. CanTypeOK' /\ TimedBeforeNormal' /\ QuietUntilReady'
      BY <1>1, <2>1, <2>3, <2>5 DEF CanTypeOK, TimedBeforeNormal, QuietUntilReady
    <2>7. WaitingIsWhole' /\ WrittenIsCurrent'
      BY <1>1, <2>1, <2>3, <2>4 DEF WaitingIsWhole, WrittenIsCurrent
    <2>8. TelemetryIsWhole'
      <3>1. Waiting = {} /\ Waiting' = {} /\ SentBlockages' = SentBlockages
        BY <2>1, <2>3 DEF Waiting, SentBlockages
      <3> QED BY <1>1, <2>1, <3>1 DEF TelemetryIsWhole
    <2> QED BY <2>6, <2>7, <2>8 DEF CanIInv
  <1>5. CASE RequestToSend
    <2>1. /\ publish = "request" /\ publish' = "idle" /\ ~chip.pending
          /\ chip.buffer[1] = blockage /\ chip.buffer[2] = blockage
          /\ boot = "ready"
          /\ UNCHANGED <<boot, restarts, blockage, bus>>
      BY <1>1, <1>5 DEF RequestToSend, WaitingIsWhole, WrittenIsCurrent, QuietUntilReady
    <2>2. CASE UNCHANGED <<chip, counted>>
      <3>1. CanTypeOK' /\ TimedBeforeNormal' /\ QuietUntilReady'
        BY <1>1, <2>1, <2>2 DEF CanTypeOK, TimedBeforeNormal, QuietUntilReady
      <3>2. WaitingIsWhole' /\ WrittenIsCurrent' /\ TelemetryIsWhole'
        BY <1>1, <2>1, <2>2
        DEF WaitingIsWhole, WrittenIsCurrent, TelemetryIsWhole, SentBlockages, Waiting
      <3> QED BY <3>1, <3>2 DEF CanIInv
    <2>3. CASE /\ chip' = [chip EXCEPT !.pending = TRUE]
               /\ counted' \in {counted, counted \cup {blockage}}
      <3>1. /\ chip' \in ChipType /\ chip'.mode = chip.mode /\ chip'.asked = chip.asked
            /\ chip'.timed = chip.timed /\ chip'.pending /\ chip'.buffer = chip.buffer
        BY <1>1, <2>3 DEF ChipType
      <3>2. CanTypeOK' /\ TimedBeforeNormal' /\ QuietUntilReady'
        BY <1>1, <2>1, <3>1 DEF CanTypeOK, TimedBeforeNormal, QuietUntilReady
      <3>3. WaitingIsWhole' /\ WrittenIsCurrent'
        BY <1>1, <2>1, <3>1 DEF WaitingIsWhole, WrittenIsCurrent
      <3>4. Waiting = {} /\ Waiting' = {blockage} /\ SentBlockages' = SentBlockages
        BY <2>1, <3>1 DEF Waiting, SentBlockages
      <3>5. TelemetryIsWhole'
        BY <1>1, <2>1, <2>3, <3>4 DEF TelemetryIsWhole
      <3> QED BY <3>2, <3>3, <3>5 DEF CanIInv
    <2> QED BY <1>5, <2>2, <2>3 DEF RequestToSend
  <1> QED BY <1>2, <1>3, <1>4, <1>5 DEF Sending

-----------------------------------------------------------------------------
(* The chip.                                                               *)

\* The chip reaches the mode it was asked for.
LEMMA ChangeModeKeeps == ASSUME CanIInv, ChangeMode PROVE CanIInv'
  <1>1. /\ chip' = [chip EXCEPT !.mode = chip.asked]
        /\ UNCHANGED <<boot, restarts, publish, blockage, counted, bus>>
    BY DEF ChangeMode
  <1>2. /\ chip' \in ChipType /\ chip'.mode = chip.asked /\ chip'.asked = chip.asked
        /\ chip'.timed = chip.timed /\ chip'.pending = chip.pending
        /\ chip'.buffer = chip.buffer
    BY <1>1 DEF CanIInv, CanTypeOK, ChipType
  <1>3. (CanTypeOK /\ TimedBeforeNormal /\ QuietUntilReady)'
    BY <1>1, <1>2 DEF CanIInv, CanTypeOK, TimedBeforeNormal, QuietUntilReady
  <1>4. (WaitingIsWhole /\ WrittenIsCurrent)'
    BY <1>1, <1>2 DEF CanIInv, WaitingIsWhole, WrittenIsCurrent
  <1>5. TelemetryIsWhole'
    BY <1>1, <1>2 DEF CanIInv, TelemetryIsWhole, SentBlockages, Waiting
  <1> QED BY <1>3, <1>4, <1>5 DEF CanIInv

\* The waiting frame goes out: it is whole, timed and newer than all before.
LEMMA TransmitKeeps == ASSUME CanIInv, Transmit PROVE CanIInv'
  <1> DEFINE f == [halves |-> chip.buffer, timed |-> chip.timed]
             n == Len(bus)
  <1>1. /\ chip.mode = "normal" /\ chip.pending
        /\ chip' = [chip EXCEPT !.pending = FALSE]
        /\ bus' = Append(bus, f)
        /\ UNCHANGED <<boot, restarts, publish, blockage, counted>>
    BY DEF Transmit
  <1>2. /\ chip \in ChipType /\ chip.buffer \in Halves /\ blockage \in Nat
        /\ bus \in Seq(Frame) /\ n \in Nat
    <2>1. chip \in ChipType /\ blockage \in Nat /\ bus \in Seq(Frame)
      BY DEF CanIInv, CanTypeOK
    <2>2. chip.buffer \in Halves
      BY <2>1 DEF ChipType
    <2> QED BY <2>1, <2>2
  <1>3. /\ chip' \in ChipType /\ chip'.mode = chip.mode /\ chip'.asked = chip.asked
        /\ chip'.timed = chip.timed /\ ~chip'.pending /\ chip'.buffer = chip.buffer
    BY <1>1, <1>2 DEF ChipType
  <1>4. /\ f \in Frame /\ f.timed /\ f.halves = chip.buffer
        /\ chip.buffer[1] \in Nat /\ chip.buffer[1] = chip.buffer[2]
        /\ chip.buffer[1] <= blockage
        /\ publish # "idle" => chip.buffer[1] < blockage
        /\ \A k \in 1..n : bus[k].halves[1] < chip.buffer[1]
    BY <1>1, <1>2 DEF CanIInv, TimedBeforeNormal, WaitingIsWhole, Frame, ChipType, Halves
  <1> HIDE DEF f
  <1>5. /\ bus' \in Seq(Frame) /\ Len(bus') = n + 1
        /\ bus'[n + 1] = f
        /\ \A k \in 1..n : bus'[k] = bus[k]
        /\ \A k \in 1..(n + 1) : k = n + 1 \/ k \in 1..n
    BY <1>1, <1>2, <1>4
  <1>6. (CanTypeOK /\ TimedBeforeNormal /\ QuietUntilReady)'
    BY <1>1, <1>3, <1>5 DEF CanIInv, CanTypeOK, TimedBeforeNormal, QuietUntilReady
  <1>7. WaitingIsWhole'
    BY <1>3 DEF WaitingIsWhole
  <1>8. WrittenIsCurrent'
    <2>1. ASSUME NEW k \in 1..Len(bus')
          PROVE  /\ bus'[k].halves[1] <= blockage
                 /\ publish # "idle" => bus'[k].halves[1] < blockage
      BY <1>4, <1>5, <2>1 DEF CanIInv, WrittenIsCurrent
    <2> QED BY <1>1, <1>3, <2>1 DEF CanIInv, WrittenIsCurrent
  <1>9. TelemetryIsWhole'
    <2>1. ASSUME NEW k \in 1..Len(bus')
          PROVE  /\ bus'[k].timed
                 /\ bus'[k].halves[1] = bus'[k].halves[2]
                 /\ \A l \in 1..(k - 1) : bus'[l].halves[1] < bus'[k].halves[1]
      <3>1. CASE k \in 1..n
        <4>1. \A l \in 1..(k - 1) : l \in 1..n
          BY <1>2, <3>1
        <4> QED BY <1>5, <3>1, <4>1 DEF CanIInv, TelemetryIsWhole
      <3>2. CASE k = n + 1
        <4>1. \A l \in 1..(k - 1) : l \in 1..n
          BY <1>2, <3>2
        <4> QED BY <1>4, <1>5, <3>2, <4>1
      <3> QED BY <1>5, <2>1, <3>1, <3>2
    <2>2. SentBlockages \cup Waiting \subseteq SentBlockages'
      <3>1. chip.buffer[1] \in SentBlockages'
        BY <1>2, <1>4, <1>5 DEF SentBlockages
      <3>2. SentBlockages \subseteq SentBlockages'
        BY <1>2, <1>5 DEF SentBlockages
      <3> QED BY <3>1, <3>2 DEF Waiting
    <2> QED BY <1>1, <2>1, <2>2 DEF CanIInv, TelemetryIsWhole
  <1> QED BY <1>6, <1>7, <1>8, <1>9 DEF CanIInv

-----------------------------------------------------------------------------
\* The inductive invariant holds after power on.
LEMMA CanInitEstablishes == CanInit => CanIInv
  <1> SUFFICES ASSUME CanInit PROVE CanIInv
    OBVIOUS
  <1>1. CanTypeOK
    BY DEF CanInit, CanTypeOK, Steps, ChipType, ResetChip, Empty, Halves, Modes, Frame
  <1>2. TimedBeforeNormal /\ QuietUntilReady /\ WaitingIsWhole
    BY DEF CanInit, ResetChip, TimedBeforeNormal, QuietUntilReady, WaitingIsWhole
  <1>3. WrittenIsCurrent /\ TelemetryIsWhole
    BY DEF CanInit, WrittenIsCurrent, TelemetryIsWhole
  <1> QED BY <1>1, <1>2, <1>3 DEF CanIInv

\* Every step keeps the inductive invariant.
LEMMA CanNextKeeps == CanIInv /\ [CanNext]_canVars => CanIInv'
  <1>1. CanIInv /\ UNCHANGED canVars => CanIInv'
    BY DEF canVars, CanIInv, CanTypeOK, TimedBeforeNormal, QuietUntilReady,
           WaitingIsWhole, WrittenIsCurrent, TelemetryIsWhole, SentBlockages, Waiting
  <1> QED BY <1>1, RestartKeeps, StartingKeeps, SendingKeeps, ChangeModeKeeps,
             TransmitKeeps DEF CanNext

\* Every frame on the bus is one whole telemetry, in order and once, and what
\* the sequence counts is never lost: whichever transfers fail and wherever
\* the program is restarted.
THEOREM TelemetryStaysWhole == CanSpec => []TelemetryIsWhole
  <1>1. CanIInv => TelemetryIsWhole
    BY DEF CanIInv
  <1> QED BY <1>1, CanInitEstablishes, CanNextKeeps, PTL DEF CanSpec
=============================================================================
