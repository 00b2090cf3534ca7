--------------------------- MODULE SpokeWheelProofs ----------------------------
(***************************************************************************)
(* Proofs about SpokeWheel: what the reported revolutions have to do with  *)
(* the turns of the wheel, for every wheel and every pattern of missed     *)
(* spokes.  The invariant of the pipeline says that the mapped intervals   *)
(* are those of the reported revolutions and of the turn under way; the    *)
(* one added here compares the mapped intervals with the spokes that have  *)
(* passed since the count was locked.                                      *)
(*                                                                         *)
(* Until the lock, the ring behind an undisturbed wheel holds the newest   *)
(* intervals of the wheel.  So the wheel's own count has score zero, and   *)
(* no score is clearly better than zero.                                   *)
(***************************************************************************)
EXTENDS SpokeWheel, SpokePipelineProofs

\* The wheel turns fast enough: none of its intervals is thrown away.
EveryIntervalIsUsed(w) == \A i \in DOMAIN w : w[i] \in ValidIntervals

WheelTypeOK ==
    /\ wheel \in Wheels
    /\ passed \in Nat /\ missed \in Nat /\ waiting_us \in Nat
    /\ locked_at \in 0 .. passed

\* A spoke is mapped at most once, and since the lock only.  When no spoke
\* was missed and no interval is out of range, none is left out either.
MappedSpokes ==
    /\ pattern.count_locked =>
         pattern.last_edge_us # 0 /\ mapped <= passed - locked_at
    /\ missed = 0 /\ EveryIntervalIsUsed(wheel) =>
         /\ waiting_us = 0
         /\ pattern.count_locked => mapped = passed - locked_at

\* The inductive invariant of the turning wheel.
WheelIInv == IInv /\ WheelTypeOK /\ MappedSpokes

-----------------------------------------------------------------------------
(* The wheel.                                                              *)

\* The next interval is one of the wheel's.
LEMMA IntervalOfWheel ==
    ASSUME WheelTypeOK
    PROVE  /\ SpokeInterval \in Nat
           /\ EveryIntervalIsUsed(wheel) => SpokeInterval \in ValidIntervals
  <1> DEFINE k == (passed % Len(wheel)) + 1
  <1>1. wheel \in Seq(Nat) /\ Len(wheel) \in Nat \ {0} /\ passed \in Nat
    BY WheelAssumption DEF WheelTypeOK
  <1>2. passed % Len(wheel) \in 0 .. Len(wheel) - 1
    BY ONLY <1>1, ModRange
  <1>3. k \in 1 .. Len(wheel)
    BY <1>1, <1>2
  <1>4. k \in DOMAIN wheel /\ wheel[k] \in Nat
    BY <1>1, <1>3
  <1> QED BY <1>4 DEF SpokeInterval, EveryIntervalIsUsed

\* A remainder is determined by the division.
LEMMA ModOfSum ==
    ASSUME NEW n \in Nat \ {0}, NEW q \in Nat, NEW r \in Nat, r < n
    PROVE  (n * q + r) % n = r
  BY SMT

-----------------------------------------------------------------------------
(* The steps.                                                              *)

\* The inductive invariant holds initially.
LEMMA WheelInitEstablishes == WheelInit => WheelIInv
  <1> SUFFICES ASSUME WheelInit PROVE WheelIInv
    OBVIOUS
  <1>1. IInv
    BY InitEstablishes DEF WheelInit
  <1>2. WheelTypeOK
    BY DEF WheelInit, WheelTypeOK
  <1>3. ~pattern.count_locked /\ waiting_us = 0
    BY DEF WheelInit, Init, PatternInit
  <1> QED BY <1>1, <1>2, <1>3 DEF WheelIInv, MappedSpokes

\* A spoke that is seen.
LEMMA SeenKeeps ==
    ASSUME WheelIInv, Seen
    PROVE  WheelIInv'
  <1> DEFINE edge == pattern.last_edge_us + waiting_us + SpokeInterval
             last == pattern.last_edge_us
  <1>1. /\ IInv /\ WheelTypeOK /\ MappedSpokes
        /\ WellFormed(pattern) /\ pattern \in PatternType
        /\ pattern.count_locked \in BOOLEAN
        /\ last \in Nat /\ waiting_us \in Nat /\ SpokeInterval \in Nat
        /\ passed \in Nat /\ locked_at \in 0 .. passed /\ mapped \in Nat
    BY IntervalOfWheel DEF WheelIInv, WheelTypeOK, IInv, WellFormed, TypeOK, PatternType
  <1>2. edge \in Nat /\ last <= edge /\ edge - last = waiting_us + SpokeInterval
    BY <1>1
  <1>3. AcceptedPulse(edge, BLOCK_MIN_US)
    BY DEF Seen
  <1> HIDE DEF edge
  <1>4. IInv'
    BY <1>1, <1>2, <1>3, AcceptedPulseKeeps
  <1>5. /\ passed' = passed + 1 /\ waiting_us' = 0
        /\ wheel' = wheel /\ missed' = missed
        /\ locked_at' = IF pattern'.count_locked /\ ~pattern.count_locked
                        THEN passed ELSE locked_at
    BY DEF Seen
  <1>6. WheelTypeOK'
    BY <1>1, <1>5 DEF WheelTypeOK
  <1>7. /\ pattern' = ingest_edge(pattern, edge)
        /\ mapped' = IF UsesEdge(pattern, edge) /\ pattern'.count_locked
                     THEN mapped + 1 ELSE mapped
    BY <1>3 DEF AcceptedPulse
  <1>8. /\ UsesEdge(pattern, edge) =>
             /\ pattern'.last_edge_us = edge
             /\ pattern.count_locked => pattern'.count_locked
        /\ ~UsesEdge(pattern, edge) =>
             /\ pattern'.last_edge_us \in {edge, last}
             /\ pattern'.count_locked = pattern.count_locked
    BY <1>1, <1>2, <1>7, IngestKeeps
  <1>9. ~pattern.count_locked => mapped = 0
    BY <1>1 DEF IInv, RevolutionConservation
  <1>10. ASSUME pattern'.count_locked
         PROVE  pattern'.last_edge_us # 0 /\ mapped' <= passed' - locked_at'
    <2>1. CASE pattern.count_locked
      <3>1. last # 0 /\ mapped <= passed - locked_at /\ locked_at' = locked_at
        BY <1>1, <1>5, <2>1 DEF MappedSpokes
      <3>2. pattern'.last_edge_us # 0
        BY <1>1, <1>2, <1>8, <3>1
      <3> QED BY <1>1, <1>5, <1>7, <3>1, <3>2
    <2>2. CASE ~pattern.count_locked
      <3>1. UsesEdge(pattern, edge) /\ mapped = 0 /\ locked_at' = passed
        BY <1>5, <1>8, <1>9, <1>10, <2>2
      <3> QED BY <1>1, <1>5, <1>7, <1>8, <3>1 DEF UsesEdge
    <2> QED BY <2>1, <2>2
  <1>11. ASSUME missed' = 0, EveryIntervalIsUsed(wheel'), pattern'.count_locked
         PROVE  mapped' = passed' - locked_at'
    <2>1. CASE pattern.count_locked
      <3>1. waiting_us = 0 /\ mapped = passed - locked_at /\ last # 0
            /\ SpokeInterval \in ValidIntervals
        BY <1>1, <1>5, <1>11, <2>1, IntervalOfWheel DEF MappedSpokes
      <3>2. UsesEdge(pattern, edge)
        BY <1>1, <1>2, <3>1 DEF UsesEdge
      <3> QED BY <1>1, <1>5, <1>7, <1>11, <2>1, <3>1, <3>2
    <2>2. CASE ~pattern.count_locked
      <3>1. UsesEdge(pattern, edge) /\ mapped = 0 /\ locked_at' = passed
        BY <1>5, <1>8, <1>9, <1>11, <2>2
      <3> QED BY <1>1, <1>5, <1>7, <1>11, <3>1
    <2> QED BY <2>1, <2>2
  <1> QED BY <1>4, <1>5, <1>6, <1>10, <1>11 DEF WheelIInv, MappedSpokes

\* Every step of the wheel keeps the inductive invariant.
LEMMA WheelNextKeeps == WheelIInv /\ [WheelNext]_wheel_vars => WheelIInv'
  <1> SUFFICES ASSUME WheelIInv, [WheelNext]_wheel_vars PROVE WheelIInv'
    OBVIOUS
  <1>1. CASE Seen
    BY <1>1, SeenKeeps
  <1>2. CASE Missed
    <2>1. IInv' /\ pattern' = pattern /\ mapped' = mapped
      BY <1>2 DEF Missed, vars, WheelIInv, IInv, TypeOK, RevolutionConservation,
                  RevolutionSpacing
    <2>2. WheelTypeOK' /\ locked_at' = locked_at /\ passed' = passed + 1
      BY <1>2, IntervalOfWheel DEF Missed, WheelIInv, WheelTypeOK
    <2>3. missed' # 0
      BY <1>2 DEF Missed, WheelIInv, WheelTypeOK
    <2>4. mapped \in Nat /\ passed \in Nat /\ locked_at \in 0 .. passed
      BY DEF WheelIInv, IInv, TypeOK, WheelTypeOK
    <2> QED BY <2>1, <2>2, <2>3, <2>4 DEF WheelIInv, MappedSpokes
  <1>3. CASE UNCHANGED wheel_vars
    BY <1>3 DEF wheel_vars, vars, WheelIInv, IInv, TypeOK, RevolutionConservation,
                RevolutionSpacing, WheelTypeOK, MappedSpokes
  <1> QED BY <1>1, <1>2, <1>3 DEF WheelNext

\* The inductive invariant holds in every run of the wheel.
THEOREM WheelInvariance == WheelSpec => []WheelIInv
  BY WheelInitEstablishes, WheelNextKeeps, PTL DEF WheelSpec

\* However many spokes pass unseen and however slowly the wheel turns, no
\* more revolutions are reported than the wheel has made since the lock.
THEOREM NeverAhead == WheelSpec => []NeverAheadOfWheel
  <1>1. WheelIInv => NeverAheadOfWheel
    <2> SUFFICES ASSUME WheelIInv, pattern.count_locked,
                        pattern.spoke_count = Len(wheel)
                 PROVE  revolutions * Len(wheel) <= passed - locked_at
      BY DEF NeverAheadOfWheel
    <2> DEFINE n == Len(wheel)
    <2>1. /\ mapped = n * revolutions + pattern.spoke_index
          /\ mapped <= passed - locked_at
      BY DEF WheelIInv, IInv, RevolutionConservation, MappedSpokes
    <2>2. n \in Nat /\ revolutions \in Nat /\ pattern.spoke_index \in Nat
          /\ passed \in Nat /\ locked_at \in Nat
      BY WheelAssumption, PatternAssumption
      DEF WheelIInv, IInv, TypeOK, PatternType, Cells, WheelTypeOK
    <2>3. n * revolutions = revolutions * n /\ n * revolutions \in Nat
      BY <2>2
    <2> QED BY <2>1, <2>2, <2>3
  <1> QED BY <1>1, WheelInvariance, PTL

\* The spoke number stays with the spoke on every wheel that turns fast
\* enough for all its intervals to be used, for as long as it turns.
THEOREM IndexStaysWithTheSpoke ==
    ASSUME \A w \in Wheels : EveryIntervalIsUsed(w)
    PROVE  WheelSpec => []IndexFollowsWheel
  <1>1. WheelIInv => IndexFollowsWheel
    <2> SUFFICES ASSUME WheelIInv, missed = 0, pattern.count_locked
                 PROVE  pattern.spoke_index
                            = (passed - locked_at) % pattern.spoke_count
      BY DEF IndexFollowsWheel
    <2> DEFINE n == pattern.spoke_count
               i == pattern.spoke_index
    <2>1. EveryIntervalIsUsed(wheel)
      BY DEF WheelIInv, WheelTypeOK
    <2>2. mapped = n * revolutions + i /\ mapped = passed - locked_at
      BY <2>1 DEF WheelIInv, IInv, RevolutionConservation, MappedSpokes
    <2>3. n \in Nat \ {0} /\ i \in Nat /\ i < n /\ revolutions \in Nat
      <3>1. n \in Counts /\ i < n /\ pattern \in PatternType
        BY DEF WheelIInv, IInv, WellFormed, IndexWellFormed
      <3>2. i \in Nat
        BY <3>1, PatternAssumption DEF PatternType, Cells
      <3> QED BY <3>1, <3>2, SizesArePositive DEF WheelIInv, IInv, TypeOK
    <2> HIDE DEF n, i
    <2>4. (n * revolutions + i) % n = i
      BY ONLY <2>3, ModOfSum
    <2> QED BY <2>2, <2>4 DEF n, i
  <1> QED BY <1>1, WheelInvariance, PTL

-----------------------------------------------------------------------------
(* What the ring holds behind an undisturbed wheel, until the count is     *)
(* locked: the intervals of the wheel, newest first.                       *)

IntervalOf(w, j) == w[(j % Len(w)) + 1]

RingHolds(p, w, k) ==
    /\ p.last_edge_us = 0 <=> k = 0
    /\ p.accepted_events = IF k = 0 THEN 0 ELSE k - 1
    /\ p.history_size = IF p.accepted_events < HISTORY_SIZE THEN p.accepted_events
                                                            ELSE HISTORY_SIZE
    /\ \A i \in 0 .. p.history_size - 1 : back(p, i) = IntervalOf(w, k - 1 - i)

HistoryFollows ==
    missed = 0 =>
        /\ waiting_us = 0
        /\ EveryIntervalIsUsed(wheel) /\ ~pattern.count_locked =>
             RingHolds(pattern, wheel, passed)

\* The remainder of a number and of that number less one turn.
LEMMA OneTurn ==
    ASSUME NEW n \in Nat \ {0}, NEW a \in Nat
    PROVE  (a + n) % n = a % n
  <1> DEFINE q == a \div n
             r == a % n
  <1>1. q \in Int /\ r \in 0 .. n - 1 /\ a = n * q + r
    BY SMT
  <1> HIDE DEF q, r
  <1>2. q \in Nat
    <2>1. ASSUME q < 0 PROVE FALSE
      <3>1. n * q <= -n
        BY <1>1, <2>1, SMT
      <3> QED BY <1>1, <3>1
    <2> QED BY <1>1, <2>1
  <1>3. a + n = n * (q + 1) + r
    BY <1>1
  <1>4. q + 1 \in Nat /\ r \in Nat /\ r < n
    BY <1>1, <1>2
  <1>5. (n * (q + 1) + r) % n = r
    BY ONLY n \in Nat \ {0}, <1>4, ModOfSum
  <1> QED BY <1>3, <1>5 DEF r

\* After an interval is recorded, it is the newest, and every other one is
\* one place further back.
LEMMA BackOfRecord ==
    ASSUME NEW p \in PatternType, NEW edge \in Nat, edge - p.last_edge_us \in Nat
    PROVE  /\ back(Record(p, edge), 0) = edge - p.last_edge_us
           /\ \A i \in Nat : i + 1 < HISTORY_SIZE =>
                back(Record(p, edge), i + 1) = back(p, i)
  <1> DEFINE H == HISTORY_SIZE
             h == p.history_head
             r == Record(p, edge)
             x == edge - p.last_edge_us
             head == (h + 1) % H
  <1>1. H \in Nat \ {0} /\ h \in 0 .. H - 1 /\ p.history \in [Ring -> Nat]
        /\ Ring = 0 .. H - 1
    BY SizesArePositive DEF PatternType, Ring
  <1>2. r.history = [p.history EXCEPT ![h] = x] /\ r.history_head = head
    BY DEF Record, PatternType
  <1> HIDE DEF r, x
  <1>3. head = IF h + 1 = H THEN 0 ELSE h + 1
    <2>1. CASE h + 1 = H
      <3>1. h + 1 \in Nat /\ H <= h + 1 /\ h + 1 < 2 * H
        BY <1>1, <2>1
      <3>2. (h + 1) % H = (h + 1) - H
        BY ONLY <1>1, <3>1, ModWrap
      <3> QED BY <1>1, <2>1, <3>2
    <2>2. CASE h + 1 # H
      <3>1. h + 1 \in Nat /\ h + 1 < H
        BY <1>1, <2>2
      <3>2. (h + 1) % H = h + 1
        BY ONLY <1>1, <3>1, ModSmall
      <3> QED BY <2>2, <3>2
    <2> QED BY <2>1, <2>2
  <1> HIDE DEF head
  \* Where the recorded interval lies that is j places back.
  <1> DEFINE place(j) == IF j <= h THEN h - j ELSE h + H - j
  <1>4. ASSUME NEW j \in Nat, j < H
        PROVE  (head + H - 1 - j) % H = place(j) /\ place(j) \in Ring
    <2> DEFINE a == head + H - 1 - j
    <2>1. a \in Nat /\ a < 2 * H /\ place(j) \in 0 .. H - 1
      <3>1. head \in 0 .. H - 1
        BY <1>1, <1>3
      <3>2. a \in Nat /\ a < 2 * H
        BY <1>1, <1>4, <3>1
      <3>3. place(j) \in 0 .. H - 1
        BY <1>1, <1>4
      <3> QED BY <3>2, <3>3
    <2>2. CASE a < H
      <3>1. a % H = a
        BY ONLY <1>1, <2>1, <2>2, ModSmall
      <3>2. a = place(j)
        BY <1>1, <1>3, <1>4, <2>2
      <3> QED BY <1>1, <2>1, <3>1, <3>2
    <2>3. CASE ~(a < H)
      <3>1. H <= a
        BY <1>1, <2>1, <2>3
      <3>2. a % H = a - H
        BY ONLY <1>1, <2>1, <3>1, ModWrap
      <3>3. a - H = place(j)
        BY <1>1, <1>3, <1>4, <2>3
      <3> QED BY <1>1, <2>1, <3>2, <3>3
    <2> QED BY <2>2, <2>3
  <1>5. ASSUME NEW i \in Nat, i + 1 < H
        PROVE  (h + H - 1 - i) % H = place(i + 1)
    <2> DEFINE a == h + H - 1 - i
    <2>1. a \in Nat /\ a < 2 * H
      BY <1>1, <1>5
    <2>2. CASE a < H
      <3>1. a % H = a
        BY ONLY <1>1, <2>1, <2>2, ModSmall
      <3> QED BY <1>1, <1>5, <2>2, <3>1
    <2>3. CASE ~(a < H)
      <3>1. H <= a
        BY <1>1, <2>1, <2>3
      <3>2. a % H = a - H
        BY ONLY <1>1, <2>1, <3>1, ModWrap
      <3> QED BY <1>1, <1>5, <2>3, <3>2
    <2> QED BY <2>2, <2>3
  <1>6. back(r, 0) = x
    <2>1. place(0) = h /\ h \in Ring /\ 0 < H /\ 0 \in Nat
      BY <1>1
    <2>2. (head + H - 1 - 0) % H = h
      BY <1>4, <2>1
    <2>3. back(r, 0) = r.history[(head + H - 1 - 0) % H]
      BY <1>2 DEF back
    <2> QED BY <1>1, <1>2, <2>1, <2>2, <2>3
  <1>7. ASSUME NEW i \in Nat, i + 1 < H
        PROVE  back(r, i + 1) = back(p, i)
    <2>1. i + 1 \in Nat /\ place(i + 1) # h
      BY <1>1, <1>7
    <2>2. (head + H - 1 - (i + 1)) % H = place(i + 1) /\ place(i + 1) \in Ring
      BY <1>4, <1>7, <2>1
    <2>3. back(r, i + 1) = r.history[place(i + 1)]
      BY <1>2, <2>2 DEF back
    <2>4. back(p, i) = p.history[place(i + 1)]
      BY <1>5, <1>7 DEF back
    <2> HIDE DEF place
    <2> QED BY <1>1, <1>2, <2>1, <2>2, <2>3, <2>4
  <1> QED BY <1>6, <1>7 DEF r, x

\* One more interval of the wheel.
LEMMA RecordHolds ==
    ASSUME NEW p, WellFormed(p), NEW w, NEW k \in Nat \ {0}, RingHolds(p, w, k),
           IntervalOf(w, k) \in ValidIntervals,
           NEW edge \in Nat, edge = p.last_edge_us + IntervalOf(w, k)
    PROVE  RingHolds(Record(p, edge), w, k + 1)
  <1> DEFINE r == Record(p, edge)
             x == IntervalOf(w, k)
             H == HISTORY_SIZE
  <1>1. /\ p \in PatternType /\ p.last_edge_us \in Nat /\ p.accepted_events \in Nat
        /\ p.history_size \in 0 .. H /\ H \in Nat \ {0} /\ x \in Nat \ {0}
    BY SizesArePositive DEF WellFormed, PatternType
  <1>2. edge - p.last_edge_us = x /\ edge # 0
    BY <1>1
  <1>3. /\ r.last_edge_us = edge /\ r.accepted_events = p.accepted_events + 1
        /\ r.history_size = IF p.history_size < H THEN p.history_size + 1 ELSE p.history_size
    BY <1>1 DEF Record, PatternType
  <1>4. /\ back(r, 0) = x
        /\ \A i \in Nat : i + 1 < H => back(r, i + 1) = back(p, i)
    BY <1>1, <1>2, BackOfRecord
  <1>5. /\ p.accepted_events = k - 1
        /\ p.history_size = IF p.accepted_events < H THEN p.accepted_events ELSE H
        /\ \A i \in 0 .. p.history_size - 1 : back(p, i) = IntervalOf(w, k - 1 - i)
    BY DEF RingHolds
  <1> HIDE DEF r, x
  <1>6. ASSUME NEW j \in 0 .. r.history_size - 1
        PROVE  back(r, j) = IntervalOf(w, k + 1 - 1 - j)
    <2>1. CASE j = 0
      <3>1. k + 1 - 1 - j = k
        BY <2>1
      <3> QED BY <1>4, <2>1, <3>1 DEF x
    <2>2. CASE j # 0
      <3> DEFINE i == j - 1
      <3>1. /\ i \in Nat /\ i + 1 = j /\ i + 1 < H /\ i \in 0 .. p.history_size - 1
            /\ k - 1 - i = k + 1 - 1 - j
        BY <1>1, <1>3, <2>2
      <3> HIDE DEF i
      <3>2. back(r, i + 1) = back(p, i) /\ back(p, i) = IntervalOf(w, k - 1 - i)
        BY <1>4, <1>5, <3>1
      <3> QED BY <3>1, <3>2
    <2> QED BY <2>1, <2>2
  <1>7. /\ r.accepted_events = (k + 1) - 1
        /\ r.history_size = IF r.accepted_events < H THEN r.accepted_events ELSE H
        /\ r.last_edge_us # 0 /\ k + 1 # 0
    BY <1>1, <1>2, <1>3, <1>5
  <1> QED BY <1>6, <1>7 DEF RingHolds, r

\* A used edge of an unlocked pattern: either it is recorded and nothing
\* else, because it is too early or nothing wins, or a winner of the recorded
\* ring is locked.
LEMMA EdgeLocksWinner ==
    ASSUME NEW p, WellFormed(p), ~p.count_locked,
           NEW edge \in Nat, UsesEdge(p, edge)
    PROVE  LET r == Record(p, edge)
               q == ingest_edge(p, edge)
           IN  /\ WellFormed(r)
               /\ ~q.count_locked =>
                    /\ q = r
                    /\ r.accepted_events >= CONFIDENCE_EVENTS => Winners(r) = {}
               /\ q.count_locked => /\ q.spoke_count \in Winners(r)
                                    /\ r.accepted_events >= CONFIDENCE_EVENTS
  <1> DEFINE r == Record(p, edge)
             x == edge - p.last_edge_us
             asked == r.accepted_events >= CONFIDENCE_EVENTS
             i == IF ~r.count_locked /\ asked THEN infer_count(r) ELSE r
             q == ingest_edge(p, edge)
  <1>1. x \in ValidIntervals
    BY DEF UsesEdge
  <1>2. WellFormed(r) /\ r.count_locked = FALSE
    BY <1>1, RecordKeeps DEF WellFormed, PatternType
  <1>3. q = IF i.count_locked THEN update_map(i, x) ELSE i
    BY DEF ingest_edge, UseEdge
  <1> HIDE DEF r, q, x
  <1>4. CASE ~asked \/ Winners(r) = {}
    <2>1. i = r
      BY <1>4 DEF infer_count
    <2> QED BY <1>2, <1>3, <1>4, <2>1 DEF r, q
  <1>5. CASE asked /\ Winners(r) # {}
    <2> DEFINE n == CHOOSE n \in Winners(r) : TRUE
    <2>1. n \in Winners(r)
      BY <1>5
    <2>2. i = Lock(r, n)
      BY <1>2, <1>5 DEF infer_count
    <2>3. n \in Candidates(r)
      BY <2>1 DEF Winners
    <2> HIDE DEF n
    <2>4. WellFormed(i) /\ i.count_locked /\ i.spoke_count = n
      <3>1. WellFormed(Lock(r, n)) /\ Lock(r, n).count_locked
        BY <1>2, <2>3, LockKeeps
      <3>2. Lock(r, n).spoke_count = n
        BY <1>2 DEF Lock, WellFormed, PatternType
      <3> QED BY <2>2, <3>1, <3>2
    <2> HIDE DEF i
    <2>5. q.count_locked /\ q.spoke_count = n
      BY <1>1, <1>3, <2>4, MapKeeps DEF x
    <2> QED BY <1>2, <1>5, <2>1, <2>5 DEF q, r
  <1> QED BY <1>4, <1>5

\* An undisturbed spoke, while no count is locked: its interval is recorded,
\* and if a count is locked, it is a winner of the ring with this interval.
SpokeRecorded ==
    \E r : /\ WellFormed(r) /\ RingHolds(r, wheel, passed + 1)
           /\ ~pattern'.count_locked =>
                /\ pattern' = r
                /\ passed # 0 /\ r.accepted_events >= CONFIDENCE_EVENTS => Winners(r) = {}
           /\ pattern'.count_locked => /\ pattern'.spoke_count \in Winners(r)
                                       /\ r.accepted_events >= CONFIDENCE_EVENTS

\* That is what Seen does.
LEMMA SeenRecords ==
    ASSUME WheelIInv, HistoryFollows, Seen, missed = 0, EveryIntervalIsUsed(wheel),
           ~pattern.count_locked
    PROVE  SpokeRecorded
  <1> DEFINE p == pattern
             x == SpokeInterval
             edge == p.last_edge_us + waiting_us + x
  <1>1. /\ WellFormed(p) /\ p \in PatternType /\ p.last_edge_us \in Nat /\ passed \in Nat
        /\ waiting_us = 0 /\ RingHolds(p, wheel, passed)
        /\ x \in ValidIntervals /\ x \in Nat /\ x # 0
    <2>1. x \in ValidIntervals
      BY IntervalOfWheel DEF WheelIInv
    <2>2. WellFormed(p) /\ p \in PatternType /\ p.last_edge_us \in Nat /\ passed \in Nat
      BY DEF WheelIInv, WheelTypeOK, IInv, WellFormed, PatternType
    <2> QED BY <2>1, <2>2, SizesArePositive DEF HistoryFollows
  <1>2. edge \in Nat /\ edge = p.last_edge_us + x /\ edge # 0 /\ edge - p.last_edge_us = x
    BY <1>1
  <1>3. pattern' = ingest_edge(p, edge)
    BY DEF Seen, AcceptedPulse
  <1>4. x = IntervalOf(wheel, passed)
    BY DEF SpokeInterval, IntervalOf
  <1> HIDE DEF p, edge, x
  <1>5. CASE passed = 0
    <2>1. p.last_edge_us = 0
      BY <1>1, <1>5 DEF RingHolds
    <2>2. pattern' = [p EXCEPT !.last_edge_us = edge]
      BY <1>2, <1>3, <2>1 DEF ingest_edge, UsesEdge
    <2>3. WellFormed(pattern')
      BY <1>1, <1>2, <1>3, IngestKeeps
    <2>4. /\ pattern'.last_edge_us = edge /\ pattern'.count_locked = p.count_locked
          /\ pattern'.accepted_events = p.accepted_events
          /\ pattern'.history_size = p.history_size
          /\ \A i : back(pattern', i) = back(p, i)
      BY <1>1, <2>2 DEF PatternType, back
    <2>5. p.accepted_events = 0 /\ p.history_size = 0
      BY <1>1, <1>5, SizesArePositive DEF RingHolds
    <2>6. RingHolds(pattern', wheel, passed + 1)
      <3>1. 0 .. 0 - 1 = {}
        OBVIOUS
      <3> QED BY <1>2, <1>5, <2>4, <2>5, <3>1, SizesArePositive DEF RingHolds
    <2> QED BY <1>5, <2>3, <2>4, <2>6 DEF SpokeRecorded, p
  <1>6. CASE passed # 0
    <2>1. p.last_edge_us # 0
      BY <1>1, <1>6 DEF RingHolds
    <2>2. UsesEdge(p, edge)
      BY <1>1, <1>2, <2>1 DEF UsesEdge
    <2> DEFINE r == Record(p, edge)
    <2>3. passed \in Nat \ {0}
      BY <1>1, <1>6
    <2>4. RingHolds(r, wheel, passed + 1)
      BY <1>1, <1>2, <1>4, <2>3, RecordHolds
    <2>5. /\ WellFormed(r)
          /\ ~pattern'.count_locked =>
               /\ pattern' = r
               /\ r.accepted_events >= CONFIDENCE_EVENTS => Winners(r) = {}
          /\ pattern'.count_locked => /\ pattern'.spoke_count \in Winners(r)
                                      /\ r.accepted_events >= CONFIDENCE_EVENTS
      BY <1>1, <1>2, <1>3, <2>2, EdgeLocksWinner DEF p
    <2> QED BY <2>4, <2>5 DEF SpokeRecorded
  <1> QED BY <1>5, <1>6

\* The ring of an undisturbed wheel is empty at first.
LEMMA HistoryInitEstablishes == WheelInit => HistoryFollows
  <1> SUFFICES ASSUME WheelInit PROVE HistoryFollows
    OBVIOUS
  <1>1. waiting_us = 0 /\ passed = 0 /\ pattern = PatternInit
    BY DEF WheelInit, Init
  <1>2. /\ pattern.last_edge_us = 0 /\ pattern.accepted_events = 0
        /\ pattern.history_size = 0
    BY <1>1 DEF PatternInit
  <1>3. 0 .. 0 - 1 = {}
    OBVIOUS
  <1> QED BY <1>1, <1>2, <1>3, SizesArePositive DEF HistoryFollows, RingHolds

\* Every step keeps it so.
LEMMA HistoryNextKeeps ==
    WheelIInv /\ HistoryFollows /\ [WheelNext]_wheel_vars => HistoryFollows'
  <1> SUFFICES ASSUME WheelIInv, HistoryFollows, [WheelNext]_wheel_vars, missed' = 0
               PROVE  /\ waiting_us' = 0
                      /\ EveryIntervalIsUsed(wheel') /\ ~pattern'.count_locked =>
                           RingHolds(pattern', wheel', passed')
    BY DEF HistoryFollows
  <1>1. CASE Seen
    <2>1. /\ waiting_us' = 0 /\ wheel' = wheel /\ missed' = missed /\ passed' = passed + 1
      BY <1>1 DEF Seen
    <2>2. pattern.count_locked => pattern'.count_locked
      <3> DEFINE edge == pattern.last_edge_us + waiting_us + SpokeInterval
      <3>1. edge \in Nat /\ WellFormed(pattern)
        BY IntervalOfWheel DEF WheelIInv, WheelTypeOK, IInv, WellFormed, PatternType
      <3>2. pattern' = ingest_edge(pattern, edge)
        BY <1>1 DEF Seen, AcceptedPulse
      <3> HIDE DEF edge
      <3> QED BY <3>1, <3>2, IngestKeeps
    <2>3. ASSUME EveryIntervalIsUsed(wheel'), ~pattern'.count_locked
          PROVE  RingHolds(pattern', wheel', passed')
      <3>1. SpokeRecorded
        BY <1>1, <2>1, <2>2, <2>3, SeenRecords
      <3> QED BY <2>1, <2>3, <3>1 DEF SpokeRecorded
    <2> QED BY <2>1, <2>3
  <1>2. CASE Missed
    BY <1>2 DEF Missed, WheelIInv, WheelTypeOK
  <1>3. CASE UNCHANGED wheel_vars
    BY <1>3 DEF wheel_vars, vars, HistoryFollows
  <1> QED BY <1>1, <1>2, <1>3 DEF WheelNext

\* The ring follows the wheel in every run.
LEMMA RingFollowsWheel == WheelSpec => [](WheelIInv /\ HistoryFollows)
  BY WheelInvariance, HistoryInitEstablishes, HistoryNextKeeps, PTL DEF WheelSpec

-----------------------------------------------------------------------------
(* What infer_count makes of it.                                           *)

\* A candidate whose two turns are the same has score zero.
LEMMA RepeatedTurnScoresZero ==
    ASSUME NEW p, WellFormed(p), NEW n \in Candidates(p),
           \A i \in 0 .. n - 1 : back(p, i) = back(p, i + n)
    PROVE  Score(p, n).num = 0
  <1> DEFINE S == 0 .. n - 1
             d == [i \in S |-> AbsDiff(back(p, i), back(p, i + n))]
  <1>1. n \in Nat
    BY SizesArePositive DEF Candidates
  <1>2. \A i \in S : d[i] = 0
    <2> SUFFICES ASSUME NEW i \in S PROVE d[i] = 0
      OBVIOUS
    <2>1. i \in Nat /\ i + n \in Nat /\ i < p.history_size /\ i + n < p.history_size
      BY <1>1, SizesArePositive DEF Candidates, WellFormed, PatternType
    <2>2. back(p, i) \in Nat
      <3>1. back(p, i) \in ValidIntervals
        BY <2>1, BackIsRecorded DEF WellFormed
      <3> QED BY <3>1, SizesArePositive
    <2>3. d[i] = AbsDiff(back(p, i), back(p, i))
      OBVIOUS
    <2> QED BY <2>2, <2>3 DEF AbsDiff
  <1>3. IsFiniteSet(S) /\ DOMAIN d = S
    <2>1. 0 \in Int /\ n - 1 \in Int
      BY <1>1
    <2> QED BY <2>1, FS_Interval
  <1> HIDE DEF S, d
  <1>4. SumFunction(d) = 0
    BY <1>2, <1>3, SumOfZeros DEF SumFunction
  <1>5. Score(p, n).num = 0 * (1000 + n)
    BY <1>4 DEF Score, d, S
  <1> QED BY <1>1, <1>5

\* Nothing else can be clearly better then.
LEMMA RepeatedTurn ==
    ASSUME NEW p, WellFormed(p), NEW n \in Candidates(p),
           \A i \in 0 .. n - 1 : back(p, i) = back(p, i + n),
           NEW m \in Winners(p)
    PROVE  m = n
  <1>1. Score(p, n).num = 0
    BY RepeatedTurnScoresZero
  <1>2. ASSUME m # n PROVE FALSE
    <2> DEFINE a == Score(p, m)
               b == Score(p, n)
    <2>1. m \in Candidates(p) /\ ClearScore(a, b)
      BY <1>2 DEF Winners
    <2>2. a \in Fractions /\ b \in Fractions
      BY <2>1, ScoreIsFraction
    <2>3. 25 * a.num * b.den < 23 * b.num * a.den /\ b.num = 0
      BY <1>1, <2>1 DEF ClearScore
    <2> HIDE DEF a, b
    <2> DEFINE u == a.num
               v == b.den
               w == a.den
    <2>4. u \in Nat /\ v \in Nat /\ w \in Nat
      BY <2>2 DEF Fractions
    <2>5. 25 * u * v < 23 * 0 * w
      BY <2>3
    <2> HIDE DEF u, v, w
    <2>6. 25 * u * v \in Nat /\ 23 * 0 * w = 0
      BY <2>4
    <2> QED BY <2>5, <2>6
  <1> QED BY <1>2

\* A wheel that shows the ring its own turns is the only winner.
LEMMA WheelWins ==
    ASSUME NEW p, WellFormed(p), NEW w \in Seq(Nat), NEW k \in Nat, RingHolds(p, w, k),
           Len(w) \in Candidates(p), NEW m \in Winners(p)
    PROVE  m = Len(w)
  <1> DEFINE n == Len(w)
  <1>1. /\ n \in Nat \ {0} /\ p.history_size >= 2 * n /\ p.history_size \in Nat
    BY SizesArePositive DEF Candidates, WellFormed, PatternType
  <1>2. p.history_size <= k - 1
    BY <1>1, SizesArePositive DEF RingHolds
  <1>3. ASSUME NEW i \in 0 .. n - 1
        PROVE  back(p, i) = back(p, i + n)
    <2> DEFINE j == k - 1 - (i + n)
    <2>1. /\ i \in 0 .. p.history_size - 1 /\ i + n \in 0 .. p.history_size - 1
          /\ j \in Nat /\ k - 1 - i = j + n
      BY <1>1, <1>2
    <2>2. back(p, i) = IntervalOf(w, k - 1 - i) /\ back(p, i + n) = IntervalOf(w, j)
      BY <2>1 DEF RingHolds
    <2> HIDE DEF j
    <2>3. (j + n) % n = j % n
      BY <1>1, <2>1, OneTurn
    <2> QED BY <2>1, <2>2, <2>3 DEF IntervalOf
  <1> QED BY <1>3, RepeatedTurn

\* On a uniform wheel every candidate has score zero, so that none can win as
\* soon as there are two of them.
LEMMA UniformHasNoWinner ==
    ASSUME NEW p, WellFormed(p), NEW w \in Seq(Nat), Len(w) > 0, Uniform(w),
           NEW k \in Nat, RingHolds(p, w, k),
           NEW a \in Candidates(p), NEW b \in Candidates(p), a # b
    PROVE  Winners(p) = {}
  <1>1. ASSUME NEW i \in 0 .. p.history_size - 1
        PROVE  back(p, i) = w[1]
    <2>1. p.history_size \in Nat /\ p.history_size <= k - 1
      <3>1. p.history_size \in 0 .. HISTORY_SIZE
        BY DEF WellFormed, PatternType
      <3> QED BY <1>1, <3>1, SizesArePositive DEF RingHolds
    <2> DEFINE j == k - 1 - i
               n == Len(w)
    <2>2. j \in Nat /\ n \in Nat \ {0}
      BY <1>1, <2>1
    <2>3. back(p, i) = w[(j % n) + 1]
      BY <1>1 DEF RingHolds, IntervalOf
    <2> HIDE DEF j
    <2>4. j % n \in 0 .. n - 1
      BY ONLY <2>2, ModRange
    <2>5. (j % n) + 1 \in DOMAIN w /\ 1 \in DOMAIN w
      BY <2>2, <2>4
    <2> QED BY <2>3, <2>5 DEF Uniform
  <1>2. ASSUME NEW c \in Candidates(p), NEW m \in Winners(p) PROVE m = c
    <2>1. c \in Nat /\ 2 * c <= p.history_size /\ p.history_size \in Nat
      BY SizesArePositive DEF Candidates, WellFormed, PatternType
    <2>2. \A i \in 0 .. c - 1 : /\ i \in 0 .. p.history_size - 1
                                /\ i + c \in 0 .. p.history_size - 1
      BY <2>1
    <2>3. \A i \in 0 .. c - 1 : back(p, i) = back(p, i + c)
      BY <1>1, <2>2
    <2> QED BY <2>3, RepeatedTurn
  <1> QED BY <1>2

\* The turns of a wheel the receiver can measure are in the ring when the
\* count is inferred, and the right one is among the candidates.
EnoughHistory == CONFIDENCE_EVENTS >= 2 * COUNT_MAX

\* The true count is a candidate as soon as the inference begins.
LEMMA TrueCountIsCandidate ==
    ASSUME NEW r, WellFormed(r), NEW w, NEW k, RingHolds(r, w, k), Len(w) \in Counts,
           r.accepted_events >= CONFIDENCE_EVENTS, EnoughHistory
    PROVE  Len(w) \in Candidates(r)
  <1>1. r.history_size >= 2 * COUNT_MAX
    <2>1. r.accepted_events \in Nat /\ CONFIDENCE_EVENTS \in Nat /\ COUNT_MAX \in Nat
      BY PatternAssumption DEF WellFormed, PatternType
    <2> QED BY <2>1, SizesArePositive DEF EnoughHistory, RingHolds
  <1>2. r.history_size \in Nat
    BY SizesArePositive DEF WellFormed, PatternType
  <1>3. Len(w) \in Nat /\ Len(w) <= COUNT_MAX /\ COUNT_MAX \in Nat
    BY SizesArePositive, PatternAssumption DEF Counts
  <1>4. r.history_size >= 2 * Len(w)
    BY <1>1, <1>2, <1>3
  <1> QED BY <1>4 DEF Candidates

\* infer_count, ir_spoke_pattern.c: a count that is locked while no spoke was
\* missed is the number of spokes of the wheel, whatever its intervals are.
THEOREM TrueCountIsLocked ==
    ASSUME \A w \in Wheels : EveryIntervalIsUsed(w) /\ Len(w) \in Counts,
           EnoughHistory
    PROVE  WheelSpec => []LockedCountIsTrue
  <1>1. WheelInit => LockedCountIsTrue
    BY DEF WheelInit, Init, PatternInit, LockedCountIsTrue
  <1>2. ASSUME WheelIInv, HistoryFollows, LockedCountIsTrue, [WheelNext]_wheel_vars
        PROVE  LockedCountIsTrue'
    <2> SUFFICES ASSUME missed' = 0, pattern'.count_locked
                 PROVE  pattern'.spoke_count = Len(wheel')
      BY DEF LockedCountIsTrue
    <2>1. CASE Seen
      <3>1. /\ wheel' = wheel /\ missed' = missed /\ wheel \in Wheels
        BY <1>2, <2>1 DEF Seen, WheelIInv, WheelTypeOK
      <3>2. CASE pattern.count_locked
        <4> DEFINE edge == pattern.last_edge_us + waiting_us + SpokeInterval
        <4>1. edge \in Nat /\ WellFormed(pattern)
          BY <1>2, IntervalOfWheel DEF WheelIInv, WheelTypeOK, IInv, WellFormed, PatternType
        <4>2. pattern' = ingest_edge(pattern, edge)
          BY <2>1 DEF Seen, AcceptedPulse
        <4> HIDE DEF edge
        <4>3. pattern'.spoke_count = pattern.spoke_count
          BY <3>2, <4>1, <4>2, IngestKeeps
        <4> QED BY <1>2, <3>1, <3>2, <4>3 DEF LockedCountIsTrue
      <3>3. CASE ~pattern.count_locked
        <4>1. PICK r : /\ WellFormed(r) /\ RingHolds(r, wheel, passed + 1)
                       /\ pattern'.spoke_count \in Winners(r)
                       /\ r.accepted_events >= CONFIDENCE_EVENTS
          BY <1>2, <2>1, <3>1, <3>3, SeenRecords DEF SpokeRecorded
        <4>2. /\ wheel \in Seq(Nat) /\ Len(wheel) \in Counts /\ passed + 1 \in Nat
          BY <1>2, <3>1, WheelAssumption DEF WheelIInv, WheelTypeOK
        <4>3. Len(wheel) \in Candidates(r)
          BY <4>1, <4>2, TrueCountIsCandidate
        <4> QED BY <3>1, <4>1, <4>2, <4>3, WheelWins
      <3> QED BY <3>2, <3>3
    <2>2. CASE Missed
      BY <1>2, <2>2 DEF Missed, WheelIInv, WheelTypeOK
    <2>3. CASE UNCHANGED wheel_vars
      BY <1>2, <2>3 DEF wheel_vars, vars, LockedCountIsTrue
    <2> QED BY <1>2, <2>1, <2>2, <2>3 DEF WheelNext
  <1> QED BY <1>1, <1>2, RingFollowsWheel, PTL DEF WheelSpec

\* infer_count, ir_spoke_pattern.c: a wheel whose spokes are all alike never
\* locks a count, however many counts are considered.
THEOREM UniformWheelNeverLocks ==
    ASSUME COUNT_MIN < COUNT_MAX, CONFIDENCE_EVENTS >= 2 * (COUNT_MIN + 1)
    PROVE  WheelSpec => []UniformNeverLocks
  <1>1. WheelInit => UniformNeverLocks
    BY DEF WheelInit, Init, PatternInit, UniformNeverLocks
  <1>2. ASSUME WheelIInv, HistoryFollows, UniformNeverLocks, [WheelNext]_wheel_vars
        PROVE  UniformNeverLocks'
    <2> SUFFICES ASSUME missed' = 0, Uniform(wheel'), pattern'.count_locked
                 PROVE  FALSE
      BY DEF UniformNeverLocks
    <2>1. CASE Seen
      <3>1. /\ wheel' = wheel /\ missed' = missed /\ wheel \in Wheels
            /\ wheel \in Seq(Nat) /\ Len(wheel) > 0 /\ passed + 1 \in Nat
        BY <1>2, <2>1, WheelAssumption DEF Seen, WheelIInv, WheelTypeOK
      <3>2. ~pattern.count_locked
        BY <1>2, <3>1 DEF UniformNeverLocks
      <3>3. CASE EveryIntervalIsUsed(wheel)
        <4>1. PICK r : /\ WellFormed(r) /\ RingHolds(r, wheel, passed + 1)
                       /\ pattern'.spoke_count \in Winners(r)
                       /\ r.accepted_events >= CONFIDENCE_EVENTS
          BY <1>2, <2>1, <3>1, <3>2, <3>3, SeenRecords DEF SpokeRecorded
        <4>2. COUNT_MIN \in Candidates(r) /\ COUNT_MIN + 1 \in Candidates(r)
          <5>1. /\ r.accepted_events \in Nat /\ r.history_size \in Nat
                /\ CONFIDENCE_EVENTS \in Nat /\ COUNT_MIN \in Nat /\ COUNT_MAX \in Nat
                /\ HISTORY_SIZE = 2 * COUNT_MAX + 8
            BY <4>1, PatternAssumption, SizesArePositive
               DEF WellFormed, PatternType, HISTORY_SIZE
          <5>2. r.history_size >= 2 * (COUNT_MIN + 1)
            BY <4>1, <5>1 DEF RingHolds
          <5>3. COUNT_MIN \in Counts /\ COUNT_MIN + 1 \in Counts
            BY <5>1 DEF Counts
          <5>4. r.history_size >= 2 * COUNT_MIN
            BY <5>1, <5>2
          <5> QED BY <5>2, <5>3, <5>4 DEF Candidates
        <4>3. COUNT_MIN # COUNT_MIN + 1
          BY PatternAssumption
        <4>4. Winners(r) = {}
          BY <3>1, <4>1, <4>2, <4>3, UniformHasNoWinner
        <4> QED BY <4>1, <4>4
      <3>4. CASE ~EveryIntervalIsUsed(wheel)
        <4> DEFINE x == SpokeInterval
                   edge == pattern.last_edge_us + waiting_us + x
        <4>1. x \in Nat /\ x \notin ValidIntervals
          <5> DEFINE n == Len(wheel)
                     k == (passed % n) + 1
          <5>1. n \in Nat \ {0} /\ passed \in Nat
            BY <1>2, <3>1 DEF WheelIInv, WheelTypeOK
          <5>2. passed % n \in 0 .. n - 1
            BY ONLY <5>1, ModRange
          <5>3. k \in DOMAIN wheel
            BY <3>1, <5>1, <5>2
          <5>4. x = wheel[k]
            BY DEF SpokeInterval
          <5>5. x \notin ValidIntervals
            BY <3>1, <3>4, <5>3, <5>4 DEF EveryIntervalIsUsed, Uniform
          <5> QED BY <1>2, <5>5, IntervalOfWheel DEF WheelIInv
        <4>2. waiting_us = 0 /\ pattern.last_edge_us \in Nat /\ WellFormed(pattern)
          BY <1>2, <3>1 DEF HistoryFollows, WheelIInv, IInv, WellFormed, PatternType
        <4>3. pattern' = ingest_edge(pattern, edge)
          BY <2>1 DEF Seen, AcceptedPulse
        <4> HIDE DEF x
        <4>4. edge \in Nat /\ edge - pattern.last_edge_us = x
          BY <4>1, <4>2
        <4> HIDE DEF edge
        <4>5. ~UsesEdge(pattern, edge)
          BY <4>1, <4>4 DEF UsesEdge
        <4> QED BY <3>2, <4>2, <4>3, <4>4, <4>5, IngestKeeps
      <3> QED BY <3>3, <3>4
    <2>2. CASE Missed
      BY <1>2, <2>2 DEF Missed, WheelIInv, WheelTypeOK
    <2>3. CASE UNCHANGED wheel_vars
      BY <1>2, <2>3 DEF wheel_vars, vars, UniformNeverLocks
    <2> QED BY <1>2, <2>1, <2>2, <2>3 DEF WheelNext
  <1> QED BY <1>1, <1>2, RingFollowsWheel, PTL DEF WheelSpec

-----------------------------------------------------------------------------
(* When a count is locked.                                                 *)

\* When the k-th spoke has passed, every count but the wheel's own finds a
\* difference between the newest turn and the one before.
Decisive(w, k) ==
    \A m \in Counts \ {Len(w)} :
        \E i \in 0 .. m - 1 : IntervalOf(w, k - 1 - i) # IntervalOf(w, k - 1 - i - m)

\* A wheel that has such a spoke, looked for where two turns of every count
\* are behind it.  A wheel whose double is a count has none.
Identifiable(w) ==
    \E k \in 2 * COUNT_MAX + 1 .. 2 * COUNT_MAX + Len(w) : Decisive(w, k)

\* While nothing is locked, no decisive spoke has passed since the inference
\* began.
Undecided ==
    missed = 0 /\ EveryIntervalIsUsed(wheel) /\ Len(wheel) \in Counts
               /\ ~pattern.count_locked =>
        \A k \in CONFIDENCE_EVENTS + 1 .. passed : ~Decisive(wheel, k)

\* A score with one difference is above zero.
LEMMA DifferenceCounts ==
    ASSUME NEW p, WellFormed(p), NEW m \in Candidates(p), NEW i \in 0 .. m - 1,
           back(p, i) # back(p, i + m)
    PROVE  Score(p, m).num > 0
  <1> DEFINE S == 0 .. m - 1
             d == [j \in S |-> AbsDiff(back(p, j), back(p, j + m))]
  <1>1. m \in Nat \ {0} /\ 2 * m <= p.history_size /\ p.history_size \in Nat
    BY SizesArePositive DEF Candidates, WellFormed, PatternType
  <1>2. \A j \in S : back(p, j) \in Nat /\ back(p, j + m) \in Nat
    <2> SUFFICES ASSUME NEW j \in S PROVE back(p, j) \in Nat /\ back(p, j + m) \in Nat
      OBVIOUS
    <2>1. j \in Nat /\ j < p.history_size /\ j + m \in Nat /\ j + m < p.history_size
      BY <1>1
    <2>2. back(p, j) \in ValidIntervals /\ back(p, j + m) \in ValidIntervals
      BY <2>1, BackIsRecorded DEF WellFormed
    <2> QED BY <2>2, SizesArePositive
  <1>3. (\A j \in S : d[j] \in Nat) /\ d[i] # 0 /\ i \in S
    BY <1>2 DEF AbsDiff
  <1>4. IsFiniteSet(S) /\ DOMAIN d = S
    <2>1. 0 \in Int /\ m - 1 \in Int
      BY <1>1
    <2> QED BY <2>1, FS_Interval
  <1> HIDE DEF S, d
  <1>5. SumFunction(d) = d[i] + SumFunctionOnSet(d, S \ {i})
    BY <1>3, <1>4, SumTakesAny DEF SumFunction
  <1>6. SumFunctionOnSet(d, S \ {i}) \in Nat
    <2>1. IsFiniteSet(S \ {i})
      BY <1>4, FS_Difference
    <2> QED BY <1>3, <2>1, SumIsNatural
  <1> DEFINE total == SumFunction(d)
  <1>7. total \in Nat \ {0} /\ 1000 + m \in Nat \ {0}
    BY <1>1, <1>3, <1>5, <1>6
  <1>8. Score(p, m).num = total * (1000 + m)
    BY DEF Score, d, S
  <1> HIDE DEF total
  <1>9. total * (1000 + m) > 0
    BY <1>7
  <1> QED BY <1>8, <1>9

\* A candidate whose two turns are the same wins if every other one has a
\* difference.
LEMMA OnlyRepeatedTurnWins ==
    ASSUME NEW p, WellFormed(p), NEW n \in Candidates(p),
           \A i \in 0 .. n - 1 : back(p, i) = back(p, i + n),
           \A m \in Candidates(p) \ {n} : \E i \in 0 .. m - 1 : back(p, i) # back(p, i + m)
    PROVE  n \in Winners(p)
  <1> DEFINE b == Score(p, n)
  <1>1. b.num = 0 /\ b.den \in Nat \ {0}
    BY RepeatedTurnScoresZero, ScoreIsFraction DEF Fractions
  <1>2. GoodScore(b)
    BY <1>1 DEF GoodScore
  <1>3. ASSUME NEW m \in Candidates(p) \ {n} PROVE ClearScore(b, Score(p, m))
    <2> DEFINE a == Score(p, m)
               u == a.num
               v == b.den
               w == a.den
    <2>1. u \in Nat \ {0} /\ w \in Nat \ {0}
      BY DifferenceCounts, ScoreIsFraction DEF Fractions
    <2> HIDE DEF a, b
    <2>2. v \in Nat \ {0}
      BY <1>1
    <2> HIDE DEF u, v, w
    <2>3. u * v > 0
      BY <2>1, <2>2
    <2>4. u * v \in Nat
      BY <2>1, <2>2
    <2>5. 25 * 0 * w = 0 /\ 23 * u * v > 0
      <3>1. 23 * u * v = 23 * (u * v)
        BY <2>1, <2>2
      <3> QED BY <2>1, <2>3, <2>4, <3>1
    <2> QED BY <1>1, <2>5 DEF ClearScore, a, u, v, w
  <1> QED BY <1>2, <1>3 DEF Winners, b

\* The remainder of a number and of that number some turns later.
LEMMA SomeTurns ==
    ASSUME NEW n \in Nat \ {0}, NEW a \in Nat, NEW t \in Nat
    PROVE  (a + n * t) % n = a % n
  <1> DEFINE q == a \div n
             r == a % n
  <1>1. q \in Int /\ r \in 0 .. n - 1 /\ a = n * q + r
    BY SMT
  <1> HIDE DEF q, r
  <1>2. q \in Nat
    <2>1. ASSUME q < 0 PROVE FALSE
      <3>1. n * q <= -n
        BY <1>1, <2>1, SMT
      <3> QED BY <1>1, <3>1
    <2> QED BY <1>1, <2>1
  <1>3. a + n * t = n * (q + t) + r
    BY <1>1, <1>2
  <1>4. q + t \in Nat /\ r \in Nat /\ r < n
    BY <1>1, <1>2
  <1>5. (n * (q + t) + r) % n = r
    BY ONLY n \in Nat \ {0}, <1>4, ModOfSum
  <1> QED BY <1>3, <1>5 DEF r

\* A decisive spoke comes back in every turn.
LEMMA DecisiveAgain ==
    ASSUME NEW w \in Seq(Nat), Len(w) > 0, Identifiable(w),
           NEW start \in Nat, start >= 2 * COUNT_MAX
    PROVE  \E k \in start + 1 .. start + Len(w) : Decisive(w, k)
  <1> DEFINE n == Len(w)
  <1>1. n \in Nat \ {0} /\ COUNT_MAX \in Nat
    BY PatternAssumption
  <1>2. PICK e \in 2 * COUNT_MAX + 1 .. 2 * COUNT_MAX + n : Decisive(w, e)
    BY DEF Identifiable
  <1> DEFINE x == start + n - e
             t == x \div n
             r == x % n
             k == e + n * t
  <1>3. e \in Nat /\ x \in Nat
    BY <1>1, <1>2
  <1>4. t \in Int /\ r \in 0 .. n - 1 /\ x = n * t + r
    <2> HIDE DEF x, n
    <2> QED BY <1>1, <1>3, SMT
  <1> HIDE DEF t, r
  <1>5. t \in Nat
    <2>1. ASSUME t < 0 PROVE FALSE
      <3> HIDE DEF x, n
      <3>1. n * t <= -n
        BY <1>1, <1>4, <2>1, SMT
      <3> QED BY <1>1, <1>3, <1>4, <3>1
    <2> QED BY <1>4, <2>1
  <1>6. n * t \in Nat /\ k = start + n - r
    <2>1. n * t \in Nat
      BY <1>1, <1>5
    <2> QED BY <1>1, <1>3, <1>4, <2>1
  <1>7. k \in start + 1 .. start + n
    BY <1>1, <1>4, <1>6
  <1>8. ASSUME NEW m \in Counts \ {n}
        PROVE  \E i \in 0 .. m - 1 : IntervalOf(w, k - 1 - i) # IntervalOf(w, k - 1 - i - m)
    <2>1. PICK i \in 0 .. m - 1 : IntervalOf(w, e - 1 - i) # IntervalOf(w, e - 1 - i - m)
      BY <1>2 DEF Decisive
    <2>2. m \in Nat /\ m <= COUNT_MAX
      BY SizesArePositive, PatternAssumption DEF Counts
    <2> DEFINE a == e - 1 - i
               b == e - 1 - i - m
    <2>3. a \in Nat /\ b \in Nat
      BY <1>1, <1>2, <2>2
    <2>4. k - 1 - i = a + n * t /\ k - 1 - i - m = b + n * t
      BY <1>3, <1>6, <2>2
    <2> HIDE DEF a, b, k
    <2>5. (a + n * t) % n = a % n /\ (b + n * t) % n = b % n
      BY <1>1, <1>5, <2>3, SomeTurns
    <2>6. IntervalOf(w, k - 1 - i) = IntervalOf(w, a) /\ IntervalOf(w, k - 1 - i - m) = IntervalOf(w, b)
      BY <2>4, <2>5 DEF IntervalOf
    <2> QED BY <2>1, <2>6 DEF a, b
  <1> HIDE DEF k
  <1>9. Decisive(w, k)
    BY <1>8 DEF Decisive
  <1> QED BY <1>7, <1>9

\* With a decisive spoke the ring has a winner.
LEMMA DecisiveWins ==
    ASSUME NEW p, WellFormed(p), NEW w \in Seq(Nat), NEW k \in Nat, RingHolds(p, w, k),
           Len(w) \in Candidates(p), Decisive(w, k)
    PROVE  Len(w) \in Winners(p)
  <1> DEFINE n == Len(w)
  <1>1. /\ n \in Nat \ {0} /\ p.history_size >= 2 * n /\ p.history_size \in Nat
        /\ \A m \in Candidates(p) : m \in Counts /\ m \in Nat /\ 2 * m <= p.history_size
    BY SizesArePositive DEF Candidates, WellFormed, PatternType
  <1>2. p.history_size <= k - 1
    BY <1>1, SizesArePositive DEF RingHolds
  <1>3. ASSUME NEW i \in 0 .. n - 1
        PROVE  back(p, i) = back(p, i + n)
    <2> DEFINE j == k - 1 - (i + n)
    <2>1. /\ i \in 0 .. p.history_size - 1 /\ i + n \in 0 .. p.history_size - 1
          /\ j \in Nat /\ k - 1 - i = j + n
      BY <1>1, <1>2
    <2>2. back(p, i) = IntervalOf(w, k - 1 - i) /\ back(p, i + n) = IntervalOf(w, j)
      BY <2>1 DEF RingHolds
    <2> HIDE DEF j
    <2>3. (j + n) % n = j % n
      BY <1>1, <2>1, OneTurn
    <2> QED BY <2>1, <2>2, <2>3 DEF IntervalOf
  <1>4. ASSUME NEW m \in Candidates(p) \ {n}
        PROVE  \E i \in 0 .. m - 1 : back(p, i) # back(p, i + m)
    <2>1. PICK i \in 0 .. m - 1 : IntervalOf(w, k - 1 - i) # IntervalOf(w, k - 1 - i - m)
      BY <1>1 DEF Decisive
    <2> DEFINE h == p.history_size
    <2>2. m \in Nat /\ 2 * m <= h /\ h \in Nat /\ i \in Nat /\ i < m
      BY <1>1
    <2> HIDE DEF h
    <2>3. /\ i \in 0 .. h - 1 /\ i + m \in 0 .. h - 1
          /\ k - 1 - (i + m) = k - 1 - i - m
      BY ONLY <2>2, k \in Nat
    <2>4. back(p, i) = IntervalOf(w, k - 1 - i) /\ back(p, i + m) = IntervalOf(w, k - 1 - (i + m))
      BY <2>3 DEF RingHolds, h
    <2> QED BY <2>1, <2>3, <2>4
  <1> HIDE DEF n
  <1>5. n \in Candidates(p)
    BY DEF n
  <1>6. n \in Winners(p)
    BY <1>3, <1>4, <1>5, OnlyRepeatedTurnWins
  <1> QED BY <1>6 DEF n

\* No spoke that leaves the count unlocked is decisive.
LEMMA UndecidedNextKeeps ==
    ASSUME WheelIInv, HistoryFollows, Undecided, EnoughHistory, [WheelNext]_wheel_vars
    PROVE  Undecided'
  <1> SUFFICES ASSUME missed' = 0, EveryIntervalIsUsed(wheel'), Len(wheel') \in Counts,
                      ~pattern'.count_locked, NEW k \in CONFIDENCE_EVENTS + 1 .. passed',
                      Decisive(wheel', k)
               PROVE  FALSE
    BY DEF Undecided
  <1>1. CASE Seen
    <2>1. /\ wheel' = wheel /\ missed' = missed /\ passed' = passed + 1 /\ wheel \in Seq(Nat)
          /\ passed \in Nat /\ CONFIDENCE_EVENTS \in Nat /\ CONFIDENCE_EVENTS > 0
      BY <1>1, WheelAssumption, PatternAssumption
         DEF Seen, WheelIInv, WheelTypeOK, EnoughHistory
    <2>2. ~pattern.count_locked
      <3> DEFINE edge == pattern.last_edge_us + waiting_us + SpokeInterval
      <3>1. edge \in Nat /\ WellFormed(pattern)
        BY IntervalOfWheel DEF WheelIInv, WheelTypeOK, IInv, WellFormed, PatternType
      <3>2. pattern' = ingest_edge(pattern, edge)
        BY <1>1 DEF Seen, AcceptedPulse
      <3> HIDE DEF edge
      <3> QED BY <3>1, <3>2, IngestKeeps
    <2>3. CASE k <= passed
      BY <2>1, <2>2, <2>3 DEF Undecided
    <2>4. CASE k = passed + 1
      <3>1. PICK r : /\ WellFormed(r) /\ RingHolds(r, wheel, passed + 1)
                     /\ passed # 0 /\ r.accepted_events >= CONFIDENCE_EVENTS
                          => Winners(r) = {}
        BY <1>1, <2>1, <2>2, SeenRecords DEF SpokeRecorded
      <3>2. /\ passed # 0 /\ passed + 1 # 0 /\ passed + 1 \in Nat
            /\ passed >= CONFIDENCE_EVENTS
        BY <2>1, <2>4
      <3>3. r.accepted_events >= CONFIDENCE_EVENTS
        <4> DEFINE next == passed + 1
        <4>1. RingHolds(r, wheel, next) /\ next # 0 /\ next - 1 = passed
          BY <2>1, <3>1, <3>2
        <4> HIDE DEF next
        <4>2. r.accepted_events = next - 1
          BY <4>1 DEF RingHolds
        <4> QED BY <3>2, <4>1, <4>2
      <3>4. Len(wheel) \in Candidates(r)
        BY <2>1, <3>1, <3>3, TrueCountIsCandidate
      <3>5. Len(wheel) \in Winners(r)
        BY <2>1, <2>4, <3>1, <3>2, <3>4, DecisiveWins
      <3> QED BY <3>1, <3>2, <3>3, <3>5
    <2> QED BY <2>1, <2>3, <2>4
  <1>2. CASE Missed
    BY <1>2 DEF Missed, WheelIInv, WheelTypeOK
  <1>3. CASE UNCHANGED wheel_vars
    BY <1>3 DEF wheel_vars, vars, Undecided
  <1> QED BY <1>1, <1>2, <1>3 DEF WheelNext

\* infer_count, ir_spoke_pattern.c: an undisturbed wheel that is not uniform
\* locks within one turn after the inference has begun, if at one of its
\* spokes no other count repeats itself.
THEOREM UnevenWheelLocks ==
    ASSUME \A w \in Wheels : ~Uniform(w) =>
             EveryIntervalIsUsed(w) /\ Len(w) \in Counts /\ Identifiable(w),
           EnoughHistory
    PROVE  WheelSpec => []NonUniformLocks
  <1>1. WheelInit => Undecided
    <2> SUFFICES ASSUME WheelInit PROVE Undecided
      OBVIOUS
    <2>1. passed = 0 /\ CONFIDENCE_EVENTS + 1 .. 0 = {}
      BY PatternAssumption DEF WheelInit
    <2> QED BY <2>1 DEF Undecided
  <1>2. WheelIInv /\ HistoryFollows /\ Undecided /\ [WheelNext]_wheel_vars => Undecided'
    BY UndecidedNextKeeps
  <1>3. WheelIInv /\ HistoryFollows /\ Undecided => NonUniformLocks
    <2> SUFFICES ASSUME WheelIInv, HistoryFollows, Undecided, missed = 0, ~Uniform(wheel),
                        pattern.accepted_events >= CONFIDENCE_EVENTS + Len(wheel),
                        ~pattern.count_locked
                 PROVE  FALSE
      BY DEF NonUniformLocks
    <2>1. /\ wheel \in Wheels /\ wheel \in Seq(Nat) /\ Len(wheel) > 0 /\ passed \in Nat
          /\ Len(wheel) \in Nat /\ CONFIDENCE_EVENTS \in Nat
      BY WheelAssumption, PatternAssumption DEF WheelIInv, WheelTypeOK
    <2>2. EveryIntervalIsUsed(wheel) /\ Len(wheel) \in Counts /\ Identifiable(wheel)
      BY <2>1
    <2>3. passed >= CONFIDENCE_EVENTS + Len(wheel)
      <3>1. pattern.accepted_events = IF passed = 0 THEN 0 ELSE passed - 1
        BY <2>2 DEF HistoryFollows, RingHolds
      <3> QED BY <2>1, <3>1
    <2>4. PICK k \in CONFIDENCE_EVENTS + 1 .. CONFIDENCE_EVENTS + Len(wheel) : Decisive(wheel, k)
      BY <2>1, <2>2, DecisiveAgain DEF EnoughHistory
    <2>5. k \in CONFIDENCE_EVENTS + 1 .. passed
      BY <2>1, <2>3
    <2> QED BY <2>2, <2>4, <2>5 DEF Undecided
  <1> QED BY <1>1, <1>2, <1>3, RingFollowsWheel, PTL DEF WheelSpec
=============================================================================
