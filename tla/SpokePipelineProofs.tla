------------------------ MODULE SpokePipelineProofs -------------------------
(***************************************************************************)
(* Proofs about SpokePipeline for every value of its constants.  The       *)
(* lemmas follow ingest_edge from the inside out: the ring, the inference, *)
(* the table.  Then the inductive invariant is the conjunction of the      *)
(* invariants that the runs check.                                         *)
(***************************************************************************)
EXTENDS SpokePipeline, FoldLemmas

\* A pattern the program can hold.
WellFormed(p) ==
    /\ p \in PatternType
    /\ RingWellFormed(p)
    /\ IndexWellFormed(p)
    /\ LutWellFormed(p)

-----------------------------------------------------------------------------
(* Arithmetic of a ring index, and of the learning step.                   *)

\* A number below the modulus is its own remainder.
LEMMA ModSmall ==
    ASSUME NEW m \in Nat \ {0}, NEW a \in Nat, a < m
    PROVE  a % m = a
  BY SMT

\* A remainder lies below the modulus.
LEMMA ModRange ==
    ASSUME NEW m \in Nat \ {0}, NEW a \in Nat
    PROVE  a % m \in 0 .. m - 1
  BY SMT

\* The remainder of a number between the modulus and its double.
LEMMA ModWrap ==
    ASSUME NEW m \in Nat \ {0}, NEW a \in Nat, m <= a, a < 2 * m
    PROVE  a % m = a - m
  BY SMT

\* A cell moved 8% towards a new value stays between the bounds of both.
LEMMA LearnBetween ==
    ASSUME NEW cell \in Nat, NEW x \in Nat, NEW lo \in Nat, NEW hi \in Nat,
           lo <= cell, cell <= hi, lo <= x, x <= hi
    PROVE  LET learned == cell + ((2 * (x - cell)) \div 25)
           IN  learned \in Nat /\ lo <= learned /\ learned <= hi
  BY SMT

\* The sizes of the ring and of the table are positive.
LEMMA SizesArePositive ==
    /\ HISTORY_SIZE \in Nat \ {0}
    /\ 2 * COUNT_MAX < HISTORY_SIZE
    /\ Counts \subseteq Nat \ {0}
    /\ \A n \in Counts : 2 <= n /\ n <= COUNT_MAX
    /\ ValidIntervals \subseteq Nat \ {0}
  BY PatternAssumption DEF HISTORY_SIZE, Counts, ValidIntervals

-----------------------------------------------------------------------------
(* The ring.                                                               *)

\* back reads a filled cell as long as it goes back no further than the size.
LEMMA BackIsRecorded ==
    ASSUME NEW p \in PatternType, RingWellFormed(p),
           NEW n \in Nat, n < p.history_size
    PROVE  back(p, n) \in ValidIntervals
  <1> DEFINE a == p.history_head + HISTORY_SIZE - 1 - n
             H == HISTORY_SIZE
  <1>1. /\ H \in Nat \ {0}
        /\ p.history_head \in 0 .. H - 1
        /\ p.history_size \in 0 .. H
    BY SizesArePositive DEF PatternType, Ring
  <1>2. a \in Nat /\ a < 2 * H
    BY <1>1
  <1>3. a % H \in Ring
    BY <1>1, <1>2, ModRange DEF Ring
  <1>4. a % H < p.history_size
    <2>1. CASE p.history_size < H
      <3>1. p.history_head = p.history_size
        BY <2>1 DEF RingWellFormed
      <3>2. H <= a /\ a - H < p.history_size
        BY <1>1, <3>1
      <3>3. a % H = a - H
        BY ONLY <1>1, <1>2, <3>2, ModWrap
      <3> QED BY <3>2, <3>3
    <2>2. CASE ~(p.history_size < H)
      BY <1>1, <1>3, <2>2 DEF Ring
    <2> QED BY <2>1, <2>2
  <1>5. p.history[a % H] \in ValidIntervals
    BY <1>3, <1>4 DEF RingWellFormed
  <1> QED BY <1>5 DEF back

\* Recording a valid interval keeps the pattern well formed.
LEMMA RecordKeeps ==
    ASSUME NEW p, WellFormed(p), NEW edge \in Nat,
           edge - p.last_edge_us \in ValidIntervals
    PROVE  /\ WellFormed(Record(p, edge))
           /\ Record(p, edge).last_edge_us = edge
           /\ Record(p, edge).count_locked = p.count_locked
           /\ Record(p, edge).spoke_count = p.spoke_count
           /\ Record(p, edge).spoke_index = p.spoke_index
  <1> DEFINE r == Record(p, edge)
             interval == edge - p.last_edge_us
             H == HISTORY_SIZE
             h == [p.history EXCEPT ![p.history_head] = interval]
             head == (p.history_head + 1) % H
             size == IF p.history_size < H THEN p.history_size + 1 ELSE p.history_size
  <1>1. /\ H \in Nat \ {0}
        /\ interval \in Nat
    BY SizesArePositive
  <1>2. p \in PatternType
    BY DEF WellFormed
  <1>3. /\ p.history_head \in 0 .. H - 1
        /\ p.history_size \in 0 .. H
        /\ p.accepted_events \in Nat
        /\ p.history \in [Ring -> Nat]
    BY <1>2 DEF PatternType, Ring
  <1>4. /\ h \in [Ring -> Nat]
        /\ size \in 0 .. H
        /\ p.accepted_events + 1 \in Nat
    <2>1. h \in [Ring -> Nat]
      BY <1>1, <1>3, Zenon
    <2>2. size \in 0 .. H
      BY <1>1, <1>3
    <2>3. p.accepted_events + 1 \in Nat
      BY <1>3
    <2> QED BY <2>1, <2>2, <2>3
  <1>5. head \in Ring
    <2>1. p.history_head + 1 \in Nat
      BY <1>1, <1>3
    <2>2. head \in 0 .. H - 1
      BY ONLY <1>1, <2>1, ModRange
    <2> QED BY <2>2 DEF Ring
  <1>6. /\ r \in PatternType
        /\ r.history = h /\ r.history_head = head /\ r.history_size = size
        /\ r.accepted_events = p.accepted_events + 1 /\ r.last_edge_us = edge
        /\ r.interval_lut = p.interval_lut /\ r.spoke_index = p.spoke_index
        /\ r.spoke_count = p.spoke_count /\ r.current_spoke = p.current_spoke
        /\ r.count_locked = p.count_locked
    <2>1. r = [p EXCEPT !.last_edge_us = edge, !.history = h,
                        !.history_head = head, !.history_size = size,
                        !.accepted_events = p.accepted_events + 1]
      BY <1>2 DEF Record, PatternType
    <2> HIDE DEF h, head, size, r
    <2> QED BY <1>2, <1>4, <1>5, <2>1 DEF PatternType
  <1> HIDE DEF r
  <1>7. RingWellFormed(r)
    <2>1. ASSUME r.history_size < H PROVE r.history_head = r.history_size
      <3>1. p.history_size < H /\ p.history_head = p.history_size
        BY <1>2, <1>3, <1>6, <2>1 DEF WellFormed, RingWellFormed
      <3>2. p.history_head + 1 < H
        BY <1>3, <1>6, <2>1, <3>1
      <3> QED BY <1>1, <1>3, <1>6, <3>1, <3>2, ModSmall
    <2>2. ASSUME NEW k \in Ring, k < r.history_size
          PROVE  r.history[k] \in ValidIntervals
      <3>1. CASE k = p.history_head
        BY <1>3, <1>6, <3>1 DEF Ring
      <3>2. CASE k # p.history_head
        <4>1. k < p.history_size
          BY <1>3, <1>6, <2>2, <3>2 DEF Ring, WellFormed, RingWellFormed
        <4>2. r.history[k] = p.history[k]
          BY <1>3, <1>6, <3>2
        <4> QED BY <4>1, <4>2 DEF WellFormed, RingWellFormed
      <3> QED BY <3>1, <3>2
    <2> QED BY <2>1, <2>2 DEF RingWellFormed
  <1>8. IndexWellFormed(r)
    BY <1>6 DEF WellFormed, IndexWellFormed
  <1>9. LutWellFormed(r)
    BY <1>6 DEF WellFormed, LutWellFormed
  <1> QED BY <1>6, <1>7, <1>8, <1>9 DEF WellFormed, r

-----------------------------------------------------------------------------
(* The inference and the table.                                            *)

\* Scaling to table steps keeps the order of an interval and its bounds.
LEMMA ScaledBounds ==
    ASSUME NEW x \in ValidIntervals
    PROVE  /\ LUT_SCALE * x \in Nat
           /\ LUT_SCALE * BLOCK_MIN_US <= LUT_SCALE * x
           /\ LUT_SCALE * x <= LUT_SCALE * LINK_LOSS_US
  <1>1. /\ LUT_SCALE \in Nat /\ BLOCK_MIN_US \in Nat /\ LINK_LOSS_US \in Nat
        /\ x \in Nat /\ BLOCK_MIN_US <= x /\ x <= LINK_LOSS_US
    BY PatternAssumption DEF ValidIntervals
  <1>2. \A s, a, b \in Nat : a <= b => s * a \in Nat /\ s * a <= s * b
    BY SMT
  <1> QED BY <1>1, <1>2

\* Locking a candidate fills the table from recorded intervals only.
LEMMA LockKeeps ==
    ASSUME NEW p, WellFormed(p), NEW n \in Candidates(p)
    PROVE  /\ WellFormed(Lock(p, n)) \/ p.count_locked
           /\ Lock(p, n).count_locked
           /\ Lock(p, n).spoke_index = 0
           /\ Lock(p, n).last_edge_us = p.last_edge_us
  <1> DEFINE r == Lock(p, n)
             lut == [k \in Cells |-> IF k < n THEN LUT_SCALE * back(p, n - 1 - k)
                                              ELSE p.interval_lut[k]]
  <1>1. /\ n \in Counts /\ n \in Nat \ {0} /\ n <= COUNT_MAX
        /\ p.history_size >= 2 * n
        /\ p \in PatternType /\ RingWellFormed(p) /\ IndexWellFormed(p)
    BY SizesArePositive DEF Candidates, WellFormed
  <1>2. ASSUME NEW k \in Cells, k < n
        PROVE  back(p, n - 1 - k) \in ValidIntervals
    <2>1. n - 1 - k \in Nat /\ n - 1 - k < p.history_size
      BY <1>1, <1>2 DEF Cells, PatternType
    <2> QED BY <1>1, <2>1, BackIsRecorded
  <1>3. lut \in [Cells -> Nat]
    <2>1. ASSUME NEW k \in Cells
          PROVE  (IF k < n THEN LUT_SCALE * back(p, n - 1 - k)
                           ELSE p.interval_lut[k]) \in Nat
      BY <1>1, <1>2, ScaledBounds DEF PatternType
    <2> QED BY <2>1
  <1>4. 0 \in Cells
    BY PatternAssumption DEF Cells
  <1>5. /\ r.interval_lut = lut /\ r.spoke_count = n /\ r.count_locked = TRUE
        /\ r.spoke_index = 0 /\ r.current_spoke = p.current_spoke
        /\ r.history = p.history /\ r.history_head = p.history_head
        /\ r.history_size = p.history_size /\ r.last_edge_us = p.last_edge_us
    BY <1>1 DEF Lock, PatternType
  <1>6. r \in PatternType
    <2>1. r = [p EXCEPT !.spoke_count = n, !.count_locked = TRUE,
                        !.interval_lut = lut, !.spoke_index = 0]
      BY <1>1 DEF Lock, PatternType
    <2> HIDE DEF r, lut
    <2> QED BY <1>1, <1>3, <1>4, <2>1 DEF PatternType
  <1>7. RingWellFormed(r)
    BY <1>1, <1>5 DEF RingWellFormed
  <1>8. LutWellFormed(r)
    <2> SUFFICES ASSUME NEW k \in 0 .. n - 1
                 PROVE  /\ LUT_SCALE * BLOCK_MIN_US <= r.interval_lut[k]
                        /\ r.interval_lut[k] <= LUT_SCALE * LINK_LOSS_US
      BY <1>5 DEF LutWellFormed
    <2>1. k \in Cells /\ k < n
      BY <1>1, PatternAssumption DEF Cells
    <2>2. r.interval_lut[k] = LUT_SCALE * back(p, n - 1 - k)
      BY <1>5, <2>1
    <2> QED BY <1>2, <2>1, <2>2, ScaledBounds
  <1>9. ~p.count_locked => IndexWellFormed(r)
    BY <1>1, <1>5 DEF IndexWellFormed
  <1> QED BY <1>5, <1>6, <1>7, <1>8, <1>9 DEF WellFormed

\* The inference either leaves the pattern alone or locks it at spoke 0.
LEMMA InferKeeps ==
    ASSUME NEW p, WellFormed(p), ~p.count_locked
    PROVE  /\ WellFormed(infer_count(p))
           /\ infer_count(p).last_edge_us = p.last_edge_us
           /\ infer_count(p).spoke_index = 0
  <1>1. CASE Winners(p) = {}
    BY <1>1 DEF infer_count, WellFormed, IndexWellFormed
  <1>2. CASE Winners(p) # {}
    <2>1. PICK n \in Winners(p) : n = CHOOSE m \in Winners(p) : TRUE
      BY <1>2
    <2>2. n \in Candidates(p)
      BY <2>1 DEF Winners
    <2>3. infer_count(p) = Lock(p, n)
      BY <1>2, <2>1 DEF infer_count
    <2> QED BY <2>2, <2>3, LockKeeps
  <1> QED BY <1>1, <1>2

\* Mapping a valid interval keeps the table within its bounds and moves the
\* index to the next spoke.
LEMMA MapKeeps ==
    ASSUME NEW p, WellFormed(p), p.count_locked, NEW interval \in ValidIntervals
    PROVE  LET r == update_map(p, interval)
           IN  /\ WellFormed(r)
               /\ r.count_locked /\ r.spoke_count = p.spoke_count
               /\ r.last_edge_us = p.last_edge_us
               /\ r.spoke_index = IF p.spoke_index + 1 = p.spoke_count
                                  THEN 0 ELSE p.spoke_index + 1
  <1> DEFINE r    == update_map(p, interval)
             i    == p.spoke_index
             n    == p.spoke_count
             cell == p.interval_lut[i]
             prev == IF cell > 0 THEN cell ELSE LUT_SCALE * interval
             new  == IF InsideGate(interval, prev) THEN Learn(cell, interval) ELSE cell
             next == (i + 1) % n
             lo   == LUT_SCALE * BLOCK_MIN_US
             hi   == LUT_SCALE * LINK_LOSS_US
  <1>1. /\ p \in PatternType /\ RingWellFormed(p)
        /\ n \in Counts /\ n \in Nat \ {0} /\ n <= COUNT_MAX
        /\ i \in Nat /\ i < n /\ i \in Cells
        /\ p.interval_lut \in [Cells -> Nat]
    <2>1. p \in PatternType /\ RingWellFormed(p)
      BY DEF WellFormed
    <2>2. n \in Counts /\ i < n
      BY DEF WellFormed, IndexWellFormed
    <2>3. i \in Cells /\ p.interval_lut \in [Cells -> Nat]
      BY <2>1 DEF PatternType
    <2>4. i \in Nat
      BY <2>3, PatternAssumption DEF Cells
    <2> QED BY <2>1, <2>2, <2>3, <2>4, SizesArePositive
  <1>2. cell \in Nat /\ lo <= cell /\ cell <= hi /\ lo \in Nat /\ hi \in Nat
    <2>1. i \in 0 .. n - 1
      BY <1>1
    <2>2. lo <= cell /\ cell <= hi
      BY <2>1 DEF WellFormed, LutWellFormed
    <2>3. lo \in Nat /\ hi \in Nat
      BY ScaledBounds, PatternAssumption DEF ValidIntervals
    <2> QED BY <1>1, <2>2, <2>3
  <1>3. new \in Nat /\ lo <= new /\ new <= hi
    <2>1. LUT_SCALE * interval \in Nat /\ lo <= LUT_SCALE * interval
                                      /\ LUT_SCALE * interval <= hi
      BY ScaledBounds
    <2> HIDE DEF lo, hi, cell
    <2>2. Learn(cell, interval) \in Nat /\ lo <= Learn(cell, interval)
                                       /\ Learn(cell, interval) <= hi
      BY <1>2, <2>1, LearnBetween DEF Learn
    <2> QED BY <1>2, <2>2
  <1>4. next \in Cells /\ next < n /\ next = IF i + 1 = n THEN 0 ELSE i + 1
    <2>1. CASE i + 1 < n
      <3>1. (i + 1) % n = i + 1
        BY ONLY <1>1, <2>1, ModSmall
      <3> QED BY <1>1, <2>1, <3>1, PatternAssumption DEF Cells
    <2>2. CASE i + 1 = n
      <3>1. (i + 1) % n = 0
        <4>1. i + 1 \in Nat /\ n <= i + 1 /\ i + 1 < 2 * n
          BY <1>1, <2>2
        <4>2. (i + 1) % n = (i + 1) - n
          BY ONLY <1>1, <4>1, ModWrap
        <4> QED BY <1>1, <2>2, <4>2
      <3> QED BY <1>1, <2>2, <3>1, PatternAssumption DEF Cells
    <2> QED BY <1>1, <2>1, <2>2
  <1>5. /\ r.interval_lut = [p.interval_lut EXCEPT ![i] = new]
        /\ r.spoke_index = next /\ r.current_spoke = next
        /\ r.spoke_count = n /\ r.count_locked
        /\ r.history = p.history /\ r.history_head = p.history_head
        /\ r.history_size = p.history_size /\ r.last_edge_us = p.last_edge_us
    BY <1>1 DEF update_map, LearnAndMove, PatternType
  <1>6. r \in PatternType
    <2> DEFINE lut == [p.interval_lut EXCEPT ![i] = new]
    <2>1. r = [p EXCEPT !.interval_lut = lut, !.spoke_index = next,
                        !.current_spoke = next]
      BY <1>1 DEF update_map, LearnAndMove, PatternType
    <2>2. lut \in [Cells -> Nat]
      BY <1>1, <1>3
    <2> HIDE DEF r, lut, next
    <2> QED BY <1>1, <1>4, <2>1, <2>2 DEF PatternType
  <1>7. RingWellFormed(r)
    BY <1>1, <1>5 DEF RingWellFormed
  <1>8. IndexWellFormed(r)
    BY <1>1, <1>4, <1>5 DEF IndexWellFormed
  <1>9. LutWellFormed(r)
    <2> SUFFICES ASSUME NEW k \in 0 .. n - 1
                 PROVE  lo <= r.interval_lut[k] /\ r.interval_lut[k] <= hi
      BY <1>5 DEF LutWellFormed
    <2>1. k \in Cells
      BY <1>1, PatternAssumption DEF Cells
    <2>2. r.interval_lut[k] = IF k = i THEN new ELSE p.interval_lut[k]
      BY <1>1, <1>5, <2>1
    <2>3. lo <= p.interval_lut[k] /\ p.interval_lut[k] <= hi
      BY DEF WellFormed, LutWellFormed
    <2> HIDE DEF new, lo, hi, r
    <2> QED BY <1>3, <2>2, <2>3
  <1> HIDE DEF r
  <1>10. /\ WellFormed(r)
         /\ r.count_locked /\ r.spoke_count = p.spoke_count
         /\ r.last_edge_us = p.last_edge_us
         /\ r.spoke_index = IF p.spoke_index + 1 = p.spoke_count
                             THEN 0 ELSE p.spoke_index + 1
    BY <1>4, <1>5, <1>6, <1>7, <1>8, <1>9 DEF WellFormed
  <1> QED BY <1>10 DEF r

\* One edge: what it does to the lock, to the index and to the clock.
LEMMA IngestKeeps ==
    ASSUME NEW p, WellFormed(p), NEW edge \in Nat
    PROVE  LET r == ingest_edge(p, edge)
           IN  /\ WellFormed(r)
               /\ UsesEdge(p, edge) =>
                    /\ r.last_edge_us = edge
                    /\ p.count_locked =>
                         /\ r.count_locked /\ r.spoke_count = p.spoke_count
                         /\ r.spoke_index = IF p.spoke_index + 1 = p.spoke_count
                                            THEN 0 ELSE p.spoke_index + 1
                    /\ ~p.count_locked /\ r.count_locked => r.spoke_index = 1
               /\ ~UsesEdge(p, edge) =>
                    /\ r.last_edge_us \in {edge, p.last_edge_us}
                    /\ r.count_locked = p.count_locked
                    /\ r.spoke_count = p.spoke_count
                    /\ r.spoke_index = p.spoke_index
  <1> DEFINE r == ingest_edge(p, edge)
             interval == edge - p.last_edge_us
             rec == Record(p, edge)
             inf == IF ~rec.count_locked /\ rec.accepted_events >= CONFIDENCE_EVENTS
                    THEN infer_count(rec) ELSE rec
  <1>1. CASE UsesEdge(p, edge)
    <2>1. interval \in ValidIntervals
      BY <1>1 DEF UsesEdge
    <2>2. /\ WellFormed(rec) /\ rec.last_edge_us = edge
          /\ rec.count_locked = p.count_locked /\ rec.spoke_count = p.spoke_count
          /\ rec.spoke_index = p.spoke_index
      BY <2>1, RecordKeeps
    <2>3. r = IF inf.count_locked THEN update_map(inf, interval) ELSE inf
      BY <1>1 DEF ingest_edge, UseEdge
    <2>4. CASE p.count_locked
      <3>1. inf = rec
        BY <2>2, <2>4
      <3>2. r = update_map(rec, interval)
        BY <2>2, <2>3, <2>4, <3>1
      <3> HIDE DEF rec, inf, r, interval
      <3>3. r.count_locked /\ WellFormed(r) /\ r.spoke_count = rec.spoke_count
            /\ r.last_edge_us = rec.last_edge_us
            /\ r.spoke_index = IF rec.spoke_index + 1 = rec.spoke_count
                                THEN 0 ELSE rec.spoke_index + 1
        BY <2>1, <2>2, <2>4, <3>2, MapKeeps
      <3> QED BY <1>1, <2>2, <2>4, <3>3 DEF r
    <2>5. CASE ~p.count_locked
      <3>1. WellFormed(inf) /\ inf.last_edge_us = edge /\ inf.spoke_index = 0
        <4>1. rec.spoke_index = 0
          BY <2>2, <2>5 DEF WellFormed, IndexWellFormed
        <4> HIDE DEF rec
        <4> QED BY <2>2, <2>5, <4>1, InferKeeps
      <3> HIDE DEF rec, inf, r, interval
      <3>2. CASE inf.count_locked
        <4>1. r = update_map(inf, interval)
          BY <2>3, <3>2
        <4>2. inf.spoke_count >= 2 /\ inf.spoke_count \in Nat
          BY <3>1, <3>2, SizesArePositive DEF WellFormed, IndexWellFormed
        <4>3. WellFormed(r) /\ r.last_edge_us = inf.last_edge_us
              /\ r.spoke_index = IF inf.spoke_index + 1 = inf.spoke_count
                                  THEN 0 ELSE inf.spoke_index + 1
          BY <2>1, <3>1, <3>2, <4>1, MapKeeps
        <4>4. r.spoke_index = 1
          BY <3>1, <4>2, <4>3
        <4> QED BY <1>1, <2>5, <3>1, <4>3, <4>4 DEF r
      <3>3. CASE ~inf.count_locked
        <4>1. r = inf
          BY <2>3, <3>3
        <4> QED BY <1>1, <2>5, <3>1, <3>3, <4>1 DEF r
      <3> QED BY <3>2, <3>3
    <2> QED BY <2>4, <2>5
  <1>2. CASE ~UsesEdge(p, edge)
    <2>1. CASE edge = 0
      BY <1>2, <2>1 DEF ingest_edge
    <2>2. CASE edge # 0
      <3>1. r = [p EXCEPT !.last_edge_us = edge]
        BY <1>2, <2>2 DEF ingest_edge
      <3>2. p \in PatternType
        BY DEF WellFormed
      <3>3. /\ r \in PatternType /\ r.last_edge_us = edge
            /\ r.count_locked = p.count_locked /\ r.spoke_count = p.spoke_count
            /\ r.spoke_index = p.spoke_index /\ r.current_spoke = p.current_spoke
            /\ r.history = p.history /\ r.history_head = p.history_head
            /\ r.history_size = p.history_size /\ r.interval_lut = p.interval_lut
        BY <3>1, <3>2 DEF PatternType
      <3> HIDE DEF r
      <3>4. WellFormed(r)
        BY <3>3 DEF WellFormed, RingWellFormed, IndexWellFormed, LutWellFormed
      <3> QED BY <1>2, <3>3, <3>4 DEF r
    <2> QED BY <2>1, <2>2
  <1> QED BY <1>1, <1>2

-----------------------------------------------------------------------------
(* The state machine.                                                      *)

\* The inductive invariant: the checked invariants together.  Counting turns
\* needs the index to be in range, and the range of the index needs the
\* table, the ring and the types.
IInv ==
    /\ TypeOK
    /\ WellFormed(pattern)
    /\ RevolutionConservation
    /\ RevolutionSpacing

\* ir_spoke_pattern_init gives a well-formed pattern.
LEMMA InitIsWellFormed == Init => WellFormed(pattern)
  <1> SUFFICES ASSUME Init PROVE WellFormed(pattern)
    OBVIOUS
  <1>1. 0 \in Ring /\ 0 \in Cells /\ 0 \in 0 .. HISTORY_SIZE
    BY SizesArePositive, PatternAssumption DEF Ring, Cells
  <1>2. pattern = PatternInit
    BY DEF Init
  <1>3. PatternInit \in PatternType
    BY <1>1 DEF PatternInit, PatternType
  <1>4. RingWellFormed(PatternInit)
    BY SizesArePositive DEF PatternInit, RingWellFormed, Ring
  <1>5. IndexWellFormed(PatternInit) /\ LutWellFormed(PatternInit)
    BY DEF PatternInit, IndexWellFormed, LutWellFormed
  <1> QED BY <1>2, <1>3, <1>4, <1>5 DEF WellFormed

\* An accepted blockage no earlier than the previous one.
LEMMA AcceptedPulseKeeps ==
    ASSUME IInv, NEW edge \in Nat, NEW duration,
           AcceptedPulse(edge, duration), pattern.last_edge_us <= edge
    PROVE  /\ IInv'
           /\ revolutions > 0 /\ revolutions' # revolutions =>
                last_revolution_us' - last_revolution_us
                    >= pattern.spoke_count * BLOCK_MIN_US
  <1> DEFINE i == pattern.spoke_index
             n == pattern.spoke_count
             B == BLOCK_MIN_US
             last == pattern.last_edge_us
  <1>1. WellFormed(pattern) /\ pattern \in PatternType /\ TypeOK
        /\ RevolutionConservation /\ RevolutionSpacing
    BY DEF IInv, WellFormed
  <1>2. pattern' = ingest_edge(pattern, edge)
    BY DEF AcceptedPulse
  <1>3. /\ WellFormed(pattern')
        /\ UsesEdge(pattern, edge) =>
             /\ pattern'.last_edge_us = edge
             /\ pattern.count_locked =>
                  /\ pattern'.count_locked /\ pattern'.spoke_count = n
                  /\ pattern'.spoke_index = IF i + 1 = n THEN 0 ELSE i + 1
             /\ ~pattern.count_locked /\ pattern'.count_locked
                    => pattern'.spoke_index = 1
        /\ ~UsesEdge(pattern, edge) =>
             /\ pattern'.last_edge_us \in {edge, last}
             /\ pattern'.count_locked = pattern.count_locked
             /\ pattern'.spoke_count = n
             /\ pattern'.spoke_index = i
    BY <1>1, <1>2, IngestKeeps
  <1>4. /\ i \in Nat /\ last \in Nat /\ B \in Nat
        /\ mapped \in Nat /\ revolutions \in Nat /\ last_revolution_us \in Nat
        /\ n \in Nat
        /\ pattern.current_spoke = i
        /\ pattern.count_locked => n >= 2 /\ i < n
        /\ ~pattern.count_locked => n = 0 /\ i = 0
    <2>1. i \in Cells /\ last \in Nat
      BY <1>1 DEF PatternType
    <2>2. i \in Nat
      BY <2>1, PatternAssumption DEF Cells
    <2>3. pattern.count_locked => n \in Nat /\ n >= 2 /\ i < n
      BY <1>1, SizesArePositive DEF WellFormed, IndexWellFormed
    <2>4. ~pattern.count_locked => n = 0 /\ i = 0
      BY <1>1 DEF WellFormed, IndexWellFormed
    <2>5. pattern.count_locked \in BOOLEAN
      BY <1>1 DEF PatternType
    <2> QED BY <1>1, <2>1, <2>2, <2>3, <2>4, <2>5, PatternAssumption
            DEF TypeOK, WellFormed, IndexWellFormed
  <1>5. /\ pattern'.current_spoke = pattern'.spoke_index
        /\ pattern' \in PatternType
        /\ ~pattern'.count_locked => pattern'.spoke_index = 0
    BY <1>3 DEF WellFormed, IndexWellFormed
  <1>6. CASE ~UsesEdge(pattern, edge)
    <2>1. UNCHANGED <<mapped, revolutions, last_revolution_us>>
      BY <1>3, <1>4, <1>5, <1>6 DEF AcceptedPulse, CompletesRevolution
    <2>2. TypeOK'
      BY <1>1, <1>4, <1>5, <2>1 DEF TypeOK, AcceptedPulse
    <2>3. RevolutionConservation'
      BY <1>1, <1>3, <1>6, <2>1 DEF RevolutionConservation
    <2>4. RevolutionSpacing'
      <3>1. pattern'.last_edge_us \in Nat /\ pattern'.last_edge_us >= last
        BY <1>3, <1>4, <1>6
      <3>2. i * B \in Nat
        BY <1>4
      <3> QED BY <1>1, <1>3, <1>4, <1>6, <2>1, <3>1, <3>2 DEF RevolutionSpacing
    <2> QED BY <1>3, <2>1, <2>2, <2>3, <2>4 DEF IInv
  <1>7. CASE UsesEdge(pattern, edge) /\ ~pattern.count_locked
    <2>1. UNCHANGED <<revolutions, last_revolution_us>> /\ revolutions = 0
      BY <1>1, <1>7 DEF AcceptedPulse, CompletesRevolution, RevolutionConservation
    <2>2. mapped = 0
          /\ mapped' = IF pattern'.count_locked THEN mapped + 1 ELSE mapped
      BY <1>1, <1>7 DEF AcceptedPulse, RevolutionConservation
    <2>3. TypeOK'
      BY <1>1, <1>4, <1>5, <2>1, <2>2 DEF TypeOK, AcceptedPulse
    <2>4. RevolutionConservation'
      <3>1. CASE pattern'.count_locked
        <4>1. pattern'.spoke_count \in Nat
          BY <1>3, <3>1, SizesArePositive DEF WellFormed, IndexWellFormed
        <4> QED BY <1>3, <1>7, <2>1, <2>2, <3>1, <4>1 DEF RevolutionConservation
      <3>2. CASE ~pattern'.count_locked
        BY <2>1, <2>2, <3>2 DEF RevolutionConservation
      <3> QED BY <3>1, <3>2
    <2>5. RevolutionSpacing'
      BY <2>1 DEF RevolutionSpacing
    <2> QED BY <1>3, <2>1, <2>3, <2>4, <2>5 DEF IInv
  <1>8. CASE UsesEdge(pattern, edge) /\ pattern.count_locked
    <2>1. /\ pattern'.count_locked /\ pattern'.spoke_count = n
          /\ pattern'.last_edge_us = edge
          /\ pattern'.spoke_index = IF i + 1 = n THEN 0 ELSE i + 1
          /\ n >= 2 /\ i < n
          /\ mapped' = mapped + 1
          /\ mapped = n * revolutions + i
      BY <1>1, <1>3, <1>4, <1>8 DEF AcceptedPulse, RevolutionConservation
    <2>2. edge - last >= B
      BY <1>4, <1>8, PatternAssumption DEF UsesEdge, ValidIntervals
    <2>3. revolutions > 0 => last - last_revolution_us >= i * B
      BY <1>1 DEF RevolutionSpacing
    <2>4. (i + 1) * B = i * B + B /\ i * B \in Nat
      BY <1>4
    <2>5. revolutions > 0 => edge - last_revolution_us >= (i + 1) * B
      <3> HIDE DEF i, B, last
      <3> QED BY <1>4, <2>2, <2>3, <2>4
    <2>6. CASE i + 1 = n
      <3>1. revolutions' = revolutions + 1 /\ last_revolution_us' = edge
        BY <1>4, <1>5, <1>8, <2>1, <2>6 DEF AcceptedPulse, CompletesRevolution
      <3>2. TypeOK'
        BY <1>1, <1>4, <1>5, <2>1, <3>1 DEF TypeOK, AcceptedPulse
      <3>3. n * (revolutions + 1) = n * revolutions + n
        BY <1>4
      <3>4. RevolutionConservation'
        <4>1. mapped' = n * revolutions'
          BY <1>4, <2>1, <2>6, <3>1, <3>3
        <4> QED BY <1>4, <2>1, <2>6, <3>1, <4>1 DEF RevolutionConservation
      <3>5. RevolutionSpacing'
        BY <1>4, <2>1, <2>6, <3>1, PatternAssumption DEF RevolutionSpacing
      <3> QED BY <1>3, <2>5, <2>6, <3>1, <3>2, <3>4, <3>5 DEF IInv
    <2>7. CASE i + 1 # n
      <3>1. UNCHANGED <<revolutions, last_revolution_us>>
        BY <1>4, <1>5, <1>8, <2>1, <2>7 DEF AcceptedPulse, CompletesRevolution
      <3>2. TypeOK'
        BY <1>1, <1>4, <1>5, <2>1, <3>1 DEF TypeOK, AcceptedPulse
      <3>3. RevolutionConservation'
        <4>1. mapped' = n * revolutions + (i + 1)
          BY <1>4, <2>1
        <4> QED BY <2>1, <2>7, <3>1, <4>1 DEF RevolutionConservation
      <3>4. RevolutionSpacing'
        BY <2>1, <2>5, <2>7, <3>1 DEF RevolutionSpacing
      <3> QED BY <1>3, <3>1, <3>2, <3>3, <3>4 DEF IInv
    <2> QED BY <2>6, <2>7
  <1> QED BY <1>6, <1>7, <1>8

\* A rejected blockage only counts.
LEMMA RejectedPulseKeeps ==
    ASSUME IInv, NEW duration, RejectedPulse(duration)
    PROVE  IInv' /\ UNCHANGED revolutions
  <1>1. TypeOK'
    BY DEF IInv, TypeOK, RejectedPulse
  <1>2. (WellFormed(pattern) /\ RevolutionConservation /\ RevolutionSpacing)'
    BY DEF IInv, RejectedPulse, RevolutionConservation, RevolutionSpacing
  <1> QED BY <1>1, <1>2 DEF IInv, RejectedPulse

\* The inductive invariant holds initially.
LEMMA InitEstablishes == Init => IInv
  <1> SUFFICES ASSUME Init PROVE IInv
    OBVIOUS
  <1>1. WellFormed(pattern)
    BY InitIsWellFormed
  <1>2. TypeOK
    BY <1>1 DEF Init, TypeOK, DetectorInit, WellFormed
  <1>3. RevolutionConservation /\ RevolutionSpacing
    BY DEF Init, PatternInit, RevolutionConservation, RevolutionSpacing
  <1> QED BY <1>1, <1>2, <1>3 DEF IInv

\* Every step of the pipeline keeps the inductive invariant.
LEMMA NextKeeps ==
    IInv /\ [Next]_vars =>
        /\ IInv'
        /\ revolutions > 0 /\ revolutions' # revolutions =>
             last_revolution_us' - last_revolution_us
                 >= pattern.spoke_count * BLOCK_MIN_US
  <1> SUFFICES ASSUME IInv, [Next]_vars
               PROVE  /\ IInv'
                      /\ revolutions > 0 /\ revolutions' # revolutions =>
                           last_revolution_us' - last_revolution_us
                               >= pattern.spoke_count * BLOCK_MIN_US
    OBVIOUS
  <1>1. ASSUME NEW duration \in Durations, NEW gap \in Gaps, Accept(gap, duration)
        PROVE  /\ IInv'
               /\ revolutions > 0 /\ revolutions' # revolutions =>
                    last_revolution_us' - last_revolution_us
                        >= pattern.spoke_count * BLOCK_MIN_US
    <2>1. pattern.last_edge_us \in Nat /\ gap \in Nat
      BY <1>1, PipelineAssumption DEF IInv, TypeOK, PatternType
    <2>2. pattern.last_edge_us + gap \in Nat
          /\ pattern.last_edge_us <= pattern.last_edge_us + gap
      BY <2>1
    <2> QED BY <1>1, <2>2, AcceptedPulseKeeps DEF Accept
  <1>2. ASSUME NEW duration \in Durations, Reject(duration)
        PROVE  IInv' /\ revolutions' = revolutions
    BY <1>2, RejectedPulseKeeps DEF Reject
  <1>3. CASE UNCHANGED vars
    BY <1>3 DEF vars, IInv, TypeOK, RevolutionConservation, RevolutionSpacing
  <1> QED BY <1>1, <1>2, <1>3 DEF Next

\* The inductive invariant holds in every run of the pipeline.
THEOREM Invariance == Spec => []IInv
  BY InitEstablishes, NextKeeps, PTL DEF Spec

\* Every state of the pipeline is well typed.
THEOREM TypeCorrect == Spec => []TypeOK
  BY Invariance, PTL DEF IInv

\* No revolution is reported twice, and none that was turned is lost, for
\* every wheel, every noise and every length of run.
THEOREM RevolutionsAreConserved == Spec => []RevolutionConservation
  BY Invariance, PTL DEF IInv

\* The ring, the index and the table stay in range whatever the edges are.
THEOREM PatternStaysWellFormed ==
    Spec => []PatternWellFormed
  <1>1. IInv => PatternWellFormed
    BY DEF IInv, WellFormed, PatternWellFormed
  <1> QED BY <1>1, Invariance, PTL

\* Two reports are never closer than a full turn at the shortest interval.
THEOREM RevolutionsKeepTheirDistance == Spec => RevolutionsATurnApart
  <1>1. IInv /\ [Next]_vars =>
          [revolutions > 0 /\ revolutions' # revolutions =>
              last_revolution_us' - last_revolution_us
                  >= pattern.spoke_count * BLOCK_MIN_US]_vars
    BY NextKeeps
  <1> QED BY <1>1, Invariance, PTL DEF Spec, RevolutionsATurnApart

-----------------------------------------------------------------------------
(* The scores of the candidates, as fractions.                             *)

Fractions == [num : Nat, den : Nat \ {0}]
Limits == Fractions \cup {Infinite}

\* The score of a candidate is one: its denominator adds up intervals that
\* were recorded, none of which is zero.
LEMMA ScoreIsFraction ==
    ASSUME NEW p, WellFormed(p), NEW n \in Candidates(p)
    PROVE  Score(p, n) \in Fractions
  <1> DEFINE S == 0 .. n - 1
             d == [i \in S |-> AbsDiff(back(p, i), back(p, i + n))]
             t == [i \in S |-> back(p, i) + back(p, i + n)]
             num == SumFunction(d)
             den == SumFunction(t)
  <1>1. n \in Nat \ {0} /\ 2 * n <= p.history_size /\ p.history_size \in Nat
    <2>1. n \in Counts /\ p.history_size >= 2 * n /\ p \in PatternType
      BY DEF Candidates, WellFormed
    <2>2. p.history_size \in 0 .. HISTORY_SIZE
      BY <2>1 DEF PatternType
    <2> QED BY <2>1, <2>2, SizesArePositive
  <1>2. ASSUME NEW i \in S
        PROVE  back(p, i) \in Nat \ {0} /\ back(p, i + n) \in Nat \ {0}
    <2>1. i \in Nat /\ i < p.history_size /\ i + n \in Nat /\ i + n < p.history_size
      BY <1>1
    <2>2. back(p, i) \in ValidIntervals /\ back(p, i + n) \in ValidIntervals
      BY <2>1, BackIsRecorded DEF WellFormed
    <2> QED BY <2>2, SizesArePositive
  <1>3. \A i \in S : d[i] \in Nat /\ t[i] \in Nat \ {0}
    BY <1>2 DEF AbsDiff
  <1>4. IsFiniteSet(S) /\ S # {} /\ DOMAIN d = S /\ DOMAIN t = S
    <2>1. 0 \in Int /\ n - 1 \in Int /\ 0 \in S
      BY <1>1
    <2>2. IsFiniteSet(S)
      BY <2>1, FS_Interval
    <2> QED BY <2>1, <2>2
  <1> HIDE DEF S, d, t
  <1>5. num \in Nat
    BY <1>3, <1>4, SumIsNatural DEF SumFunction
  <1>6. den \in Nat \ {0}
    BY <1>3, <1>4, SumIsPositive DEF SumFunction
  <1>7. Score(p, n) = [num |-> num * (1000 + n), den |-> den]
    BY DEF Score, d, t, S
  <1> HIDE DEF num, den
  <1>8. num * (1000 + n) \in Nat
    BY <1>1, <1>5
  <1> QED BY <1>6, <1>7, <1>8 DEF Fractions

\* The order of two fractions is that of the products across.
LEMMA LessTransitive ==
    ASSUME NEW a \in Fractions, NEW b \in Fractions, NEW c \in Limits,
           Less(a, b), Less(b, c)
    PROVE  Less(a, c)
  <1> DEFINE an == a.num
             ad == a.den
             bn == b.num
             bd == b.den
             cn == c.num
             cd == c.den
  <1>1. /\ an \in Nat /\ ad \in Nat \ {0} /\ bn \in Nat /\ bd \in Nat \ {0}
        /\ cn \in Nat /\ cd \in Nat
    BY DEF Fractions, Limits, Infinite
  <1>2. an * bd < bn * ad /\ bn * cd < cn * bd
    BY DEF Less
  <1> HIDE DEF an, ad, bn, bd, cn, cd
  <1>3. (an * bd) * cd <= (bn * ad) * cd
    <2> DEFINE x == an * bd
               y == bn * ad
    <2>1. x \in Nat /\ y \in Nat /\ x < y
      BY <1>1, <1>2
    <2> HIDE DEF x, y
    <2>2. x * cd <= y * cd
      BY <1>1, <2>1, SMT
    <2> QED BY <2>2 DEF x, y
  <1>4. (bn * cd) * ad < (cn * bd) * ad
    <2> DEFINE x == bn * cd
               y == cn * bd
    <2>1. x \in Nat /\ y \in Nat /\ x < y
      BY <1>1, <1>2
    <2> HIDE DEF x, y
    <2>2. x * ad < y * ad
      BY <1>1, <2>1, SMT
    <2> QED BY <2>2 DEF x, y
  <1>5. /\ (an * bd) * cd = (an * cd) * bd /\ (bn * ad) * cd = (bn * cd) * ad
        /\ (cn * bd) * ad = (cn * ad) * bd
    BY <1>1, SMT
  <1> DEFINE u == an * cd
             v == cn * ad
  <1>6. u \in Nat /\ v \in Nat
    BY <1>1
  <1>7. u * bd < v * bd
    <2> DEFINE w == (bn * cd) * ad
    <2>1. w \in Int /\ u * bd \in Int /\ v * bd \in Int
      BY <1>1, <1>6
    <2>2. u * bd <= w /\ w < v * bd
      BY <1>3, <1>4, <1>5
    <2> HIDE DEF u, v, w
    <2> QED BY <2>1, <2>2
  <1> HIDE DEF u, v
  <1>8. u < v
    <2>1. ASSUME v <= u PROVE FALSE
      <3>1. v * bd <= u * bd /\ v * bd \in Nat /\ u * bd \in Nat
        BY <1>1, <1>6, <2>1, SMT
      <3> QED BY <1>7, <3>1
    <2> QED BY <1>6, <2>1
  <1> QED BY <1>8 DEF Less, u, v, an, ad, cn, cd

\* A score that is clearly better than another is clearly better than all
\* that are no better than this one.
LEMMA ClearOfMore ==
    ASSUME NEW a \in Fractions, NEW b \in Fractions, NEW c \in Fractions,
           ClearScore(a, b), ~Less(c, b)
    PROVE  ClearScore(a, c)
  <1> DEFINE an == a.num
             ad == a.den
             bn == b.num
             bd == b.den
             cn == c.num
             cd == c.den
  <1>1. /\ an \in Nat /\ ad \in Nat \ {0} /\ bn \in Nat /\ bd \in Nat \ {0}
        /\ cn \in Nat /\ cd \in Nat \ {0}
    BY DEF Fractions
  <1>2. 25 * an * bd < 23 * bn * ad /\ ~(cn * bd < bn * cd)
    BY DEF Less, ClearScore
  <1> HIDE DEF an, ad, bn, bd, cn, cd
  <1>3. (25 * an * bd) * cd < (23 * bn * ad) * cd
    <2> DEFINE x == 25 * an * bd
               y == 23 * bn * ad
    <2>1. x \in Nat /\ y \in Nat /\ x < y
      BY <1>1, <1>2
    <2> HIDE DEF x, y
    <2>2. x * cd < y * cd
      BY <1>1, <2>1, SMT
    <2> QED BY <2>2 DEF x, y
  <1>4. (bn * cd) * (23 * ad) <= (cn * bd) * (23 * ad)
    <2> DEFINE x == bn * cd
               y == cn * bd
               k == 23 * ad
    <2>1. x \in Nat /\ y \in Nat /\ x <= y /\ k \in Nat
      BY <1>1, <1>2
    <2> HIDE DEF x, y, k
    <2>2. x * k <= y * k
      BY <2>1, SMT
    <2> QED BY <2>2 DEF x, y, k
  <1>5. /\ (25 * an * bd) * cd = (25 * an * cd) * bd
        /\ (23 * bn * ad) * cd = (bn * cd) * (23 * ad)
        /\ (cn * bd) * (23 * ad) = (23 * cn * ad) * bd
    BY <1>1, SMT
  <1> DEFINE u == 25 * an * cd
             v == 23 * cn * ad
  <1>6. u \in Nat /\ v \in Nat
    BY <1>1
  <1>7. u * bd < v * bd
    <2> DEFINE w == (bn * cd) * (23 * ad)
    <2>1. w \in Int /\ u * bd \in Int /\ v * bd \in Int
      BY <1>1, <1>6
    <2>2. u * bd < w /\ w <= v * bd
      BY <1>3, <1>4, <1>5
    <2> HIDE DEF u, v, w
    <2> QED BY <2>1, <2>2
  <1> HIDE DEF u, v
  <1>8. u < v
    <2>1. ASSUME v <= u PROVE FALSE
      <3>1. v * bd <= u * bd /\ v * bd \in Nat /\ u * bd \in Nat
        BY <1>1, <1>6, <2>1, SMT
      <3> QED BY <1>7, <3>1
    <2> QED BY <1>6, <2>1
  <1> QED BY <1>8 DEF ClearScore, u, v, an, ad, cn, cd

\* Clearly better is better, everything is clearly better than no score, and
\* no fraction is less than itself.
LEMMA ClearIsLess ==
    ASSUME NEW a \in Fractions, NEW b \in Fractions
    PROVE  /\ ClearScore(a, b) => Less(a, b)
           /\ ClearScore(a, Infinite) /\ Less(a, Infinite) /\ ~Less(a, a)
  <1> DEFINE an == a.num
             ad == a.den
             bn == b.num
             bd == b.den
  <1>1. an \in Nat /\ ad \in Nat \ {0} /\ bn \in Nat /\ bd \in Nat \ {0}
    BY DEF Fractions
  <1> HIDE DEF an, ad, bn, bd
  <1>2. ClearScore(a, b) => Less(a, b)
    <2> DEFINE x == an * bd
               y == bn * ad
    <2>1. x \in Nat /\ y \in Nat /\ 25 * an * bd = 25 * x /\ 23 * bn * ad = 23 * y
      BY <1>1, SMT
    <2>2. ClearScore(a, b) <=> 25 * x < 23 * y
      BY <2>1 DEF ClearScore, an, ad, bn, bd
    <2>3. Less(a, b) <=> x < y
      BY DEF Less, x, y, an, ad, bn, bd
    <2> HIDE DEF x, y
    <2> QED BY <2>1, <2>2, <2>3
  <1>3. /\ 25 * an * 0 < 23 * 1 * ad
        /\ an * 0 < 1 * ad
        /\ ~(an * ad < an * ad)
    BY <1>1
  <1>4. Infinite.num = 1 /\ Infinite.den = 0
    BY DEF Infinite
  <1> QED BY <1>2, <1>3, <1>4 DEF ClearScore, Less, an, ad

-----------------------------------------------------------------------------
(* The loop of infer_count.                                                *)

\* Its local variables, before the first candidate and after the next one.
Scans == [best : Limits, second : Limits, best_count : Nat]
NoScore == [best |-> Infinite, second |-> Infinite, best_count |-> 0]

ScanStep(p, s, n) ==
    CASE n \notin Candidates(p) -> s
      [] n \in Candidates(p) /\ Less(Score(p, n), s.best) ->
           [best |-> Score(p, n), second |-> s.best, best_count |-> n]
      [] n \in Candidates(p) /\ ~Less(Score(p, n), s.best)
                             /\ Less(Score(p, n), s.second) ->
           [s EXCEPT !.second = Score(p, n)]
      [] OTHER -> s

\* The candidates the loop has passed, and what it knows of them.
Passed(p, n) == {m \in Candidates(p) : m <= n}

BestOf(p, s, C) ==
    /\ s.best_count \in C
    /\ s.best = Score(p, s.best_count)
    /\ \A m \in C : ~Less(Score(p, m), s.best)

SecondOf(p, s, C) ==
    \/ C = {s.best_count} /\ s.second = Infinite
    \/ /\ \E m \in C \ {s.best_count} : s.second = Score(p, m)
       /\ \A m \in C \ {s.best_count} : ~Less(Score(p, m), s.second)

Knows(p, s, C) ==
    /\ s \in Scans
    /\ C = {} => s = NoScore
    /\ C # {} => BestOf(p, s, C) /\ SecondOf(p, s, C)

\* A candidate that is better than the best so far.
LEMMA NewBest ==
    ASSUME NEW p, WellFormed(p), NEW C, C \subseteq Candidates(p),
           NEW s, Knows(p, s, C),
           NEW n \in Candidates(p), n \notin C, Less(Score(p, n), s.best)
    PROVE  Knows(p, [best |-> Score(p, n), second |-> s.best, best_count |-> n], C \cup {n})
  <1> DEFINE e == Score(p, n)
             r == [best |-> e, second |-> s.best, best_count |-> n]
             D == C \cup {n}
  <1>1. \A m \in Candidates(p) : Score(p, m) \in Fractions
    BY ScoreIsFraction
  <1>2. e \in Fractions /\ s.best \in Limits /\ n \in Nat
    <2>1. n \in Nat
      BY SizesArePositive DEF Candidates
    <2> QED BY <1>1, <2>1 DEF Knows, Scans
  <1> HIDE DEF e
  <1>3. r \in Scans /\ r.best = e /\ r.second = s.best /\ r.best_count = n
    BY <1>2 DEF Scans, Limits
  <1> HIDE DEF r
  <1>4. BestOf(p, r, D)
    <2>1. ~Less(e, e)
      BY <1>2, ClearIsLess
    <2>2. ASSUME NEW m \in C, Less(Score(p, m), e) PROVE FALSE
      <3>1. Less(Score(p, m), s.best)
        BY <1>1, <1>2, <2>2, LessTransitive DEF e
      <3>2. BestOf(p, s, C)
        BY <2>2 DEF Knows
      <3> QED BY <3>1, <3>2 DEF BestOf
    <2> QED BY <1>3, <2>1, <2>2 DEF BestOf, e
  <1>5. SecondOf(p, r, D)
    <2>1. D \ {n} = C
      OBVIOUS
    <2>2. CASE C = {}
      BY <1>3, <2>1, <2>2 DEF Knows, NoScore, SecondOf
    <2>3. CASE C # {}
      BY <1>3, <2>1, <2>3 DEF Knows, BestOf, SecondOf
    <2> QED BY <2>2, <2>3
  <1> QED BY <1>3, <1>4, <1>5 DEF Knows, r, e

\* A candidate that is better than the second best so far.
LEMMA NewSecond ==
    ASSUME NEW p, WellFormed(p), NEW C, C \subseteq Candidates(p),
           NEW s, Knows(p, s, C), NEW n \in Candidates(p), n \notin C,
           ~Less(Score(p, n), s.best), Less(Score(p, n), s.second)
    PROVE  Knows(p, [s EXCEPT !.second = Score(p, n)], C \cup {n})
  <1> DEFINE e == Score(p, n)
             r == [s EXCEPT !.second = e]
             D == C \cup {n}
  <1>1. \A m \in Candidates(p) : Score(p, m) \in Fractions
    BY ScoreIsFraction
  <1>2. e \in Fractions /\ s \in Scans
    BY <1>1 DEF Knows
  <1>3. C # {}
    <2>1. ASSUME C = {} PROVE FALSE
      <3>1. s.best = Infinite
        BY <2>1 DEF Knows, NoScore
      <3> QED BY <1>1, <3>1, ClearIsLess
    <2> QED BY <2>1
  <1>4. BestOf(p, s, C) /\ SecondOf(p, s, C)
    BY <1>3 DEF Knows
  <1> HIDE DEF e
  <1>5. /\ r \in Scans /\ r.best = s.best /\ r.second = e /\ r.best_count = s.best_count
    BY <1>2 DEF Scans, Limits
  <1> HIDE DEF r
  <1>6. BestOf(p, r, D)
    BY <1>4, <1>5 DEF BestOf
  <1>7. SecondOf(p, r, D)
    <2>1. n \in D \ {r.best_count} /\ r.second = Score(p, n)
      BY <1>4, <1>5 DEF BestOf, e
    <2>2. ASSUME NEW m \in D \ {r.best_count}, Less(Score(p, m), e) PROVE FALSE
      <3>1. CASE m = n
        BY <1>2, <2>2, <3>1, ClearIsLess DEF e
      <3>2. CASE m # n
        <4>1. m \in C \ {s.best_count}
          BY <1>5, <3>2
        <4>2. \A k \in C \ {s.best_count} : ~Less(Score(p, k), s.second)
          BY <1>4, <4>1 DEF SecondOf
        <4>3. Less(e, s.second) /\ s.second \in Limits
          BY <1>2 DEF e, Scans
        <4>4. Less(Score(p, m), s.second)
          BY <1>1, <1>2, <2>2, <4>1, <4>3, LessTransitive
        <4> QED BY <4>1, <4>2, <4>4
      <3> QED BY <3>1, <3>2
    <2> QED BY <1>5, <2>1, <2>2 DEF SecondOf
  <1> QED BY <1>5, <1>6, <1>7 DEF Knows, r, e

\* A candidate that is no better than either.
LEMMA NoNews ==
    ASSUME NEW p, WellFormed(p), NEW C, C \subseteq Candidates(p),
           NEW s, Knows(p, s, C), NEW n \in Candidates(p), n \notin C,
           ~Less(Score(p, n), s.best), ~Less(Score(p, n), s.second)
    PROVE  Knows(p, s, C \cup {n})
  <1>1. Score(p, n) \in Fractions
    BY ScoreIsFraction
  <1>2. Less(Score(p, n), Infinite)
    BY <1>1, ClearIsLess
  <1>3. C # {}
    BY <1>2 DEF Knows, NoScore
  <1>4. BestOf(p, s, C) /\ SecondOf(p, s, C)
    BY <1>3 DEF Knows
  <1>5. BestOf(p, s, C \cup {n})
    BY <1>4 DEF BestOf
  <1>6. SecondOf(p, s, C \cup {n})
    BY <1>2, <1>4 DEF SecondOf
  <1> QED BY <1>5, <1>6 DEF Knows

\* One turn of the loop.
LEMMA ScanStepKnows ==
    ASSUME NEW p, WellFormed(p), NEW n \in Counts, NEW s,
           Knows(p, s, Passed(p, n - 1))
    PROVE  Knows(p, ScanStep(p, s, n), Passed(p, n))
  <1> DEFINE C == Passed(p, n - 1)
  <1>1. n \in Int /\ \A m \in Candidates(p) : m \in Int
    BY PatternAssumption DEF Candidates, Counts
  <1>2. C \subseteq Candidates(p) /\ n \notin C
    BY <1>1 DEF Passed
  <1>3. CASE n \notin Candidates(p)
    <2>1. Passed(p, n) = C
      BY <1>1, <1>3 DEF Passed
    <2>2. ScanStep(p, s, n) = s
      BY <1>3 DEF ScanStep
    <2> QED BY <2>1, <2>2
  <1>4. CASE n \in Candidates(p)
    <2>1. Passed(p, n) = C \cup {n}
      <3>1. \A m \in Candidates(p) : m <= n <=> m <= n - 1 \/ m = n
        BY <1>1
      <3>2. \A m : m \in Passed(p, n) <=> m \in C \cup {n}
        BY <1>4, <3>1 DEF Passed
      <3> QED BY <3>2
    <2> HIDE DEF C
    <2>2. CASE Less(Score(p, n), s.best)
      <3>1. ScanStep(p, s, n) = [best |-> Score(p, n), second |-> s.best, best_count |-> n]
        BY <1>4, <2>2 DEF ScanStep
      <3> QED BY <1>2, <1>4, <2>1, <2>2, <3>1, NewBest DEF C
    <2>3. CASE ~Less(Score(p, n), s.best) /\ Less(Score(p, n), s.second)
      <3>1. ScanStep(p, s, n) = [s EXCEPT !.second = Score(p, n)]
        BY <1>4, <2>3 DEF ScanStep
      <3> QED BY <1>2, <1>4, <2>1, <2>3, <3>1, NewSecond DEF C
    <2>4. CASE ~Less(Score(p, n), s.best) /\ ~Less(Score(p, n), s.second)
      <3>1. ScanStep(p, s, n) = s
        BY <1>4, <2>4 DEF ScanStep
      <3> QED BY <1>2, <1>4, <2>1, <2>4, <3>1, NoNews DEF C
    <2> QED BY <2>2, <2>3, <2>4
  <1> QED BY <1>3, <1>4

\* The recursive function of CandidateScan exists, and the loop ends with what
\* there is to know of all candidates.
LEMMA ScanKnows ==
    ASSUME NEW p, WellFormed(p)
    PROVE  Knows(p, CandidateScan(p), Candidates(p))
  <1> DEFINE lo == COUNT_MIN - 1
             hi == COUNT_MAX
             g == [n \in Counts |-> [s \in Scans |-> ScanStep(p, s, n)]]
             Equation(f) == f = [n \in COUNT_MIN - 1 .. COUNT_MAX |->
                                   IF n < COUNT_MIN THEN NoScore ELSE ScanStep(p, f[n - 1], n)]
             scan == CHOOSE f : Equation(f)
  <1>1. /\ lo \in Int /\ hi \in Int /\ lo <= hi /\ lo \in lo .. hi /\ hi \in lo .. hi
        /\ COUNT_MIN \in Int
        /\ Counts = lo + 1 .. hi
        /\ \A n \in lo .. hi : n < COUNT_MIN <=> n = lo
        /\ \A n \in lo .. hi : n # lo => n \in Counts /\ n - 1 \in lo .. hi
    BY PatternAssumption DEF Counts
  <1>2. NoScore \in Scans
    BY DEF NoScore, Scans, Limits
  <1>3. \A n \in Counts, s \in Scans : ScanStep(p, s, n) \in Scans
    <2> SUFFICES ASSUME NEW n \in Counts, NEW s \in Scans
                 PROVE  ScanStep(p, s, n) \in Scans
      OBVIOUS
    <2>1. CASE n \in Candidates(p)
      <3> DEFINE e == Score(p, n)
      <3>1. e \in Limits /\ n \in Nat
        BY <2>1, ScoreIsFraction, SizesArePositive DEF Limits, Candidates
      <3>2. ScanStep(p, s, n) \in {s, [best |-> e, second |-> s.best, best_count |-> n],
                                   [s EXCEPT !.second = e]}
        BY <2>1 DEF ScanStep
      <3> HIDE DEF e
      <3>3. /\ [best |-> e, second |-> s.best, best_count |-> n] \in Scans
            /\ [s EXCEPT !.second = e] \in Scans
        BY <3>1 DEF Scans
      <3> QED BY <3>2, <3>3
    <2>2. CASE n \notin Candidates(p)
      BY <2>2 DEF ScanStep
    <2> QED BY <2>1, <2>2
  <1>4. CandidateScan(p) = scan[hi]
    BY DEF CandidateScan, ScanStep, NoScore
  <1>5. \E f : Equation(f)
    <2>1. StaysAt(g, lo, hi, Scans)
      <3>1. \A n \in lo + 1 .. hi, s \in Scans : g[n][s] = ScanStep(p, s, n)
        BY <1>1
      <3> HIDE DEF g, lo, hi
      <3> QED BY <1>1, <1>3, <3>1 DEF StaysAt
    <2> HIDE DEF g, lo, hi
    <2>2. PICK f \in [lo .. hi -> Scans] : Iterates(f, g, NoScore, lo, hi)
      BY <1>1, <1>2, <2>1, IterationExists DEF Iterable
    <2>3. ASSUME NEW n \in lo .. hi
          PROVE  f[n] = IF n < COUNT_MIN THEN NoScore ELSE ScanStep(p, f[n - 1], n)
      <3>1. CASE n = lo
        BY <1>1, <2>2, <3>1 DEF Iterates
      <3>2. CASE n # lo
        <4>1. n \in Counts /\ n \in lo + 1 .. hi /\ f[n - 1] \in Scans /\ ~(n < COUNT_MIN)
          BY <1>1, <3>2
        <4>2. f[n] = g[n][f[n - 1]]
          BY <2>2, <4>1 DEF Iterates
        <4> QED BY <4>1, <4>2 DEF g
      <3> QED BY <3>1, <3>2
    <2>4. f = [n \in lo .. hi |-> f[n]]
      BY <2>2
    <2>5. Equation(f)
      BY <2>3, <2>4 DEF lo, hi
    <2> QED BY <2>5
  <1>6. Equation(scan)
    <2> HIDE DEF Equation
    <2> QED BY <1>5
  <1> HIDE DEF scan
  <1>7. scan[lo] = NoScore /\ \A n \in Counts : scan[n] = ScanStep(p, scan[n - 1], n)
    <2>1. \A n \in lo .. hi : scan[n] = IF n < COUNT_MIN THEN NoScore
                                        ELSE ScanStep(p, scan[n - 1], n)
      BY <1>6
    <2>2. \A n \in Counts : n \in lo .. hi /\ ~(n < COUNT_MIN)
      BY <1>1
    <2> QED BY <1>1, <2>1, <2>2
  <1> DEFINE P == {n \in lo .. hi : Knows(p, scan[n], Passed(p, n))}
  <1>8. lo \in P
    <2>1. Passed(p, lo) = {}
      BY PatternAssumption DEF Passed, Candidates, Counts
    <2>2. Knows(p, NoScore, {})
      BY <1>2 DEF Knows
    <2> QED BY <1>1, <1>7, <2>1, <2>2
  <1>9. \A n \in lo .. hi - 1 : n \in P => n + 1 \in P
    <2> SUFFICES ASSUME NEW n \in lo .. hi - 1, n \in P PROVE n + 1 \in P
      OBVIOUS
    <2>1. n + 1 \in Counts /\ n + 1 \in lo .. hi /\ (n + 1) - 1 = n
      BY <1>1
    <2>2. Knows(p, scan[n], Passed(p, n)) /\ scan[n + 1] = ScanStep(p, scan[n], n + 1)
      BY <1>7, <2>1
    <2>3. Knows(p, scan[n + 1], Passed(p, n + 1))
      BY <2>1, <2>2, ScanStepKnows
    <2> QED BY <2>1, <2>3
  <1>10. hi \in P
    <2> HIDE DEF P, lo, hi
    <2> QED BY <1>1, <1>8, <1>9, EveryIndex
  <1>11. Passed(p, hi) = Candidates(p)
    BY PatternAssumption DEF Passed, Candidates, Counts
  <1> QED BY <1>4, <1>10, <1>11

\* What the loop ends with decides as Winners does.
LEMMA ScanDecides ==
    ASSUME NEW p, WellFormed(p)
    PROVE  LET s == CandidateScan(p)
           IN  Winners(p) = IF s.best_count # 0 /\ GoodScore(s.best) /\ ClearScore(s.best, s.second)
                            THEN {s.best_count} ELSE {}
  <1> DEFINE s == CandidateScan(p)
             C == Candidates(p)
             b == s.best_count
             Decided == b # 0 /\ GoodScore(s.best) /\ ClearScore(s.best, s.second)
  <1>1. Knows(p, s, C)
    BY ScanKnows
  <1>2. \A m \in C : Score(p, m) \in Fractions
    BY ScoreIsFraction
  <1> HIDE DEF s
  <1>3. CASE C = {}
    <2>1. b = 0
      BY <1>1, <1>3 DEF Knows, NoScore
    <2>2. Winners(p) = {}
      BY <1>3 DEF Winners
    <2> QED BY <2>1, <2>2 DEF s
  <1>4. CASE C # {}
    <2>1. BestOf(p, s, C) /\ SecondOf(p, s, C)
      BY <1>1, <1>4 DEF Knows
    <2>2. b \in C /\ b # 0 /\ s.best = Score(p, b) /\ s.best \in Fractions
      <3>1. b \in C /\ s.best = Score(p, b)
        BY <2>1 DEF BestOf
      <3> QED BY <1>2, <3>1, SizesArePositive DEF Candidates
    <2>3. ASSUME NEW n \in Winners(p) PROVE n = b
      <3>1. ASSUME n # b PROVE FALSE
        <4>1. n \in C /\ ClearScore(Score(p, n), s.best)
          BY <2>2, <3>1 DEF Winners
        <4>2. Less(Score(p, n), s.best)
          BY <1>2, <2>2, <4>1, ClearIsLess
        <4> QED BY <2>1, <4>1, <4>2 DEF BestOf
      <3> QED BY <3>1
    <2>4. ASSUME Decided PROVE b \in Winners(p)
      <3>1. ASSUME NEW m \in C \ {b} PROVE ClearScore(s.best, Score(p, m))
        <4>1. /\ \E k \in C : s.second = Score(p, k)
              /\ ~Less(Score(p, m), s.second)
          BY <2>1 DEF SecondOf
        <4>2. s.second \in Fractions /\ Score(p, m) \in Fractions
          BY <1>2, <4>1
        <4> QED BY <2>2, <2>4, <4>1, <4>2, ClearOfMore
      <3> QED BY <2>2, <2>4, <3>1 DEF Winners
    <2>5. ASSUME b \in Winners(p) PROVE Decided
      <3>1. GoodScore(s.best) /\ \A m \in C \ {b} : ClearScore(s.best, Score(p, m))
        BY <2>2, <2>5 DEF Winners
      <3>2. ClearScore(s.best, s.second)
        <4>1. CASE s.second = Infinite
          BY <2>2, <4>1, ClearIsLess
        <4>2. CASE \E m \in C \ {b} : s.second = Score(p, m)
          BY <3>1, <4>2
        <4> QED BY <2>1, <4>1, <4>2 DEF SecondOf
      <3> QED BY <2>2, <3>1, <3>2
    <2>6. Winners(p) = IF Decided THEN {b} ELSE {}
      <3> HIDE DEF Decided, b
      <3> QED BY <2>3, <2>4, <2>5
    <2> QED BY <2>6 DEF s
  <1> QED BY <1>3, <1>4

\* The one pass of infer_count finds the count that the definition of a winner
\* picks, whatever is in the ring.
THEOREM ScanIsFaithful == Spec => []ScanFindsWinner
  <1>1. IInv => ScanFindsWinner
    BY ScanDecides DEF IInv, ScanFindsWinner
  <1> QED BY <1>1, Invariance, PTL
=============================================================================
