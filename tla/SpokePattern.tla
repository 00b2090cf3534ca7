---------------------------- MODULE SpokePattern ----------------------------
(***************************************************************************)
(* The pure part of the spoke estimator: the pulse detector and the spoke  *)
(* pattern of components/ir_spoke_core, as operators on the record that    *)
(* stands for ir_spoke_pattern_t.  No variables: the state machines that   *)
(* own a pattern are in SpokePipeline and RmtReceiver.                     *)
(*                                                                         *)
(* Data abstraction.  Times and intervals are naturals in one common time  *)
(* unit; scores are exact fractions instead of floats; a cell of the       *)
(* interval table is a fixed-point number with LUT_SCALE steps per time    *)
(* unit, rounded down.  The reported confidence, revolution period and     *)
(* wheel frequency are functions of the history and of the table and       *)
(* influence no later step, so they are not part of the record.            *)
(***************************************************************************)
EXTENDS Integers, Functions

CONSTANTS COUNT_MIN,          \* fewest spokes considered (16)
          COUNT_MAX,          \* most spokes considered (48)
          CONFIDENCE_EVENTS,  \* intervals seen before a count is inferred (192)
          BLOCK_MIN_US,       \* shortest blockage and shortest interval (70)
          BLOCK_MAX_US,       \* longest blockage (600)
          LINK_LOSS_US,       \* longest interval (15000)
          GATE_FLOOR_US,      \* literal 80 us of the outlier gate
          LUT_SCALE           \* fixed-point steps of a table cell per time unit

ASSUME PatternAssumption ==
    /\ COUNT_MIN \in Nat /\ COUNT_MAX \in Nat
    /\ 2 <= COUNT_MIN /\ COUNT_MIN <= COUNT_MAX
    /\ CONFIDENCE_EVENTS \in Nat
    /\ BLOCK_MIN_US \in Nat \ {0} /\ BLOCK_MAX_US \in Nat
    /\ LINK_LOSS_US \in Nat /\ BLOCK_MIN_US <= LINK_LOSS_US
    /\ GATE_FLOOR_US \in Nat
    /\ LUT_SCALE \in Nat \ {0}

HISTORY_SIZE == 2 * COUNT_MAX + 8
Ring == 0 .. HISTORY_SIZE - 1
Cells == 0 .. COUNT_MAX - 1
Counts == COUNT_MIN .. COUNT_MAX

\* The intervals ir_spoke_pattern_ingest_edge does not throw away.
ValidIntervals == BLOCK_MIN_US .. LINK_LOSS_US

\* What the detector says of a blockage.
PulseResult(duration) ==
    CASE duration < BLOCK_MIN_US -> "REJECT_SHORT"
      [] duration > BLOCK_MAX_US -> "REJECT_LONG"
      [] OTHER                   -> "ACCEPTED"

\* ir_spoke_pattern_init: all zero.
PatternInit ==
    [history         |-> [k \in Ring |-> 0],
     interval_lut    |-> [k \in Cells |-> 0],
     history_head    |-> 0,
     history_size    |-> 0,
     last_edge_us    |-> 0,
     accepted_events |-> 0,
     spoke_index     |-> 0,
     spoke_count     |-> 0,
     current_spoke   |-> 0,
     count_locked    |-> FALSE]

-----------------------------------------------------------------------------
(* Inferring the spoke count from the ring of recent intervals.            *)

\* The interval recorded n intervals ago; n = 0 is the newest.
back(p, n) == p.history[(p.history_head + HISTORY_SIZE - 1 - n) % HISTORY_SIZE]

AbsDiff(a, b) == IF a < b THEN b - a ELSE a - b

\* Mutant: the second turn starts one interval too early in the past.
ScoreOfNextCount(p, n) ==
    LET difference == [i \in 0 .. n - 1 |-> AbsDiff(back(p, i), back(p, i + n + 1))]
        total      == [i \in 0 .. n - 1 |-> back(p, i) + back(p, i + n + 1)]
    IN  [num |-> SumFunction(difference) * (1000 + n),
         den |-> SumFunction(total)]

\* The self-similarity error of candidate n, with the small penalty for
\* larger counts, as the fraction num/den of 1/500.
Score(p, n) ==
    LET difference == [i \in 0 .. n - 1 |-> AbsDiff(back(p, i), back(p, i + n))]
        total      == [i \in 0 .. n - 1 |-> back(p, i) + back(p, i + n)]
    IN  [num |-> SumFunction(difference) * (1000 + n),
         den |-> SumFunction(total)]

Infinite == [num |-> 1, den |-> 0]      \* FLT_MAX

Less(a, b) == a.num * b.den < b.num * a.den

\* Mutant: the best score need not be clear.
NoWorseScore(best, second) == best.num * second.den <= second.num * best.den

\* best < 0.035, and (second - best) / second > 0.08.
GoodScore(best) == 2 * best.num < 35 * best.den
ClearScore(best, second) == 25 * best.num * second.den < 23 * second.num * best.den

\* Mutant: asks for four turns of history.
LateCandidates(p) == {n \in Counts : p.history_size >= 4 * n}

Candidates(p) == {n \in Counts : p.history_size >= 2 * n}

\* The candidates that match themselves well and beat every other one by a
\* clear margin.  There is at most one.
Winners(p) ==
    {n \in Candidates(p) :
        /\ GoodScore(Score(p, n))
        /\ \A m \in Candidates(p) \ {n} : ClearScore(Score(p, n), Score(p, m))}

\* Mutant: only a former best score can become the second.
FormerBestScan(p) ==
    LET scan[n \in COUNT_MIN - 1 .. COUNT_MAX] ==
          IF n < COUNT_MIN
          THEN [best |-> Infinite, second |-> Infinite, best_count |-> 0]
          ELSE LET s == scan[n - 1]
                   error == Score(p, n)
               IN  IF n \in Candidates(p) /\ Less(error, s.best)
                   THEN [best |-> error, second |-> s.best, best_count |-> n]
                   ELSE s
    IN  scan[COUNT_MAX]

\* The loop of infer_count as it is written: one pass that keeps the two
\* smallest scores.
CandidateScan(p) ==
    LET scan[n \in COUNT_MIN - 1 .. COUNT_MAX] ==
          IF n < COUNT_MIN
          THEN [best |-> Infinite, second |-> Infinite, best_count |-> 0]
          ELSE LET s == scan[n - 1]
                   error == Score(p, n)
               IN  CASE n \notin Candidates(p)  -> s
                     [] n \in Candidates(p) /\ Less(error, s.best) ->
                          [best |-> error, second |-> s.best, best_count |-> n]
                     [] n \in Candidates(p) /\ ~Less(error, s.best)
                                            /\ Less(error, s.second) ->
                          [s EXCEPT !.second = error]
                     [] OTHER -> s
    IN  scan[COUNT_MAX]

\* Mutant: the newest interval is not copied into the table.
LockWithoutNewest(p, n) ==
    [p EXCEPT !.spoke_count  = n,
              !.count_locked = TRUE,
              !.interval_lut =
                  [k \in Cells |-> IF k < n - 1 THEN LUT_SCALE * back(p, n - 1 - k)
                                                ELSE p.interval_lut[k]],
              !.spoke_index  = 0]

\* What infer_count does with the winner: lock the count, and fill the table
\* with the newest intervals, oldest first.
Lock(p, n) ==
    [p EXCEPT !.spoke_count  = n,
              !.count_locked = TRUE,
              !.interval_lut =
                  [k \in Cells |-> IF k < n THEN LUT_SCALE * back(p, n - 1 - k)
                                            ELSE p.interval_lut[k]],
              !.spoke_index  = 0]

infer_count(p) ==
    IF Winners(p) = {} THEN p ELSE Lock(p, CHOOSE n \in Winners(p) : TRUE)

-----------------------------------------------------------------------------
(* Following the wheel once the count is locked.                           *)

\* The outlier gate: at most 80 us, or 3.5 * 0.08 of the expected interval.
InsideGate(interval, previous) ==
    LET distance == AbsDiff(LUT_SCALE * interval, previous)
    IN  \/ distance <= LUT_SCALE * GATE_FLOOR_US
        \/ 25 * distance <= 7 * previous

\* cell += 0.08 * (interval - cell), rounded down.
Learn(cell, interval) == cell + ((2 * (LUT_SCALE * interval - cell)) \div 25)

\* Learn from the interval in the current cell, unless it is an outlier, and
\* move on to the next spoke.
LearnAndMove(p, interval, next) ==
    LET cell     == p.interval_lut[p.spoke_index]
        previous == IF cell > 0 THEN cell ELSE LUT_SCALE * interval
    IN  [p EXCEPT !.interval_lut[p.spoke_index] =
                      IF InsideGate(interval, previous) THEN Learn(cell, interval)
                                                        ELSE cell,
                  !.spoke_index   = next,
                  !.current_spoke = next]

\* Mutants: the index does not wrap; an outlier does not advance it.
UpdateWithoutWrap(p, interval) == LearnAndMove(p, interval, p.spoke_index + 1)
UpdateInliersOnly(p, interval) ==
    LearnAndMove(p, interval,
                 IF InsideGate(interval, p.interval_lut[p.spoke_index])
                 THEN (p.spoke_index + 1) % p.spoke_count ELSE p.spoke_index)

update_map(p, interval) ==
    LearnAndMove(p, interval, (p.spoke_index + 1) % p.spoke_count)

\* Put the interval that ends at this edge into the ring.
Record(p, edge) ==
    [p EXCEPT !.last_edge_us    = edge,
              !.history[p.history_head] = edge - p.last_edge_us,
              !.history_head    = (p.history_head + 1) % HISTORY_SIZE,
              !.history_size    = IF p.history_size < HISTORY_SIZE
                                  THEN p.history_size + 1 ELSE p.history_size,
              !.accepted_events = p.accepted_events + 1]

\* Does this edge give an interval that is used?  An edge at time zero is
\* ignored, and the first edge has no predecessor.
UsesEdge(p, edge) ==
    /\ edge # 0
    /\ p.last_edge_us # 0
    /\ edge - p.last_edge_us \in ValidIntervals

\* A used edge: record it, infer the count while there is none, then map it.
UseEdge(p, edge) ==
    LET interval == edge - p.last_edge_us
        recorded == Record(p, edge)
        inferred == IF ~recorded.count_locked
                       /\ recorded.accepted_events >= CONFIDENCE_EVENTS
                    THEN infer_count(recorded) ELSE recorded
    IN  IF inferred.count_locked THEN update_map(inferred, interval) ELSE inferred

ingest_edge(p, edge) ==
    IF UsesEdge(p, edge) THEN UseEdge(p, edge)
    ELSE IF edge = 0     THEN p
                         ELSE [p EXCEPT !.last_edge_us = edge]

-----------------------------------------------------------------------------
(* Well-formed patterns: what the invariants of the modules that own a     *)
(* pattern say of it.                                                      *)

PatternType ==
    [history : [Ring -> Nat], interval_lut : [Cells -> Nat],
     history_head : Ring, history_size : 0 .. HISTORY_SIZE,
     last_edge_us : Nat, accepted_events : Nat,
     spoke_index : Cells, spoke_count : {0} \cup Counts,
     current_spoke : Cells, count_locked : BOOLEAN]

\* The ring is written from cell 0 on, and every cell that back may read
\* holds an interval that was accepted.
RingWellFormed(p) ==
    /\ p.history_size < HISTORY_SIZE => p.history_head = p.history_size
    /\ \A k \in Ring : k < p.history_size => p.history[k] \in ValidIntervals

\* The index the estimate shows is the one the table is read with, and it
\* stays below the locked count.
IndexWellFormed(p) ==
    /\ p.current_spoke = p.spoke_index
    /\ IF p.count_locked
       THEN p.spoke_count \in Counts /\ p.spoke_index < p.spoke_count
       ELSE p.spoke_count = 0 /\ p.spoke_index = 0

\* The table cells in use.
LutWellFormed(p) ==
    p.count_locked =>
        \A k \in 0 .. p.spoke_count - 1 :
            /\ LUT_SCALE * BLOCK_MIN_US <= p.interval_lut[k]
            /\ p.interval_lut[k] <= LUT_SCALE * LINK_LOSS_US
=============================================================================
