# Verification of the IR spoke sensor

This directory holds TLA+ models of the program in `src/`, the TLC runs that
check them on small instances, and proofs, checked by TLAPS, of the theorems
that hold for every value of the constants. `PROJECT.json` maps each definition
to the source lines it models and lists runs, mutants, findings, hazards and
theorems.

## 1. The system

The firmware watches an infrared beam that the spokes of a bicycle wheel
interrupt. It measures the interruptions, learns how many spokes the wheel has
from the unevenness of their spacing, and reports every completed revolution to
a Bluetooth collector. Around it there are a local physical simulator, hardware
generators and checks, and documentation tools.

| Component | State | Operations | Hard behaviour |
|---|---|---|---|
| Detector, pattern, pipeline (`ir_spoke_core`) | ring of intervals, table of expected intervals, spoke index, locked count, reject counters | `ir_spoke_detector_ingest`, `ir_spoke_pattern_ingest_edge` with `infer_count` and `update_map` | long sequences before a count locks; ring arithmetic; intervals thrown away in the middle of a turn |
| RMT receiver (`ir_spoke_rmt_adapter.c`) | event queue, task notification, capture and drop counters, receive buffer | interrupt handler `rx_done`, task `receive_loop` | handler and task on two cores, queue overflow, one-shot reception, reconstructed timestamps |
| CSC service (`csc_nimble_service.cpp`, `csc_measurement.hpp`) | wheel state, connection handle, subscriptions, control point procedure, time of the last notification | `on_wheel_revolution` from the receive task; GAP and GATT callbacks on the host task | three critical sections between two tasks; connections that end between them; indications sent, confirmed or failed; event time roll-over |
| CAN telemetry (`ir_spoke_can.c`, `ir_spoke_can_mcp2515_adapter.c`) | publisher sequence; mode, transmit buffer and request of the controller | start steps, publish, the SPI transfers of a frame | a transfer that fails half-way, a frame that still waits, a restart that does not reset the controller |
| Link monitor (`ir_spoke_link_monitor.c`) | hardware counter, sample times | sampling loop | read and clear are two steps; counter limit |
| Debug events and LED (`ir_spoke_debug.c`) | link state, tick, event flag, LED | events, two timer callbacks, carrier reports | three writers of one LED, timers reset by samples |
| Application start and configuration (`app_main.c`, `ir_spoke_config.c`) | which parts run | start steps, validation | failure in the middle of the sequence |
| Local simulator (`local_server.py`, `index.html`) | the page's values, result and status; one thread per request | edits, timers, requests, answers, header generation | answers out of order, a thread that exits, two validators |
| Physical simulation (`ir_spoke_sim.py`) | samples, countdowns, currents | a pass over the samples | off-by-one of the carrier removal; peak of overlapping bursts |
| Connectivity (`generate_connectivity.py`, `connectivity_guard.py`, `validate_kicad_netlist.py`) | contract, drawing, generated text, remembered modification times | generate, guard | files saved during a check; threads that share the memory |
| Interactive BOM and README picture (`interactive_bom.py`, `readme_pcb_render.py`) | page, picture, manifests, version, watcher | generate, check, watch, serve | saves during generation, failures, a dying watcher thread |
| Layout capture (`hardware/ir_spoke_link`) | work files, templates, manifest, locks | capture, restore, repair | interruption between copies, files read several times |
| Parts database (`refresh_jlc_links.py`, `build_konnect_jlc_db.py`) | snapshot, database, manifest | refresh, build | torn files, interrupted and concurrent builds |
| Documentation upload (`zotero_upload_pdfs.py`) | records and attachments of a collection | list, save, attach | lost answers and reruns |
| Release and manufacturing tools | files | check, export | pure file work, see section 8 |

How they interact: `rx_done` sends blockage events through a FreeRTOS queue and
notifies the task. `receive_loop` gives each event to the detector and the
pattern, calls `on_wheel_revolution` of the CSC service directly when a turn is
complete, and publishes CAN telemetry when it is enabled. The NimBLE host task
calls back into the service; the two share its state under a critical section.
The link monitor and all others report to the debug module, which owns the LED.
The page asks the simulator's server, each of whose threads asks the guard before
it simulates; the guard looks at the contract, the drawing and the text that
editors and the generator write. The board KiCad saves is read by the BOM
watcher, the renderer and the layout capture; these tools share nothing else.

What makes each part correct, in short: the pattern must report every turn once
and none twice, must lock the true count or none, and must keep its index with
the wheel; the receiver must hand blockages on in order, count what it loses and
never stop listening; the service must not let connection state outlive the
connection, must send with the time of a revolution the count as of that
revolution (or the value a peer has just set instead), and must end every procedure
it has accepted; a telemetry must be on the bus whole and once;
a check that passes, a cache that is hit, a template that is restored, a database
that is read and a page that says it is current must mean what they say, whatever
was saved, interrupted or overtaken meanwhile.

## 2. Plan

Most important first.

| Modules | Subject | Theorems in |
|---|---|---|
| `SpokePattern`, `SpokePipeline` | estimator and revolutions | `SpokePipelineProofs` |
| `SpokeWheel` | what the estimator infers from a turning wheel | `SpokeWheelProofs` |
| `RmtReceiver` (implements `SpokePipeline`), `CanTelemetry` | handler, queue and task; publisher, adapter and controller | `ReceiverProofs` |
| `CscMeasurement`, `CscService` | the service between two tasks | `CscServiceProofs` |
| `DebugLed`, `LinkMonitor` | timers, samples and events that share one LED | `LinkMonitorProofs` |
| `InteractiveBom`, `ReadmeRender`, `LayoutCapture`, `PartsDatabase` (implements `PartsCatalogue`), `ZoteroUpload` | tools that are overtaken, interrupted and run again | `WorkbenchProofs` |
| `Connectivity`, `LocalServer`, `ConfigCheck`, `SampleChain` | guard, page, server, both validators, the digital half of the simulation | `SimulatorProofs` |
| `FoldLemmas` | sums and concatenations, for the proofs above | itself |

All of these are written, run and proved about. Open: a composition of receiver and
service, from a revolution of the wheel to its notification; the errors of the start
functions of receiver and link monitor; a run of the link monitor with samples past
the counter's limit.

## 3. Modules and how they correspond to the code

* **`SpokePattern`** (no variables) has one operator per function of
  `ir_spoke_pattern.c`, on a record with the fields of `ir_spoke_pattern_t`.
  `ingest_edge` is the whole of `ir_spoke_pattern_ingest_edge`: an unusable edge
  only moves `last_edge_us`; a used one is recorded, then `infer_count` runs
  while no count is locked, then `update_map` if one is. Intervals are naturals.
  Floating-point scores are exact fractions, compared by cross-multiplication
  (`Score`, `Less`, `GoodScore`, `ClearScore`). A table cell is a fixed-point
  number with `LUT_SCALE` steps per time unit. The code's loop over candidates is
  `CandidateScan`; the model uses the declarative `Winners`, and
  `ScanFindsWinner` checks that the two agree. Speed and confidence outputs are
  left out: no later step reads them.
* **`SpokePipeline`** has `detector` and `pattern` as state. One accepted or
  rejected blockage is one step, because the receive task is the only caller.
  `mapped`, `revolutions` and `last_revolution_us` are history variables; the
  last two stand for the calls of `on_wheel_revolution`.
* **`SpokeWheel`** drives the pipeline with a fixed cyclic sequence of intervals.
  `Seen` and `Missed` are the environment's steps. `locked_at` records when the
  count was locked.
* **`RmtReceiver`** adds the interrupt handler (`CaptureDone`, one `IsrSend` per
  phase with no carrier, `IsrNotify`) and the task (`Arm`, `TakeNotification`,
  `ReportDrops`, `HandleEvent`, `QueueDrained`) as separate interleaved steps.
  `Blockages` is the timestamp reconstruction of `rx_done`: the end time minus the
  sum of the rounded durations (`StartUs`), then forward by the symbols before
  (`CapturedUs`). The peripheral is external: armed,
  it may complete one of a set of captures.
* **`CscMeasurement`** is `csc_measurement.hpp`: the event time and the wheel
  state, counter limit included.
* **`CscService`** has the fields of the service's shared state. Each critical
  section is one action: `OnWheelRevolution`, `Snapshot` and `Send` on the
  receive task; `Connect`, `Disconnect`, subscriptions, `ControlWrite`,
  `BeginControlProcedure`, `ApplyRequest`, `Indicate`, `IndicateFails`,
  `NotifyTx` on the host task. `link`, `unconfirmed`, `advertising` and `synced`
  are the external host's own state; `sent` is the last notification on air. `turns`
  counts the turns of the wheel and `reference` is the last value a peer set with the
  turn it followed: from them alone comes the count a collector expects (`CountAt`).
  No handler reads any of the three.
* **`DebugLed`** has the module's statics, the LED and the two timers. Each access
  to shared state is a step: the four statements of `signal_led` for each task,
  the callbacks of the off timer and of the status timer (whose `++` is a read and
  a write), and `apply_led_base_state`, which looks first (`Look`) and sets the LED
  later (`Paint`). The tick is kept modulo a multiple of both blink patterns.
* **`LinkMonitor`** puts the sampling task on top: `StartMonitor` (the counter is
  cleared and started, then the task is created, so that counter and window run
  before the first report), `ReadCount`, `ClearCount`, then
  `Report` or `SampleFails`. `TimePasses` lets the timers, the delay and the
  counter run, while no task is between two steps; the monitor task may be kept
  from the processor between reading and clearing.

* **`CanTelemetry`** has the start of the controller (`ResetCommand` to
  `ModeStatus`, each one transfer that succeeds, or fails before or after it
  reached the chip and restarts the program) and `send_frame`: `ReadControl`
  gives up while a frame waits, the buffer is written in two halves so that a
  frame could be mixed, `RequestToSend` advances the sequence only without an
  error. `ChangeMode` and `Transmit` are the external chip, which goes on across
  restarts. `counted` and `bus` are history.
* **`InteractiveBom`** has `generate()` step by step (`LoadBoard`, `WritePage`,
  `HashBoard`, `WriteManifest`, `Fail`, `Interrupt`) for the watcher and for one
  run by hand, the watcher's loop (`Look`, `Update`) and the tabs' `Load` and
  `Poll`. `GeneratorMissing` is the `SystemExit` of `require_generator`, which ends
  the watcher's thread, as does a board that is away at a `stat` (`StartWatch`, `Look`). A board is the number of its save. `Remove` is the moment in which an
  editor or a checkout has taken the file away.
* **`ReadmeRender`** extends it by the picture that is rendered from the same
  board: `RenderWrites`, `CheckSize`, `HashForManifest`, `WriteRenderManifest`,
  and `RenderStops` at any of them.
* **`Connectivity`** has the contract, the drawing and the generated text, each
  with its modification time, the three steps of `generate()`, and per thread
  the guard: `ReadContract`, `ReadText`, `Stat`, `Export`, `Compare`, `Remember`.
* **`LocalServer`** puts the page and the server on top: `Edit`, `Run` (the
  130 ms timer), `ClickReset`, `Reset`, `ClickGenerate`, and per thread
  `Validate`, the guard, and `Answer` with every outcome, the closed connection
  of an exited thread included. A set of values is the number of the edit that
  made it.
* **`ConfigCheck`** has the schema, the page's clamp, the server's validation,
  the rounding of the header and the firmware's validation as operators on
  numbers in tenths and hundredths; typing is its only action.
* **`SampleChain`** is one pass over the samples: hysteresis, delay,
  `rmt_carrier_remove`, CPU bursts and the sum of the currents, and the estimate
  of the peak. The band-pass output is any level at any sample.
* **`LayoutCapture`** has the editors with their locks, the capture
  (`BeginCapture` to `WriteLayoutManifest`, each file read and copied in a step
  of its own, and `InterruptCapture`), the restoring scripts and the repair of
  the project file. `captured` is the history of the pair the last capture recorded.
* **`PartsDatabase`** has the refresh (`Lookup`, the two steps of writing a file)
  and any number of builds (`ReadSnapshot` to `WriteRecord`), each of which may
  stop anywhere. **`PartsCatalogue`** is the abstract specification it implements:
  the database changes in one step to all parts of one snapshot in which all were
  in stock.
* **`ZoteroUpload`** has the listing, `Skip`, `SaveItem`, `SaveAttachment`, each
  of which may be refused, or carried out with its answer lost.

## 4. Runs

| Run | Question and answer | Bounds |
|---|---|---|
| `wheel_table` | Does the table cell belong to the spoke? **No**, see finding 1. | two uneven wheels of three spokes |
| `wheel_double` | Does every uneven wheel lock? **No**, see finding 2. | a wheel of two spokes, four a candidate |
| `receiver` | The path of a blockage. Do index, ring, table and revolutions stay consistent under every sequence of blockages? Can handler and task overlap, can a blockage vanish uncounted, do they reach the pipeline in order, are drops reported, does the task always listen again? Is every CAN frame whole, in order and sent once? They do; never, never, yes, yes, yes; yes. 83,332 states. | counts 2..3, inference from the fourth interval on. By itself: gaps short / two usable / lost, blockages short / usable / long, at most 10 accepted. Captured: four captures of up to four symbols, queue of three, ticks that round both ways. CAN: four blockages to publish, two restarts |
| `sensor` | What the sensor makes of a wheel and shows of it. What is inferred from a turning wheel? The true count or none; a uniform wheel never locks; an uneven one locks a turn after the confidence limit; missed spokes never add revolutions. Do connection state, measurements and procedures of the service hold under all interleavings of its two tasks? Yes. Can the unlocked writers leave a flash on the LED or hide a steady link, is a sample judged rightly when edges are lost or the sample before failed? No; yes. 840,344 states. | all primitive wheels of 3 to 5 spokes with three interval lengths, all uniform ones, 28 spokes (five turns); two wheels with up to three missed spokes anywhere. Service: two handles, two writes, time to 24 units (past one roll-over of 20), count limit 3. LED: units of 50 ms, sample and status tick of two units and either phase, one late unit (also between the start and the first delay), one failed sample, a counter of eight units of carrier, which a failed and a late sample do not fill |
| `csc_procedure` | Is it one procedure at a time? **No**, see finding 3. | the service's part of `sensor` |
| `link_heartbeat` | Is LINK DOWN a heartbeat once per second? **No**, see finding 5. | the LED's part of `sensor`, beats ten ticks apart |
| `workbench` | Do checks pass only on current files, are accepted layout templates one checked capture, is the database always one sound snapshot, does the upload make no duplicate, does a save that follows the start of the watch reach the page? Yes, each under its condition (below). 219,594 states. | two saves, one tab, three contents of each layout file, two parts, one build, two snapshots, three titles that with their attachments and two other items just fit a listing of eight |
| `bom_check` | Does a passed BOM check mean a current page without any condition? **No**, see finding 4. | as `workbench` |
| `bom_saves` | Is the page drawn anew after every complete save, as long as it is served? **No**, see finding 6. | as `workbench` |
| `bom_tabs` | Does a tab with an older page than the one served reload? **No**, see finding 7. | as `workbench` |
| `simulator` | Is what the guard skips sound, is a settled page current, does the firmware accept each header, does the demodulator mark exactly the blockages, does the peak bound the trace, does no request leave the page calculating? Yes, each under its condition. 397,668 states. | two threads, one write of each file, two edits of which one is refused, up to three controls at values around each limit; eight samples, delay one, hold three |
| `simulator_fractions` | Does the firmware accept each header without any condition? **No**, see finding 8. | as `simulator` |

The ring in `sensor` has 18 cells and a wheel passes 28 spokes, so it wraps. In
`receiver`, ten blockages are six intervals, as many as the inference of three spokes
needs, and a complete turn after the lock; with two spokes there is room for two turns
and a gap that is thrown away; the proofs cover longer histories. One capture has more blockages than the queue has
room, and two captures are needed to see the queue used by a second one; a frame
of the boot before, one that waits, one that failed half-way and a good one need
four blockages and two restarts. In `workbench`, a race with a save needs the save
that is drawn and the one that overtakes it, and a tab needs one version it knows
and one it does not; of three contents one board passes no check and one has
another routing. In `simulator`, two threads make overtaken answers and a guard
that works while another one remembers; one write of each file is enough for a key
taken before and one after it; one build at a time is enough for its interruptions
(the proof covers any number of builds at once); eight samples are two complete hold times and the
beginning of a third.

The parts of `receiver` (estimating, receiving or publishing) and of `sensor` (wheel,
service or LED), the desks of `workbench` and the scenes of `simulator` share no
state but the pipeline, the board and the guard, which are in each half where they
matter. A behaviour is therefore spent on one part, chosen
at the start: interleaving independent parts would multiply the states and show
nothing more. Every property has a mutant in the modules, the code with a
plausible slip, that the same run rejects.

### Conditions

Some properties hold only under a condition that the code does not enforce. Each
is written into the property.

* `PassedChecksAreCurrent`: the board is not saved between the generator's use of
  it and its hash (finding 4; the README picture has the same order).
* `SavesGetDrawn`: the save is not the one the watch begins with, and the watcher's
  thread has not ended (finding 6).
* `SettledPageIsCurrent`: the answer on show was not overtaken by that of a later
  request; `run()` keeps no number of the request.
* `HeaderAcceptedByFirmware`: whole numbers (finding 8).
* `AcceptedIsOneCapture`: no editor is opened during a capture; the locks are
  looked for once. The run cuts a behaviour there.
* `NoDuplicateRecord`: the collection fits one listing.

### Findings

1. **Table one cell off.** `infer_count` copies the last n intervals into the
   table and sets the index to 0; the same call maps the newest interval again.
   Each later interval is compared with the next spoke's cell. The count of
   revolutions is not affected (`RevolutionConservation`), the expected intervals
   are.
2. **A double that is a candidate, too.** For 16 to 24 spokes the double is
   within 16..48 and matches as well, so the margin test refuses both.
3. **Sent is taken for confirmed.** Any NOTIFY_TX event ends the procedure. With
   confirmations as the only events (`SentReports = {FALSE}`) the property holds.
4. **A stale page can pass the BOM check.** The generator reads the board, and the
   manifest hashes it afterwards. A save in between is recorded as the source of
   the old page.
5. **No heartbeat.** Each sample resets the tick, so LINK DOWN blinks with the
   samples; when the timer happens to fire just before each sample, it does not go
   dark at all.
6. **Saves that are not drawn.** The documentation promises a regeneration after every
   complete save. A save while `serve` draws the first page becomes the starting point
   of the watch and is not drawn. A board that is away at one of the thread's `stat`
   calls, or a generator that has gone, ends the thread, and the server hands out the
   old page from then on.
7. **A tab that never reloads.** The documentation promises a reload when the page's
   hash changes. The page does not know its own hash and takes that of its first poll:
   if another page was drawn since it was loaded, or the watcher was started again, the
   tab keeps the old one until a third one is drawn. No weaker claim is checked: for a
   tab whose first poll was in time, the reload is the script's one comparison.
8. **Fractions pass the server and not the firmware.** The pins are compared cut and
   written rounded: 1.6 and 2 are different, and then the same.

Observations that are no findings, because nothing in the repository promises
otherwise: a failed start of advertising is not tried again; a count that was
locked while spokes were missed is never given up; a record whose attachment
failed is skipped by every later run; of two concurrent builds one may record the
hash of the other's database. The receiver's idle limit is the link-loss time, so
a capture ends only after that much carrier; what the driver does when its buffer
fills before is not in this repository.

## 5. Fairness

`SpokePipeline` and `SpokeWheel` have safety properties only. `RxFairness` is
weak fairness of the handler's steps, because an interrupt handler that was
entered runs to its end, and of the task's, because it is the task of its
priority (10) and FreeRTOS runs the highest ready one; captures have none, since
a wheel may stand. `CscFairness` is weak fairness of `OnSync` (the host syncs
once), of the access callback (it never blocks), of `Snapshot \/ Send`, and of
`IndicationEnds`: an indication is confirmed or the ATT transaction times out and
the connection is closed. Peers and the wheel have none. `LinkFairness` is weak
fairness of each task's steps, of the timer callbacks and of time; events and the
carrier have none. `MCSensor` states both for the part a behaviour is spent on, since
the steps of another part are enabled there and never taken.

`BomFairness` is weak fairness of the watcher's steps and `TabFairness` of the tabs'
timers: a thread and a browser run on. The former has strong fairness of `WritePage("serve")`, since
a failed drawing is tried again at every look and an external generator that works
at times does not fail at all of them. Saves, edits, runs by hand and a missing
generator have none.
`ServerFairness` is weak fairness of every thread of the server and of the page's
timer and reset: threads run, timers fire and answers arrive. Edits and clicks
have none.

## 6. Refinement

* `RmtReceiver` implements `SpokePipeline` (`ImplementsPipeline`, by TLC and by
  proof): the variables of the pipeline are those of the receiver, and each step of
  handler or task is one blockage of the pipeline or none. A timestamp that went
  backwards would break it.
* `PartsDatabase` implements `PartsCatalogue` (`ImplementsCatalogue`, by TLC and
  by proof): the snapshots are those written completely, and the published
  database is the file that `os.replace` put there.

## 7. Proofs

Each proof module proves an inductive invariant of its specification and takes the
theorems from it. The constants are any that satisfy the modules' named
assumptions; a theorem that needs more names it as a hypothesis, listed below.

* **`FoldLemmas`** makes sums and concatenations usable in proofs. The community
  modules define them by a recursive function on the subsets of a set, that is, as
  `CHOOSE f : f = [...]`, from which nothing follows until such an `f` is known
  to exist. `FoldExists` builds one for sets of at most n elements at a time,
  `FoldUnique` shows that all agree, and from these come the facts the proofs use: a
  sum is a natural number, takes any element of the set as its next term, is zero if every
  term is and positive if every term is; `FlattenSeq` of a longer sequence appends the last part. The
  induction is over natural numbers, on sets of counterexamples, because the induction
  theorems that take a predicate as a parameter cannot be used.
* **`SpokePipelineProofs`**: `TypeCorrect`, `PatternStaysWellFormed`,
  `RevolutionsAreConserved`, `RevolutionsKeepTheirDistance`, `ScanIsFaithful`. The
  invariant is the conjunction of the type, the well-formed ring, index and table, the
  conservation law and the spacing since the last revolution. The table needs the ring
  (it is filled from it), the conservation law needs the index below the count (or the
  wrap would not be one turn), and the distance of revolutions needs both the index and
  the spacing. Lemmas state what `back`, `Record`, `Lock`, `Learn` and `update_map`
  preserve, one per operator. `ScanIsFaithful` is a loop invariant (`Knows`): after the
  counts up to n the best is the smallest score seen, of the smallest count that has it,
  and the second best the smallest of the others; the order of fractions is transitive,
  so the margin test against the second best is a margin against all.
* **`SpokeWheelProofs`**: `NeverAhead`, `IndexStaysWithTheSpoke`, `TrueCountIsLocked`,
  `UniformWheelNeverLocks`, `UnevenWheelLocks`. `MappedSpokes` says that a spoke is mapped at most once and
  since the lock only, and exactly once if none is missed. `HistoryFollows` says that,
  before the lock and with no spoke missed, the ring holds the last intervals of the
  wheel in order, across its wrap. Then the true count has score zero, and so has each
  count that fits the repetition: a locked count beats all others by the margin, hence
  it is the true one (`WheelWins`); on a uniform wheel two candidates score zero, and no
  margin is left (`UniformHasNoWinner`). `UnevenWheelLocks` rests on `Undecided`: while
  nothing is locked, no decisive spoke has passed since the inference began, one at
  which every other count finds a difference between its two turns; such a spoke comes
  back within a turn. Hypotheses: the intervals of the wheels are in
  range (`IndexStaysWithTheSpoke`, `TrueCountIsLocked`, `UnevenWheelLocks`; nothing is
  promised of a wheel that is turned too slowly or too fast); the wheel's count is a
  candidate; `Identifiable`, an uneven wheel has a decisive spoke (each one of the run
  has; the one of finding 2 has none);
  `EnoughHistory`, two turns of the largest candidate before the inference (it waits for
  192 intervals, four turns of 48 spokes), and for uniform wheels two turns of the second
  smallest.
* **`ReceiverProofs`**. Of the receiver: `HandlerAndTaskTakeTurns`, from `Turns` (while
  the task is not waiting nothing is armed, notified or in the handler; while the
  handler runs the queue is the task's no more); `BlockagesAreCounted` and
  `OnlyLongCapturesDrop`, with `Counting` (the handler's blockages still to be sent and
  the queue together fit what the capture has); and the refinement
  `ReceiverImplementsPipeline`. For it `BlockagesWithin` shows that the reconstructed
  timestamps grow strictly and lie between the arming and the end of the capture,
  although every duration is rounded by itself (`CaptureIsRounded`: the rounded sum is
  off by less than one unit per symbol); `InOrder` says that the queue is newer than
  what the pattern has seen and older than what the handler still holds. Hypotheses:
  `EndsInSilence`, the silence that ends a capture is longer in microseconds than the
  capture has symbols (15000 against a buffer of 128), without which a capture could
  reach back into the one before; `RoomFor`, the bounds of `SpokePipeline` on accepted and
  rejected blockages, which are bounds of its runs only, allow what the captures hold; and
  gaps and durations of the pipeline are unrestricted. Of the CAN transport:
  `TelemetryStaysWhole`. A frame that waits is whole, older than the one in work and
  newer than all on the bus (`WaitingIsWhole`), and a half that is written is the
  current blockage's (`WrittenIsCurrent`): a frame that is still pending after a restart
  is refused, not mixed.
* **`CscServiceProofs`**: `NothingIsLeftBehind`, `MeasurementsAreWhole`,
  `NotificationsKeepTheirDistance`, `CollectorsSeeElapsedTime`, `CountNeverWraps`. The
  arithmetic of `event_time_1024` comes first: the difference of two rolled-over event
  times is the elapsed time to a tick, as long as this is shorter than the roll-over.
  `CscIInv` adds to the properties that only a live connection has a write under way and
  that a measurement between its three critical sections belongs to the revolution that
  was the last to restart the notification interval (`MeasurementUnderWay`): that is why
  the snapshot may be taken later than the revolution. `CountIsTrue` says that the
  service's count is the one the turns of the wheel and the last Set Cumulative give; the
  snapshot takes it at the turn of its own revolution, for no other can be reported
  meanwhile.
* **`LinkMonitorProofs`**: `FlashNeverSticks`, `LedTypeCorrect`, `DeadLinkIsReported`,
  `HealthyLinkIsReported`. `FlashInv` adds to the property that the signals are typed, so
  that a task on its way to the off timer carries a real flash length, and that the off
  timer counts down to zero and no further, so that it does not pass its expiry
  unnoticed. Each step either leaves the four ends of a flash alone (a task on its way,
  the running timer, its callback, the flag) or hands the flash from one to the next. The
  verdicts rest on `NoStrayEdges` (no carrier since the clearing, no edge) and
  `EdgesAddUp` (bounds on time and edges at each point of the loop). Hypotheses: a
  threshold above zero for the dead link; for the healthy one `CounterHolds`, the
  counter holds the edges of as many failed samples in a row as the constants allow, plus
  one late one (with 100 ms, 38 kHz and a limit of 30000 about six), and `Punctual`, a
  sample is not so late that a full carrier is below the threshold.
* **`SimulatorProofs`**: `GuardRemembersSoundly` (modification times only grow, so a key
  that still equals the files' means that nothing was written since it was taken; a thread
  about to remember such a key has compared what is there now). `PageSettlesOnItsValues`:
  once timer and reset are done, either the latest request is out and carries the page's
  values, or its answer is shown and every other one still out is overtaken (`PageInv`).
  `HeaderIsAccepted`: the page clamps (`ControlsClamped`), the server's validation of whole
  numbers implies the firmware's after rounding, for everything that can be typed into the
  controls of `config/system.json`. `DemodulatorIsExact` (the countdown is the hold time less the age of
  the last transition, in both directions) and `ReportedPeakIsHighest`, from
  `RadioIsLargest`: the radio's peak is the largest current of the chip, as in
  `config/system.json`.
* **`WorkbenchProofs`**: `ChecksVouchForTheBoard`: a recorded hash is of an older board,
  or of the one that is there, and then the page is of it, too (`Vouches`), for the page,
  the picture and every generator under way, unless a save came between use and hash.
  `DatabaseImplementsCatalogue`, the whole refinement: `PartsInv` says that every build
  holds a snapshot that was taken and is sound, and rows of its parts only, all of them
  when it comes to replacing the database. `RestoresOneCapture`: `LayoutInv` says, unless
  an editor intruded, that no editor is open, what the capture has passed so far is clean,
  the sheet it has copied is still the one that is there, and the recorded pair is the one
  last captured, of clean files; whatever interruption leaves beside it, one of the two
  scripts refuses; `CleanStart`: the layout the repository starts with
  was captured clean. `UploadMakesNoDuplicate`: `UploadInv` adds that a title still to do
  and not listed has no record.

Every safety property of the passing runs is proved. Only model-checked are the liveness
properties `AlwaysListensAgain`, `DropsGetReported`, `ProcedureEnds`, `SteadyUpIsLit`,
`SavesGetDrawn` and `CalculatingEnds`: fairness needs ENABLED, which is out
of the prover's reach.

## 8. Not modelled

* Speed, confidence and period outputs, which no step reads; text of logs; the GATT
  table and static characteristics; the encoding of CAN payloads and of CSC
  measurements; the serial sink of the debug module; geometry.
* Of the simulation, the optics, the analog filters and the comparison with ngspice
  (`validate_ngspice.py`): real-valued computations.
* The page's drawing and the server's static files.
* Torn writes of text files are modelled where the code guards against them or
  hashes the file (snapshot, picture), and left out for the BOM page and the generated
  connectivity. Two writes of a file are assumed to have different modification times. A
  missing KiCad command line ends a run before it changes anything.
* `export_jlc.ps1`, `generate_jlc_assembly.py`, `footprint_audit.py`,
  `versioning.py`, `verify_hardware_release.py`, `audit_project.py`,
  `clean_generated.py`: single-threaded checks and formatting of files. They change no
  shared state and have no order of steps that could go wrong.
* `generate_constants.py` writes several files from one input, one after another;
  nothing promises that they appear together.
