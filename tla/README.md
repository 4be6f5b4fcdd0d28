# Verification of moto-tester

TLA+ models of moto-tester, the tester and field emulator of a water transfer
station, their TLC runs, and proofs checked by TLAPS.

## The system

`trasvase-tester` is the only Modbus/TCP client of the PLC. A poller thread
writes what operators and the emulator ask for and reads four tables; FastAPI
handlers, in a pool of threads, change the shared state; a WebSocket hub pushes
snapshots to browsers. `field-emulator` is a second process: every tick it reads
the tester's snapshot over HTTP, integrates two water levels, posts them back as
injections and saves its model.

| Component | State | Operations | Interacts with | Hard behaviour | Correct when |
|---|---|---|---|---|---|
| RuntimeState (`app/state.py`) | write queue (deque of 200), request in flight, values and quality, EMar modes, `_lock`, `_write_gate` | enqueue writes / injections, coalesce, set EMar mode, sync EMar, switch injection mode, next / complete / result of a write | called by handlers and poller; calls the stores | interleavings of critical sections, depth limit, nested locks | nothing accepted is lost, nothing is injected while disabled, what is shown as good is true |
| ModbusPoller (`app/modbus_client.py`) | client, schedule, request being written, table being read | write burst, authorise, write, read tables, reconnect | RuntimeState, PLC | transport failure before or after the PLC acts, stale readings | failures are shown, EMar outputs converge |
| SimulationPoller (same file) | requests drained | fabricates values, drains the queue, answers each request | RuntimeState | requests out of the queue with no result yet | what is shown as queued is still to be answered |
| InjectionModeStore | `injection_mode.txt` | read, set | RuntimeState | read outside the gate | default disabled |
| PumpControlStore | RTU selectors and EMar modes, in memory and in a file | update selectors, set mode | RuntimeState | crash between file and memory | memory is what the file says |
| PollingControlStore (`app/polling_control.py`) | settings in memory and in a file, revision, status of FC01..FC04 | update, snapshot, mark attempt / success / error | poller, handlers | two updates at once, a failing file, a revision against a running cycle | no change is lost, a change reschedules, errors agree with the values |
| SnapshotHub (`app/control/snapshot_hub.py`) | revision, snapshot, producer task | produce, publish, wait for next | emulator, RuntimeState, WebSocket handlers | producer that raises, slow and vanished clients | every client sees snapshots in order, handlers end |
| FieldEmulator (`field_emulator/main.py`) | level model, controls, file | tick, set valves / control | tester over HTTP | lost or late POST, crash between POST and save, rollback | levels within their limits, resynchronised after injection |
| LevelHistoryStore | points, revision, CSV | record, trim, rewrite, load, downsample | FieldEmulator | crash while appending | memory is what the file says |
| Frontend data layer (`useTrasvaseData.ts`, `TrasvaseStreamClient.ts`) | snapshot, socket, timer, history | start, stop, connect, refresh, execute | hub, REST | REST answer that overtakes the stream, sockets that fail or are closed | one live socket, never none, the newest snapshot in the end |
| Configuration, addressing (`app/config.py`, `app/addressing.py`) | the map, fixed once loaded | load, validate, compute references | all | boundaries, duplicates | no two signals share a tag or a register, each is read and written at its own |
| Rest (services, guard, logging, React) | none of their own | projections, rendering | - | - | - |

What is hard to test in it is listed line by line under `hazards` in
`PROJECT.json`.

## Modules

| Module | Models |
|---|---|
| `RuntimeState` | class RuntimeState with PumpControlStore: one action per critical section of `_lock`. `StateSpec` lets anybody call anything at any time. |
| `WritePath` | extends it with the threads: poller program counter, HTTP threads, injection mode and gate, PLC, restart. The poller is the Modbus one or the simulation. `Spec`, and `FairSpec` with fairness. |
| `RuntimeState_proofs` | TLAPS proofs about `StateSpec`. |
| `WritePath_proofs` | TLAPS proofs about `Spec` of `WritePath`, on top of those. |
| `PollingSettings` | what the service promises of its polling settings, abstractly: they change one function at a time, at one moment, from what they are at that moment. |
| `PollingControl` | class PollingControlStore, the handlers inside `update`, and the poller's cycle: copy, schedule, readings, failures, restart. It implements `PollingSettings`. |
| `SnapshotStream` | SnapshotHub, the handlers of its sockets, the page's stream client and the effect around it, with failures of every part. |
| `ExchangeMap` | load_config's checks, addresses and register coding as operators, and the readings and writes that use them. |
| `PollingControl_proofs`, `SnapshotStream_proofs`, `ExchangeMap_proofs` | TLAPS proofs about the `Spec` of each. |
| `LevelHistory_proofs`, `HistoryChart_proofs` | TLAPS proofs about `HistorySpec` and `ChartSpec`. |
| `LevelHistory` | class LevelHistoryStore: points in memory, rows of the CSV file, sampling, trimming, compaction, reload; `HistorySpec` lets anybody record at any time. |
| `HistoryChart` | extends it with `_downsample` and the page that refreshes by revision. |
| `FieldEmulator` | extends it with the emulator: the tick between its waits for the tester, the handlers that change the controls, saving, rollback, restart, and the tester as the tick sees it. |
| `FieldEmulator_proofs` | TLAPS proofs about `Spec` of `FieldEmulator`, with those of its history. |
| `Rounding` | Python's `round` of a quotient, for the three above. |
| `MCWritePath`, `MCPollingControl`, `MCFieldEmulator`, `MCExchangeMap` | bodies that clients post, maps and other constants of small instances. |

How the state corresponds to the code:

- `queue`, `inFlight`, `values`, `emarModes` are `_write_queue`,
  `_write_in_flight`, `_values`, `_emar_modes`; `controls` is
  `PumpControlStore._controls` and its file, which one call replaces together; a
  process that dies after a call saved and before the memory followed is in
  `Reboot`, whose file may be any of `InterruptedSaves`.
- A quality is the code's, with "local" divided by its error text into what the
  user reads: queued, skipped by the injection mode, or a default.
- `mode` is `injection_mode.txt`; `polled` the tables whose reading
  `modbus_polling.json` enables, which `poller.polling` copies at the top of a
  cycle; `gate` the holder of `_write_gate`; `lock`
  becomes "held" when a thread waits for the `_lock` it holds itself (an
  ordinary critical section opens and closes within one action).
- `poller.at` is the line of `ModbusPoller._run` the thread has reached, and
  `api[th].at` the one of a handler that gives up its locks midway.
- A tag is a kind and a number; there are as many levels, setpoints and pumps
  as the instance says. A register holds the values of `Reading`.

- `csv`, `points`, `revision`, `lastSample`, `compactedAt` are the file and the
  fields of LevelHistoryStore. `now` is both the wall clock and the monotonic
  one: the wall clock is taken not to be set back. A row that a failed write
  cuts short is a `torn` line, which reads as any levels or as nothing readable,
  and the next row is `glued` to it. While the process is down, `points` is what
  the last one that was up had in memory.
- `control`, `level`, `lastTick`, `file` are the mode, season and openings of
  `state`, its two levels (both None or neither), `_last_tick` and
  `field_emulator_state.json`. The openings that the file also keeps are left
  out, because every reader computes them anew. Levels are in whole units and
  openings in percent, so that one rounding of a quotient by 100 stands for the
  code's rounding of a float.
- `tick.at` is the stage `_tick` has reached: between stages the thread waits for
  the tester or for the lock, so the handlers run there. A block under
  `_state_change` is one action: it succeeds or restores what it found.
- `taken` (the levels of the last injection the tester took) and `left` (the
  levels kept date from before the mode was disabled) are history variables.

- In `PollingControl`, `updating` is the holder of the store's lock, which only
  `update` keeps across actions; `copy` is the `polling` of the cycle, `dueIn`
  the distance of `next_due` from now, `poller` the line reached with the tables
  due and the one being read; a table is known by its function code. `Written`
  are the functions whose tables are written too (FC01, FC03): for those the
  quality `shown` is changed by enqueuing and by the results of writes as well.
  `late`
  counts, for the property alone, readings after a disabling was confirmed.
- In `SnapshotStream`, a snapshot is the moment it was taken at. `hub.task` is
  where `_run` waits, `handler[s]` the coroutine of a socket with whether
  `_revision` exceeds the one it saw, `link[s]` the socket as the page knows it,
  `page` the client's `running`, `socket` and `reconnectTimer`, `get` the REST
  request under way. Sockets are numbered in the order they are made.
- In `ExchangeMap`, a document is the YAML map as parsed, with the fields that
  the checks read; `signals` is `signals_by_tag`, `memory` the PLC's registers.
  `fresh` marks, for the property alone, values that the PLC still holds.

External, modelled from how the code uses it: the PLC stores what is written
to it, may refuse, may act and lose the answer, and changes `bB#Arndo` by
itself. It writes no `y*` or `g*` register of its own. In `FieldEmulator` the
tester is external too: it answers, refuses, or takes a post whose answer is
lost, and operators switch its mode at any time.

A definition headed `Fault:` is the definition below it with one mistake. The
runs tell the two apart: each property of a run fails when the fault listed for
it in `PROJECT.json` is put in.

## Runs

| Run | Instance | Question |
|---|---|---|
| `gate` | 1 level, 2 HTTP threads, burst 2, capacity 3, either poller | Is nothing injected once disabled? Is what is shown as good or queued true? |
| `turns` | 2 levels, 2 setpoints in one body, capacity 3, fair | Do depth and coalescing hold? Does a level keep its turn, and is it served? Is every step of the threads a call of RuntimeState? |
| `converge` | 1 pump, capacity 2, FC02 switched on and off, fair | Do saved mode, remembered mode and newest command agree? Does `yB#EMar` come to follow its mode while FC02 is enabled? |
| `polling` | 2 functions, one of a table that is written too, rates of 2 and 4 ticks, 2 handlers, fair | Is every change of the settings kept, and followed by the schedule? Do errors and values of the table only read agree? Is every enabled function read again? |
| `stream` | 2 changes of state, 2 mishaps, 1 payload in transit, fair | Is there one live socket, and never none? Does the stream keep its order, does the page catch up, do handlers end? |
| `map` | 6 signals in the four tables, 2 maps that load and 10 that must not | Does load_config let two signals share a register? Does every reading and write reach its own? |
| `history_faults` | 1 level value, window 2, compaction 2, clock to 6, cut appends, deaths anywhere in `record()`, failed starts | Is memory the end of the file, does the next start bring it back, and does the file lose what left the window? |
| `history_shown` | window 7, clock to 11, failed compactions, 3 points asked for | Is the page's history the current one when it says so? Does thinning keep both ends? |
| `emulator` | chamber, levels 0 to 2, a valve closed, half open or open, clock to 2, crashes | Do memory, file and tester agree whatever fails? Are the controls the operators' alone? Is the history called as `HistorySpec` supposes? Does a level ever jump? |
| `emulator_leaving` | both tanks, clock to 3 | Violated: levels from before disabling are resumed. |
| `disabling` | 1 level | Violated: `set_injection_mode` waits for the lock it holds. |
| `dropped` | 1 setpoint | Violated: a write whose transport fails is completed, not kept. |

Bounds. Capacity 2 or 3 in place of 200 makes full queues common; a batch of two
against one free place, and a request in flight that fills the last one, both
occur. Two readings tell an old value from a new one. Two handlers suffice for
the races of the gate, which involve one writer, one switch and one poster. A
burst of one or two in place of 50 ends both by its count and by an empty queue.
`DrainLimit` is 2 for the same reason. `StartRtu` gives the RTU selectors of the
file and of the PLC one start value in `converge`, which has no body that changes
them, and both elsewhere; `OperatorTable` lets operators switch FC02 in
`converge`, where a reading decides something. Nothing else is bounded in those
runs: the state is finite, and a restart is always possible.

The runs of the history and of the emulator bound the clock with `LastMoment`;
a restart takes one moment of it, which also bounds restarts. Intervals, window
and compaction period are a few moments long, so that samples, trimming and
compaction all happen, in either order, with a restart among them; 11 moments
and a window of 7 give every length from 4 to 8 to thin out. The limits of
`MCLimits` include a floor that is not below its ceiling, which raises.
`emulator` has one tank, since the two are integrated by the same expression,
and two integration steps, which is one resumed level; its valve opens by halves,
so that levels fall between two units and are rounded, ties included. Compactions fail in
`history_shown` only, because a file whose compaction fails is not compacted.
`history_faults` disables the deadlock check: the clock ends, and an emulator
whose history is unreadable does not start until somebody repairs the file. In
the other runs the mode can always be switched, or a tick end without a sample.

In `polling` two functions tell the one that fails from the one that waits, and
two handlers the one that is in `update` from the one that waits for it; rates of
2 and 4 ticks divide by the number of functions (`RateAssumption`) and differ, so
that a longer date can outlive its rate. In `stream` every failure, restart and
departure of the page is a mishap; two of them give a socket that fails while
another is being made, a page that leaves and comes back, and a restart under
either; one payload in transit makes a slow client. Changes and sockets are
bounded by these constants, the rest is finite. It may stop when the hub is dead
and nobody operates, so its deadlock check is off, as is that of `map`, where a
document that is refused ends the process. The values and words of `map` are
those on both sides of every limit (-32768, 32767, 65535, the sign bit); its
documents differ from a good one in one field each, one for each kind of check
the properties rest on.

Fairness (`FairSpec`). The poller thread is always scheduled (its loop catches
everything) and an accepted request runs to its end: weak fairness of
`PollerStep` and `ApiContinues`. Of the PLC it is assumed that a connection is
eventually made, and that a write and a reading of `bB#Arndo`, when tried again
and again, do not fail for ever: strong fairness of `WriteAccepted` and
`ReadTable`. That such a reading is scheduled again and again
(`ScheduleReading`) is supposed only of behaviours in which FC02 is left enabled
in the end, for then its date comes (`EnabledIsRead` in `polling`) and the
connection of some cycle is made; operators may leave it disabled for ever, and
then no reading of `bB#Arndo`, and no correction of `yB#EMar`, is due.
`EmarConverges` supposes in its own statement that FC02 is enabled in the end and
that operators, drives and restarts come to rest.
`LevelsAreServed` supposes that operators leave the mode alone in the end,
because no lock promises the poller its turn at the gate, and excuses the hang
that `disabling` shows. In `polling` the poller and a handler inside the lock
run on and time passes; `_process_writes` may raise, but not for ever once tried
again and again (strong fairness of `Schedule`): it raises only when the PLC
cannot be reached with writes pending. `EnabledIsRead` supposes that operators
and restarts come to rest. In `stream` the event loops of both sides run what is
ready, a socket that does not fail delivers, and requests are answered; nothing
obliges a mishap, an operator or a page to be opened. `CatchesUp` supposes a page
whose client runs and a hub that lives, `HandlersEnd` a hub that publishes.

## Refinements

- `turns` checks, and `ThreadsMakeCalls` proves, that every step of the threads
  of `WritePath` is a call of `RuntimeState` or leaves its state alone
  (`StateSpec`), so that what is shown of the calls holds of the threads. The
  simulation shows the readings and the setpoints in one call of `update_values`,
  which is why `ReadTogether` offers more than the tables of the PLC.
- `emulator` checks, and `EmulatorUsesTheHistory` proves, that `FieldEmulator`
  uses the history as `HistorySpec` lets anybody use it.
- `polling` checks, and `StoreImplementsSettings` proves, that `PollingControl`
  implements `PollingSettings`: the abstract settings are the file, and a change
  takes effect when the file is replaced.

## Findings

- `disabling`: `state.py:479-482`. `_lock` is a `threading.Lock` and
  `write_result` takes it again. With an injection queued, disabling never
  returns and every later call of RuntimeState blocks; README.md:123 of the
  repository promises a cancellation.
- `dropped`: `modbus_client.py:322-326` completes a request whose transport
  failed; the test at `tests/test_config.py:368` expects it to stay pending.

- `emulator_leaving`: `main.py:374` discards the levels only in a tick that reads
  the mode disabled. If the mode is disabled and enabled again between two
  ticks, or while no tick succeeds, the model goes on from its old levels;
  README.md:130-131 of the repository says it resynchronises.

## Proofs

Every safety invariant and action property of the passing runs is a theorem for
every value of the constants, under the assumptions that the modules name. Only
the liveness properties are left to TLC.

`RuntimeState_proofs` proves, from the assumptions named in `RuntimeState`
(the capacity holds the start-up commands of all pumps, 0 is a register value,
a body has finitely many tags, None is no request and no value), for every
instance:

- `TypeCorrect`, `DepthIsBounded`, `LevelsAreCoalesced`: `StateSpec` implies
  `TypeOK`, `DepthBounded`, `OnePendingPerLevel` always. None is inductive on
  its own. Appending to a deque keeps what was in it only while the depth is
  bounded, and coalescing leaves the queue as it was before replacing values
  only while each level has one value pending; so `QueueInv`, the conjunction,
  is the invariant. `AppendOrdinary`, `SuffixStep`, `CompactedIsQueue` hold
  the argument, and one lemma per call (`EnqueueStep`, `CoalesceStep`,
  `SetModeStep`, `UpdateStep`, ...) applies it.
- `ModesSurvive`: `StateSpec` implies `ModesAreSaved` always; it needs
  `TypeOK` to know the domain of the records that are updated, and that the save
  of a call that died leaves a well-formed file (`RebootControls`).
- `NewestCommands`: `StateSpec` implies `NewestEmarIsCommanded` always. What is
  pending is one sequence, the request in flight and then the queue
  (`PendingSeq`). A call drops requests from its front, replaces values of levels
  in it or appends to it, and an appended command of a pump is the one of the
  mode that the same call remembers; with `QueueInv` that is inductive.

`WritePath_proofs` proves, for every number of threads, every burst, set of tags
and body, and for either poller:

- `ThreadsMakeCalls`: `Spec` implies `StateSpec`, so that the theorems above hold
  of the threads (`StateIsSafe`). A thread acts on what it took earlier, so the
  step is a call only because of what it has in hand: `PathInv` says that a post
  under way is one that clients may make, that the request in flight, those
  drained and the sample read are of tags and values that fit, and that the
  drained ones are there exactly while they are answered.
- `InjectionsAreGated`: `Spec` implies `InjectsOnlyWhileEnabled`. The invariant
  is `PermissionStands`: from the last permission until the write is over the
  poller holds the gate, and so does whoever switches the mode; hence the mode
  the poller read still stands when the PLC acts.
- `GoodIsConfirmed`: `Spec` implies `GoodMeansConfirmed` always. The invariant
  `ShownIsConfirmed` follows what is about to be shown, too: the sample that was
  read and the write that was accepted agree with the PLC until they are shown,
  since a writable register changes by the poller's own writes only.
- `QueuedIsPending`: `Spec` implies `QueuedMeansPending` always. `QueuedIsBacked`
  says what backs a value shown as queued, until its result is recorded: a
  request in the queue, the one in flight, or one the simulation has drained. A
  call queues what it newly shows as queued and drops no request that backs
  another value (`KeepsBacking`).
- `TurnsAreKept`: `Spec` implies `LevelsKeepTheirTurn`. A pending level stays where
  it is, or moves ahead, or has been taken: by the Modbus poller one at a time, by
  the simulation in a drain that keeps the order.

`LevelHistory_proofs` proves, for every window, interval, period and latency:

- `PointsStayOnFile`: `HistorySpec` implies `PointsAreOnFile` always, whatever
  appends, compactions and processes fail. A line that a failed write spoils stays
  spoiled until the file is written anew, so once all are whole the file grew by
  whole rows only (`AppendingAPoint`, `CuttingAnAppendShort`); and trimming drops a
  prefix (`TrimmedCutsTheFront`), so what was the end of the file still is
  (`StoringAPoint`).
- `RestartsKeepPoints`: `HistorySpec` implies `RestartKeepsPoints`, also for the
  start after a death inside `record()` and after any number of starts that failed.
  `PointsAreAligned` extends `PointsAreOnFile` to a process that is down: what it
  had in memory is the end of the file, but for points that have left the window,
  which a compaction may have taken from the file already, and for the sample that
  was being stored, which may follow. Every place `record()` can die in keeps that
  (`AppendedIsAligned`, `CompactedIsAligned`), as does a start that fails. That
  nothing is brought back that memory had dropped needs `StaleLeftTheWindow`: the
  lines in front of the points have left the window of `now`. It does not need the
  points to be in the order of their times.
- `FileStaysCompacted`: unless compactions fail (`"rewrite" \notin Fault`),
  `HistorySpec` implies `FileIsCompacted` always. A file that cannot be rewritten
  is not compacted; the run has no such fault either.

`HistoryChart_proofs` proves, for every number of points asked for:

- `ChosenKeepsTheEnds`, `EveryThinningKeepsTheEnds`: thinning n points to fewer
  gives exactly as many, with both ends; `ChartSpec` implies
  `ThinningKeepsTheEnds` always. Two slots are more than one index apart, and
  rounding half to even never takes two such quotients to one number
  (`RoundKeepsApart`), although it may when they are exactly one apart.
- `CurrentChartsAreRight`: in one life of the process (`"crash" \notin Fault`),
  `ChartSpec` implies `CurrentChartIsRight` always: the revision grows with every
  change of the points, and the page was never given a greater one (`ChartInv`).
  A restart counts revisions anew and the statement is then false.

`FieldEmulator_proofs` proves, from the assumptions named in `FieldEmulator` and
`LevelHistory` (rates, limits and openings in their ranges, a largest number of
pumps, bodies that keep the controls well typed), for every instance and every
fault:

- `EmulatorTypeCorrect`, `MemoryIsSaved`: `Spec` implies `EmulatorTypeOK` and
  `SavedIsRemembered` always. That a restart finds what was in memory needs that
  the file equals memory while the process is down as well, since neither
  changes there; and that elapsed times are naturals needs that `lastTick` never
  passes `now`. `EmulatorInv` adds both. `ClampBetween`, `RoundBetween` and
  `IntegratedWithinLimits` show that integrated levels stay within the limits,
  which is why they are levels at all.
- `NeverAheadOfTheTester`: `Spec` implies `KeepsOnlyWhatWasTaken`. A tick at
  "storing" has just posted: `EmulatorInv` says its levels are `taken`, which
  nothing else writes meanwhile.
- `OnlyOperatorsChangeControls`: `Spec` implies `ControlsAreTheOperators`; the
  restart is the one case that needs the invariant.
- `EmulatorUsesTheHistory`: `Spec` implies `HistorySpec`. `TimingInv` says that the
  time a tick began at, while it is under way, is not before the last sample or
  compaction and at most `Latency` ago. `EmulatorKeepsItsHistory` draws the
  conclusion for the history of the emulator.
- `LevelsMoveByOneStep`: `Spec` implies `LevelsMoveSteadily`, with rates and the
  longest step whole numbers. No flow exceeds the
  greatest rate (`FlowIsBounded`), clamping to limits a level was in does not move
  it further (`ClampMovesLess`), nor does rounding (`IntegratedIsNear`); `NearInv`
  keeps that from the block that computed the levels to the one that stores them,
  because no other step changes the levels kept between the two.

`PollingControl_proofs` proves, for every number of functions and handlers,
every set of rates and changes:

- `PollingTypes`, `SettingsSaved`, `DisablingEffective`, `DueInTime`,
  `ErrorsAlwaysAgree`: `Spec` implies `PollingTypeOK`, `SettingsAreOnFile`,
  `DisablingIsEffective`, `DueWithinItsRate`, `ErrorsAgree` always. The invariant
  says, besides, who may be inside the lock and with what: `next` of the handler
  that holds it is memory with one function changed (`UpdateInHand`); that once a
  disabled function was read late nothing in the poller's hands can bring another
  reading of it (`LateReadingIsTheLast`); and that a copy that is not current is
  known by its revision (`CopyIsCurrent`). `ErrorsAlwaysAgree` is about the tables
  outside `Written`: writes change none of those (`WriteShows`), and what a reading
  does to the store and to the values is in the poller's hands between the two calls
  (`MarksInHand`).
- `StoreImplementsSettings`: `Spec` implies `SettingsPromise`; each step maps to
  a step of `PollingSettings` or to a stutter, and the change that takes effect is
  the handler's because of that `next`.

`SnapshotStream_proofs` proves, for every number of changes, mishaps and payloads
in transit, `StreamTypes`, `OneSocket`, `AlwaysAWay` and `StreamInOrder`.
`ConnectionInv` tells which sockets exist, which the client holds and when the
timer is set; `OrderInv` orders what the page saw, what is on the wire, what the
handler holds, what the hub shares and what it is taking, in this order, on the
one socket that can deliver. `NeverStranded` and `StreamKeepsOrder` follow from
both.

`ExchangeMap_proofs` proves, for every document that can be parsed, good or bad,
and every word and value:

- `ReferencesConvert`, `AceReferencesDiffer`, `RegistersRoundTrip`: the arithmetic
  of addresses and registers, whatever the numbers.
- `MapTypes`, `SignalsNeverShare`, `ResponsesSuffice`, `WritesReadBack`: `Spec`
  implies `MapTypeOK`, `SignalsApart`, `ResponsesHoldTheRows` and `ReadBack`
  always. `LoadedApart` is why the checks suffice: different tables have different
  kinds, the rows of one differ, and addresses differ as rows do. `MapInv` adds
  that the signals in use are those of a document that loaded.

Only model-checked: liveness (`LevelsAreServed`, `EmarConverges`, `EnabledIsRead`,
`CatchesUp`, `HandlersEnd`), which rests on fairness and ENABLED, out of the
reach of TLAPS. What `Downsampled` makes of the chosen indexes is not proved
either: `SetToSortSeq` sorts by a recursion over data. Refuted by TLC, and so no
theorems, are the properties of the three runs that expect a violation.

## Not modelled

The status and note of each component in `PROJECT.json` say what and why.

- The emulator's curves (`simulation.py`): floating-point cosines and a seeded
  generator, out of TLC's arithmetic; `FieldEmulator` takes their flows as
  constants.
- Rendering, logging, the access guard and the read-only services: they keep no
  state and decide nothing that the rest depends on.
- Of the write path: a request that the PLC applies only after the client gave up
  waiting for its answer, possibly when the gate is free again and the injection
  disabled. No lock of the process covers it; `InjectsOnlyWhileEnabled` takes a
  request that timed out to reach the PLC at once or never.
- Of the history: that the file rounds times and levels to three decimals (the
  moments and levels of the model are farther apart), and any promise about a file
  that a failed write has spoiled, which the code neither detects nor repairs: the
  properties speak of files whose lines are whole.
- Of the emulator: a post that the tester takes only after the emulator gave up
  on it and went on, a wall clock that is set back, and the fields that only
  report (`last_error`, bounds, counters).
- Of RuntimeState: the event log, the connection counters and `local_commands`,
  which no decision reads; and that `snapshot()` takes its locks one after
  another, so that its parts may be of different moments.
- Of the configuration: `.env`, labels, and the aliases `write_kind` and
  `write_ref`, which no map of the repository declares.
- Of the page: the parser, but for a message it rejects, and a second page, whose
  sockets and handlers are its own.

## Plan

Modelled and, for safety, proved: the write path with either poller, the emulator
and its history, the polling control, the stream, the map of the exchange. To
come, in this order:

1. An injection mode whose file cannot be read or written, in `WritePath`; its
   theorems must then be proved of the larger model.
2. What an interrupted page sees across a restart of the emulator: a weaker form of
   `CurrentChartIsRight` that survives it, since the next sample ends the confusion.
3. The abstract queue that `RuntimeState` implements, per tag, as a refinement.
4. The variants that the liveness properties rest on (how many requests are ahead
   of a level, how many tables before an enabled one), as action properties that can
   be proved.
