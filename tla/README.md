# Verification of automatex

automatex is a desktop client (Tauri: a Rust backend, a TypeScript frontend) that runs
keyword scans on Android phones. A *task* is a list of cities and keywords; the
*engine* leases a phone to a task, sends it the keywords in batches, records
each result in SQLite and uploads it later. This directory holds TLA+ models of
the backend, the TLC configurations that check them and the proofs that TLAPS
checks.

Paths below are relative to the repository; `B/` stands for `src/backends/src/`.

- [Inventory](#inventory)
- [The model of the engine](#the-model-of-the-engine)
- [The model of the outbox](#the-model-of-the-outbox)
- [The model of the MQTT connection](#the-model-of-the-mqtt-connection)
- [The model of mirroring](#the-model-of-mirroring)
- [The model of the device registry](#the-model-of-the-device-registry)
- [The model of the accounts](#the-model-of-the-accounts)
- [Properties](#properties)
- [Runs, bounds](#runs)
- [Fairness](#fairness)
- [Findings](#findings)
- [Proofs](#proofs)
- [What is not modelled](#what-is-not-modelled)
- [Plan](#plan)

## Inventory

| component | state | operations | talks to |
|---|---|---|---|
| Engine loop `B/engine/event_loop.rs`, `mod.rs` | `EngineState`: tasks, running (round, run, device, active worker, wakeup), heap of wakeups, counters; `execution_cursor` | start, pause, resume, stop, retry, kick, release offline, clear device, reload all / one, forget, reorder, wakeup, results of workers | all of the below |
| Phone worker `B/engine/worker.rs`, `B/connection/phone_client.rs` | a TCP stream, the batch, what it has done | one per executing task: connects, reads results, writes each into the database, tells the engine, ends with an outcome; a cancellation token stops it at any await | engine (channel), SQLite, phone |
| Task restore `B/task_provider/` | none | builds tasks from definitions, state rows and progress | SQLite |
| Storage: tasks, progress, rounds, runs `B/storage/{tasks,progress,stats,settings}.rs` | `a_task_state`, `a_task_progress`, `a_task_rounds`, `a_task_runs` | upsert, create / resume / finish round, start / finish run, cleanups | — |
| Storage: devices `B/storage/devices.rs` | `a_devices` (state, flag, port, hardware serial) | upsert, mark offline, flag, delete, reconcile, assign port | — |
| Startup `B/lib.rs`, `B/startup.rs` | settings (`LAST_ACTIVE_DATE`) | merge of device rows, daily reset, cleanups, synchronisation of the accounts, start of the loops | storage, engine |
| Progress outbox `B/engine/progress_flusher.rs`, `B/storage/progress.rs` | synced flag of a progress row | fast path, flusher, orphan cleanup | storage, server |
| Monitor `B/monitor/mod.rs` | fetches under way, last list of the sweep, delays of reconnections | callback of `track_devices`, fetch of properties, sweep, refresh of batteries, reconnection | adb, storage |
| Device commands, ADB `B/commands/device.rs`, `B/connection/` | the adb server's list | add, remove, switch to WiFi, disconnect, mark; shell, files, forwards | adb, storage |
| MQTT `B/mqtt/` | generation, client, status | connect, reconnect, disconnect, dispatch of notices | engine, account sync |
| Account sync `B/task_sync.rs`, `B/commands/sync.rs` | `SYNCED_PHONES`, `a_task_defs` | synchronise, unbind, acknowledge, synchronise at the start | server, storage, engine |
| Mirroring `B/scrcpy/` | sessions, ports, `starting` set | start, stop, pump, control | adb, device |
| HTTP `B/http/` | token | requests with retry and backoff | server |
| Command layer, updater, utilities, frontend | — | forwarding, views | — |

What is hard in this system:

- **One loop, many workers.** A handler of the loop is not interleaved with
  another one, but the workers are: they write to the database and into the
  channel while the loop is handling something else, and a worker that was
  cancelled may already have its report in the channel. The engine tells its
  workers apart by `worker_seq`.
- **Four copies of the truth.** A task lives in memory (`tasks`), in its runtime
  (`running`), in a state row and in the progress of its round. Handlers change
  them in different orders and leave early on errors.
- **Crashes.** The program may die anywhere; what is rebuilt comes from the
  state row, which names the round whose progress counts.
- **Lazy deletion of wakeups.** A wakeup is cancelled by forgetting its number;
  the heap is compacted when it has too many stale entries.
- **Phones come and go**, are flagged by a failure and by users, are kicked from
  the account, and change their serial when they move from USB to WiFi: two
  transports, two rows, one phone.
- **Commands are not serialised.** Each Tauri command is a task of its own; two of them,
  or one and a loop, read a row or a setting, await, and write it back.
- **Unreliable delivery** of results to the server (outbox) and of notices from
  it (MQTT).

`PROJECT.json` lists each hazard at its line, with the properties that cover it.

## The model of the engine

`TaskEngine.tla` is one module because the engine is one `select!` loop over one
state. A handler is one action *with every database call it awaits*: the loop
handles no other message meanwhile, and the calls of the workers that may run in
between commute with the handler's, except for progress rows, which a worker may
write after it was cancelled (`WorkerCancelled` allows that at any later
moment). What this hides is a crash in the middle of a handler, see
[Plan](#plan).

| variable | code |
|---|---|
| `status`, `dev`, `ok`, `mark` | a task of `EngineState.tasks`: its status, `assigned_device`, keywords with status `ok`, and whether a keyword has status `run` |
| `rt` | `RunningTaskState`: round, key of the run row, serial, active worker, `wakeup_seq`; 0 stands for `None`, `NoRuntime` for no entry in `running` |
| `wakeups`, `nextWakeup`, `nextWorker` | the heap (times abstracted) and the counters |
| `wk` | a spawned worker *with its messages in the channel*: `unread` are its `KeywordDone`, `phase` is its outcome once it has sent `WorkerResult` |
| `row`, `progress`, `rounds`, `runs` | the tables; `nextRound`, `nextRun` their AUTOINCREMENT |
| `table`, `flagged` | `a_devices` |

| actions | code |
|---|---|
| `Start`, `Pause`, `PausePhones`, `Resume`, `Stop`, `Retry`, `Kick`, `ClearDevice`, `ReleaseOffline`, `Reload`, `ReloadTask`, `Forget` | the `handle_*` functions of the loop; the tail that start, resume and retry have in common is `Launch`, `cancel_and_cleanup` is `Cleaned`, `mark_task_error` is `MarkError` |
| `Wakeup` | `dispatch_due_wakeups`, one due entry |
| `WorkerKeyword`, `WorkerEnds`, `WorkerCancelled` | `run_phone_scan` and the `select!` of `spawn_worker` |
| `HandleKeywordDone`, `HandleResult` | the two messages of a worker; `HandleResult` has a disjunct for the stale report, for each failure, and for each end of a batch (`Reschedule`, `Succeed`, `NextIntervalRound`, failure to open the next round) |
| `DeviceUp`, `DeviceDown`, `Flag`, `Unflag` | the monitor and the user interface |
| `Restart` | end of the program at any moment, then `check_daily_reset`, the cleanups of `lib.rs`, and the tasks rebuilt |

Abstractions, and why they lose nothing the properties tell apart:

- cities are flattened into a set of keywords: which keyword comes next matters
  to no property here, only whether one is left, and whether the cursor marks
  one (`is_all_keywords_pending` reads that);
- time is not counted: a wakeup may be dispatched at any moment after it was
  scheduled, which contains every timing of the real heap. A saved wait that
  may or may not be over at the resume is a free choice;
- the channel keeps the order of the messages of one worker (a result is read
  after its keywords) and no order between senders, as the loop's `mpsc` channel
  receives them from independent tasks;
- the flag of a failed `create_round` is a choice from `RoundOutcomes`. Other
  database calls whose error is only logged are taken to succeed;
- `clear_task_progress` deletes only rows that were uploaded: `ClearSynced`
  deletes any subset, as the outbox runs on its own.

Definitions named as *wrong variants* in the comments (`CancelNone`,
`InsertRound`, ...) are used by no action. They are plausible bugs of the
definition that follows them, for the mutants listed in `PROJECT.json`: each
checked property is violated when the definition is replaced by such a variant.

`DeviceLease.tla` is the abstract specification: a task holds a device, a device
is held by one task, and a phone is driven only for the task that holds it. Its
actions know nothing of rounds, rows, channels or heaps. `TaskEngine` implements
it under the mapping *lease of a task = its device while executing*, *driven = the
devices of live workers* (`ImplementsLease`).

`MCTaskEngine.tla` gives the model values, the symmetry and a view to TLC.

## The model of the outbox

`ProgressOutbox.tla` follows the results of one task from the phone to the
server. Four parties meet in SQLite and nowhere else, so each *database call* is
a step here, unlike in `TaskEngine`:

| variable | code |
|---|---|
| `wk` | the worker: scanning, or at `record_keyword_done`, at `save_keyword_results`, at its message |
| `late` | calls of cancelled workers that had reached the thread of the database (`interact` is not cancelled with the future that awaits it) |
| `msgs` | `KeywordDone` messages in the channel |
| `uploads` | the fast paths, tasks of their own spawned for each message |
| `flusher` | the sweep: rows loaded at its start, the row it is at |
| `outbox`, `results` | `a_task_progress.sync_status` and `a_task_results`, per keyword and round |
| `known` | the rows of `a_task_defs` and `a_task_rounds` that `load_upload_context` joins |
| `round`, `ok`, `saved`, `nextSeq` | what the handlers of the engine mean to the outbox: `runtime.round_id`, finished keywords, `current_round_id`, `next_worker_seq` |
| `delivered` | history: what the server accepted |

A request is accepted, fails, or is accepted with the answer lost
(`Accept`, `Fail`); the three attempts of `http/real.rs` are one request. Lists
of shops are numbers, one per scan, 0 is the empty list. The handlers of the
engine are reduced to their effect on rounds and workers; `Start`, `Resume` and
`Retry` may happen whenever the rows they need exist, which contains what the
engine allows.

`AtLeastOnce.tla` is the abstract specification: items are owed, accepted and settled,
and only a deletion of the task drops what is owed. It knows nothing of workers,
uploaders, lists or crashes. `ProgressOutbox` implements it under the mapping *owed =
pending rows*, *accepted = keyword and round of what the server took*, *deleted = the
task's rows are gone* (`ImplementsOutbox`).

## The model of the MQTT connection

`MqttManager.tla` has `connect()` and `disconnect()` as processes (`calls`), one
reconnecting loop per `connect()` (`loops`) and the shared `generation`, `client`,
`status`, `loop_handle`. A step is what happens between two awaits; `holder` is the
call that awaits an old loop *with the lock of `loop_handle` held* (the guard of an
`if let` lives as long as its block), which makes other calls wait. The wait ends
at any moment: the loop has exited or the timeout has passed. The broker and
rumqttc's `poll` are external: a connection comes up, breaks, is refused, or
closes after the client was asked to disconnect.

## The model of mirroring

`ScrcpySessions.tla` has the calls of `start_mirror` (`start`: what each has reached,
its device and its port), the frame pump of each session that a call made (`pump`),
and what they share: the map `sessions`, the set `starting`, the cancelled tokens, and
the ports (`portPool`, `nextPort`). A session is named by the call that started it, so a
map entry and a pump can be told apart. A step is what happens between two awaits:
`MarkStarting` ends with the port taken, because `start_inner` takes it before its
first await, and `ReleasePort` gives it back in the step that follows the removal of the
forward. adb's table of forwards is external: a session exists only after its
server answered over its forward, and a removal may fail unnoticed. Exit empties
the map at once and cancels the sessions one by one; by then the window is gone, so
no further command comes. Not modelled: the queue of control messages, the clipboard,
frames and events.

## The model of the device registry

`DeviceRegistry.tla` is the table `a_devices` and everyone who writes it. adb knows
*transports*, the table is keyed by them (`Serials`: the USB and the WiFi serial of
each phone), and rows of one phone are recognised by their hardware serial and
merged.

| variable | code |
|---|---|
| `adb`, `reports` | the adb server's list and what `track_devices` has still to deliver of it; external |
| `row` | `a_devices`: hardware serial, state, whether its properties are known, mark, port |
| `cb`, `fetch` | the callback and the tasks that fetch properties, each with what it has read |
| `lastOnline`, `sweep`, `retries` | the sweep and the reconnecting loop |
| `cmd` | the command of the user under way, with the row it has read |
| `pick`, `lease`, `ref` | the engine: the serial chosen by a start, the runtimes (serial, port), `a_task_state.assigned_device` |

A step is one statement (one transaction) of the database or one call of adb, because
here the parties interleave everywhere: the callback reads a row and writes it later;
a fetch asks the phone, merges the old rows, writes the new one, in three steps; a
switch reads, restarts adbd (which takes the USB transport away and wakes the
monitor), connects, writes. The engine stays one message at a time, but what it picked
may be gone when it leases it. `Restart` contains the merge of duplicate rows
(`dedupe_devices_by_hw_serial`), which happens at each start, before the daily reset.

Abstractions: a name, a model, a battery level decide nothing; `known` is
`device_props_incomplete`; an address belongs to one phone (no reuse by DHCP); the
limits of time (backoff of reconnections, timeouts of adb) are free choices; commands of
the user come one at a time.

## The model of the accounts

`AccountSync.tla` is what happens between `SYNCED_PHONES`, the definitions, the engine and
the server. An account is a mobile number (a *phone* in the code), which has tasks
(`Owner`). A call (`sync_tasks_by_phones`, `unbind_phone`,
`acknowledge_phones_unbind`, `startup_sync_tasks`) is a process with one step per request,
message to the engine or statement: bind, clean up, persist, fetch, upsert, read the stale
definitions, delete them, reload. Calls overlap, requests fail (done by the server or
not), the program dies between any two steps. The server (`remote`, `elsewhere`) gives
numbers to other clients and adds and drops tasks; its messages may be lost, and are
handled by the engine between the steps of the calls (`NoticePauses`, `EngineMerges`).
The engine has its tasks and those of them that run. `apart` is a history variable:
no two calls have overlapped and no change came for a number that is not synced.

## Properties

| property | says | why it could fail |
|---|---|---|
| `LeaseExclusive` | no device is leased to two executing tasks | leases are read from `tasks`, changed by twelve handlers, rebuilt by reloads and restarts |
| `OneWorkerPerDevice` | no phone is driven by two workers | a device is free again as soon as a handler says so; its worker must have been cancelled by then |
| `ActiveWorkerReports` | a runtime that waits for a worker will hear from it | cancelling too much is as bad as cancelling too little: the task would hang |
| `KickedDeviceIsQuiet` | no worker drives a device that was kicked | the kick pauses the *first* task found on the device, executing or paused |
| `StaleReportsIgnored` | reports of a worker that is not active change no task | the report is in the channel while its task gets a new worker |
| `QuietInv` | behind it: only an executing or failed task has a device, and that of a runtime is known | a kick looks for the task by its device |
| `RoundOpen` | the runtime's round is the only open one of its task | pauses close it, resumes reopen it, crashes leave it open |
| `RoundInv` | behind it: a state row names a round of its own task, and no other one is open | rounds that fail to open, rows written without a runtime |
| `HeapCoversArmed` | the wakeup of a runtime that has keywords left is in the heap | compaction drops stale entries, lazily and not in every handler |
| `HeapInv` | behind it: a runtime waits for a worker or for a wakeup, never for both | an interval task waits with every keyword done or with none |
| `IntervalWaitKept` | a pause in the wait for the next round saves the wait | that it waits is inferred from keyword marks |
| `ProgressRecoverable` | what counts as done in memory is what a restart reads back | memory, state row and progress rows are written by different parties |
| `ProgressInv` | besides, what the active worker has announced is in the database, and only a task with a round has keywords done | the messages of a worker are ahead of the engine |
| `LedgerFollowsRuntime` | the open run row of a task is the one its runtime will close; a task without a runtime leaves none open | the key is kept in the runtime, which handlers drop |
| `LedgerInv` | besides, keys are fresh, and a task that waits for its next batch is not taken for one in its interval | the dispatcher of wakeups infers the interval from keyword marks |
| `CompletedRoundFull` | a round is completed only with every keyword recorded in it | the engine decides it from memory |
| `StartedEnds` | an executing task ends with success or error | liveness |
| `ImplementsLease` | every step is a step of `DeviceLease` or changes no lease | |
| `LeaseInv` | the inductive invariant of the proofs | |
| `PendingUntilDelivered` | a row stays pending until the server accepted a report of its keyword and round | four cleanups delete rows, two uploaders mark them, late writes bring rows back, answers are lost |
| `OutboxInv` | the inductive invariant behind it: who is about to mark a row has had it accepted | |
| `ImplementsOutbox` | every step is a step of `AtLeastOnce` or changes nothing of it | |
| `EventuallyUploaded` | every pending row is uploaded | a failure ends a sweep; the row may be of an older round |
| `WantedLoopRuns` | the loop of the newest `connect()` does not end | older calls take its client and wait for its handle |
| `ManagerInv` | behind it: each call and each loop has its generation, a loop that ended is not the newest, the lock is held by who waits | |
| `SupersededExits` | a loop that was replaced ends | its client may have been overwritten: nobody can ask it to disconnect |
| `WantedConnects` | the newest `connect()` gets its connection | its client may have been asked to disconnect by an older call |
| `NoZombie` | the map of sessions holds none whose pump has ended | a pump may end before its start has returned; it removes by device, not by session |
| `SessionsInv` | besides, a port is held by one session and not in the pool, and the forward of a session stands | ports are given back by one task and taken by another; sessions of one device replace each other |
| `StartingCleared` | a device does not stay marked as being started | a start has many exits |
| `CancelledEnds` | a session told to end ends, even if it is in no map any more | its device may have another session |
| `PortsUnique` | no two rows hold one local port | ports are given as the largest plus one, handed over by three merges, and lost with rows |
| `RowKeepsFlagAndPort` | nothing that is written over a row takes its port, and only the user takes its mark | monitor, commands and start write rows they have read long before |
| `SwitchEndsInOneRow` | a switch to WiFi ends with one row of the phone, with its port | the switch itself makes the monitor write rows of both transports meanwhile |
| `AssignmentFollowsPhone` | a merge moves the assignment of a task to the same phone only | merges go by a hardware serial that a failed fetch, a placeholder or an old row may have set |
| `EngineMatchesDefs` | when no call is under way the engine has the tasks of the table | every call writes the table on its own, and some reload only if there was something to clean up |
| `DefsAreOwned` | calls one at a time leave no definition of a number that is not synced, at no point | cleanup, setting and new tasks are three writes, with crashes in between |
| `RunsHaveDefs` | see [Findings](#findings) | |

## Runs

All run with every action interleaved freely; `Commands` says which messages the
environment sends. Each run leaves out commands its question does not need, so
that the others get room; between them the runs fire every action.

| run | instance | shows |
|---|---|---|
| `lease` | 2 tasks, 2 phones, 1 keyword; start, pause of phones, kick, resume, retry | exclusive leases and workers, quiet kicked devices, rounds, with their inductive invariants; stale reports, refinement |
| `recovery` | 1 task, 2 keywords; pause, resume, stop, reload, merge, forget, restart, new day | nothing counted is lost, the open round, run rows, full rounds, with `ProgressInv` and `LedgerInv` |
| `interval` | 1 interval task, 2 keywords, 3 rounds, 4 wakeups, `HeapSlack = 0`; pause, resume, offline, clear, marks, failing rounds, empty batches | heap with `HeapInv`, saved wait |
| `ending` | 2 tasks that share 1 phone, 2 keywords, failing rounds, offline, reload; `FairSpec` | `TypeOK`, tasks end |
| `outbox` | 1 keyword, 2 rounds, 2 scans, 2 workers, 1 fast path, 1 failure, 1 crash; every command; `FairSpec` | nothing leaves the outbox unaccepted, everything leaves it, refinement |
| `mqtt` | 2 calls, 2 failures; `FairSpec` | the newest loop runs, with `ManagerInv`, and connects; replaced ones exit |
| `mirror` | 1 device, 3 starts, 2 ports; stop, failures, exit; `FairSpec` | ports, map and marks agree, cancelled sessions end |
| `registry` | 2 phones on a cable, one of them in the network, 1 task, 2 ports; every command of the user, kick, restart, new day | `TypeOK`, unique ports, assignments |
| `monitor` | 1 phone over both transports, 1 task; the same and the two loops of the monitor | kept marks and ports, one row after a switch |
| `accounts` | 2 numbers with a task each, 2 calls at once, 4 events; every event | `TypeOK`, engine and table, definitions of synced numbers |

Bounds (`MaxWorkers`, `MaxRounds`, `MaxRuns`, `MaxWakeups`) cap the counters of
the program in the guards that use them; they are never reset except, as in the
code, the counters of the engine by a restart. They are enough for the cases
that matter: two workers are an old one with reports in the channel and a new
one; two rounds are one that was stopped and the one that replaced it (three in
`interval`: one completed, one waited for, one running); two tasks and two
devices are the smallest instance in which a device can be exchanged, and
nothing in the engine depends on a third. `HeapSlack = 0` makes the compaction of
the heap happen with two entries; in the code it takes five more. The safety
properties hold for any number, which is what the [proofs](#proofs) add.

In the outbox the second round makes a second row in the same sweep, behind one
that fails, of another round than the current one; the second scan and worker are
what stale messages, late writes and rewritten lists need. The fast path and the
flusher are two uploaders of one row; a second fast path is left to the proofs. In
`mqtt` two calls that overlap are enough for a wait that times out, a client stored
late and a client taken by the wrong call. In `mirror` three starts are two sessions
of one device, each with a port, and a third that finds a port given back or none; a
port does not know its device, so sessions of one device are rivals for it as
sessions of two would be (the proofs have any number).

In `registry` and `monitor` one event from outside (`MaxEvents = 1`: a phone appears or
drops, a command, a kick, a restart) meets everything the monitor and the engine do
on their own, from a first list that is any set of the connected transports. What one
event starts takes up to five steps, between which all the others come; two events
are out of the reach of TLC, and every property of these runs is also
[proved](#proofs) for any number of events, phones and ports. Two phones are needed
for a port or an assignment to go wrong, one with both transports for the rows.
In `accounts` four events are enough for a synchronisation that replaces an earlier one
while a second call or a restart comes in between.

`SYMMETRY` is used where the tasks and the devices are interchangeable
(`IntervalTasks = {}`) and no liveness is checked. `VIEW ButRuns` leaves the rows
of `a_task_runs` out of the fingerprint: no guard reads them, and no property of
those runs mentions them. `CHECK_DEADLOCK FALSE` in `ending`, in which the tasks
end, and in the runs of the other modules: everything is uploaded,
or every call returned and every loop exited, or every start was made and every
session ended, or no phone and no account has anything more to do, and the bounded
environment has used up its events.

## Fairness

`FairSpec` assumes weak fairness of

- `Report(s)`: the loop drains its channel; `tokio::select!` chooses between the
  channel and the timer at random, so neither starves;
- `Wakeup(t, seq)`: a due wakeup is dispatched by the timer arm of that loop;
- `Worker(s)`: a phone answers or its connection breaks. The code does not bound
  this wait: the stream is read without timeout (`phone_client.rs`), so this is
  an assumption on phones and on TCP, and it is listed as a hazard.

In `ProgressOutbox`, `FairSpec` assumes only weak fairness of the flusher: its loop
sleeps at most two minutes and the request has a timeout. The server answers
again because failures are bounded, the fast path owes nothing. In `MqttManager`
it assumes weak fairness of each call and of each loop: tokio polls its tasks, and
`poll()` returns because of the keep-alive and of the connection timeout of 8
seconds. In `ScrcpySessions` it assumes weak fairness of each start and of its pump:
starts are bounded by 30 seconds, adb commands by their timeouts, and a killed
process is assumed to exit (`kill_with_timeout` waits for it in `kill()`, before its
timeout begins). Nothing makes a pump leave its loop but its cancelled token.

Nothing is assumed of users, of the monitor or of the server. Empty batches
(`EmptyBatches`) are excluded in `ending`: a phone that ends each batch without a
result makes the engine reschedule for ever, which the code allows. They are excluded in
`recovery` too, where they break `LedgerFollowsRuntime` (a task that ends without a
worker, see below), and allowed in `lease` and `interval`. The models of the registry
and of the accounts state safety only and assume no fairness.

## Findings

Each is a run with `expect: violation`: a statement of the code about itself
that its behaviour contradicts.

| run | the code says | what happens |
|---|---|---|
| `clear_device_loses_progress` | progress rows are crash-safe (`worker.rs:160`); the status stays ERROR and only the lock is released (`event_loop.rs:1672`) | clearing the device of a failed task writes its state row without round: after a reload or a restart no keyword is read back |
| `orphan_runtime` | the engine's cleanup is the only destructive one (`commands/sync.rs:23`) | a synchronisation deletes the definitions the server did not list on the database alone (`task_sync.rs:122`), the reload drops the tasks: a runtime and its worker go on and hold the phone, and nobody finds them by a task |

Others were met while modelling. No run is kept for them; the properties next to
them are checked in instances that leave the cause out:

- the run row that an interval wakeup opens is never closed, because the result of
  `start_task_run` is discarded (`event_loop.rs:797`; the comment at 1641 expects it
  to update `started_at`): `LedgerFollowsRuntime` is checked without interval tasks;
- a reload during the wait of an interval task marks a keyword, and a pause then
  does not save the wait (`event_loop.rs:965`): `IntervalWaitKept` is checked without
  them;
- a restart during that wait loses it: `cleanup_stale_assignments` makes the status
  paused before the rebuild looks for an *executing* task that waited
  (`task_provider/mod.rs:305`), and the resume looks for `interval_paused` in the row
  (`event_loop.rs:1064`), where it is still `interval_waiting`;
- a retry of the executing task that holds the only device drops its runtime,
  finds no device and returns: nothing drives the device any more
  (`event_loop.rs:1142`); `StartedEnds` is checked without retries. What the task had
  done is in no round any more (`RoundsStay`);
- a resume whose round cannot be opened returns with the task executing in memory
  (`event_loop.rs:1088`); a pause then writes its row without round. What was done is
  not read back, and if it is resumed once more the new round is completed without the
  keywords of the old one (`RoundsStay`);
- a pause handled before a queued fatal report makes it stale, and the device is
  not flagged (`event_loop.rs:1324`);
- a `KeywordDone` of a worker that was replaced is not applied (`event_loop.rs:1408`)
  but still uploaded (693), for the round of the new runtime;
- a start of mirroring that fails gives no port back and does not kill its server
  process (`scrcpy/server.rs:109`), and the pool of "1000" ports has 999 (line 29);
- the pump of a replaced session removes the session that replaced it from the map
  (`scrcpy/session.rs:892`), which goes on unreachable; and the exit waits 5 seconds at
  most for a pump, so servers and forwards may be left behind;
- an empty batch spawns no worker and is said to be handled by the next
  `handle_worker_result` (`event_loop.rs:457`): after a pause between the last keyword
  and the end of the batch, then a resume, no worker is left to send one, and the task
  stays executing with its phone. So it does when a reload marks every keyword as done
  during the wait for the next batch;
- what the fast path fails to upload, the flusher makes up for (`event_loop.rs:692`):
  the flusher may find the row between the worker's two writes (`worker.rs:161`), upload
  it without shops and mark it; when the fast path then fails, the shops are never
  uploaded;
- one session per device (`scrcpy/session.rs:3`): a start passes the first check (492),
  another one starts and finishes, the first goes on (561), and the second session
  leaves the map while its pump goes on, out of reach of a stop;
- the port of a phone passes to its new row (`storage/devices.rs:369`, step 3), but the
  monitor merges before it writes the new row (`monitor/mod.rs:427`): the port is lost,
  and the next phone may be given it while a task still drives the first one over it.
  `PortsUnique` is about the table, not about leases;
- the row of the merged transport comes back as an offline one when the callback has
  read it before the merge, which the check at `monitor/mod.rs:335` is to prevent; two
  fetches of a phone, one per transport, leave two rows when each merges before the
  other writes, and later ones remove each other's row in turn;
- between merge and write a phone has no row, and a kick of the server does not find it;
- a merge or a switch takes the mark of a phone from the row that goes, or restores one
  the user has taken back meanwhile; a start does the same with duplicates;
- a fetch that comes late writes a phone that is gone as online, and the sweep, which
  looks only when the list has changed, leaves it so; the sweep itself may mark a
  phone offline that was connected again after its list was read;
- `add_device` writes its empty row over the one the monitor has completed meanwhile
  (`commands/device.rs:86`); a removed WiFi phone is connected again if the
  reconnecting loop had already read it;
- the restart of the adb server in a switch drops the forwards of all running tasks
  (`commands/device.rs:218`);
- two calls on accounts that overlap lose the update of one of them (`SYNCED_PHONES`
  is read at the beginning and written at the end), and the later of a synchronisation
  and an unbinding may bring back definitions of the number; a change of a task
  that arrives after its number was unbound does so too (`event_loop.rs:1885`).
  `DefsAreOwned` is therefore stated for calls that do not overlap;
- a start at which the server knows no task of any number leaves the local ones
  (`startup.rs:192`), and one with conflicts keeps the numbers in the setting;
- an MQTT loop that awaits an event when it is replaced handles it first and may
  leave the status at connected after `disconnect()` (`mqtt/manager.rs:160`; the
  header says that it exits at once).

## Proofs

`TaskEngineProofs.tla` proves that each operator and each handler keeps the
types; `TaskEngineLeaseProofs.tla` proves, for every value of the constants that
satisfies `ConstantsAssumption`:

| theorem | statement |
|---|---|
| `LeaseInvariant` | `Spec => []LeaseInv` |
| `TypeCorrect` | `Spec => []TypeOK` |
| `DevicesLeasedOnce` | `Spec => []LeaseExclusive` |
| `DevicesDrivenOnce` | `Spec => []OneWorkerPerDevice` |
| `WorkersReport` | `Spec => []ActiveWorkerReports` |
| `LateReportsIgnored` | `Spec => StaleReportsIgnored` |
| `EngineImplementsLease` | `Spec => ImplementsLease` |

The type invariant is not inductive alone. `Wakeup` writes the status of a task
with a runtime into its state row, and an `"absent"` task has no row: that it is
executing is `RuntimeLeased`. A worker writes the keyword of *its* task and round,
and an idle worker has neither: that a working one has them is `WorkerAssigned`.
`LeaseExclusive` is not inductive alone either, nor is `OneWorkerPerDevice`: that a
device is free says nothing about workers unless each live worker belongs to a
runtime (`LiveWorkerOwned`), each runtime to an executing task on the same device
(`RuntimeLeased`) and the worker of a runtime is the runtime's own
(`ActiveWorkerReports`). `LeaseInv` is the conjunction. Then

1. `Init => LeaseInv`;
2. each action preserves each conjunct. Handlers fall into a few shapes, each with
   a lemma: those that touch neither tasks nor workers, those that release a set
   of tasks (pause, error, stop, forget: the released workers are cancelled in
   the same step), those that launch a task on a device found `Ready`, and the
   reports of workers;
3. `LeaseInv` implies the properties: two live workers on one device would
   belong to two executing tasks that lease it.

The action property `LateReportsIgnored` needs the invariant because a report is
compared with the active worker of *its own* task: that it is nobody else's is
`ActiveWorkerReports`.

The refinement: `Init` maps to the initial state, and every step is told by what it
does to the lease and to the live worker of each task, the only things `DeviceLease`
sees. There are four cases, each with a lemma: nothing changes (`Stutters`); one task's
worker starts or ends (`Works`); a set of tasks, all of them in a restart, gives back
its devices (`Releases`); a task takes a device that was `Ready` (`Takes`). The invariant is needed in each: a live worker drives
the device its task leases, so that the abstract `driven` follows from the leases and
from who has a worker, and a `Ready` device is driven by nobody.

`TaskEngineRoundProofs.tla` proves that what the engine writes down follows its
runtimes, by five more inductive invariants on top of `LeaseInv`:

| theorem | statement |
|---|---|
| `RoundsAgree`, `OneRoundOpen` | `Spec => []RoundInv`, `Spec => []RoundOpen` |
| `DevicesKnown`, `KickedDevicesQuiet` | `Spec => []QuietInv`, `Spec => []KickedDeviceIsQuiet` |
| `WaitsCovered`, `ArmedWakeupsKept` | `Spec => []HeapInv`, `Spec => []HeapCoversArmed` |
| `LedgerAgrees`, `RunsFollowRuntimes` | `EmptyBatches = FALSE /\ Spec => []LedgerInv`, `... => []LedgerFollowsRuntime` |
| `ProgressAgrees`, `CrashLosesNothing` | `RoundsStay /\ Spec => []ProgressInv`, `... => []ProgressRecoverable` |
| `CompletedRoundsFull` | `RoundsStay /\ Spec => CompletedRoundFull` |
| `WaitsSaved` | `TasksStay /\ Spec => IntervalWaitKept` |

- `RoundOpen` speaks of runtimes, but the round a resume reopens is named by a state
  row. `RowNamesRound` keeps it the task's own and the only one that may be open;
  `RoundsFresh` makes the next key of `create_round` nobody's.
- A kick finds its task by `dev`, so `QuietInv` has to say that nobody else holds a
  device in memory or gets one from its row (`ParkedFree`), and that the device of a
  runtime has a row until a kick takes it (`DeviceKnown`).
- A compaction keeps what some runtime waits for. `HeapCoversArmed` breaks if a task may
  wait for a wakeup and a worker at once, since the result of the worker would forget
  or arm another one (`WaitsForOne`). A task that waits with every keyword done is the
  exception: nobody needs to wake it, unless a reload undid its keywords, which its
  progress excludes.
- A wakeup opens a run row for a task that seems to wait for its interval. That a task
  without interval never seems to is `BatchesMarked`: it holds while batches are not
  empty, because a batch finishes a keyword and a reload that undoes it marks one.
- What memory counts comes from the messages of a worker, which come after its writes:
  `ReportsRecorded` covers what is still in the channel. `RoundlessClean` says that
  what has no round has nothing done. `CompletedRoundFull` follows: a batch that ends a
  round leaves no keyword that is neither done nor reported by its worker.
- A pause recognises the wait by unmarked keywords (`WaitUnmarked`).

The hypotheses are instances of the constants, and none is there for the proof: each
thing they leave out breaks the property, as TLC shows in an instance that lets it in,
and is described under [Findings](#findings). `RoundsStay` leaves out rounds that fail
to open, retries and the clearing of a device; `TasksStay` reloads, merges and crashes
in a wait; `EmptyBatches = FALSE` batches without a result. The theorems without
hypothesis hold with all of these.

The inductive invariants are also checked by TLC (`lease`, `recovery`, `interval`), as are
the properties, and the refinement (`lease`).

`MqttManagerProofs.tla` proves, under `ManagerAssumption`:

| theorem | statement |
|---|---|
| `ManagerInvariant` | `Spec => []ManagerInv` |
| `WantedLoopStays` | `Spec => []WantedLoopRuns` |

A loop exits when its generation is not the newest, at checks between which any other
call may come. `NewestRuns` is kept because a check compares its own number with the
counter and the numbers of loops are those of their calls (`Numbered`): a new call
takes a number that no loop has. `LockHeld` ties the wait for an old loop to the lock.

`ProgressOutboxProofs.tla` proves, under `OutboxAssumption`:

| theorem | statement |
|---|---|
| `OutboxInvariant` | `Spec => []OutboxInv` |
| `PendingUntilDeliveredHolds` | `Spec => PendingUntilDelivered` |
| `OutboxKeepsPromise` | `Spec => ImplementsOutbox` |

A row leaves the pending state by a mark, by a cleanup or with its task. The
cleanups keep pending rows (`ClearSynced`), so only the marks matter: a fast path
or a flusher at its mark must have had *that key* accepted, which is
`MarkedDelivered`; that it has a key at all is `KeysHeld`. `MarkedDelivered` is kept
because `delivered` only grows and the marks are entered from an acceptance alone.
In the refinement a step is told by which of rows, acceptances and task it changes:
`record_keyword_done` owes a row or finds one, a request is accepted, whether or not
its answer arrives, a mark settles what was accepted, the cleanups change nothing, and
only the deletion of the task drops what is owed.

`ScrcpySessionsProofs.tla` proves, under `SessionsAssumption`:

| theorem | statement |
|---|---|
| `SessionsInvariant` | `Spec => []SessionsInv` |
| `PortsNeverShared` | `Spec => []PortsHeldOnce` |
| `NoZombieSession` | `Spec => []NoZombie` |

`ForwardStands` needs `PortsHeldOnce`: a step changes the forward of the port its
session holds, which no other one does. `PortsHeldOnce` needs to know which calls hold a
port, and both, like `NoZombie`, that a pump begins when its start is over
(`PumpFollowsStart`).

`DeviceRegistryProofs.tla` proves, under the assumptions on bounds and serials:

| theorem | statement |
|---|---|
| `TypeCorrect` | `Spec => []TypeOK` |
| `PortsNeverShared` | `Spec => []PortsUnique` |
| `FlagAndPortStay` | `Spec => RowKeepsFlagAndPort` |
| `SwitchLeavesOneRow` | `Spec => SwitchEndsInOneRow` |
| `AssignedToItsPhone` | `Spec => []AssignmentFollowsPhone` |

Each statement on the table has a lemma that says what it changes (`UpsertRows`,
`MergedRows`, `DedupeRows`, `PortAndFlagType`), and `RowWriters` lists the actions that
make one; the rest follows by cases. `PortsUnique` is inductive with the types:
a port is new (`IsNextPort`) or handed over by rows that go. `AssignmentFollowsPhone` is
not: a merge goes by the hardware serial of a row, a callback or a fetch, so each of
these must belong to the phone of its serial (`TableSound`, `IdentitySound`), which
holds because a phone that does not answer is given its own serial.

`AccountSyncProofs.tla` proves, under the assumptions on owners and bounds:

| theorem | statement |
|---|---|
| `TypeCorrect` | `Spec => []TypeOK` |
| `EngineFollowsTable` | `Spec => []EngineMatchesDefs` |
| `TableFollowsAccounts` | `Spec => []DefsAreOwned` |

`EngineMatchesDefs` speaks of states without a call; what is inductive is
`SomeCallReloads`: when engine and table differ, some call is at a step from which it
cannot end without a reload. `DefsAreOwned` needs `OwnedApart`: while calls come one at a
time, the one under way (`Alone`) knows what it has to know at its step, that what it
will clean up and what it keeps are all of the setting, and that what it has fetched
belongs to numbers that are synced (`CallOwned`). `SyncInv` is the conjunction.

Model-checked only: liveness, which is out of the reach of the prover (`StartedEnds`,
`EventuallyUploaded`, `SupersededExits`, `WantedConnects`, `StartingCleared`,
`CancelledEnds`). Every other property of a passing run is proved.

## What is not modelled

- A crash between two database calls of one handler (planned: `CrashConsistency`).
- Changed definitions of tasks: merges with added or removed keywords, and the
  order of cities (planned: `TaskCursor`).
- The cleanup of progress rows whose keywords a merge has removed, and the retention
  of results (three days): definitions and dates do not change in the models.
- Statements of the database that fail, but for `create_round`: the code logs them and goes
  on. The fallback port of all phones (`PORT_BASE`) is one of them.
- In the registry: a panic in a fetch, two commands of the user at once, the reuse of an
  address by another phone, the refresh of batteries, and the forwards of adb.
- The MQTT router and the control messages of mirroring (planned, below), and the retries
  of HTTP, which repeat idempotent requests. In `TaskEngine` the monitor and the accounts are free choices: a device may come, go
  and be flagged at any moment; any row may be synchronised.
- The phone's wire protocol, video, wording, layout, the updater, and the
  frontend.

## Plan

What exists: `TaskEngine` with `DeviceLease`, `ProgressOutbox` with `AtLeastOnce`,
`MqttManager`, `ScrcpySessions`, `DeviceRegistry`, `AccountSync`, the proofs of their
safety properties and of both refinements. What is left, in this order:

1. A refinement for `ScrcpySessions` (a pool whose ports have one holder) and for
   `DeviceRegistry` (the table as a map from phones to ports and marks); what the leases
   of the engine owe to the table, as a theorem that composes the two modules.
2. `CrashConsistency`: the handlers split at each database call, and what the next start
   makes of each prefix.
3. `TaskCursor`: cursor, pending batches, merges and reordering of cities, as pure
   functions checked against a reference definition.
4. `MqttRouter` (order of notices); the control messages and clipboard acknowledgements
   of `ScrcpySessions`; the forwards of `DeviceRegistry`'s ports (`ForwardRace`).
5. `RunLedger`: statistics and results.
