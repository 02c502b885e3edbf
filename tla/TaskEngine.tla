----------------------------- MODULE TaskEngine -----------------------------
(***************************************************************************)
(* The task engine of the desktop client: one event loop owns the tasks,   *)
(* their runtimes and the wakeup heap (engine/event_loop.rs); a worker per *)
(* executing task talks to a phone and records its results                 *)
(* (engine/worker.rs); SQLite keeps task states, progress, rounds and runs *)
(* (storage).  A message handler of the loop is one action, with all the *)
(* database calls it awaits: no other message is handled meanwhile.        *)
(*                                                                         *)
(* Data abstracted:                                                        *)
(*  - the cities of a task are flattened into its set of Keywords; the     *)
(*    cursor is kept only as `mark' (some keyword has status "run");       *)
(*  - time is not counted: a scheduled wakeup may be due at any moment;    *)
(*  - the local port of a device is the device;                            *)
(*  - definitions of tasks do not change.                                  *)
(***************************************************************************)
EXTENDS Naturals, FiniteSets

CONSTANTS
  Tasks,          \* task ids
  Devices,        \* serials
  Keywords,       \* the (city, keyword) pairs of a task
  IntervalTasks,  \* the tasks whose interval_minute is positive
  None,           \* no device / no task
  Commands,       \* the messages the environment sends in this instance
  RoundOutcomes,  \* outcomes of create_round / resume_round, a subset of BOOLEAN
  EmptyBatches,   \* whether a phone may end a batch without any result
  MaxWorkers,     \* bound: workers spawned between two restarts
  MaxRounds,      \* bound: rows of a_task_rounds
  MaxRuns,        \* bound: rows of a_task_runs
  MaxWakeups,     \* bound: wakeups scheduled between two restarts
  HeapSlack       \* the 5 of compact_wakeup_heap's threshold

ASSUME ConstantsAssumption ==
  /\ None \notin Tasks \cup Devices
  /\ IsFiniteSet(Tasks) /\ Keywords # {}
  /\ IntervalTasks \subseteq Tasks
  /\ RoundOutcomes \subseteq BOOLEAN /\ EmptyBatches \in BOOLEAN
  /\ {MaxWorkers, MaxRounds, MaxRuns, MaxWakeups, HeapSlack} \subseteq Nat

Workers  == 1 .. MaxWorkers
RoundIds == 1 .. MaxRounds
RunIds   == 1 .. MaxRuns

VARIABLES
  \* EngineState.tasks
  status,      \* task -> its status, "absent" when the engine has no such task
  dev,         \* task -> assigned_device
  ok,          \* task -> keywords whose status is "ok"
  mark,        \* task -> some keyword has status "run"
  \* EngineState.running, wakeups and counters
  rt,          \* task -> RunningTaskState
  wakeups,     \* the heap, a set of <<task, wakeup_seq>>
  nextWakeup,  \* next_wakeup_seq
  nextWorker,  \* next_worker_seq
  \* the workers, with the messages they have in the engine's channel
  wk,
  \* SQLite
  row,         \* a_task_state
  progress,    \* a_task_progress, a set of <<task, keyword, round>>
  rounds,      \* a_task_rounds
  runs,        \* a_task_runs
  nextRound,   \* the AUTOINCREMENT of a_task_rounds
  nextRun,     \* the AUTOINCREMENT of a_task_runs
  table,       \* a_devices.state, "absent" when there is no row
  flagged      \* devices whose is_flagged is set

taskVars   == <<status, dev, ok, mark>>
wakeVars   == <<wakeups, nextWakeup>>
workerVars == <<wk, nextWorker>>
ledgerVars == <<rounds, runs, nextRound, nextRun>>
deviceVars == <<table, flagged>>
vars == <<taskVars, rt, wakeVars, workerVars, row, progress, ledgerVars, deviceVars>>

-----------------------------------------------------------------------------
NoRuntime == [round |-> 0, run |-> 0, dev |-> None, worker |-> 0, wake |-> 0]
NoRow     == [status |-> "none", dev |-> None, round |-> 0, wait |-> FALSE]
NoEntry   == [task |-> None, st |-> "none"]
\* phase: "idle" (no such worker), "scan" (working), or the outcome of the
\* WorkerResult it has put in the channel; unread: its KeywordDone messages
\* still in the channel.
NoWorker  == [task |-> None, dev |-> None, round |-> 0, todo |-> {}, done |-> {},
              unread |-> {}, phase |-> "idle", cancelled |-> FALSE]

Statuses == {"absent", "waiting", "executing", "paused", "error", "success"}
Outcomes == {"batch", "offline", "fatal", "cancelled"}

Runtimes  == [round: RoundIds \cup {0}, run: RunIds \cup {0}, dev: Devices \cup {None},
              worker: Workers \cup {0}, wake: Nat]
WorkerStates == [task: Tasks \cup {None}, dev: Devices \cup {None}, round: RoundIds \cup {0},
                 todo: SUBSET Keywords, done: SUBSET Keywords, unread: SUBSET Keywords,
                 phase: {"idle", "scan"} \cup Outcomes, cancelled: BOOLEAN]
StateRows == [status: (Statuses \ {"absent"}) \cup {"none"}, dev: Devices \cup {None},
              round: RoundIds \cup {0}, wait: BOOLEAN]
RoundRows == [task: Tasks \cup {None},
              st: {"none", "running", "completed", "stopped", "deleted"}]
RunRows   == [task: Tasks \cup {None},
              st: {"none", "running", "completed", "stopped", "paused", "deleted"}]

TypeOK ==
  /\ status \in [Tasks -> Statuses] /\ dev \in [Tasks -> Devices \cup {None}]
  /\ ok \in [Tasks -> SUBSET Keywords] /\ mark \in [Tasks -> BOOLEAN]
  /\ rt \in [Tasks -> Runtimes]
  /\ wakeups \subseteq Tasks \X (Nat \ {0}) /\ nextWakeup \in Nat \ {0}
  /\ wk \in [Workers -> WorkerStates] /\ nextWorker \in Nat \ {0}
  /\ row \in [Tasks -> StateRows]
  /\ progress \subseteq Tasks \X Keywords \X RoundIds
  /\ rounds \in [RoundIds -> RoundRows] /\ runs \in [RunIds -> RunRows]
  /\ nextRound \in Nat \ {0} /\ nextRun \in Nat \ {0}
  /\ table \in [Devices -> {"absent", "offline", "device"}] /\ flagged \subseteq Devices

-----------------------------------------------------------------------------
(* Helpers of the engine and of the storage layer.                         *)

Running(t) == rt[t].dev # None

\* Wrong variant: the leases are not looked at.
ReadyUnassigned(d) == table[d] = "device" /\ d \notin flagged

\* pick_ready_serial: online, not flagged, not assigned to an EXECUTING task.
Ready(d) ==
  /\ table[d] = "device" /\ d \notin flagged
  /\ \A t \in Tasks : status[t] = "executing" => dev[t] # d

\* Wrong variants: no worker is cancelled, or all are.
CancelNone(W, C) == W
CancelEvery(W, C) == [s \in Workers |-> [W[s] EXCEPT !.cancelled = W[s].phase = "scan"]]

\* The workers of C are cancelled; one that has its outcome no longer can be.
CancelWorkers(W, C) ==
  [s \in Workers |-> IF s \in C /\ W[s].phase = "scan"
                     THEN [W[s] EXCEPT !.cancelled = TRUE] ELSE W[s]]

\* Wrong variant: the rebuilt heap is empty.
CompactAll(heap, R) ==
  IF Cardinality(heap) <= 2 * Cardinality({t \in Tasks : R[t].dev # None}) + HeapSlack
  THEN heap ELSE {}

\* compact_wakeup_heap, for the runtimes R
Compact(heap, R) ==
  IF Cardinality(heap) <= 2 * Cardinality({t \in Tasks : R[t].dev # None}) + HeapSlack
  THEN heap
  ELSE {w \in heap : R[w[1]].wake = w[2]}

\* Wrong variant: a resume does not reopen the round that the pause closed.
FinishForGood(R, I, s) ==
  [i \in RoundIds |-> IF i \in I /\ s # "running" THEN [R[i] EXCEPT !.st = s] ELSE R[i]]

FinishRounds(R, I, s) == [i \in RoundIds |-> IF i \in I THEN [R[i] EXCEPT !.st = s] ELSE R[i]]
\* Wrong variant: the update of the run row is lost.
FinishNoRun(R, I, s)  == R
FinishRuns(R, I, s)   == [i \in RunIds |-> IF i \in I THEN [R[i] EXCEPT !.st = s] ELSE R[i]]

\* Wrong variant: the rounds left open are not closed.
InsertRound(R, t) == [R EXCEPT ![nextRound] = [task |-> t, st |-> "running"]]

\* create_round closes the task's running rounds, then inserts round nextRound.
CreateRound(R, t) ==
  [i \in RoundIds |->
     IF i = nextRound THEN [task |-> t, st |-> "running"]
     ELSE IF R[i].task = t /\ R[i].st = "running" THEN [R[i] EXCEPT !.st = "stopped"]
     ELSE R[i]]

CanCreateRound == nextRound <= MaxRounds

\* start_task_run, for the rows L of a_task_runs
StartRun(t, L) ==
  /\ nextRun <= MaxRuns
  /\ runs' = [L EXCEPT ![nextRun] = [task |-> t, st |-> "running"]]
  /\ nextRun' = nextRun + 1

\* Wrong variant: the round is left out of the state row.
RoundlessRow(d, r) == [status |-> "executing", dev |-> d, round |-> 0, wait |-> FALSE]

ExecutingRow(d, r) == [status |-> "executing", dev |-> d, round |-> r, wait |-> FALSE]

\* Wrong variant: the entry is not pushed on the heap.
ScheduleUnpushed(t, R, heap) ==
  /\ nextWakeup <= MaxWakeups
  /\ rt' = [rt EXCEPT ![t] = [R EXCEPT !.wake = nextWakeup]]
  /\ wakeups' = heap
  /\ nextWakeup' = nextWakeup + 1

\* schedule_task for the runtime R of t
Schedule(t, R, heap) ==
  /\ nextWakeup <= MaxWakeups
  /\ rt' = [rt EXCEPT ![t] = [R EXCEPT !.wake = nextWakeup]]
  /\ wakeups' = heap \cup {<<t, nextWakeup>>}
  /\ nextWakeup' = nextWakeup + 1

\* spawn_task_worker for the runtime R of t: the batch is every keyword that
\* is not ok, and nothing is spawned for an empty batch.
SpawnWorker(t, R, done, W) ==
  IF done = Keywords
  THEN /\ rt' = [rt EXCEPT ![t] = R]
       /\ wk' = W /\ UNCHANGED nextWorker
  ELSE /\ nextWorker <= MaxWorkers
       /\ rt' = [rt EXCEPT ![t] = [R EXCEPT !.worker = nextWorker, !.wake = 0]]
       /\ wk' = [W EXCEPT ![nextWorker] =
                   [NoWorker EXCEPT !.task = t, !.dev = R.dev, !.round = R.round,
                                    !.todo = Keywords \ done, !.phase = "scan"]]
       /\ nextWorker' = nextWorker + 1

\* Wrong variants: the progress of any round counts; the stored status is
\* taken as it is.
RestoredFromAnyRound(t, rw, P) == {k \in Keywords : \E r \in RoundIds : <<t, k, r>> \in P}
StoredStatus(rw, done) == rw.status

\* build_task_batched: what a task is when it is rebuilt from its state row
\* rw and the progress rows P.
RestoredOk(t, rw, P) ==
  IF rw.round = 0 THEN {} ELSE {k \in Keywords : <<t, k, rw.round>> \in P}

RestoredStatus(rw, done) ==
  LET inferred == IF done = {} THEN "waiting"
                  ELSE IF done = Keywords THEN "success" ELSE "paused"
  IN  CASE rw.status \in {"none", "waiting"} -> inferred
        [] rw.status = "executing" -> "paused"
        [] rw.status = "success" /\ inferred # "success" -> "waiting"
        [] OTHER -> rw.status

RestoredDev(rw) == IF rw.status \in {"none", "executing"} THEN None ELSE rw.dev

-----------------------------------------------------------------------------
(* Handlers shared by several messages.                                    *)

SetTask(t, s, d, done, m) ==
  /\ status' = [status EXCEPT ![t] = s]
  /\ dev' = [dev EXCEPT ![t] = d]
  /\ ok' = [ok EXCEPT ![t] = done]
  /\ mark' = [mark EXCEPT ![t] = m]

\* What cancel_and_cleanup makes of the heap, the workers and the ledger: the
\* runtime of t goes, its round and its run are stopped.
WithoutRuntime(t) == [rt EXCEPT ![t] = NoRuntime]
Cleaned(t) == [wakeups |-> Compact(wakeups, WithoutRuntime(t)),
               wk      |-> CancelWorkers(wk, {rt[t].worker}),
               rounds  |-> FinishRounds(rounds, {rt[t].round}, "stopped"),
               runs    |-> FinishRuns(runs, {rt[t].run}, "stopped")]
Kept == [wakeups |-> wakeups, wk |-> wk, rounds |-> rounds, runs |-> runs]

\* The tail of handle_start, handle_resume and handle_retry, from the state c
\* (Kept or Cleaned): insert the run row and the runtime for round r on
\* device d, then spawn a worker or wait for the saved wakeup.
Launch(t, d, r, done, waits, c) ==
  LET R == [round |-> r, run |-> nextRun, dev |-> d, worker |-> 0, wake |-> 0]
  IN  /\ StartRun(t, c.runs)
      /\ row' = [row EXCEPT ![t] = ExecutingRow(d, r)]
      /\ IF waits
         THEN Schedule(t, R, c.wakeups) /\ wk' = c.wk /\ UNCHANGED nextWorker
         ELSE SpawnWorker(t, R, done, c.wk) /\ wakeups' = c.wakeups /\ UNCHANGED nextWakeup

\* is_all_keywords_pending
AllPending(t) == ok[t] = {} /\ ~mark[t]

\* Wrong variant: the schedule is cleared before the wait is saved.
ClearedWait(t) == t \in IntervalTasks /\ AllPending(t) /\ NoRuntime.wake # 0

\* was_interval_waiting and saved_wakeup of handle_pause
SavedWait(t) == t \in IntervalTasks /\ AllPending(t) /\ rt[t].wake # 0

\* handle_pause for every task of S.  The runtime goes without compaction of
\* the heap.
PauseAll(S) ==
  /\ rt' = [t \in Tasks |-> IF t \in S THEN NoRuntime ELSE rt[t]]
  /\ wk' = CancelWorkers(wk, {rt[t].worker : t \in S})
  /\ rounds' = FinishRounds(rounds, {rt[t].round : t \in S}, "stopped")
  /\ runs' = FinishRuns(runs, {rt[t].run : t \in S}, "paused")
  /\ status' = [t \in Tasks |-> IF t \in S THEN "paused" ELSE status[t]]
  /\ dev' = [t \in Tasks |-> IF t \in S THEN None ELSE dev[t]]
  /\ mark' = [t \in Tasks |-> IF t \in S THEN FALSE ELSE mark[t]]
  /\ row' = [t \in Tasks |->
               IF t \in S
               THEN [status |-> "paused", dev |-> None, round |-> rt[t].round,
                     wait |-> SavedWait(t)]
               ELSE row[t]]
  /\ UNCHANGED <<ok, wakeVars, nextWorker, progress, nextRound, nextRun>>

\* mark_task_error for every task of S; W is the workers after the message.
MarkError(S, W, flag) ==
  /\ rt' = [t \in Tasks |-> IF t \in S THEN NoRuntime ELSE rt[t]]
  /\ wakeups' = Compact(wakeups, rt')
  /\ wk' = CancelWorkers(W, {rt[t].worker : t \in S})
  /\ rounds' = FinishRounds(rounds, {rt[t].round : t \in S}, "stopped")
  /\ runs' = FinishRuns(runs, {rt[t].run : t \in S}, "stopped")
  /\ status' = [t \in Tasks |-> IF t \in S THEN "error" ELSE status[t]]
  /\ dev' = [t \in Tasks |-> IF t \in S THEN rt[t].dev ELSE dev[t]]
  /\ mark' = [t \in Tasks |-> IF t \in S THEN FALSE ELSE mark[t]]
  /\ row' = [t \in Tasks |->
               IF t \in S
               THEN [status |-> "error", dev |-> rt[t].dev, round |-> rt[t].round, wait |-> FALSE]
               ELSE row[t]]
  /\ flagged' = IF flag
                THEN flagged \cup {d \in Devices : table[d] # "absent" /\ \E t \in S : rt[t].dev = d}
                ELSE flagged
  /\ UNCHANGED <<nextWakeup, nextWorker, progress, nextRound, nextRun, table>>

-----------------------------------------------------------------------------
(* Messages that execute a task.                                           *)

\* handle_start: the ping of the phone may fail, which flags the device; a
\* failed create_round rolls the memory back.
Start(t) ==
  /\ "start" \in Commands /\ status[t] = "waiting"
  /\ \E d \in Devices :
       /\ Ready(d)
       /\ \/ /\ flagged' = flagged \cup {d}
             /\ UNCHANGED <<taskVars, rt, wakeVars, workerVars, row, ledgerVars>>
          \/ /\ FALSE \in RoundOutcomes
             /\ SetTask(t, "waiting", None, ok[t], FALSE)
             /\ UNCHANGED <<rt, wakeVars, workerVars, row, ledgerVars, flagged>>
          \/ /\ TRUE \in RoundOutcomes /\ CanCreateRound
             /\ SetTask(t, "executing", d, ok[t], ok[t] # Keywords)
             /\ rounds' = CreateRound(rounds, t) /\ nextRound' = nextRound + 1
             /\ Launch(t, d, nextRound, ok[t], FALSE, Kept)
             /\ UNCHANGED flagged
  /\ UNCHANGED <<progress, table>>

Pause(t) ==
  /\ "pause" \in Commands /\ status[t] = "executing"
  /\ PauseAll({t})
  /\ UNCHANGED deviceVars

\* handle_pause_tasks_for_phones, for the tasks S of some phones
PausePhones(S) ==
  /\ "pausephones" \in Commands
  /\ \E t \in S : status[t] = "executing"
  /\ PauseAll({t \in S : status[t] = "executing"})
  /\ UNCHANGED deviceVars

\* Wrong variant: the device goes, its task stays.
KickWithoutPause(d) ==
  /\ "kick" \in Commands /\ table[d] # "absent"
  /\ table' = [table EXCEPT ![d] = "absent"]
  /\ flagged' = flagged \ {d}
  /\ UNCHANGED <<taskVars, rt, wakeVars, workerVars, row, progress, ledgerVars>>

\* handle_device_kick: pauses the first task found on the device, then
\* deletes the device.
Kick(d) ==
  /\ "kick" \in Commands /\ table[d] # "absent"
  /\ LET held == {t \in Tasks : dev[t] = d /\ status[t] \in {"executing", "paused"}}
     IN  \/ held = {} /\ PauseAll({})
         \/ \E t \in held : PauseAll({t} \cap {u \in Tasks : status[u] = "executing"})
  /\ table' = [table EXCEPT ![d] = "absent"]
  /\ flagged' = flagged \ {d}

\* handle_resume: the memory is changed before the round is known, and stays
\* changed when resume_round or create_round fails.
Resume(t) ==
  /\ "resume" \in Commands /\ status[t] \in {"paused", "error"}
  /\ \E d \in Devices, waits \in IF row[t].wait THEN BOOLEAN ELSE {FALSE} :
       LET r == IF row[t].round = 0 THEN nextRound ELSE row[t].round
       IN  /\ Ready(d)
           /\ SetTask(t, "executing", d, ok[t], ~waits /\ ok[t] # Keywords)
           /\ \/ /\ FALSE \in RoundOutcomes
                 /\ UNCHANGED <<rt, wakeVars, workerVars, row, ledgerVars>>
              \/ /\ TRUE \in RoundOutcomes
                 /\ IF row[t].round = 0
                    THEN /\ CanCreateRound
                         /\ rounds' = CreateRound(rounds, t) /\ nextRound' = nextRound + 1
                    ELSE /\ rounds' = FinishRounds(rounds, {r}, "running")
                         /\ UNCHANGED nextRound
                 /\ Launch(t, d, r, ok[t], waits, Kept)
  /\ UNCHANGED <<progress, deviceVars>>

\* clear_task_progress deletes the rows already synchronised, any of them.
ClearSynced(S) ==
  \E synced \in SUBSET {p \in progress : p[1] \in S} : progress' = progress \ synced

DropRuntime(t) ==
  /\ rt' = WithoutRuntime(t) /\ row' = [row EXCEPT ![t] = NoRow]
  /\ wakeups' = Cleaned(t).wakeups /\ wk' = Cleaned(t).wk
  /\ rounds' = Cleaned(t).rounds /\ runs' = Cleaned(t).runs
  /\ UNCHANGED <<nextWakeup, nextWorker, nextRound, nextRun>>

\* handle_stop: cancel_and_cleanup, then the task as it is rebuilt without a
\* state row.
Stop(t) ==
  /\ "stop" \in Commands /\ status[t] # "absent"
  /\ ClearSynced({t})
  /\ DropRuntime(t)
  /\ SetTask(t, "waiting", None, {}, FALSE)
  /\ UNCHANGED deviceVars

\* handle_retry: cancel_and_cleanup, then a start without ping.  The device is
\* chosen against the tasks before the retry.  Without a device the task stays
\* in memory as it was; without a round it is executing without runtime.
Retry(t) ==
  /\ "retry" \in Commands /\ status[t] # "absent"
  /\ ClearSynced({t})
  /\ \/ /\ \A d \in Devices : ~Ready(d)
        /\ DropRuntime(t) /\ UNCHANGED taskVars
     \/ \E d \in Devices :
          /\ Ready(d)
          /\ SetTask(t, "executing", d, {}, TRUE)
          /\ \/ FALSE \in RoundOutcomes /\ DropRuntime(t)
             \/ /\ TRUE \in RoundOutcomes /\ CanCreateRound
                /\ rounds' = CreateRound(Cleaned(t).rounds, t) /\ nextRound' = nextRound + 1
                /\ Launch(t, d, nextRound, {}, FALSE, Cleaned(t))
  /\ UNCHANGED deviceVars

\* handle_clear_task_device: the row it writes has no round.
ClearDevice(t) ==
  /\ "clear" \in Commands /\ status[t] = "error"
  /\ dev' = [dev EXCEPT ![t] = None]
  /\ row' = [row EXCEPT ![t] = [NoRow EXCEPT !.status = "error"]]
  /\ UNCHANGED <<status, ok, mark, rt, wakeVars, workerVars, progress, ledgerVars, deviceVars>>

\* handle_release_offline, for the serials the user interface believes online
ReleaseOffline(online) ==
  /\ "offline" \in Commands
  /\ LET S == {t \in Tasks : status[t] = "executing" /\ dev[t] \notin online \cup {None}}
     IN  S # {} /\ MarkError(S, wk, FALSE)
  /\ UNCHANGED ok

-----------------------------------------------------------------------------
(* Messages that change the set of tasks.                                  *)

\* handle_reload_tasks: every task is rebuilt from the database; one that has
\* a runtime keeps its status and device and gets its cursor marked again.
Reload ==
  LET keeps(t) == Running(t) \/ status[t] = "absent"
      done(t)  == IF status[t] = "absent" THEN {} ELSE RestoredOk(t, row[t], progress)
  IN  /\ "reload" \in Commands
      /\ ok' = [t \in Tasks |-> done(t)]
      /\ status' = [t \in Tasks |-> IF keeps(t) THEN status[t] ELSE RestoredStatus(row[t], done(t))]
      /\ dev' = [t \in Tasks |-> IF keeps(t) THEN dev[t] ELSE RestoredDev(row[t])]
      /\ mark' = [t \in Tasks |-> Running(t) /\ status[t] = "executing" /\ done(t) # Keywords]
      /\ UNCHANGED <<rt, wakeVars, workerVars, row, progress, ledgerVars, deviceVars>>

\* merge_single_task with an unchanged definition: an executing, paused or
\* failed task keeps its keywords; any other is rebuilt, and a successful one
\* starts over.
ReloadTask(t) ==
  /\ "reloadtask" \in Commands
  /\ \/ /\ status[t] \in {"executing", "paused", "error"}
        /\ mark' = [mark EXCEPT ![t] = status[t] = "executing" /\ ok[t] # Keywords]
        /\ UNCHANGED <<status, dev, ok, row, progress>>
     \/ /\ status[t] = "success"
        /\ ClearSynced({t}) /\ row' = [row EXCEPT ![t] = NoRow]
        /\ SetTask(t, "waiting", None, {}, FALSE)
     \/ /\ status[t] \in {"absent", "waiting"}
        /\ LET done == RestoredOk(t, row[t], progress)
           IN  SetTask(t, RestoredStatus(row[t], done), RestoredDev(row[t]), done, FALSE)
        /\ UNCHANGED <<row, progress>>
  /\ UNCHANGED <<rt, wakeVars, workerVars, ledgerVars, deviceVars>>

\* cleanup_task_ids_impl and the "delete_task" reload: the runtimes go, then
\* the tasks and all their rows.
Forget(S) ==
  LET of(t) == t \in S
  IN  /\ "forget" \in Commands /\ \E t \in S : status[t] # "absent"
      /\ rt' = [t \in Tasks |-> IF of(t) THEN NoRuntime ELSE rt[t]]
      /\ wakeups' = Compact(wakeups, rt')
      /\ wk' = CancelWorkers(wk, {rt[t].worker : t \in S})
      /\ status' = [t \in Tasks |-> IF of(t) THEN "absent" ELSE status[t]]
      /\ dev' = [t \in Tasks |-> IF of(t) THEN None ELSE dev[t]]
      /\ ok' = [t \in Tasks |-> IF of(t) THEN {} ELSE ok[t]]
      /\ mark' = [t \in Tasks |-> ~of(t) /\ mark[t]]
      /\ row' = [t \in Tasks |-> IF of(t) THEN NoRow ELSE row[t]]
      /\ progress' = {p \in progress : ~of(p[1])}
      /\ rounds' = FinishRounds(rounds, {i \in RoundIds : rounds[i].task \in S}, "deleted")
      /\ runs' = FinishRuns(runs, {i \in RunIds : runs[i].task \in S}, "deleted")
      /\ UNCHANGED <<nextWakeup, nextWorker, nextRound, nextRun, deviceVars>>

-----------------------------------------------------------------------------
(* Time and workers.                                                       *)

\* dispatch_due_wakeups, for one due entry of the heap.  A task with every
\* keyword pending is at the start of an interval round: it is marked and gets
\* a run row whose key the runtime does not learn.
Wakeup(t, seq) ==
  LET heap == wakeups \ {<<t, seq>>}
      due  == Running(t) /\ rt[t].wake = seq /\ rt[t].worker = 0
      interval == status[t] = "executing" /\ AllPending(t)
  IN  /\ <<t, seq>> \in wakeups
      /\ \/ /\ ~due
            /\ UNCHANGED <<mark, rt, workerVars, row, runs, nextRun>>
         \/ /\ due
            /\ IF interval THEN mark' = [mark EXCEPT ![t] = TRUE] /\ StartRun(t, runs)
               ELSE UNCHANGED <<mark, runs, nextRun>>
            /\ SpawnWorker(t, rt[t], ok[t], wk)
            /\ row' = [row EXCEPT ![t] = [ExecutingRow(dev[t], rt[t].round) EXCEPT !.status = status[t]]]
      /\ wakeups' = Compact(heap, rt')
      /\ UNCHANGED <<status, dev, ok, nextWakeup, progress, rounds, nextRound, deviceVars>>

\* A PhoneMsg::Result: recorded in the database, then announced.
WorkerKeyword(s, k) ==
  /\ wk[s].phase = "scan" /\ ~wk[s].cancelled /\ k \in wk[s].todo
  /\ progress' = progress \cup {<<wk[s].task, k, wk[s].round>>}
  /\ wk' = [wk EXCEPT ![s].todo = @ \ {k}, ![s].done = @ \cup {k}, ![s].unread = @ \cup {k}]
  /\ UNCHANGED <<taskVars, rt, wakeVars, nextWorker, row, ledgerVars, deviceVars>>

\* The outcomes of run_phone_scan: done, or a broken stream after a result, is
\* "batch"; a broken stream or connection before any result is "offline".
WorkerEnds(s) ==
  /\ wk[s].phase = "scan" /\ ~wk[s].cancelled
  /\ \E outcome \in (IF wk[s].done # {} \/ EmptyBatches THEN {"batch"} ELSE {})
                    \cup (IF wk[s].done = {} THEN {"offline"} ELSE {}) \cup {"fatal"} :
       wk' = [wk EXCEPT ![s].phase = outcome]
  /\ UNCHANGED <<taskVars, rt, wakeVars, nextWorker, row, progress, ledgerVars, deviceVars>>

\* A cancelled worker reports at once; the write of a keyword it was awaiting
\* may still reach the database.
WorkerCancelled(s) ==
  /\ wk[s].phase = "scan" /\ wk[s].cancelled
  /\ \E late \in {{}} \cup {{k} : k \in wk[s].todo} :
       progress' = progress \cup {<<wk[s].task, k, wk[s].round>> : k \in late}
  /\ wk' = [wk EXCEPT ![s].phase = "cancelled"]
  /\ UNCHANGED <<taskVars, rt, wakeVars, nextWorker, row, ledgerVars, deviceVars>>

\* Wrong variant: any worker of a task with an active worker is believed.
AnyWorkerIsActive(t, s) == rt[t].worker # 0

\* The check of worker_seq against the active worker of the task
IsActive(t, s) == rt[t].worker = s

\* handle_keyword_done
HandleKeywordDone(s, k) ==
  LET t == wk[s].task
  IN  /\ k \in wk[s].unread
      /\ wk' = [wk EXCEPT ![s].unread = @ \ {k}]
      /\ ok' = IF IsActive(t, s) THEN [ok EXCEPT ![t] = @ \cup {k}] ELSE ok
      /\ UNCHANGED <<status, dev, mark, rt, wakeVars, nextWorker, row, progress, ledgerVars, deviceVars>>

\* complete_task_success
Succeed(t) ==
  /\ SetTask(t, "success", None, Keywords, FALSE)
  /\ rt' = WithoutRuntime(t)
  /\ rounds' = FinishRounds(rounds, {rt[t].round}, "completed")
  /\ runs' = FinishRuns(runs, {rt[t].run}, "completed")
  /\ row' = [row EXCEPT ![t] = [NoRow EXCEPT !.status = "success"]]
  /\ UNCHANGED <<wakeVars, nextRound, flagged>>

\* complete_round_with_interval, when create_round succeeds
NextIntervalRound(t) ==
  /\ TRUE \in RoundOutcomes /\ CanCreateRound
  /\ SetTask(t, status[t], dev[t], {}, FALSE)
  /\ rounds' = CreateRound(FinishRounds(rounds, {rt[t].round}, "completed"), t)
  /\ nextRound' = nextRound + 1
  /\ runs' = FinishRuns(runs, {rt[t].run}, "completed")
  /\ Schedule(t, [rt[t] EXCEPT !.round = nextRound, !.worker = 0], wakeups)
  /\ row' = [row EXCEPT ![t] = ExecutingRow(dev[t], nextRound)]
  /\ UNCHANGED flagged

\* handle_batch_done, when keywords are left: another batch after a delay
Reschedule(t, done) ==
  /\ SetTask(t, status[t], dev[t], done, FALSE)
  /\ Schedule(t, [rt[t] EXCEPT !.worker = 0], wakeups)
  /\ row' = [row EXCEPT ![t] = ExecutingRow(dev[t], rt[t].round)]
  /\ UNCHANGED <<rounds, runs, nextRound, flagged>>

\* handle_worker_result: the result of a worker that is no longer the active
\* one is dropped; handle_batch_done and mark_task_error do the rest.
HandleResult(s) ==
  LET t    == wk[s].task
      W    == [wk EXCEPT ![s] = NoWorker]
      done == ok[t] \cup wk[s].done
      ours(outcomes) == IsActive(t, s) /\ wk[s].phase \in outcomes
      batch == ours({"batch"}) /\ status[t] = "executing"
      fails(keep) == /\ MarkError({t}, W, TRUE)
                     /\ ok' = [ok EXCEPT ![t] = keep]
  IN  /\ wk[s].phase \in Outcomes /\ wk[s].unread = {}
      /\ \/ /\ ~batch /\ ~ours({"offline", "fatal"})
            /\ wk' = W
            /\ rt' = [rt EXCEPT ![t].worker = IF @ = s THEN 0 ELSE @]
            /\ UNCHANGED <<taskVars, wakeVars, row, rounds, runs, nextRound, flagged>>
         \/ ours({"offline"}) /\ fails(ok[t])
         \/ ours({"fatal"}) /\ fails(done)
         \/ batch /\ done # Keywords /\ Reschedule(t, done) /\ wk' = W
         \/ batch /\ done = Keywords /\ t \notin IntervalTasks /\ Succeed(t) /\ wk' = W
         \/ batch /\ done = Keywords /\ t \in IntervalTasks /\ NextIntervalRound(t) /\ wk' = W
         \/ batch /\ done = Keywords /\ t \in IntervalTasks /\ FALSE \in RoundOutcomes /\ fails({})
      /\ UNCHANGED <<nextWorker, progress, nextRun, table>>

-----------------------------------------------------------------------------
(* The rest of the program, as the engine sees it.                         *)

\* The monitor's upsert of a device row keeps its flag.
DeviceUp(d) ==
  /\ "up" \in Commands /\ table[d] # "device"
  /\ table' = [table EXCEPT ![d] = "device"]
  /\ UNCHANGED <<taskVars, rt, wakeVars, workerVars, row, progress, ledgerVars, flagged>>

DeviceDown(d) ==
  /\ "down" \in Commands /\ table[d] = "device"
  /\ table' = [table EXCEPT ![d] = "offline"]
  /\ UNCHANGED <<taskVars, rt, wakeVars, workerVars, row, progress, ledgerVars, flagged>>

\* flag_device and unflag_device of the user interface
Flag(d) ==
  /\ "flag" \in Commands /\ table[d] # "absent" /\ d \notin flagged
  /\ flagged' = flagged \cup {d}
  /\ UNCHANGED <<taskVars, rt, wakeVars, workerVars, row, progress, ledgerVars, table>>

Unflag(d) ==
  /\ "unflag" \in Commands /\ d \in flagged
  /\ flagged' = flagged \ {d}
  /\ UNCHANGED <<taskVars, rt, wakeVars, workerVars, row, progress, ledgerVars, table>>

\* A crash or a quit, then a start of the program: check_daily_reset when the
\* day has changed, the cleanups of lib.rs, the tasks rebuilt.
Restart(newDay) ==
  LET reset(t) == IF row[t].status = "none" THEN NoRow ELSE [NoRow EXCEPT !.status = "waiting"]
      stale(t) == IF row[t].status = "executing"
                  THEN [row[t] EXCEPT !.status = "paused", !.dev = None] ELSE row[t]
      close(L, open) == {i \in DOMAIN L : L[i].st \in open}
      done(t)  == RestoredOk(t, row'[t], progress')
      known(t) == status[t] # "absent"
  IN  /\ (IF newDay THEN "newday" ELSE "restart") \in Commands
      /\ rt' = [t \in Tasks |-> NoRuntime] /\ wk' = [s \in Workers |-> NoWorker]
      /\ wakeups' = {} /\ nextWakeup' = 1 /\ nextWorker' = 1
      /\ row' = [t \in Tasks |-> IF newDay THEN reset(t) ELSE stale(t)]
      /\ IF newDay
         THEN /\ rounds' = FinishRounds(rounds, close(rounds, {"running"}), "stopped")
              /\ runs' = FinishRuns(runs, close(runs, {"running", "paused"}), "stopped")
              /\ table' = [d \in Devices |-> "absent"] /\ flagged' = {}
              /\ ClearSynced(Tasks)
         ELSE /\ runs' = FinishRuns(runs, close(runs, {"running"}), "stopped")
              /\ table' = [d \in Devices |-> IF table[d] = "absent" THEN "absent" ELSE "offline"]
              /\ UNCHANGED <<rounds, flagged, progress>>
      /\ ok' = [t \in Tasks |-> IF known(t) THEN done(t) ELSE {}]
      /\ status' = [t \in Tasks |-> IF known(t) THEN RestoredStatus(row'[t], done(t)) ELSE "absent"]
      /\ dev' = [t \in Tasks |-> IF known(t) THEN RestoredDev(row'[t]) ELSE None]
      /\ mark' = [t \in Tasks |-> FALSE]
      /\ UNCHANGED <<nextRound, nextRun>>

-----------------------------------------------------------------------------
Init ==
  /\ status = [t \in Tasks |-> "waiting"] /\ dev = [t \in Tasks |-> None]
  /\ ok = [t \in Tasks |-> {}] /\ mark = [t \in Tasks |-> FALSE]
  /\ rt = [t \in Tasks |-> NoRuntime]
  /\ wakeups = {} /\ nextWakeup = 1 /\ nextWorker = 1
  /\ wk = [s \in Workers |-> NoWorker]
  /\ row = [t \in Tasks |-> NoRow] /\ progress = {}
  /\ rounds = [i \in RoundIds |-> NoEntry] /\ runs = [i \in RunIds |-> NoEntry]
  /\ nextRound = 1 /\ nextRun = 1
  /\ table = [d \in Devices |-> "absent"] /\ flagged = {}

Command ==
  \/ \E t \in Tasks : Start(t) \/ Pause(t) \/ Resume(t) \/ Stop(t) \/ Retry(t)
                      \/ ClearDevice(t) \/ ReloadTask(t)
  \/ \E S \in SUBSET Tasks : PausePhones(S) \/ Forget(S)
  \/ \E online \in SUBSET Devices : ReleaseOffline(online)
  \/ \E d \in Devices : Kick(d) \/ Flag(d) \/ Unflag(d)
  \/ Reload

Worker(s) ==
  \/ \E k \in Keywords : WorkerKeyword(s, k)
  \/ WorkerEnds(s) \/ WorkerCancelled(s)

Report(s) == HandleResult(s) \/ \E k \in Keywords : HandleKeywordDone(s, k)

Outside ==
  \/ \E d \in Devices : DeviceUp(d) \/ DeviceDown(d)
  \/ \E newDay \in BOOLEAN : Restart(newDay)

Next ==
  \/ Command \/ Outside
  \/ \E w \in wakeups : Wakeup(w[1], w[2])
  \/ \E s \in Workers : Worker(s) \/ Report(s)

Spec == Init /\ [][Next]_vars

\* The channel is drained, due wakeups are dispatched, a phone ends its batch
\* or breaks the connection.  Nothing is assumed of commands and devices.
Fairness ==
  /\ \A s \in Workers : WF_vars(Worker(s)) /\ WF_vars(Report(s))
  /\ \A t \in Tasks, seq \in 1 .. MaxWakeups : WF_vars(Wakeup(t, seq))

FairSpec == Spec /\ Fairness

-----------------------------------------------------------------------------
(* Safety.                                                                 *)

\* The workers that talk to a phone and were not told to stop.
LiveWorkers == {s \in Workers : wk[s].phase = "scan" /\ ~wk[s].cancelled}

\* No device is leased to two executing tasks: pick_ready_serial reads the
\* leases before the port, the ping and the round are awaited, and every
\* handler, reload and restart must keep the table it reads true.
LeaseExclusive ==
  \A t, u \in Tasks : /\ t # u /\ status[t] = "executing" /\ status[u] = "executing"
                      /\ dev[t] # None
                      => dev[t] # dev[u]

\* No phone is driven by two workers at once: a worker that lost its task has
\* been cancelled before its device can be leased again.
OneWorkerPerDevice ==
  \A r, s \in LiveWorkers : r # s => wk[r].dev # wk[s].dev

\* A runtime that waits for a worker waits for one that will still report to
\* it: the worker is its own, on its device and round, and was not cancelled.
ActiveWorkerReports ==
  \A t \in Tasks : rt[t].worker # 0 =>
    LET w == wk[rt[t].worker]
    IN  w.task = t /\ w.dev = rt[t].dev /\ w.round = rt[t].round
        /\ w.phase \notin {"idle", "cancelled"} /\ ~w.cancelled

\* A runtime belongs to an executing task, leases its device and works for a
\* round; a task without a runtime has no worker and no wakeup.
RuntimeLeased ==
  \A t \in Tasks :
    IF Running(t) THEN status[t] = "executing" /\ dev[t] = rt[t].dev /\ rt[t].round \in RoundIds
    ELSE rt[t] = NoRuntime

\* A worker has a task, a device and a round for as long as the engine may
\* hear from it; the numbers not yet given out have no worker.
WorkerAssigned ==
  \A s \in Workers :
    \/ wk[s] = NoWorker
    \/ /\ wk[s].phase # "idle" /\ s < nextWorker
       /\ wk[s].task \in Tasks /\ wk[s].dev \in Devices /\ wk[s].round \in RoundIds

\* A live worker is the one its task's runtime waits for.
LiveWorkerOwned == \A s \in LiveWorkers : rt[wk[s].task].worker = s

\* The inductive invariant from which the exclusive use of devices follows.
LeaseInv ==
  /\ TypeOK /\ RuntimeLeased /\ WorkerAssigned
  /\ LiveWorkerOwned /\ ActiveWorkerReports /\ LeaseExclusive

\* A device that was kicked (or that no monitor has reported since the daily
\* reset) is quiet: no live worker is driving it.
KickedDeviceIsQuiet ==
  \A s \in LiveWorkers : table[wk[s].dev] # "absent"

\* A task that is not executing, and a row that would restore one, hold a
\* device only after an error: a kick finds the task that uses the device.
ParkedFree ==
  \A t \in Tasks : /\ status[t] = "paused" => dev[t] = None
                   /\ row[t].status \notin {"executing", "error"} => row[t].dev = None

\* The device of a runtime has its row.
DeviceKnown == \A t \in Tasks : Running(t) => table[rt[t].dev] # "absent"

\* With LeaseInv, the inductive invariant behind KickedDeviceIsQuiet.
QuietInv == ParkedFree /\ DeviceKnown

OpenRounds(t) == {i \in RoundIds : rounds[i] = [task |-> t, st |-> "running"]}

\* The round a runtime works for is open and is the only open round of its
\* task, through pauses, retries, reloads and restarts (create_round closes
\* what a crash left open, resume_round reopens what a pause closed).
RoundOpen ==
  \A t \in Tasks : Running(t) => OpenRounds(t) = {rt[t].round}

\* The round in a state row is the task's own, that of its runtime if it has
\* one, and the only one that may be open.
RowNamesRound ==
  \A t \in Tasks :
    /\ Running(t) => row[t].status = "executing" /\ row[t].round = rt[t].round
    /\ row[t].round # 0 => /\ rounds[row[t].round].task = t
                           /\ OpenRounds(t) \subseteq {row[t].round}

\* A key that is not yet given out has no row.
RoundsFresh == \A i \in RoundIds : rounds[i].task # None => i < nextRound

\* With LeaseInv, the inductive invariant behind RoundOpen.
RoundInv == RoundsFresh /\ RowNamesRound /\ RoundOpen

\* A runtime that is to be woken for the keywords it has left has its entry in
\* the heap, whatever compact_wakeup_heap has thrown away.
HeapCoversArmed ==
  \A t \in Tasks : Running(t) /\ rt[t].wake # 0 /\ ok[t] # Keywords => <<t, rt[t].wake>> \in wakeups

\* A runtime waits for a wakeup or for a worker, and no wait is saved for it;
\* one that waits with every keyword done will not find any left by a reload.
WaitsForOne ==
  \A t \in Tasks :
    /\ rt[t].wake # 0 => rt[t].worker = 0
    /\ Running(t) => ~row[t].wait
    /\ (rt[t].wake # 0 \/ row[t].wait) /\ ok[t] = Keywords => RestoredOk(t, row[t], progress) = Keywords

\* With LeaseInv and RoundInv, the inductive invariant behind HeapCoversArmed.
HeapInv == WaitsForOne /\ HeapCoversArmed

\* No message rebuilds the tasks of the engine, which marks the cursor of a
\* task that waits, and no crash ends a wait before the day does.
TasksStay == Commands \cap {"reload", "reloadtask", "restart"} = {}

\* A task that waits with nothing done has no keyword marked.
WaitUnmarked == \A t \in Tasks : rt[t].wake # 0 /\ ok[t] = {} => ~mark[t]

\* Pausing a task that waits for its next interval round saves the wait for
\* the resume.
IntervalWaitKept ==
  [][\A t \in IntervalTasks :
       Running(t) /\ rt[t].worker = 0 /\ rt[t].wake # 0 /\ ok[t] = {} /\ status'[t] = "paused"
         => row'[t].wait]_vars

\* A crash loses no keyword the engine counts as done: what is ok in memory is
\* what a restart would read back through the state row.
ProgressRecoverable ==
  \A t \in Tasks : status[t] \in {"executing", "paused", "error"} =>
    ok[t] \subseteq RestoredOk(t, row[t], progress)

\* What the active worker of a runtime has announced is in the database.
ReportsRecorded ==
  \A t \in Tasks : rt[t].worker # 0 =>
    \A k \in wk[rt[t].worker].done \cup wk[rt[t].worker].unread : <<t, k, rt[t].round>> \in progress

\* Only a task that has a round has keywords done.
RoundlessClean ==
  \A t \in Tasks : /\ status[t] = "executing" => Running(t)
                   /\ status[t] \in {"absent", "waiting"} => ok[t] = {}
                   /\ row[t].status \in {"none", "waiting", "success"} => row[t].round = 0

\* No message takes the round from an executing task or from the row of a
\* failed one: a create_round that fails, a retry that finds no device, and
\* the clearing of a device do.
RoundsStay == FALSE \notin RoundOutcomes /\ Commands \cap {"clear", "retry"} = {}

\* With LeaseInv and RoundInv, the inductive invariant behind
\* ProgressRecoverable where RoundsStay.
ProgressInv == ReportsRecorded /\ RoundlessClean /\ ProgressRecoverable

OpenRuns(t) == {i \in RunIds : runs[i] = [task |-> t, st |-> "running"]}

\* The running row of a task in a_task_runs is the one its runtime will
\* finish; a task without a runtime leaves none open.
LedgerFollowsRuntime ==
  \A t \in Tasks \ IntervalTasks : OpenRuns(t) = IF Running(t) THEN {rt[t].run} ELSE {}

\* A task that waits for its next batch is not taken for one that waits for
\* its next interval, which would get a run row at the wakeup.
BatchesMarked ==
  /\ \A t \in Tasks \ IntervalTasks : /\ rt[t].wake # 0 => ~AllPending(t)
                                      /\ ~row[t].wait
  /\ \A s \in Workers : wk[s].phase = "batch" => wk[s].done # {}

\* A key that is not yet given out has no row; the run of a runtime is its
\* task's own.
RunsFresh == \A i \in RunIds : runs[i].task # None => i < nextRun
RunOwned  == \A t \in Tasks : Running(t) => rt[t].run \in RunIds /\ runs[rt[t].run].task = t

\* With LeaseInv, the inductive invariant behind LedgerFollowsRuntime, where
\* no batch is empty.
LedgerInv == RunsFresh /\ RunOwned /\ BatchesMarked /\ LedgerFollowsRuntime

\* The results and keywords of a worker that is no longer active, still in
\* the channel after a pause, a stop, a retry or an error, change no task that
\* is not executing, and no keyword of another batch of the same task.
StaleReportsIgnored ==
  [][\A s \in Workers : Report(s) =>
       \A t \in Tasks : rt[t].worker # s =>
         status'[t] = status[t] /\ dev'[t] = dev[t] /\ ok'[t] = ok[t] /\ rt'[t] = rt[t]]_vars

\* A round becomes "completed" only when each keyword has been recorded in it.
CompletedRoundFull ==
  [][\A i \in RoundIds :
       rounds[i].st # "completed" /\ rounds'[i].st = "completed" =>
         \A k \in Keywords : <<rounds[i].task, k, i>> \in progress]_vars

-----------------------------------------------------------------------------
(* Liveness.                                                               *)

\* A started task ends: with every keyword done, or with an error.
StartedEnds ==
  \A t \in Tasks \ IntervalTasks :
    status[t] = "executing" ~> status[t] \in {"success", "error"}

-----------------------------------------------------------------------------
(* The engine implements DeviceLease: the lease of a task is its device     *)
(* while it is executing, a device is driven while a live worker is on it.  *)

LeaseOf == [t \in Tasks |-> IF status[t] = "executing" THEN dev[t] ELSE None]
Lease == INSTANCE DeviceLease WITH lease <- LeaseOf, driven <- {wk[s].dev : s \in LiveWorkers}

\* Every step of the engine is a step of DeviceLease or changes no lease.
ImplementsLease == Lease!Spec
=============================================================================
