-------------------------- MODULE TaskEngineProofs --------------------------
(***************************************************************************)
(* Proofs about TaskEngine for every value of its constants.               *)
(***************************************************************************)
EXTENDS TaskEngine, TLAPS

-----------------------------------------------------------------------------
(* The operators the handlers are built from keep the types.               *)

LEMMA BoundsAreNat ==
  MaxWorkers \in Nat /\ MaxRounds \in Nat /\ MaxRuns \in Nat /\ MaxWakeups \in Nat /\ HeapSlack \in Nat
BY ConstantsAssumption

LEMMA RunWithinBound ==
  ASSUME nextRun \in Nat \ {0}, nextRun <= MaxRuns PROVE nextRun \in RunIds /\ nextRun + 1 \in Nat \ {0}
BY BoundsAreNat DEF RunIds

LEMMA RoundWithinBound ==
  ASSUME nextRound \in Nat \ {0}, CanCreateRound PROVE nextRound \in RoundIds /\ nextRound + 1 \in Nat \ {0}
BY BoundsAreNat DEF RoundIds, CanCreateRound

LEMMA WorkerWithinBound ==
  ASSUME nextWorker \in Nat \ {0}, nextWorker <= MaxWorkers
  PROVE  nextWorker \in Workers /\ nextWorker + 1 \in Nat \ {0}
BY BoundsAreNat DEF Workers

LEMMA NoRuntimeType == NoRuntime \in Runtimes
BY DEF NoRuntime, Runtimes

LEMMA NoRowType == NoRow \in StateRows
BY DEF NoRow, StateRows, Statuses

LEMMA NoWorkerType == NoWorker \in WorkerStates
BY DEF NoWorker, WorkerStates

LEMMA CancelWorkersType ==
  ASSUME NEW W \in [Workers -> WorkerStates], NEW C
  PROVE  CancelWorkers(W, C) \in [Workers -> WorkerStates]
BY DEF CancelWorkers, WorkerStates

LEMMA FinishRoundsType ==
  ASSUME NEW R \in [RoundIds -> RoundRows], NEW I, NEW s \in {"running", "completed", "stopped", "deleted"}
  PROVE  FinishRounds(R, I, s) \in [RoundIds -> RoundRows]
BY DEF FinishRounds, RoundRows

LEMMA FinishRunsType ==
  ASSUME NEW R \in [RunIds -> RunRows], NEW I,
         NEW s \in {"completed", "stopped", "paused", "deleted"}
  PROVE  FinishRuns(R, I, s) \in [RunIds -> RunRows]
BY DEF FinishRuns, RunRows

LEMMA CreateRoundType ==
  ASSUME NEW R \in [RoundIds -> RoundRows], NEW t \in Tasks
  PROVE  CreateRound(R, t) \in [RoundIds -> RoundRows]
BY DEF CreateRound, RoundRows

LEMMA CompactIsSubset ==
  ASSUME NEW heap, NEW R PROVE Compact(heap, R) \subseteq heap
BY DEF Compact

LEMMA RestoredStatusType ==
  ASSUME NEW rw \in StateRows, NEW done PROVE RestoredStatus(rw, done) \in Statuses \ {"absent", "executing"}
BY DEF RestoredStatus, StateRows, Statuses

LEMMA RestoredDevType ==
  ASSUME NEW rw \in StateRows PROVE RestoredDev(rw) \in Devices \cup {None}
BY DEF RestoredDev, StateRows

LEMMA RestoredOkType ==
  ASSUME NEW t, NEW rw, NEW P PROVE RestoredOk(t, rw, P) \in SUBSET Keywords
BY DEF RestoredOk

LEMMA ExecutingRowType ==
  ASSUME NEW d \in Devices \cup {None}, NEW r \in RoundIds \cup {0} PROVE ExecutingRow(d, r) \in StateRows
BY DEF ExecutingRow, StateRows, Statuses

-----------------------------------------------------------------------------
(* So do the parts that handlers share.                                    *)

\* The conjuncts of TypeOK, in groups a handler changes together.
TaskTypes ==
  /\ status \in [Tasks -> Statuses] /\ dev \in [Tasks -> Devices \cup {None}]
  /\ ok \in [Tasks -> SUBSET Keywords] /\ mark \in [Tasks -> BOOLEAN]
RuntimeTypes ==
  /\ rt \in [Tasks -> Runtimes]
  /\ wakeups \subseteq Tasks \X (Nat \ {0}) /\ nextWakeup \in Nat \ {0}
  /\ wk \in [Workers -> WorkerStates] /\ nextWorker \in Nat \ {0}
StoreTypes ==
  /\ row \in [Tasks -> StateRows]
  /\ progress \subseteq Tasks \X Keywords \X RoundIds
LedgerTypes ==
  /\ rounds \in [RoundIds -> RoundRows] /\ runs \in [RunIds -> RunRows]
  /\ nextRound \in Nat \ {0} /\ nextRun \in Nat \ {0}
DeviceTypes ==
  /\ table \in [Devices -> {"absent", "offline", "device"}] /\ flagged \subseteq Devices

LEMMA TypeOKParts ==
  TypeOK <=> TaskTypes /\ RuntimeTypes /\ StoreTypes /\ LedgerTypes /\ DeviceTypes
BY DEF TypeOK, TaskTypes, RuntimeTypes, StoreTypes, LedgerTypes, DeviceTypes

LEMMA TypeOKPartsNext ==
  TypeOK' <=> TaskTypes' /\ RuntimeTypes' /\ StoreTypes' /\ LedgerTypes' /\ DeviceTypes'
BY DEF TypeOK, TaskTypes, RuntimeTypes, StoreTypes, LedgerTypes, DeviceTypes

LEMMA SetTaskType ==
  ASSUME TaskTypes, NEW t \in Tasks, NEW s \in Statuses, NEW d \in Devices \cup {None},
         NEW done \in SUBSET Keywords, NEW m \in BOOLEAN, SetTask(t, s, d, done, m)
  PROVE  TaskTypes'
BY DEF SetTask, TaskTypes

LEMMA ScheduleType ==
  ASSUME nextWakeup \in Nat \ {0}, rt \in [Tasks -> Runtimes], NEW t \in Tasks, NEW R \in Runtimes,
         NEW heap \in SUBSET (Tasks \X (Nat \ {0})), Schedule(t, R, heap)
  PROVE  rt' \in [Tasks -> Runtimes] /\ wakeups' \subseteq Tasks \X (Nat \ {0}) /\ nextWakeup' \in Nat \ {0}
<1>1. [R EXCEPT !.wake = nextWakeup] \in Runtimes
  BY DEF Runtimes
<1> QED BY <1>1 DEF Schedule

LEMMA SpawnWorkerType ==
  ASSUME nextWorker \in Nat \ {0}, rt \in [Tasks -> Runtimes], NEW t \in Tasks, NEW R \in Runtimes,
         NEW done \in SUBSET Keywords, NEW W \in [Workers -> WorkerStates],
         SpawnWorker(t, R, done, W)
  PROVE  rt' \in [Tasks -> Runtimes] /\ wk' \in [Workers -> WorkerStates] /\ nextWorker' \in Nat \ {0}
<1>1. CASE done = Keywords
  BY <1>1 DEF SpawnWorker
<1>2. CASE done # Keywords
  <2>1. nextWorker \in Workers /\ nextWorker + 1 \in Nat \ {0}
    BY <1>2, WorkerWithinBound DEF SpawnWorker
  <2>2. [R EXCEPT !.worker = nextWorker, !.wake = 0] \in Runtimes
    BY <2>1 DEF Runtimes
  <2>3. [NoWorker EXCEPT !.task = t, !.dev = R.dev, !.round = R.round,
                         !.todo = Keywords \ done, !.phase = "scan"] \in WorkerStates
    BY DEF NoWorker, WorkerStates, Runtimes
  <2> QED BY <1>2, <2>1, <2>2, <2>3 DEF SpawnWorker
<1> QED BY <1>1, <1>2

LEMMA StartRunType ==
  ASSUME nextRun \in Nat \ {0}, NEW t \in Tasks, NEW L \in [RunIds -> RunRows], StartRun(t, L)
  PROVE  runs' \in [RunIds -> RunRows] /\ nextRun' \in Nat \ {0}
<1>1. [task |-> t, st |-> "running"] \in RunRows
  BY DEF RunRows
<1> QED BY <1>1, RunWithinBound DEF StartRun

CleanTypes(c) ==
  /\ c.wakeups \subseteq Tasks \X (Nat \ {0}) /\ c.wk \in [Workers -> WorkerStates]
  /\ c.rounds \in [RoundIds -> RoundRows] /\ c.runs \in [RunIds -> RunRows]

LEMMA KeptType == ASSUME TypeOK PROVE CleanTypes(Kept)
BY DEF CleanTypes, Kept, TypeOK

LEMMA CleanedType == ASSUME TypeOK, NEW t \in Tasks PROVE CleanTypes(Cleaned(t))
<1>1. Cleaned(t).wakeups \subseteq Tasks \X (Nat \ {0})
  BY CompactIsSubset DEF Cleaned, TypeOK
<1>2. Cleaned(t).wk \in [Workers -> WorkerStates]
  BY CancelWorkersType DEF Cleaned, TypeOK
<1>3. Cleaned(t).rounds \in [RoundIds -> RoundRows]
  BY FinishRoundsType DEF Cleaned, TypeOK
<1>4. Cleaned(t).runs \in [RunIds -> RunRows]
  BY FinishRunsType DEF Cleaned, TypeOK
<1> QED BY <1>1, <1>2, <1>3, <1>4 DEF CleanTypes

LEMMA LaunchType ==
  ASSUME TypeOK, NEW t \in Tasks, NEW d \in Devices, NEW r \in RoundIds, NEW done \in SUBSET Keywords,
         NEW waits \in BOOLEAN, NEW c, CleanTypes(c), Launch(t, d, r, done, waits, c)
  PROVE  /\ RuntimeTypes' /\ row' \in [Tasks -> StateRows]
         /\ runs' \in [RunIds -> RunRows] /\ nextRun' \in Nat \ {0}
<1> DEFINE R == [round |-> r, run |-> nextRun, dev |-> d, worker |-> 0, wake |-> 0]
<1> USE DEF TypeOK
<1>1. runs' \in [RunIds -> RunRows] /\ nextRun' \in Nat \ {0}
  BY StartRunType DEF Launch, CleanTypes
<1>2. R \in Runtimes
  BY RunWithinBound DEF Launch, StartRun, Runtimes
<1>3. row' \in [Tasks -> StateRows]
  BY ExecutingRowType DEF Launch
<1>4. CASE waits
  <2>1. Schedule(t, R, c.wakeups) /\ wk' = c.wk /\ UNCHANGED nextWorker
    BY <1>4 DEF Launch
  <2>2. rt' \in [Tasks -> Runtimes] /\ wakeups' \subseteq Tasks \X (Nat \ {0}) /\ nextWakeup' \in Nat \ {0}
    <3>1. c.wakeups \in SUBSET (Tasks \X (Nat \ {0}))
      BY DEF CleanTypes
    <3> QED BY <1>2, <2>1, <3>1, ScheduleType
  <2> QED BY <1>1, <1>3, <2>1, <2>2 DEF CleanTypes, RuntimeTypes
<1>5. CASE ~waits
  <2>1. SpawnWorker(t, R, done, c.wk) /\ wakeups' = c.wakeups /\ UNCHANGED nextWakeup
    BY <1>5 DEF Launch
  <2>2. rt' \in [Tasks -> Runtimes] /\ wk' \in [Workers -> WorkerStates] /\ nextWorker' \in Nat \ {0}
    <3>1. c.wk \in [Workers -> WorkerStates]
      BY DEF CleanTypes
    <3> QED BY <1>2, <2>1, <3>1, SpawnWorkerType
  <2> QED BY <1>1, <1>3, <2>1, <2>2 DEF CleanTypes, RuntimeTypes
<1> QED BY <1>1, <1>3, <1>4, <1>5

LEMMA PauseAllType ==
  ASSUME TypeOK, NEW S \in SUBSET Tasks, PauseAll(S)
  PROVE  TaskTypes' /\ RuntimeTypes' /\ StoreTypes' /\ LedgerTypes'
<1>1. TaskTypes'
  BY DEF PauseAll, TypeOK, TaskTypes, Statuses
<1>2. RuntimeTypes'
  BY CancelWorkersType, NoRuntimeType DEF PauseAll, TypeOK, RuntimeTypes, wakeVars
<1>3. StoreTypes'
  <2>1. \A t \in Tasks : [status |-> "paused", dev |-> None, round |-> rt[t].round,
                          wait |-> SavedWait(t)] \in StateRows
    BY DEF TypeOK, Runtimes, StateRows, Statuses, SavedWait
  <2> QED BY <2>1 DEF PauseAll, TypeOK, StoreTypes
<1>4. LedgerTypes'
  BY FinishRoundsType, FinishRunsType DEF PauseAll, TypeOK, LedgerTypes
<1> QED BY <1>1, <1>2, <1>3, <1>4

LEMMA MarkErrorType ==
  ASSUME TypeOK, NEW S \in SUBSET Tasks, NEW W \in [Workers -> WorkerStates], NEW flag \in BOOLEAN,
         MarkError(S, W, flag), ok' \in [Tasks -> SUBSET Keywords]
  PROVE  TypeOK'
<1>1. TaskTypes'
  BY DEF MarkError, TypeOK, TaskTypes, Statuses, Runtimes
<1>2. RuntimeTypes'
  BY CancelWorkersType, NoRuntimeType, CompactIsSubset DEF MarkError, TypeOK, RuntimeTypes
<1>3. StoreTypes'
  <2>1. \A t \in Tasks : [status |-> "error", dev |-> rt[t].dev, round |-> rt[t].round,
                          wait |-> FALSE] \in StateRows
    BY DEF TypeOK, Runtimes, StateRows, Statuses
  <2> QED BY <2>1 DEF MarkError, TypeOK, StoreTypes
<1>4. LedgerTypes'
  BY FinishRoundsType, FinishRunsType DEF MarkError, TypeOK, LedgerTypes
<1>5. DeviceTypes'
  BY DEF MarkError, TypeOK, DeviceTypes
<1> QED BY <1>1, <1>2, <1>3, <1>4, <1>5, TypeOKPartsNext

LEMMA DropRuntimeType ==
  ASSUME TypeOK, NEW t \in Tasks, DropRuntime(t)
  PROVE  RuntimeTypes' /\ row' \in [Tasks -> StateRows] /\ LedgerTypes'
BY CleanedType, NoRuntimeType, NoRowType
   DEF DropRuntime, WithoutRuntime, CleanTypes, TypeOK, RuntimeTypes, LedgerTypes

-----------------------------------------------------------------------------
(* Each message keeps the types.                                           *)

LEMMA StartType == ASSUME TypeOK, NEW t \in Tasks, Start(t) PROVE TypeOK'
<1>1. PICK d \in Devices :
        \/ /\ flagged' = flagged \cup {d}
           /\ UNCHANGED <<taskVars, rt, wakeVars, workerVars, row, ledgerVars>>
        \/ /\ SetTask(t, "waiting", None, ok[t], FALSE)
           /\ UNCHANGED <<rt, wakeVars, workerVars, row, ledgerVars, flagged>>
        \/ /\ CanCreateRound
           /\ SetTask(t, "executing", d, ok[t], ok[t] # Keywords)
           /\ rounds' = CreateRound(rounds, t) /\ nextRound' = nextRound + 1
           /\ Launch(t, d, nextRound, ok[t], FALSE, Kept)
           /\ UNCHANGED flagged
  BY DEF Start
<1>2. UNCHANGED <<progress, table>>
  BY DEF Start
<1>3. CASE /\ flagged' = flagged \cup {d}
           /\ UNCHANGED <<taskVars, rt, wakeVars, workerVars, row, ledgerVars>>
  BY <1>2, <1>3 DEF TypeOK, taskVars, wakeVars, workerVars, ledgerVars
<1>4. CASE /\ SetTask(t, "waiting", None, ok[t], FALSE)
           /\ UNCHANGED <<rt, wakeVars, workerVars, row, ledgerVars, flagged>>
  BY <1>2, <1>4 DEF SetTask, TypeOK, Statuses, wakeVars, workerVars, ledgerVars
<1>5. CASE /\ CanCreateRound
           /\ SetTask(t, "executing", d, ok[t], ok[t] # Keywords)
           /\ rounds' = CreateRound(rounds, t) /\ nextRound' = nextRound + 1
           /\ Launch(t, d, nextRound, ok[t], FALSE, Kept)
           /\ UNCHANGED flagged
  <2>1. TaskTypes'
    BY <1>5 DEF SetTask, TypeOK, TaskTypes, Statuses
  <2>2. nextRound \in RoundIds /\ nextRound + 1 \in Nat \ {0} /\ ok[t] \in SUBSET Keywords
    BY <1>5, RoundWithinBound DEF TypeOK
  <2>3. RuntimeTypes' /\ row' \in [Tasks -> StateRows] /\ runs' \in [RunIds -> RunRows]
        /\ nextRun' \in Nat \ {0}
    BY <1>5, <2>2, KeptType, LaunchType
  <2>4. LedgerTypes'
    BY <1>5, <2>2, <2>3, CreateRoundType DEF TypeOK, LedgerTypes
  <2> QED BY <1>2, <1>5, <2>1, <2>3, <2>4, TypeOKPartsNext DEF TypeOK, StoreTypes, DeviceTypes
<1> QED BY <1>1, <1>3, <1>4, <1>5

LEMMA KickType == ASSUME TypeOK, NEW d \in Devices, Kick(d) PROVE TypeOK'
<1>1. PICK S \in SUBSET Tasks : PauseAll(S)
  BY DEF Kick
<1>2. TaskTypes' /\ RuntimeTypes' /\ StoreTypes' /\ LedgerTypes'
  BY <1>1, PauseAllType
<1>3. DeviceTypes'
  BY DEF Kick, TypeOK, DeviceTypes
<1> QED BY <1>2, <1>3, TypeOKPartsNext

LEMMA ResumeType == ASSUME TypeOK, NEW t \in Tasks, Resume(t) PROVE TypeOK'
<1> DEFINE r == IF row[t].round = 0 THEN nextRound ELSE row[t].round
           opened == /\ TRUE \in RoundOutcomes
                     /\ IF row[t].round = 0
                        THEN /\ CanCreateRound
                             /\ rounds' = CreateRound(rounds, t) /\ nextRound' = nextRound + 1
                        ELSE /\ rounds' = FinishRounds(rounds, {r}, "running")
                             /\ UNCHANGED nextRound
<1>1. PICK d \in Devices, waits \in BOOLEAN :
        /\ SetTask(t, "executing", d, ok[t], ~waits /\ ok[t] # Keywords)
        /\ \/ UNCHANGED <<rt, wakeVars, workerVars, row, ledgerVars>>
           \/ opened /\ Launch(t, d, r, ok[t], waits, Kept)
  BY DEF Resume
<1>2. UNCHANGED <<progress, table, flagged>>
  BY DEF Resume, deviceVars
<1>3. TaskTypes'
  <2>1. SetTask(t, "executing", d, ok[t], ~waits /\ ok[t] # Keywords)
    BY <1>1
  <2> HIDE DEF opened
  <2> QED BY <2>1 DEF SetTask, TypeOK, TaskTypes, Statuses
<1>4. CASE UNCHANGED <<rt, wakeVars, workerVars, row, ledgerVars>>
  BY <1>2, <1>3, <1>4, TypeOKPartsNext
     DEF TypeOK, RuntimeTypes, StoreTypes, LedgerTypes, DeviceTypes, wakeVars, workerVars, ledgerVars
<1>5. CASE opened /\ Launch(t, d, r, ok[t], waits, Kept)
  <2>1. r \in RoundIds /\ ok[t] \in SUBSET Keywords
    BY <1>5, RoundWithinBound DEF TypeOK, StateRows
  <2>2. rounds' \in [RoundIds -> RoundRows] /\ nextRound' \in Nat \ {0}
    BY <1>5, RoundWithinBound, CreateRoundType, FinishRoundsType DEF TypeOK
  <2>3. Launch(t, d, r, ok[t], waits, Kept)
    BY <1>5
  <2> HIDE DEF r, opened
  <2>4. RuntimeTypes' /\ row' \in [Tasks -> StateRows] /\ runs' \in [RunIds -> RunRows]
        /\ nextRun' \in Nat \ {0}
    BY <2>1, <2>3, KeptType, LaunchType
  <2> QED BY <1>2, <1>3, <2>2, <2>4, TypeOKPartsNext DEF TypeOK, StoreTypes, LedgerTypes, DeviceTypes
<1> QED BY <1>1, <1>4, <1>5

LEMMA ClearSyncedType ==
  ASSUME TypeOK, NEW S, ClearSynced(S) PROVE progress' \subseteq Tasks \X Keywords \X RoundIds
BY DEF ClearSynced, TypeOK

LEMMA StopType == ASSUME TypeOK, NEW t \in Tasks, Stop(t) PROVE TypeOK'
<1>1. RuntimeTypes' /\ row' \in [Tasks -> StateRows] /\ LedgerTypes'
  BY DropRuntimeType DEF Stop
<1>2. progress' \subseteq Tasks \X Keywords \X RoundIds
  BY ClearSyncedType DEF Stop
<1>3. TaskTypes' /\ DeviceTypes'
  BY DEF Stop, SetTask, TypeOK, TaskTypes, DeviceTypes, Statuses, deviceVars
<1> QED BY <1>1, <1>2, <1>3, TypeOKPartsNext DEF StoreTypes

LEMMA RetryType == ASSUME TypeOK, NEW t \in Tasks, Retry(t) PROVE TypeOK'
<1>1. progress' \subseteq Tasks \X Keywords \X RoundIds /\ DeviceTypes'
  BY ClearSyncedType DEF Retry, TypeOK, DeviceTypes, deviceVars
<1>2. CASE DropRuntime(t) /\ UNCHANGED taskVars
  <2>1. TaskTypes'
    BY <1>2 DEF TypeOK, TaskTypes, taskVars
  <2> QED BY <1>1, <1>2, <2>1, DropRuntimeType, TypeOKPartsNext DEF StoreTypes
<1>3. ASSUME NEW d \in Devices, SetTask(t, "executing", d, {}, TRUE) PROVE TaskTypes'
  BY <1>3 DEF SetTask, TypeOK, TaskTypes, Statuses
<1>4. ASSUME NEW d \in Devices, SetTask(t, "executing", d, {}, TRUE), DropRuntime(t) PROVE TypeOK'
  BY <1>1, <1>3, <1>4, DropRuntimeType, TypeOKPartsNext DEF StoreTypes
<1>5. ASSUME NEW d \in Devices, SetTask(t, "executing", d, {}, TRUE), CanCreateRound,
             rounds' = CreateRound(Cleaned(t).rounds, t), nextRound' = nextRound + 1,
             Launch(t, d, nextRound, {}, FALSE, Cleaned(t))
      PROVE  TypeOK'
  <2>1. nextRound \in RoundIds /\ nextRound + 1 \in Nat \ {0}
    BY <1>5, RoundWithinBound DEF TypeOK
  <2>2. RuntimeTypes' /\ row' \in [Tasks -> StateRows] /\ runs' \in [RunIds -> RunRows]
        /\ nextRun' \in Nat \ {0}
    BY <1>5, <2>1, CleanedType, LaunchType
  <2>3. LedgerTypes'
    BY <1>5, <2>1, <2>2, CleanedType, CreateRoundType DEF CleanTypes, LedgerTypes
  <2> QED BY <1>1, <1>3, <1>5, <2>2, <2>3, TypeOKPartsNext DEF StoreTypes
<1> QED BY <1>2, <1>4, <1>5 DEF Retry

LEMMA ReleaseOfflineType == ASSUME TypeOK, NEW online, ReleaseOffline(online) PROVE TypeOK'
<1>1. PICK S \in SUBSET Tasks : MarkError(S, wk, FALSE)
  BY DEF ReleaseOffline
<1>2. ok' \in [Tasks -> SUBSET Keywords] /\ wk \in [Workers -> WorkerStates]
  BY DEF ReleaseOffline, TypeOK
<1> QED BY <1>1, <1>2, MarkErrorType

LEMMA ReloadType == ASSUME TypeOK, Reload PROVE TypeOK'
<1> DEFINE done(t) == IF status[t] = "absent" THEN {} ELSE RestoredOk(t, row[t], progress)
<1>1. \A t \in Tasks : done(t) \in SUBSET Keywords
  BY RestoredOkType
<1>2. \A t \in Tasks : RestoredStatus(row[t], done(t)) \in Statuses
  BY RestoredStatusType DEF TypeOK
<1>3. \A t \in Tasks : RestoredDev(row[t]) \in Devices \cup {None}
  BY RestoredDevType DEF TypeOK
<1>4. ok' = [t \in Tasks |-> done(t)]
  BY DEF Reload
<1>5. status' = [t \in Tasks |-> IF Running(t) \/ status[t] = "absent" THEN status[t]
                                 ELSE RestoredStatus(row[t], done(t))]
  BY DEF Reload
<1>6. dev' = [t \in Tasks |-> IF Running(t) \/ status[t] = "absent" THEN dev[t]
                              ELSE RestoredDev(row[t])]
  BY DEF Reload
<1>7. mark' = [t \in Tasks |-> Running(t) /\ status[t] = "executing" /\ done(t) # Keywords]
  BY DEF Reload
<1> HIDE DEF done
<1>8. TaskTypes'
  BY <1>1, <1>2, <1>3, <1>4, <1>5, <1>6, <1>7 DEF TypeOK, TaskTypes
<1> QED BY <1>8, TypeOKPartsNext
        DEF Reload, TypeOK, RuntimeTypes, StoreTypes, LedgerTypes, DeviceTypes, wakeVars, workerVars,
            ledgerVars, deviceVars

LEMMA ReloadTaskType == ASSUME TypeOK, NEW t \in Tasks, ReloadTask(t) PROVE TypeOK'
<1>1. TaskTypes' /\ StoreTypes'
  <2>1. CASE /\ mark' = [mark EXCEPT ![t] = status[t] = "executing" /\ ok[t] # Keywords]
             /\ UNCHANGED <<status, dev, ok, row, progress>>
    BY <2>1 DEF TypeOK, TaskTypes, StoreTypes
  <2>2. CASE /\ ClearSynced({t}) /\ row' = [row EXCEPT ![t] = NoRow]
             /\ SetTask(t, "waiting", None, {}, FALSE)
    BY <2>2, ClearSyncedType, NoRowType DEF SetTask, TypeOK, TaskTypes, StoreTypes, Statuses
  <2>3. CASE /\ LET done == RestoredOk(t, row[t], progress)
                IN  SetTask(t, RestoredStatus(row[t], done), RestoredDev(row[t]), done, FALSE)
             /\ UNCHANGED <<row, progress>>
    <3>1. row[t] \in StateRows
      BY DEF TypeOK
    <3> QED BY <2>3, <3>1, RestoredOkType, RestoredStatusType, RestoredDevType
            DEF SetTask, TypeOK, TaskTypes, StoreTypes
  <2> QED BY <2>1, <2>2, <2>3 DEF ReloadTask
<1> QED BY <1>1, TypeOKPartsNext
        DEF ReloadTask, TypeOK, RuntimeTypes, LedgerTypes, DeviceTypes, wakeVars, workerVars,
            ledgerVars, deviceVars

LEMMA ForgetType == ASSUME TypeOK, NEW S \in SUBSET Tasks, Forget(S) PROVE TypeOK'
<1>1. TaskTypes' /\ StoreTypes'
  BY NoRowType DEF Forget, TypeOK, TaskTypes, StoreTypes, Statuses
<1>2. RuntimeTypes'
  BY CancelWorkersType, NoRuntimeType, CompactIsSubset DEF Forget, TypeOK, RuntimeTypes
<1>3. LedgerTypes' /\ DeviceTypes'
  BY FinishRoundsType, FinishRunsType DEF Forget, TypeOK, LedgerTypes, DeviceTypes, deviceVars
<1> QED BY <1>1, <1>2, <1>3, TypeOKPartsNext

LEMMA WakeupType == ASSUME TypeOK, RuntimeLeased, NEW w \in wakeups, Wakeup(w[1], w[2]) PROVE TypeOK'
<1> DEFINE t == w[1]
<1>1. t \in Tasks
  BY DEF TypeOK
<1>2. wakeups' \subseteq Tasks \X (Nat \ {0})
  BY CompactIsSubset DEF Wakeup, TypeOK
<1>3. UNCHANGED <<status, dev, ok, nextWakeup, progress, rounds, nextRound, table, flagged>>
  BY DEF Wakeup, deviceVars
<1>4. CASE UNCHANGED <<mark, rt, workerVars, row, runs, nextRun>>
  BY <1>2, <1>3, <1>4 DEF TypeOK, workerVars
<1>5. CASE /\ IF status[t] = "executing" /\ AllPending(t)
              THEN mark' = [mark EXCEPT ![t] = TRUE] /\ StartRun(t, runs)
              ELSE UNCHANGED <<mark, runs, nextRun>>
           /\ SpawnWorker(t, rt[t], ok[t], wk)
           /\ row' = [row EXCEPT ![t] = [ExecutingRow(dev[t], rt[t].round) EXCEPT !.status = status[t]]]
           /\ Running(t)
  <2>1. mark' \in [Tasks -> BOOLEAN] /\ runs' \in [RunIds -> RunRows] /\ nextRun' \in Nat \ {0}
    BY <1>1, <1>5, StartRunType DEF TypeOK
  <2>2. rt' \in [Tasks -> Runtimes] /\ wk' \in [Workers -> WorkerStates] /\ nextWorker' \in Nat \ {0}
    BY <1>1, <1>5, SpawnWorkerType DEF TypeOK
  <2>3. row' \in [Tasks -> StateRows]
    <3>1. [ExecutingRow(dev[t], rt[t].round) EXCEPT !.status = status[t]] \in StateRows
      <4>1. status[t] = "executing"
        BY <1>1, <1>5 DEF RuntimeLeased
      <4> QED BY <1>1, <4>1 DEF TypeOK, ExecutingRow, StateRows, Runtimes, Statuses
    <3> QED BY <1>1, <1>5, <3>1 DEF TypeOK
  <2> QED BY <1>2, <1>3, <2>1, <2>2, <2>3 DEF TypeOK
<1> QED BY <1>4, <1>5 DEF Wakeup

LEMMA WorkerType == ASSUME TypeOK, WorkerAssigned, NEW s \in Workers, Worker(s) PROVE TypeOK'
<1>1. UNCHANGED <<taskVars, rt, wakeVars, nextWorker, row, ledgerVars, deviceVars>>
  BY DEF Worker, WorkerKeyword, WorkerEnds, WorkerCancelled
<1>2. wk[s] \in WorkerStates /\ wk[s].task \in Tasks /\ wk[s].round \in RoundIds
  <2>1. wk[s].phase = "scan"
    BY DEF Worker, WorkerKeyword, WorkerEnds, WorkerCancelled
  <2>2. wk[s] # NoWorker
    BY <2>1 DEF NoWorker
  <2> QED BY <2>2 DEF TypeOK, WorkerAssigned
<1>3. wk' \in [Workers -> WorkerStates] /\ progress' \subseteq Tasks \X Keywords \X RoundIds
  <2>1. ASSUME NEW k \in Keywords, WorkerKeyword(s, k) 
      PROVE  wk' \in [Workers -> WorkerStates] /\ progress' \subseteq Tasks \X Keywords \X RoundIds
    <3>1. wk' = [wk EXCEPT ![s].todo = @ \ {k}, ![s].done = @ \cup {k}, ![s].unread = @ \cup {k}]
      BY <2>1 DEF WorkerKeyword
    <3>2. wk' \in [Workers -> WorkerStates]
      BY <1>2, <3>1 DEF TypeOK, WorkerStates
    <3> QED BY <1>2, <2>1, <3>2 DEF WorkerKeyword, TypeOK
  <2>2. CASE WorkerEnds(s)
    <3>1. PICK outcome \in Outcomes : wk' = [wk EXCEPT ![s].phase = outcome]
      BY <2>2 DEF WorkerEnds, Outcomes
    <3>2. wk' \in [Workers -> WorkerStates]
      BY <1>2, <3>1 DEF TypeOK, WorkerStates
    <3> QED BY <2>2, <3>2 DEF WorkerEnds, TypeOK
  <2>3. CASE WorkerCancelled(s)
    <3>1. wk' \in [Workers -> WorkerStates]
      BY <1>2, <2>3 DEF WorkerCancelled, TypeOK, WorkerStates, Outcomes
    <3>2. PICK late \in SUBSET Keywords :
            progress' = progress \cup {<<wk[s].task, k, wk[s].round>> : k \in late}
      BY <1>2, <2>3 DEF WorkerCancelled, WorkerStates
    <3> QED BY <1>2, <3>1, <3>2 DEF TypeOK
  <2> QED BY <2>1, <2>2, <2>3 DEF Worker
<1> QED BY <1>1, <1>3 DEF TypeOK, taskVars, wakeVars, ledgerVars, deviceVars

LEMMA HandleKeywordDoneType ==
  ASSUME TypeOK, NEW s \in Workers, NEW k \in Keywords, HandleKeywordDone(s, k) PROVE TypeOK'
<1>1. UNCHANGED <<status, dev, mark, rt, wakeVars, nextWorker, row, progress, ledgerVars, deviceVars>>
  BY DEF HandleKeywordDone
<1>2. wk' \in [Workers -> WorkerStates]
  <2>1. wk' = [wk EXCEPT ![s] = [wk[s] EXCEPT !.unread = wk[s].unread \ {k}]]
    BY DEF HandleKeywordDone
  <2>2. wk \in [Workers -> WorkerStates] /\ wk[s] \in WorkerStates
    BY DEF TypeOK
  <2>3. [wk[s] EXCEPT !.unread = wk[s].unread \ {k}] \in WorkerStates
    BY <2>2 DEF WorkerStates
  <2> QED BY <2>1, <2>2, <2>3
<1>3. ok' \in [Tasks -> SUBSET Keywords]
  BY DEF HandleKeywordDone, TypeOK
<1> QED BY <1>1, <1>2, <1>3 DEF TypeOK, wakeVars, ledgerVars, deviceVars

LEMMA HandleResultType ==
  ASSUME TypeOK, WorkerAssigned, NEW s \in Workers, HandleResult(s) PROVE TypeOK'
<1> DEFINE t == wk[s].task
           W == [wk EXCEPT ![s] = NoWorker]
           done == ok[t] \cup wk[s].done
<1>1. t \in Tasks
  <2>1. wk[s] # NoWorker
    BY DEF HandleResult, NoWorker, Outcomes
  <2> QED BY <2>1 DEF WorkerAssigned
<1>2. W \in [Workers -> WorkerStates]
  BY NoWorkerType DEF TypeOK
<1>3. done \in SUBSET Keywords
  BY <1>1 DEF TypeOK, WorkerStates
<1>4. UNCHANGED <<nextWorker, progress, nextRun, table>>
  BY DEF HandleResult
<1>5. \/ /\ wk' = W /\ rt' = [rt EXCEPT ![t].worker = IF @ = s THEN 0 ELSE @]
         /\ UNCHANGED <<taskVars, wakeVars, row, rounds, runs, nextRound, flagged>>
      \/ \E keep \in {ok[t], done, {}} : MarkError({t}, W, TRUE) /\ ok' = [ok EXCEPT ![t] = keep]
      \/ wk' = W /\ Reschedule(t, done)
      \/ wk' = W /\ Succeed(t)
      \/ wk' = W /\ NextIntervalRound(t)
  BY DEF HandleResult
<1> HIDE DEF t, W, done
<1>6. CASE /\ wk' = W /\ rt' = [rt EXCEPT ![t].worker = IF @ = s THEN 0 ELSE @]
           /\ UNCHANGED <<taskVars, wakeVars, row, rounds, runs, nextRound, flagged>>
  <2>1. rt' \in [Tasks -> Runtimes]
    <3>1. [rt[t] EXCEPT !.worker = IF @ = s THEN 0 ELSE @] \in Runtimes
      BY <1>1 DEF TypeOK, Runtimes
    <3> QED BY <1>1, <1>6, <3>1 DEF TypeOK
  <2> QED BY <1>2, <1>4, <1>6, <2>1 DEF TypeOK, taskVars, wakeVars
<1>7. ASSUME NEW keep \in {ok[t], done, {}}, MarkError({t}, W, TRUE), ok' = [ok EXCEPT ![t] = keep]
      PROVE  TypeOK'
  <2>1. ok' \in [Tasks -> SUBSET Keywords]
    BY <1>1, <1>3, <1>7 DEF TypeOK
  <2> QED BY <1>1, <1>2, <1>7, <2>1, MarkErrorType
<1>8. CASE wk' = W /\ Reschedule(t, done)
  <2>1. TaskTypes'
    BY <1>1, <1>3, <1>8 DEF Reschedule, SetTask, TypeOK, TaskTypes
  <2>2. [rt[t] EXCEPT !.worker = 0] \in Runtimes /\ wakeups \in SUBSET (Tasks \X (Nat \ {0}))
    BY <1>1 DEF TypeOK, Runtimes
  <2>3. RuntimeTypes'
    BY <1>1, <1>2, <1>4, <1>8, <2>2, ScheduleType DEF Reschedule, TypeOK, RuntimeTypes
  <2>4. row' \in [Tasks -> StateRows]
    BY <1>1, <1>8, ExecutingRowType DEF Reschedule, TypeOK, Runtimes
  <2> QED BY <1>4, <1>8, <2>1, <2>3, <2>4, TypeOKPartsNext
          DEF Reschedule, TypeOK, StoreTypes, LedgerTypes, DeviceTypes
<1>9. CASE wk' = W /\ Succeed(t)
  <2>1. TaskTypes'
    BY <1>1, <1>9 DEF Succeed, SetTask, TypeOK, TaskTypes, Statuses
  <2>2. RuntimeTypes'
    BY <1>2, <1>4, <1>9, NoRuntimeType DEF Succeed, WithoutRuntime, TypeOK, RuntimeTypes, wakeVars
  <2>3. [NoRow EXCEPT !.status = "success"] \in StateRows
    BY DEF NoRow, StateRows, Statuses
  <2>4. rounds' \in [RoundIds -> RoundRows] /\ runs' \in [RunIds -> RunRows]
    BY <1>9, FinishRoundsType, FinishRunsType DEF Succeed, TypeOK
  <2> QED BY <1>4, <1>9, <2>1, <2>2, <2>3, <2>4, TypeOKPartsNext
          DEF Succeed, TypeOK, StoreTypes, LedgerTypes, DeviceTypes
<1>10. CASE wk' = W /\ NextIntervalRound(t)
  <2>1. nextRound \in RoundIds /\ nextRound + 1 \in Nat \ {0}
    BY <1>10, RoundWithinBound DEF NextIntervalRound, TypeOK
  <2>2. TaskTypes'
    BY <1>1, <1>10 DEF NextIntervalRound, SetTask, TypeOK, TaskTypes
  <2>3. [rt[t] EXCEPT !.round = nextRound, !.worker = 0] \in Runtimes
        /\ wakeups \in SUBSET (Tasks \X (Nat \ {0}))
    BY <1>1, <2>1 DEF TypeOK, Runtimes
  <2>4. RuntimeTypes'
    BY <1>1, <1>2, <1>4, <1>10, <2>3, ScheduleType DEF NextIntervalRound, TypeOK, RuntimeTypes
  <2>5. row' \in [Tasks -> StateRows]
    BY <1>1, <1>10, <2>1, ExecutingRowType DEF NextIntervalRound, TypeOK
  <2>6. FinishRounds(rounds, {rt[t].round}, "completed") \in [RoundIds -> RoundRows]
    BY FinishRoundsType DEF TypeOK
  <2>7. rounds' \in [RoundIds -> RoundRows] /\ runs' \in [RunIds -> RunRows]
    BY <1>1, <1>10, <2>6, CreateRoundType, FinishRunsType DEF NextIntervalRound, TypeOK
  <2> QED BY <1>4, <1>10, <2>1, <2>2, <2>4, <2>5, <2>7, TypeOKPartsNext
          DEF NextIntervalRound, TypeOK, StoreTypes, LedgerTypes, DeviceTypes
<1> QED BY <1>5, <1>6, <1>7, <1>8, <1>9, <1>10

LEMMA OutsideType == ASSUME TypeOK, Outside PROVE TypeOK'
<1>1. ASSUME NEW d \in Devices, DeviceUp(d) \/ DeviceDown(d) PROVE TypeOK'
  BY <1>1 DEF DeviceUp, DeviceDown, TypeOK, taskVars, wakeVars, workerVars, ledgerVars
<1>2. ASSUME NEW newDay \in BOOLEAN, Restart(newDay) PROVE TypeOK'
  <2>1. row' \in [Tasks -> StateRows]
    <3> DEFINE stale(t) == [row[t] EXCEPT !.status = "paused", !.dev = None]
               reset == [NoRow EXCEPT !.status = "waiting"]
    <3>1. reset \in StateRows /\ \A t \in Tasks : row[t] \in StateRows /\ stale(t) \in StateRows
      <4>1. reset \in StateRows
        BY DEF NoRow, StateRows, Statuses
      <4>2. ASSUME NEW t \in Tasks PROVE row[t] \in StateRows /\ stale(t) \in StateRows
        <5>1. row[t] \in StateRows
          BY DEF TypeOK
        <5> QED BY <5>1 DEF StateRows, Statuses
      <4> QED BY <4>1, <4>2
    <3>2. row' = [t \in Tasks |-> IF newDay THEN IF row[t].status = "none" THEN NoRow ELSE reset
                                 ELSE IF row[t].status = "executing" THEN stale(t) ELSE row[t]]
      BY <1>2 DEF Restart
    <3> HIDE DEF stale, reset
    <3> QED BY <3>1, <3>2, NoRowType
  <2>2. progress' \subseteq Tasks \X Keywords \X RoundIds
    BY <1>2, ClearSyncedType DEF Restart, TypeOK
  <2>3. TaskTypes'
    <3> DEFINE done(t) == RestoredOk(t, row'[t], progress')
    <3>1. \A t \in Tasks : done(t) \in SUBSET Keywords
      BY RestoredOkType
    <3>2. \A t \in Tasks : RestoredStatus(row'[t], done(t)) \in Statuses
      BY <2>1, RestoredStatusType
    <3>3. \A t \in Tasks : RestoredDev(row'[t]) \in Devices \cup {None}
      BY <2>1, RestoredDevType
    <3>4. /\ ok' = [t \in Tasks |-> IF status[t] # "absent" THEN done(t) ELSE {}]
          /\ status' = [t \in Tasks |-> IF status[t] # "absent"
                                        THEN RestoredStatus(row'[t], done(t)) ELSE "absent"]
          /\ dev' = [t \in Tasks |-> IF status[t] # "absent" THEN RestoredDev(row'[t]) ELSE None]
          /\ mark' = [t \in Tasks |-> FALSE]
      BY <1>2 DEF Restart
    <3> HIDE DEF done
    <3> QED BY <3>1, <3>2, <3>3, <3>4 DEF TaskTypes, Statuses
  <2>4. RuntimeTypes'
    <3>1. /\ rt' = [t \in Tasks |-> NoRuntime] /\ wk' = [s \in Workers |-> NoWorker]
          /\ wakeups' = {} /\ nextWakeup' = 1 /\ nextWorker' = 1
      BY <1>2 DEF Restart
    <3> QED BY <3>1, NoRuntimeType, NoWorkerType DEF RuntimeTypes
  <2>5. LedgerTypes'
    <3>1. PICK I, J :
            /\ rounds' = FinishRounds(rounds, I, "stopped") \/ UNCHANGED rounds
            /\ runs' = FinishRuns(runs, J, "stopped")
            /\ UNCHANGED <<nextRound, nextRun>>
      BY <1>2 DEF Restart
    <3> QED BY <3>1, FinishRoundsType, FinishRunsType DEF TypeOK, LedgerTypes
  <2>6. DeviceTypes'
    <3>1. /\ flagged' = {} \/ UNCHANGED flagged
          /\ \/ table' = [d \in Devices |-> "absent"]
             \/ table' = [d \in Devices |-> IF table[d] = "absent" THEN "absent" ELSE "offline"]
      BY <1>2 DEF Restart
    <3> QED BY <3>1 DEF TypeOK, DeviceTypes
  <2> QED BY <2>1, <2>2, <2>3, <2>4, <2>5, <2>6, TypeOKPartsNext DEF StoreTypes
<1> QED BY <1>1, <1>2 DEF Outside

LEMMA CommandType == ASSUME TypeOK, Command PROVE TypeOK'
<1>1. ASSUME NEW t \in Tasks, Pause(t) PROVE TypeOK'
  BY <1>1, PauseAllType, TypeOKPartsNext DEF Pause, TypeOK, DeviceTypes, deviceVars
<1>2. ASSUME NEW S \in SUBSET Tasks, PausePhones(S) PROVE TypeOK'
  <2>1. PICK P \in SUBSET Tasks : PauseAll(P)
    BY <1>2 DEF PausePhones
  <2> QED BY <1>2, <2>1, PauseAllType, TypeOKPartsNext DEF PausePhones, TypeOK, DeviceTypes, deviceVars
<1>3. ASSUME NEW t \in Tasks, ClearDevice(t) PROVE TypeOK'
  BY <1>3 DEF ClearDevice, TypeOK, NoRow, StateRows, Statuses, wakeVars, workerVars, ledgerVars, deviceVars
<1>4. ASSUME NEW d \in Devices, Flag(d) \/ Unflag(d) PROVE TypeOK'
  BY <1>4 DEF Flag, Unflag, TypeOK, taskVars, wakeVars, workerVars, ledgerVars
<1> QED BY <1>1, <1>2, <1>3, <1>4, StartType, ResumeType, StopType, RetryType, ReloadTaskType,
           ForgetType, ReleaseOfflineType, KickType, ReloadType DEF Command

LEMMA TypeNext == ASSUME TypeOK, RuntimeLeased, WorkerAssigned, [Next]_vars PROVE TypeOK'
<1>1. CASE UNCHANGED vars
  BY <1>1 DEF TypeOK, vars, taskVars, wakeVars, workerVars, ledgerVars, deviceVars
<1> QED BY <1>1, CommandType, OutsideType, WakeupType, WorkerType, HandleResultType, HandleKeywordDoneType
        DEF Next, Report
=============================================================================
