------------------------ MODULE TaskEngineLeaseProofs ------------------------
(***************************************************************************)
(* The exclusive use of devices, for every number of tasks, devices,       *)
(* keywords and workers: no device is leased to two executing tasks, no    *)
(* phone is driven by two workers, late reports of cancelled workers       *)
(* change nothing, and the engine implements DeviceLease.  The inductive   *)
(* invariant is LeaseInv of TaskEngine.                                    *)
(***************************************************************************)
EXTENDS TaskEngineProofs

-----------------------------------------------------------------------------
(* Workers and the runtimes that wait for them, for any runtimes R and     *)
(* workers W: the handlers build the next ones in a few ways.              *)

Live(w)   == w.phase = "scan" /\ ~w.cancelled
Active(w) == w.phase \notin {"idle", "cancelled"} /\ ~w.cancelled

Assigned(W, n) ==
  \A s \in Workers :
    \/ W[s] = NoWorker
    \/ /\ W[s].phase # "idle" /\ s < n
       /\ W[s].task \in Tasks /\ W[s].dev \in Devices /\ W[s].round \in RoundIds

Owned(R, W) ==
  /\ \A s \in Workers : Live(W[s]) => R[W[s].task].worker = s
  /\ \A t \in Tasks : R[t].worker # 0 =>
       /\ W[R[t].worker].task = t
       /\ W[R[t].worker].dev = R[t].dev /\ W[R[t].worker].round = R[t].round
       /\ Active(W[R[t].worker])

Without(R, S) == [t \in Tasks |-> IF t \in S THEN NoRuntime ELSE R[t]]

LEMMA OwnedIsInvariantPart ==
  /\ WorkerAssigned <=> Assigned(wk, nextWorker)
  /\ WorkerAssigned' <=> Assigned(wk', nextWorker')
  /\ TypeOK => (LiveWorkerOwned /\ ActiveWorkerReports <=> Owned(rt, wk))
  /\ TypeOK' => (LiveWorkerOwned' /\ ActiveWorkerReports' <=> Owned(rt', wk'))
BY DEF WorkerAssigned, Assigned, LiveWorkerOwned, LiveWorkers, ActiveWorkerReports, Owned, Live, Active

\* An idle worker is not live, and a live one has a task.
LEMMA LiveHasTask ==
  ASSUME NEW W, NEW n, Assigned(W, n), NEW s \in Workers, Live(W[s]) PROVE W[s].task \in Tasks
BY DEF Assigned, Live, NoWorker

LEMMA WorkerIndex ==
  ASSUME NEW R \in [Tasks -> Runtimes], NEW t \in Tasks, R[t].worker # 0
  PROVE  R[t].worker \in Workers
BY DEF Runtimes

\* Runtimes dropped with their workers cancelled.
LEMMA DropOwned ==
  ASSUME NEW R \in [Tasks -> Runtimes], NEW W \in [Workers -> WorkerStates], NEW n,
         Assigned(W, n), Owned(R, W), NEW S \in SUBSET Tasks
  PROVE  Owned(Without(R, S), CancelWorkers(W, {R[t].worker : t \in S}))
<1> DEFINE C == {R[t].worker : t \in S}
<1>1. ASSUME NEW s \in Workers, Live(CancelWorkers(W, C)[s])
      PROVE  Without(R, S)[CancelWorkers(W, C)[s].task].worker = s
  <2>1. Live(W[s]) /\ s \notin C /\ CancelWorkers(W, C)[s] = W[s]
    <3> HIDE DEF C
    <3> QED BY <1>1 DEF CancelWorkers, Live, WorkerStates
  <2>2. R[W[s].task].worker = s /\ W[s].task \in Tasks
    BY <2>1, LiveHasTask DEF Owned
  <2> QED BY <2>1, <2>2 DEF Without
<1>2. ASSUME NEW t \in Tasks, Without(R, S)[t].worker # 0
      PROVE  /\ Without(R, S)[t] = R[t] /\ R[t].worker # 0
             /\ CancelWorkers(W, C)[R[t].worker] = W[R[t].worker]
  <2>1. t \notin S /\ Without(R, S)[t] = R[t] /\ R[t].worker # 0
    BY <1>2 DEF Without, NoRuntime
  <2>2. R[t].worker \in Workers /\ W[R[t].worker].task = t
    BY <2>1, WorkerIndex DEF Owned
  <2>3. R[t].worker \notin C
    <3> SUFFICES ASSUME NEW u \in S, R[u].worker = R[t].worker PROVE FALSE
      OBVIOUS
    <3> QED BY <2>1, <2>2 DEF Owned
  <2> HIDE DEF C
  <2> QED BY <2>1, <2>2, <2>3 DEF CancelWorkers
<1> HIDE DEF C
<1>3. Owned(Without(R, S), CancelWorkers(W, C))
  BY <1>1, <1>2 DEF Owned
<1> QED BY <1>3 DEF C

LEMMA CancelAssigned ==
  ASSUME NEW W \in [Workers -> WorkerStates], NEW n, Assigned(W, n), NEW C
  PROVE  Assigned(CancelWorkers(W, C), n)
<1>1. ASSUME NEW s \in Workers
      PROVE  \/ CancelWorkers(W, C)[s] = W[s]
             \/ /\ W[s] # NoWorker
                /\ CancelWorkers(W, C)[s].phase = W[s].phase
                /\ CancelWorkers(W, C)[s].task = W[s].task
                /\ CancelWorkers(W, C)[s].dev = W[s].dev
                /\ CancelWorkers(W, C)[s].round = W[s].round
  <2>1. CASE s \in C /\ W[s].phase = "scan"
    <3>1. CancelWorkers(W, C)[s] = [W[s] EXCEPT !.cancelled = TRUE]
      BY <2>1 DEF CancelWorkers
    <3>2. W[s] # NoWorker
      BY <2>1 DEF NoWorker
    <3>3. W[s] \in WorkerStates
      OBVIOUS
    <3> QED BY <3>1, <3>2, <3>3 DEF WorkerStates
  <2>2. CASE ~(s \in C /\ W[s].phase = "scan")
    BY <2>2 DEF CancelWorkers
  <2> QED BY <2>1, <2>2
<1> QED BY <1>1 DEF Assigned

\* A runtime that has no worker is given the new worker n.
LEMMA SpawnOwned ==
  ASSUME NEW R \in [Tasks -> Runtimes], NEW W \in [Workers -> WorkerStates],
         NEW n \in Workers, Assigned(W, n), Owned(R, W), NEW t \in Tasks, R[t].worker = 0,
         NEW Q \in Runtimes, Q.worker = n,
         NEW v \in WorkerStates, v.task = t, v.dev = Q.dev, v.round = Q.round, Live(v)
  PROVE  Owned([R EXCEPT ![t] = Q], [W EXCEPT ![n] = v])
<1> DEFINE R1 == [R EXCEPT ![t] = Q]
           W1 == [W EXCEPT ![n] = v]
<1>1. W[n] = NoWorker
  BY DEF Assigned, Workers
<1>2. ASSUME NEW s \in Workers, Live(W1[s]) PROVE R1[W1[s].task].worker = s
  <2>1. CASE s = n
    BY <2>1
  <2>2. CASE s # n
    <3>1. Live(W[s]) /\ W1[s] = W[s]
      BY <1>2, <2>2
    <3>2. W[s].task \in Tasks /\ R[W[s].task].worker = s
      BY <3>1, LiveHasTask DEF Owned
    <3>3. W[s].task # t
      BY <3>2 DEF Workers
    <3> QED BY <3>1, <3>2, <3>3
  <2> QED BY <2>1, <2>2
<1>3. ASSUME NEW u \in Tasks, R1[u].worker # 0
      PROVE  /\ W1[R1[u].worker].task = u
             /\ W1[R1[u].worker].dev = R1[u].dev /\ W1[R1[u].worker].round = R1[u].round
             /\ Active(W1[R1[u].worker])
  <2>1. CASE u = t
    BY <2>1 DEF Active, Live
  <2>2. CASE u # t
    <3>1. R1[u] = R[u] /\ R[u].worker \in Workers /\ Active(W[R[u].worker])
      BY <1>3, <2>2, WorkerIndex DEF Owned
    <3>2. R[u].worker # n
      BY <1>1, <3>1 DEF Active, NoWorker
    <3> QED BY <1>3, <3>1, <3>2 DEF Owned
  <2> QED BY <2>1, <2>2
<1> QED BY <1>2, <1>3 DEF Owned

\* A runtime without a worker changes and still has none.
LEMMA RestOwned ==
  ASSUME NEW R \in [Tasks -> Runtimes], NEW W \in [Workers -> WorkerStates], NEW n,
         Assigned(W, n), Owned(R, W), NEW t \in Tasks, R[t].worker = 0,
         NEW Q, Q.worker = 0
  PROVE  Owned([R EXCEPT ![t] = Q], W)
<1>1. ASSUME NEW s \in Workers, Live(W[s]) PROVE [R EXCEPT ![t] = Q][W[s].task].worker = s
  <2>1. W[s].task \in Tasks /\ R[W[s].task].worker = s
    BY <1>1, LiveHasTask DEF Owned
  <2> QED BY <2>1 DEF Workers
<1> QED BY <1>1 DEF Owned

\* The engine has read the outcome of worker s.
LEMMA SilencedOwned ==
  ASSUME NEW R \in [Tasks -> Runtimes], NEW W \in [Workers -> WorkerStates], NEW n,
         Assigned(W, n), Owned(R, W), NEW s \in Workers, W[s].phase \in Outcomes
  PROVE  Owned([R EXCEPT ![W[s].task].worker = IF @ = s THEN 0 ELSE @], [W EXCEPT ![s] = NoWorker])
<1> DEFINE t == W[s].task
           R1 == [R EXCEPT ![t].worker = IF @ = s THEN 0 ELSE @]
           W1 == [W EXCEPT ![s] = NoWorker]
<1>0. t \in Tasks
  BY DEF Assigned, NoWorker, Outcomes
<1>1. ASSUME NEW r \in Workers, Live(W1[r]) PROVE R1[W1[r].task].worker = r
  <2>1. r # s /\ W1[r] = W[r] /\ Live(W[r])
    BY <1>1 DEF Live, NoWorker
  <2>2. W[r].task \in Tasks /\ R[W[r].task].worker = r
    BY <2>1, LiveHasTask DEF Owned
  <2> QED BY <1>0, <2>1, <2>2 DEF Runtimes
<1>2. ASSUME NEW u \in Tasks, R1[u].worker # 0
      PROVE  /\ R1[u].worker = R[u].worker /\ R1[u].dev = R[u].dev /\ R1[u].round = R[u].round
             /\ W1[R[u].worker] = W[R[u].worker]
  <2>1. R[u] \in Runtimes
    OBVIOUS
  <2>2. R1[u].dev = R[u].dev /\ R1[u].round = R[u].round
        /\ R1[u].worker = IF u = t /\ R[u].worker = s THEN 0 ELSE R[u].worker
    BY <1>0, <2>1 DEF Runtimes
  <2>3. R1[u].worker = R[u].worker /\ R[u].worker # 0
    BY <1>2, <2>2
  <2>4. W[R[u].worker].task = u /\ R[u].worker \in Workers
    BY <2>3, WorkerIndex DEF Owned
  <2>5. R[u].worker # s
    BY <1>2, <2>2, <2>4
  <2> QED BY <2>2, <2>3, <2>4, <2>5
<1> HIDE DEF R1, W1
<1>3. Owned(R1, W1)
  BY <1>1, <1>2 DEF Owned
<1> QED BY <1>3 DEF R1, W1, t

-----------------------------------------------------------------------------
(* What the handlers do to runtimes and workers.                           *)

LEMMA SpawnKeepsOwned ==
  ASSUME TypeOK, NEW t \in Tasks, NEW R \in [Tasks -> Runtimes], R[t].worker = 0,
         \A u \in Tasks : u # t => R[u] = rt[u],
         NEW W \in [Workers -> WorkerStates], Assigned(W, nextWorker), Owned(R, W),
         NEW Q \in Runtimes, Q.worker = 0, Q.dev \in Devices, Q.round \in RoundIds,
         NEW done \in SUBSET Keywords, SpawnWorker(t, Q, done, W)
  PROVE  /\ Assigned(wk', nextWorker') /\ Owned(rt', wk')
         /\ \E P \in Runtimes : rt' = [rt EXCEPT ![t] = P] /\ P.dev = Q.dev /\ P.round = Q.round
<1>1. CASE done = Keywords
  <2>1. rt' = [rt EXCEPT ![t] = Q] /\ wk' = W /\ nextWorker' = nextWorker
    BY <1>1 DEF SpawnWorker
  <2>2. [rt EXCEPT ![t] = Q] = [R EXCEPT ![t] = Q]
    BY DEF TypeOK
  <2> QED BY <2>1, <2>2, RestOwned
<1>2. CASE done # Keywords
  <2> DEFINE P == [Q EXCEPT !.worker = nextWorker, !.wake = 0]
             v == [NoWorker EXCEPT !.task = t, !.dev = Q.dev, !.round = Q.round,
                                   !.todo = Keywords \ done, !.phase = "scan"]
  <2>1. /\ nextWorker \in Workers /\ nextWorker' = nextWorker + 1
        /\ rt' = [rt EXCEPT ![t] = P] /\ wk' = [W EXCEPT ![nextWorker] = v]
    <3>1. nextWorker <= MaxWorkers /\ nextWorker \in Nat \ {0}
      BY <1>2 DEF SpawnWorker, TypeOK
    <3>2. nextWorker \in Workers
      BY <3>1, WorkerWithinBound
    <3>3. nextWorker' = nextWorker + 1
      BY <1>2 DEF SpawnWorker
    <3>4. rt' = [rt EXCEPT ![t] = P]
      BY <1>2 DEF SpawnWorker
    <3>5. wk' = [W EXCEPT ![nextWorker] = v]
      BY <1>2 DEF SpawnWorker
    <3> HIDE DEF P, v
    <3> QED BY <3>2, <3>3, <3>4, <3>5
  <2>2. P \in Runtimes /\ P.worker = nextWorker /\ P.dev = Q.dev /\ P.round = Q.round
    BY <2>1 DEF Runtimes
  <2>3. /\ v \in WorkerStates /\ v.task = t /\ v.dev = Q.dev /\ v.round = Q.round
        /\ v.phase = "scan" /\ Live(v)
    BY DEF NoWorker, WorkerStates, Runtimes, Live
  <2>4. [rt EXCEPT ![t] = P] = [R EXCEPT ![t] = P]
    BY DEF TypeOK
  <2> HIDE DEF P, v
  <2>5. Owned(rt', wk')
    <3>1. Owned([R EXCEPT ![t] = P], [W EXCEPT ![nextWorker] = v])
      BY <2>1, <2>2, <2>3, SpawnOwned
    <3> QED BY <2>1, <2>4, <3>1
  <2>6. Assigned(wk', nextWorker')
    <3> SUFFICES ASSUME NEW s \in Workers
                 PROVE  \/ wk'[s] = NoWorker
                        \/ /\ wk'[s].phase # "idle" /\ s < nextWorker'
                           /\ wk'[s].task \in Tasks /\ wk'[s].dev \in Devices
                           /\ wk'[s].round \in RoundIds
      BY DEF Assigned
    <3>1. CASE s = nextWorker
      BY <2>1, <2>3, <3>1 DEF Workers
    <3>2. CASE s # nextWorker
      BY <2>1, <3>2 DEF Assigned, Workers
    <3> QED BY <3>1, <3>2
  <2> QED BY <2>1, <2>2, <2>5, <2>6
<1> QED BY <1>1, <1>2

LEMMA ScheduleKeepsOwned ==
  ASSUME TypeOK, NEW t \in Tasks, NEW R \in [Tasks -> Runtimes], R[t].worker = 0,
         \A u \in Tasks : u # t => R[u] = rt[u],
         NEW W \in [Workers -> WorkerStates], Assigned(W, nextWorker), Owned(R, W),
         NEW Q \in Runtimes, Q.worker = 0, NEW heap, Schedule(t, Q, heap),
         wk' = W, nextWorker' = nextWorker
  PROVE  /\ Assigned(wk', nextWorker') /\ Owned(rt', wk')
         /\ \E P \in Runtimes : rt' = [rt EXCEPT ![t] = P] /\ P.dev = Q.dev /\ P.round = Q.round
<1> DEFINE P == [Q EXCEPT !.wake = nextWakeup]
<1>1. rt' = [rt EXCEPT ![t] = P] /\ P \in Runtimes /\ P.worker = 0 /\ P.dev = Q.dev /\ P.round = Q.round
  BY DEF Schedule, Runtimes, TypeOK
<1>2. [rt EXCEPT ![t] = P] = [R EXCEPT ![t] = P]
  BY DEF TypeOK
<1> HIDE DEF P
<1>3. Owned(rt', wk')
  BY <1>1, <1>2, RestOwned
<1> QED BY <1>1, <1>3

LEMMA LaunchKeepsOwned ==
  ASSUME TypeOK, NEW t \in Tasks, NEW d \in Devices, NEW r \in RoundIds, NEW done \in SUBSET Keywords,
         NEW waits \in BOOLEAN, NEW c, NEW W \in [Workers -> WorkerStates], c.wk = W,
         Assigned(W, nextWorker), Owned(Without(rt, {t}), W), Launch(t, d, r, done, waits, c)
  PROVE  /\ Assigned(wk', nextWorker') /\ Owned(rt', wk')
         /\ \E P \in Runtimes : rt' = [rt EXCEPT ![t] = P] /\ P.dev = d /\ P.round = r
<1> DEFINE Q == [round |-> r, run |-> nextRun, dev |-> d, worker |-> 0, wake |-> 0]
           R == Without(rt, {t})
<1>1. Q \in Runtimes /\ Q.worker = 0 /\ Q.dev = d /\ Q.round = r
  BY RunWithinBound DEF Launch, StartRun, Runtimes, TypeOK
<1>2. /\ R \in [Tasks -> Runtimes] /\ R[t].worker = 0
      /\ \A u \in Tasks : u # t => R[u] = rt[u]
  BY NoRuntimeType DEF Without, TypeOK, NoRuntime
<1>3. CASE waits
  <2>1. Schedule(t, Q, c.wakeups) /\ wk' = c.wk /\ nextWorker' = nextWorker
    BY <1>3 DEF Launch
  <2>2. Owned(R, c.wk)
    OBVIOUS
  <2> HIDE DEF Q, R
  <2> QED BY <1>1, <1>2, <2>1, <2>2, ScheduleKeepsOwned
<1>4. CASE ~waits
  <2>1. SpawnWorker(t, Q, done, c.wk)
    BY <1>4 DEF Launch
  <2>2. Owned(R, c.wk)
    OBVIOUS
  <2> HIDE DEF Q, R
  <2> QED BY <1>1, <1>2, <2>1, <2>2, SpawnKeepsOwned
<1> QED BY <1>3, <1>4

\* RuntimeLeased after a runtime was given to t, after the runtimes of S were
\* dropped, and when no runtime changed.
LEMMA GivenLeased ==
  ASSUME TypeOK, RuntimeLeased, NEW t \in Tasks, NEW P, rt' = [rt EXCEPT ![t] = P],
         P.dev \in Devices, P.round \in RoundIds, status'[t] = "executing", dev'[t] = P.dev,
         \A u \in Tasks : u # t => status'[u] = status[u] /\ dev'[u] = dev[u]
  PROVE  RuntimeLeased'
BY ConstantsAssumption DEF RuntimeLeased, Running, TypeOK

LEMMA DroppedLeased ==
  ASSUME TypeOK, RuntimeLeased, NEW S, rt' = Without(rt, S),
         \A u \in Tasks : u \notin S => status'[u] = status[u] /\ dev'[u] = dev[u]
  PROVE  RuntimeLeased'
BY DEF RuntimeLeased, Running, Without, NoRuntime

LEMMA KeptLeased ==
  ASSUME RuntimeLeased, rt' = rt,
         \A u \in Tasks : Running(u) => status'[u] = status[u] /\ dev'[u] = dev[u]
  PROVE  RuntimeLeased'
BY DEF RuntimeLeased, Running

LEMMA IdleHasNoWorker ==
  ASSUME RuntimeLeased, NEW t \in Tasks, status[t] # "executing"
  PROVE  rt[t] = NoRuntime /\ rt[t].worker = 0
BY DEF RuntimeLeased, NoRuntime

LEMMA WithoutIdle ==
  ASSUME TypeOK, NEW t \in Tasks, rt[t] = NoRuntime PROVE Without(rt, {t}) = rt
BY DEF TypeOK, Without

-----------------------------------------------------------------------------
(* Each message keeps runtimes and workers together.                       *)

Owners == TypeOK /\ RuntimeLeased /\ Assigned(wk, nextWorker) /\ Owned(rt, wk)
OwnersAfter == RuntimeLeased' /\ Assigned(wk', nextWorker') /\ Owned(rt', wk')

\* The runtimes of S are dropped, their workers cancelled.
LEMMA DropStep ==
  ASSUME Owners, NEW S \in SUBSET Tasks, rt' = Without(rt, S),
         wk' = CancelWorkers(wk, {rt[t].worker : t \in S}), nextWorker' = nextWorker,
         \A u \in Tasks : u \notin S => status'[u] = status[u] /\ dev'[u] = dev[u]
  PROVE  OwnersAfter
BY DropOwned, CancelAssigned, DroppedLeased DEF Owners, OwnersAfter, TypeOK

\* Neither runtimes nor workers change.
LEMMA StillStep ==
  ASSUME Owners, UNCHANGED <<rt, wk, nextWorker>>,
         \A u \in Tasks : Running(u) => status'[u] = status[u] /\ dev'[u] = dev[u]
  PROVE  OwnersAfter
BY KeptLeased DEF Owners, OwnersAfter

\* A task that has no runtime is launched on d.
LEMMA LaunchStep ==
  ASSUME Owners, NEW t \in Tasks, status[t] # "executing", NEW d \in Devices, NEW r \in RoundIds,
         NEW done \in SUBSET Keywords, NEW waits \in BOOLEAN, NEW m,
         SetTask(t, "executing", d, ok[t], m), Launch(t, d, r, done, waits, Kept)
  PROVE  OwnersAfter
<1>1. Without(rt, {t}) = rt /\ Kept.wk = wk
  BY IdleHasNoWorker, WithoutIdle DEF Owners, Kept
<1>2. /\ Assigned(wk', nextWorker') /\ Owned(rt', wk')
      /\ \E P \in Runtimes : rt' = [rt EXCEPT ![t] = P] /\ P.dev = d /\ P.round = r
  <2>1. Kept.wk = wk /\ wk \in [Workers -> WorkerStates] /\ Assigned(wk, nextWorker)
        /\ Owned(Without(rt, {t}), wk)
    BY <1>1 DEF Owners, TypeOK
  <2> QED BY <2>1, LaunchKeepsOwned DEF Owners
<1>3. status'[t] = "executing" /\ dev'[t] = d
      /\ \A u \in Tasks : u # t => status'[u] = status[u] /\ dev'[u] = dev[u]
  BY DEF SetTask, Owners, TypeOK
<1> QED BY <1>2, <1>3, GivenLeased DEF Owners, OwnersAfter

LEMMA StartStep == ASSUME Owners, NEW t \in Tasks, Start(t) PROVE OwnersAfter
<1>1. status[t] = "waiting"
  BY DEF Start
<1>2. PICK d \in Devices :
        \/ UNCHANGED <<taskVars, rt, workerVars>>
        \/ SetTask(t, "waiting", None, ok[t], FALSE) /\ UNCHANGED <<rt, workerVars>>
        \/ /\ CanCreateRound /\ SetTask(t, "executing", d, ok[t], ok[t] # Keywords)
           /\ Launch(t, d, nextRound, ok[t], FALSE, Kept)
  BY DEF Start
<1>3. CASE UNCHANGED <<taskVars, rt, workerVars>>
  BY <1>3, StillStep DEF taskVars, workerVars
<1>4. CASE SetTask(t, "waiting", None, ok[t], FALSE) /\ UNCHANGED <<rt, workerVars>>
  <2>1. \A u \in Tasks : Running(u) => status'[u] = status[u] /\ dev'[u] = dev[u]
    BY <1>1, <1>4, IdleHasNoWorker DEF SetTask, Owners, TypeOK, Running, NoRuntime
  <2> QED BY <1>4, <2>1, StillStep DEF workerVars
<1>5. CASE /\ CanCreateRound /\ SetTask(t, "executing", d, ok[t], ok[t] # Keywords)
           /\ Launch(t, d, nextRound, ok[t], FALSE, Kept)
  <2>1. nextRound \in RoundIds /\ ok[t] \in SUBSET Keywords /\ FALSE \in BOOLEAN
    BY <1>5, RoundWithinBound DEF Owners, TypeOK
  <2> QED BY <1>1, <1>5, <2>1, LaunchStep
<1> QED BY <1>2, <1>3, <1>4, <1>5

LEMMA PauseAllStep == ASSUME Owners, NEW S \in SUBSET Tasks, PauseAll(S) PROVE OwnersAfter
<1>1. \A u \in Tasks : u \notin S => status'[u] = status[u] /\ dev'[u] = dev[u]
  BY DEF PauseAll
<1>2. rt' = Without(rt, S) /\ wk' = CancelWorkers(wk, {rt[t].worker : t \in S})
      /\ nextWorker' = nextWorker
  BY DEF PauseAll, Without
<1> QED BY <1>1, <1>2, DropStep

LEMMA ResumeStep == ASSUME Owners, NEW t \in Tasks, Resume(t) PROVE OwnersAfter
<1> DEFINE r == IF row[t].round = 0 THEN nextRound ELSE row[t].round
<1>1. status[t] # "executing"
  BY DEF Resume
<1>2. PICK d \in Devices, waits \in BOOLEAN :
        /\ SetTask(t, "executing", d, ok[t], ~waits /\ ok[t] # Keywords)
        /\ \/ UNCHANGED <<rt, workerVars>>
           \/ (row[t].round = 0 => CanCreateRound) /\ Launch(t, d, r, ok[t], waits, Kept)
  BY DEF Resume
<1>3. CASE UNCHANGED <<rt, workerVars>>
  <2>1. \A u \in Tasks : Running(u) => status'[u] = status[u] /\ dev'[u] = dev[u]
    BY <1>1, <1>2, IdleHasNoWorker DEF SetTask, Owners, TypeOK, Running, NoRuntime
  <2> QED BY <1>3, <2>1, StillStep DEF workerVars
<1>4. CASE (row[t].round = 0 => CanCreateRound) /\ Launch(t, d, r, ok[t], waits, Kept)
  <2>1. r \in RoundIds /\ ok[t] \in SUBSET Keywords
    BY <1>4, RoundWithinBound DEF Owners, TypeOK, StateRows
  <2>2. Launch(t, d, r, ok[t], waits, Kept)
    BY <1>4
  <2> HIDE DEF r
  <2> QED BY <1>1, <1>2, <2>1, <2>2, LaunchStep
<1> QED BY <1>2, <1>3, <1>4

LEMMA SingletonWorkers == \A t : {rt[t].worker} = {rt[u].worker : u \in {t}}
OBVIOUS

LEMMA DropRuntimeStep ==
  ASSUME Owners, NEW t \in Tasks, DropRuntime(t),
         \A u \in Tasks : u # t => status'[u] = status[u] /\ dev'[u] = dev[u]
  PROVE  OwnersAfter
<1>1. rt' = Without(rt, {t})
  BY DEF DropRuntime, WithoutRuntime, Without, Owners, TypeOK
<1>2. wk' = CancelWorkers(wk, {rt[u].worker : u \in {t}}) /\ nextWorker' = nextWorker
  BY SingletonWorkers DEF DropRuntime, Cleaned
<1> QED BY <1>1, <1>2, DropStep

\* A task is launched on d once its runtime, if any, was cleaned up.
LEMMA RelaunchStep ==
  ASSUME Owners, NEW t \in Tasks, NEW d \in Devices, NEW r \in RoundIds,
         NEW done \in SUBSET Keywords, NEW waits \in BOOLEAN, NEW m,
         SetTask(t, "executing", d, done, m), Launch(t, d, r, done, waits, Cleaned(t))
  PROVE  OwnersAfter
<1>1. Cleaned(t).wk = CancelWorkers(wk, {rt[u].worker : u \in {t}})
  BY SingletonWorkers DEF Cleaned
<1>2. Assigned(Cleaned(t).wk, nextWorker) /\ Owned(Without(rt, {t}), Cleaned(t).wk)
  BY <1>1, DropOwned, CancelAssigned DEF Owners, TypeOK
<1>3. Cleaned(t).wk \in [Workers -> WorkerStates]
  BY CleanedType DEF CleanTypes, Owners
<1>4. /\ Assigned(wk', nextWorker') /\ Owned(rt', wk')
      /\ \E P \in Runtimes : rt' = [rt EXCEPT ![t] = P] /\ P.dev = d /\ P.round = r
  <2> DEFINE c == Cleaned(t)
             W == c.wk
  <2>1. W \in [Workers -> WorkerStates] /\ Assigned(W, nextWorker) /\ Owned(Without(rt, {t}), W)
    BY <1>2, <1>3
  <2>2. c.wk = W
    OBVIOUS
  <2>3. TypeOK /\ Launch(t, d, r, done, waits, c)
    BY DEF Owners
  <2> HIDE DEF c, W
  <2> QED BY <2>1, <2>2, <2>3, LaunchKeepsOwned
<1>5. status'[t] = "executing" /\ dev'[t] = d
      /\ \A u \in Tasks : u # t => status'[u] = status[u] /\ dev'[u] = dev[u]
  BY DEF SetTask, Owners, TypeOK
<1> QED BY <1>4, <1>5, GivenLeased DEF Owners, OwnersAfter

LEMMA RetryStep == ASSUME Owners, NEW t \in Tasks, Retry(t) PROVE OwnersAfter
<1>1. CASE DropRuntime(t) /\ UNCHANGED taskVars
  BY <1>1, DropRuntimeStep DEF taskVars
<1>2. ASSUME NEW d \in Devices, SetTask(t, "executing", d, {}, TRUE)
      PROVE  /\ \A u \in Tasks : u # t => status'[u] = status[u] /\ dev'[u] = dev[u]
             /\ status'[t] = "executing" /\ dev'[t] = d
  BY <1>2 DEF SetTask, Owners, TypeOK
<1>3. ASSUME NEW d \in Devices, SetTask(t, "executing", d, {}, TRUE), DropRuntime(t)
      PROVE  OwnersAfter
  BY <1>2, <1>3, DropRuntimeStep
<1>4. ASSUME NEW d \in Devices, SetTask(t, "executing", d, {}, TRUE), CanCreateRound,
             Launch(t, d, nextRound, {}, FALSE, Cleaned(t))
      PROVE  OwnersAfter
  <2>1. nextRound \in RoundIds /\ {} \in SUBSET Keywords /\ FALSE \in BOOLEAN
    BY <1>4, RoundWithinBound DEF Owners, TypeOK
  <2> QED BY <1>4, <2>1, RelaunchStep
<1> QED BY <1>1, <1>3, <1>4 DEF Retry

LEMMA ReloadStep == ASSUME Owners, Reload PROVE OwnersAfter
<1>1. \A u \in Tasks : Running(u) => status'[u] = status[u] /\ dev'[u] = dev[u]
  BY DEF Reload
<1> QED BY <1>1, StillStep DEF Reload, workerVars

LEMMA ReloadTaskStep == ASSUME Owners, NEW t \in Tasks, ReloadTask(t) PROVE OwnersAfter
<1>1. CASE UNCHANGED <<status, dev>>
  BY <1>1, StillStep DEF ReloadTask, workerVars
<1>2. ASSUME NEW s, NEW d, NEW done, status[t] # "executing", SetTask(t, s, d, done, FALSE)
      PROVE  OwnersAfter
  <2>1. \A u \in Tasks : Running(u) => status'[u] = status[u] /\ dev'[u] = dev[u]
    BY <1>2, IdleHasNoWorker DEF SetTask, Owners, TypeOK, Running, NoRuntime
  <2> QED BY <2>1, StillStep DEF ReloadTask, workerVars
<1> QED BY <1>1, <1>2 DEF ReloadTask

LEMMA ForgetStep == ASSUME Owners, NEW S \in SUBSET Tasks, Forget(S) PROVE OwnersAfter
<1>1. \A u \in Tasks : u \notin S => status'[u] = status[u] /\ dev'[u] = dev[u]
  BY DEF Forget
<1>2. rt' = Without(rt, S) /\ wk' = CancelWorkers(wk, {rt[t].worker : t \in S})
      /\ nextWorker' = nextWorker
  BY DEF Forget, Without
<1> QED BY <1>1, <1>2, DropStep

LEMMA ReleaseOfflineStep == ASSUME Owners, NEW online, ReleaseOffline(online) PROVE OwnersAfter
<1>1. PICK S \in SUBSET Tasks : MarkError(S, wk, FALSE)
  BY DEF ReleaseOffline
<1>2. \A u \in Tasks : u \notin S => status'[u] = status[u] /\ dev'[u] = dev[u]
  BY <1>1 DEF MarkError
<1>3. rt' = Without(rt, S) /\ wk' = CancelWorkers(wk, {rt[t].worker : t \in S})
      /\ nextWorker' = nextWorker
  BY <1>1 DEF MarkError, Without
<1> QED BY <1>2, <1>3, DropStep

LEMMA CommandStep == ASSUME Owners, Command PROVE OwnersAfter
<1>1. ASSUME NEW t \in Tasks, Pause(t) PROVE OwnersAfter
  BY <1>1, PauseAllStep DEF Pause
<1>2. ASSUME NEW S \in SUBSET Tasks, PausePhones(S) PROVE OwnersAfter
  <2>1. PICK P \in SUBSET Tasks : PauseAll(P)
    BY <1>2 DEF PausePhones
  <2> QED BY <2>1, PauseAllStep
<1>3. ASSUME NEW d \in Devices, Kick(d) PROVE OwnersAfter
  <2>1. PICK P \in SUBSET Tasks : PauseAll(P)
    BY <1>3 DEF Kick
  <2> QED BY <2>1, PauseAllStep
<1>4. ASSUME NEW t \in Tasks, Stop(t) PROVE OwnersAfter
  <2>1. \A u \in Tasks : u # t => status'[u] = status[u] /\ dev'[u] = dev[u]
    BY <1>4 DEF Stop, SetTask, Owners, TypeOK
  <2> QED BY <1>4, <2>1, DropRuntimeStep DEF Stop
<1>5. ASSUME NEW t \in Tasks, ClearDevice(t) PROVE OwnersAfter
  <2>1. \A u \in Tasks : Running(u) => status'[u] = status[u] /\ dev'[u] = dev[u]
    BY <1>5, IdleHasNoWorker DEF ClearDevice, Owners, TypeOK, Running, NoRuntime
  <2> QED BY <1>5, <2>1, StillStep DEF ClearDevice, workerVars
<1>6. ASSUME NEW d \in Devices, Flag(d) \/ Unflag(d) PROVE OwnersAfter
  BY <1>6, StillStep DEF Flag, Unflag, taskVars, workerVars
<1> QED BY <1>1, <1>2, <1>3, <1>4, <1>5, <1>6, StartStep, ResumeStep, RetryStep, ReloadTaskStep,
           ForgetStep, ReleaseOfflineStep, ReloadStep DEF Command

LEMMA OutsideStep == ASSUME Owners, Outside PROVE OwnersAfter
<1>1. ASSUME NEW d \in Devices, DeviceUp(d) \/ DeviceDown(d) PROVE OwnersAfter
  BY <1>1, StillStep DEF DeviceUp, DeviceDown, taskVars, workerVars
<1>2. ASSUME NEW newDay \in BOOLEAN, Restart(newDay) PROVE OwnersAfter
  <2>1. rt' = [t \in Tasks |-> NoRuntime] /\ wk' = [s \in Workers |-> NoWorker]
    BY <1>2 DEF Restart
  <2> QED BY <2>1 DEF OwnersAfter, RuntimeLeased, Running, Assigned, Owned, Live, NoRuntime, NoWorker
<1> QED BY <1>1, <1>2 DEF Outside

LEMMA WakeupStep == ASSUME Owners, NEW w \in wakeups, Wakeup(w[1], w[2]) PROVE OwnersAfter
<1> DEFINE t == w[1]
<1>1. t \in Tasks
  BY DEF Owners, TypeOK
<1>2. UNCHANGED <<status, dev>>
  BY DEF Wakeup
<1>3. CASE UNCHANGED <<rt, workerVars>>
  BY <1>2, <1>3, StillStep DEF workerVars
<1>4. CASE Running(t) /\ rt[t].worker = 0 /\ SpawnWorker(t, rt[t], ok[t], wk)
  <2>1. rt[t] \in Runtimes /\ rt[t].dev \in Devices /\ rt[t].round \in RoundIds
        /\ status[t] = "executing" /\ dev[t] = rt[t].dev
    BY <1>1, <1>4 DEF Owners, TypeOK, RuntimeLeased, Running, Runtimes
  <2>2. ok[t] \in SUBSET Keywords /\ rt \in [Tasks -> Runtimes] /\ wk \in [Workers -> WorkerStates]
        /\ TypeOK /\ RuntimeLeased /\ Assigned(wk, nextWorker) /\ Owned(rt, wk)
    BY <1>1 DEF Owners, TypeOK
  <2> HIDE DEF t
  <2>3. Assigned(wk', nextWorker') /\ Owned(rt', wk')
    BY <1>1, <1>4, <2>1, <2>2, SpawnKeepsOwned
  <2>4. \E P \in Runtimes : rt' = [rt EXCEPT ![t] = P] /\ P.dev = rt[t].dev /\ P.round = rt[t].round
    BY <1>1, <1>4, <2>1, <2>2, SpawnKeepsOwned
  <2> QED BY <1>1, <1>2, <2>1, <2>2, <2>3, <2>4, GivenLeased DEF OwnersAfter
<1> QED BY <1>3, <1>4 DEF Wakeup

LEMMA WorkStep ==
  ASSUME Owners, NEW s \in Workers, Worker(s) \/ \E k \in Keywords : HandleKeywordDone(s, k)
  PROVE  OwnersAfter
<1>1. UNCHANGED <<status, dev, rt, nextWorker>>
  BY DEF Worker, WorkerKeyword, WorkerEnds, WorkerCancelled, HandleKeywordDone, taskVars
<1>2. wk[s] # NoWorker
  <2>1. wk[s].phase = "scan" \/ wk[s].unread # {}
    BY DEF Worker, WorkerKeyword, WorkerEnds, WorkerCancelled, HandleKeywordDone
  <2> QED BY <2>1 DEF NoWorker
<1>3. /\ \A r \in Workers : r # s => wk'[r] = wk[r]
      /\ wk'[s].task = wk[s].task /\ wk'[s].dev = wk[s].dev /\ wk'[s].round = wk[s].round
      /\ wk'[s].phase # "idle"
      /\ Live(wk'[s]) => Live(wk[s])
      /\ Active(wk[s]) => Active(wk'[s])
  <2>0. wk \in [Workers -> WorkerStates] /\ wk[s] \in WorkerStates /\ wk[s].phase # "idle"
    BY <1>2 DEF Owners, TypeOK, Assigned
  <2>1. CASE \E k \in Keywords : WorkerKeyword(s, k) \/ HandleKeywordDone(s, k)
    BY <2>0, <2>1 DEF WorkerKeyword, HandleKeywordDone, WorkerStates, Live, Active
  <2>2. CASE WorkerEnds(s)
    <3>1. PICK outcome \in {"batch", "offline", "fatal"} : wk' = [wk EXCEPT ![s].phase = outcome]
      BY <2>2 DEF WorkerEnds
    <3> QED BY <2>0, <2>2, <3>1 DEF WorkerEnds, WorkerStates, Live, Active
  <2>3. CASE WorkerCancelled(s)
    BY <2>0, <2>3 DEF WorkerCancelled, WorkerStates, Live, Active
  <2> QED BY <2>1, <2>2, <2>3 DEF Worker
<1>4. Assigned(wk', nextWorker')
  BY <1>1, <1>2, <1>3 DEF Owners, Assigned
<1>5. Owned(rt', wk')
  <2>1. \A t \in Tasks : rt[t].worker \in Workers \cup {0}
    BY DEF Owners, TypeOK, Runtimes
  <2>2. \A r \in Workers :
           /\ wk'[r].task = wk[r].task /\ wk'[r].dev = wk[r].dev /\ wk'[r].round = wk[r].round
           /\ Live(wk'[r]) => Live(wk[r])
           /\ Active(wk[r]) => Active(wk'[r])
    BY <1>3
  <2>3. Owned(rt, wk')
    BY <2>1, <2>2 DEF Owners, Owned
  <2> QED BY <1>1, <2>3
<1> QED BY <1>1, <1>4, <1>5, KeptLeased DEF Owners, OwnersAfter

LEMMA HandleResultStep ==
  ASSUME Owners, NEW s \in Workers, HandleResult(s) PROVE OwnersAfter
<1> DEFINE t == wk[s].task
           W == [wk EXCEPT ![s] = NoWorker]
           R == [rt EXCEPT ![t].worker = IF @ = s THEN 0 ELSE @]
           done == ok[t] \cup wk[s].done
<1>1. wk[s].phase \in Outcomes /\ wk[s] # NoWorker
  BY DEF HandleResult, NoWorker, Outcomes
<1>2. t \in Tasks
  BY <1>1 DEF Owners, Assigned
<1>3. W \in [Workers -> WorkerStates] /\ Assigned(W, nextWorker)
  BY NoWorkerType DEF Owners, TypeOK, Assigned
<1>4. R \in [Tasks -> Runtimes]
  <2>1. [rt[t] EXCEPT !.worker = IF @ = s THEN 0 ELSE @] \in Runtimes
    <3>1. rt[t] \in Runtimes
      BY <1>2 DEF Owners, TypeOK
    <3> QED BY <3>1 DEF Runtimes
  <2> QED BY <1>2, <2>1 DEF Owners, TypeOK
<1>5. Owned(R, W)
  BY <1>1, SilencedOwned DEF Owners, TypeOK
<1>6. rt[t] \in Runtimes /\ 0 \notin Workers /\ s # 0
  BY <1>2 DEF Owners, TypeOK, Workers
<1>7. nextWorker' = nextWorker
  BY DEF HandleResult
<1>8. \/ rt' = R /\ wk' = W /\ UNCHANGED <<status, dev>>
      \/ /\ rt[t].worker = s
         /\ \/ MarkError({t}, W, TRUE)
            \/ wk' = W /\ Succeed(t)
            \/ /\ wk' = W /\ status[t] = "executing"
               /\ Reschedule(t, done) \/ NextIntervalRound(t)
  BY DEF HandleResult, IsActive, taskVars
<1>9. CASE rt' = R /\ wk' = W /\ UNCHANGED <<status, dev>>
  <2>1. \A u \in Tasks : IF Running(u) THEN /\ R[u].dev = rt[u].dev /\ R[u].round = rt[u].round
                         ELSE R[u] = rt[u]
    <3> SUFFICES ASSUME NEW u \in Tasks
                 PROVE  IF Running(u) THEN R[u].dev = rt[u].dev /\ R[u].round = rt[u].round
                        ELSE R[u] = rt[u]
      OBVIOUS
    <3>1. CASE u # t
      BY <1>2, <3>1 DEF Owners, TypeOK
    <3>2. CASE u = t
      <4>1. R[t] = [rt[t] EXCEPT !.worker = IF @ = s THEN 0 ELSE @]
        BY <1>2 DEF Owners, TypeOK
      <4>2. ~Running(t) => rt[t].worker = 0
        BY <1>2 DEF Owners, RuntimeLeased, NoRuntime
      <4> HIDE DEF R
      <4> QED BY <1>6, <3>2, <4>1, <4>2 DEF Runtimes
    <3> QED BY <3>1, <3>2
  <2> HIDE DEF R, W, t
  <2>2. RuntimeLeased'
    BY <1>9, <2>1 DEF Owners, RuntimeLeased, Running, NoRuntime
  <2> QED BY <1>3, <1>5, <1>7, <1>9, <2>2 DEF OwnersAfter
<1>10. ASSUME rt[t].worker = s
       PROVE  /\ R[t].worker = 0 /\ Running(t) /\ rt[t].dev \in Devices /\ rt[t].round \in RoundIds
              /\ dev[t] = rt[t].dev
              /\ \A u \in Tasks : u # t => R[u] = rt[u]
  <2>1. R[t].worker = 0 /\ \A u \in Tasks : u # t => R[u] = rt[u]
    BY <1>2, <1>6, <1>10 DEF Owners, TypeOK, Runtimes
  <2>2. Running(t)
    BY <1>2, <1>6, <1>10 DEF Owners, RuntimeLeased, NoRuntime
  <2> QED BY <1>2, <1>6, <2>1, <2>2 DEF Owners, RuntimeLeased, Running, Runtimes
<1>11. ASSUME rt[t].worker = s, rt' = Without(rt, {t}), wk' = W,
              \A u \in Tasks : u # t => status'[u] = status[u] /\ dev'[u] = dev[u]
       PROVE  OwnersAfter
  <2>1. rt' = [R EXCEPT ![t] = NoRuntime]
    BY <1>2, <1>11 DEF Without, Owners, TypeOK
  <2>0. NoRuntime.worker = 0 /\ R[t].worker = 0
    BY <1>10, <1>11 DEF NoRuntime
  <2> HIDE DEF R, W, t
  <2>2. Owned(rt', wk')
    <3>1. Owned([R EXCEPT ![t] = NoRuntime], W)
      BY <1>2, <1>3, <1>4, <1>5, <2>0, RestOwned
    <3> QED BY <1>11, <2>1, <3>1
  <2> QED BY <1>3, <1>7, <1>11, <2>2, DroppedLeased DEF Owners, OwnersAfter
<1>12. CASE rt[t].worker = s /\ MarkError({t}, W, TRUE)
  <2>1. rt' = Without(rt, {t}) /\ \A u \in Tasks : u # t => status'[u] = status[u] /\ dev'[u] = dev[u]
    BY <1>12 DEF MarkError, Without
  <2>2. wk' = CancelWorkers(W, {rt[u].worker : u \in {t}})
    BY <1>12 DEF MarkError
  <2>3. {rt[u].worker : u \in {t}} = {s}
    BY <1>12
  <2>4. CancelWorkers(W, {s}) = W
    BY <1>3 DEF CancelWorkers, NoWorker, Owners, TypeOK
  <2> HIDE DEF R, W, t
  <2> QED BY <1>11, <1>12, <2>1, <2>2, <2>3, <2>4
<1>13. CASE rt[t].worker = s /\ wk' = W /\ Succeed(t)
  <2>1. rt' = Without(rt, {t}) /\ \A u \in Tasks : u # t => status'[u] = status[u] /\ dev'[u] = dev[u]
    BY <1>2, <1>13 DEF Succeed, SetTask, WithoutRuntime, Without, Owners, TypeOK
  <2> HIDE DEF R, W, t
  <2> QED BY <1>11, <1>13, <2>1
<1>14. ASSUME NEW Q \in Runtimes, Q.worker = 0, Q.dev = rt[t].dev, Q.round \in RoundIds,
              rt[t].worker = s, wk' = W, Schedule(t, Q, wakeups), status[t] = "executing",
              UNCHANGED <<status, dev>>
       PROVE  OwnersAfter
  <2>1. TypeOK /\ RuntimeLeased
    BY DEF Owners
  <2> HIDE DEF R, W, t
  <2>2. Assigned(wk', nextWorker') /\ Owned(rt', wk')
    BY <1>2, <1>3, <1>4, <1>5, <1>7, <1>10, <1>14, <2>1, ScheduleKeepsOwned
  <2>3. \E P \in Runtimes : rt' = [rt EXCEPT ![t] = P] /\ P.dev = Q.dev /\ P.round = Q.round
    BY <1>2, <1>3, <1>4, <1>5, <1>7, <1>10, <1>14, <2>1, ScheduleKeepsOwned
  <2> QED BY <1>2, <1>10, <1>14, <2>1, <2>2, <2>3, GivenLeased DEF OwnersAfter
<1>15. CASE rt[t].worker = s /\ wk' = W /\ status[t] = "executing" /\ Reschedule(t, done)
  <2> DEFINE Q == [rt[t] EXCEPT !.worker = 0]
  <2>1. Q \in Runtimes /\ Q.worker = 0 /\ Q.dev = rt[t].dev /\ Q.round \in RoundIds
    BY <1>6, <1>10, <1>15 DEF Runtimes
  <2>2. Schedule(t, Q, wakeups)
    BY <1>15 DEF Reschedule
  <2>3. UNCHANGED <<status, dev>>
    BY <1>2, <1>15 DEF Reschedule, SetTask, Owners, TypeOK
  <2> HIDE DEF Q, R, W, t
  <2> QED BY <1>14, <1>15, <2>1, <2>2, <2>3
<1>16. CASE rt[t].worker = s /\ wk' = W /\ status[t] = "executing" /\ NextIntervalRound(t)
  <2> DEFINE Q == [rt[t] EXCEPT !.round = nextRound, !.worker = 0]
  <2>1. nextRound \in RoundIds
    BY <1>16, RoundWithinBound DEF NextIntervalRound, Owners, TypeOK
  <2>2. Q \in Runtimes /\ Q.worker = 0 /\ Q.dev = rt[t].dev /\ Q.round \in RoundIds
    BY <1>6, <2>1 DEF Runtimes
  <2>3. Schedule(t, Q, wakeups)
    BY <1>16 DEF NextIntervalRound
  <2>4. UNCHANGED <<status, dev>>
    BY <1>2, <1>16 DEF NextIntervalRound, SetTask, Owners, TypeOK
  <2> HIDE DEF Q, R, W, t
  <2> QED BY <1>14, <1>16, <2>2, <2>3, <2>4
<1> HIDE DEF R, W, t, done
<1> QED BY <1>8, <1>9, <1>12, <1>13, <1>15, <1>16

LEMMA OwnersNext == ASSUME Owners, [Next]_vars PROVE OwnersAfter
<1>1. CASE UNCHANGED vars
  BY <1>1, StillStep DEF vars, taskVars, workerVars
<1> QED BY <1>1, CommandStep, OutsideStep, WakeupStep, WorkStep, HandleResultStep DEF Next, Report

-----------------------------------------------------------------------------
(* Leases: a message takes none, or takes one of a ready device.           *)

LEMMA NoneTaken ==
  ASSUME LeaseExclusive,
         \A t \in Tasks : status'[t] = "executing" /\ dev'[t] # None
                          => status[t] = "executing" /\ dev'[t] = dev[t]
  PROVE  LeaseExclusive'
BY DEF LeaseExclusive

LEMMA OneTaken ==
  ASSUME LeaseExclusive, TypeOK, NEW t \in Tasks, NEW d \in Devices, Ready(d),
         NEW s, NEW done, NEW m, SetTask(t, s, d, done, m)
  PROVE  LeaseExclusive'
<1>1. dev'[t] = d /\ \A u \in Tasks : u # t => status'[u] = status[u] /\ dev'[u] = dev[u]
  BY DEF SetTask, TypeOK
<1> QED BY <1>1 DEF LeaseExclusive, Ready

\* The task becomes something else than executing, or loses its device.
LEMMA OneGiven ==
  ASSUME LeaseExclusive, TypeOK, NEW t \in Tasks, NEW s, NEW d, s # "executing" \/ d = None,
         NEW done, NEW m, SetTask(t, s, d, done, m)
  PROVE  LeaseExclusive'
<1>1. /\ status'[t] = s /\ dev'[t] = d
      /\ \A u \in Tasks : u # t => status'[u] = status[u] /\ dev'[u] = dev[u]
  BY DEF SetTask, TypeOK
<1> QED BY <1>1 DEF LeaseExclusive

LEMMA CommandLease == ASSUME TypeOK, LeaseExclusive, Command PROVE LeaseExclusive'
<1>1. ASSUME NEW S \in SUBSET Tasks, PauseAll(S) PROVE LeaseExclusive'
  BY <1>1, NoneTaken DEF PauseAll
<1>2. ASSUME NEW t \in Tasks, Start(t) PROVE LeaseExclusive'
  <2>1. PICK d \in Devices :
          /\ Ready(d)
          /\ \/ UNCHANGED <<status, dev>>
             \/ SetTask(t, "waiting", None, ok[t], FALSE)
             \/ SetTask(t, "executing", d, ok[t], ok[t] # Keywords)
    BY <1>2 DEF Start, taskVars
  <2> QED BY <2>1, NoneTaken, OneGiven, OneTaken
<1>3. ASSUME NEW t \in Tasks, Resume(t) PROVE LeaseExclusive'
  <2>1. PICK d \in Devices, waits \in BOOLEAN :
          Ready(d) /\ SetTask(t, "executing", d, ok[t], ~waits /\ ok[t] # Keywords)
    BY <1>3 DEF Resume
  <2> QED BY <2>1, OneTaken
<1>4. ASSUME NEW t \in Tasks, Stop(t) PROVE LeaseExclusive'
  BY <1>4, OneGiven DEF Stop
<1>5. ASSUME NEW t \in Tasks, Retry(t) PROVE LeaseExclusive'
  <2>1. CASE UNCHANGED taskVars
    BY <2>1, NoneTaken DEF taskVars
  <2>2. ASSUME NEW d \in Devices, Ready(d), SetTask(t, "executing", d, {}, TRUE) PROVE LeaseExclusive'
    BY <2>2, OneTaken
  <2> QED BY <1>5, <2>1, <2>2 DEF Retry
<1>6. ASSUME NEW t \in Tasks, ClearDevice(t) PROVE LeaseExclusive'
  BY <1>6, NoneTaken DEF ClearDevice, TypeOK
<1>7. ASSUME NEW t \in Tasks, ReloadTask(t) PROVE LeaseExclusive'
  <2>1. CASE UNCHANGED <<status, dev>>
    BY <2>1, NoneTaken
  <2>2. CASE SetTask(t, "waiting", None, {}, FALSE)
    BY <2>2, OneGiven
  <2>3. ASSUME NEW s, NEW d, NEW done, s # "executing", SetTask(t, s, d, done, FALSE)
        PROVE  LeaseExclusive'
    BY <2>3, OneGiven
  <2>4. \A done : RestoredStatus(row[t], done) # "executing"
    <3>1. row[t] \in StateRows
      BY DEF TypeOK
    <3> QED BY <3>1, RestoredStatusType
  <2> QED BY <1>7, <2>1, <2>2, <2>3, <2>4 DEF ReloadTask
<1>8. ASSUME NEW S \in SUBSET Tasks, Forget(S) PROVE LeaseExclusive'
  BY <1>8, NoneTaken DEF Forget
<1>9. ASSUME NEW online, ReleaseOffline(online) PROVE LeaseExclusive'
  <2>1. PICK S \in SUBSET Tasks : MarkError(S, wk, FALSE)
    BY <1>9 DEF ReleaseOffline
  <2> QED BY <2>1, NoneTaken DEF MarkError
<1>10. ASSUME Reload PROVE LeaseExclusive'
  <2>1. \A t \in Tasks : status[t] # "absent" /\ ~Running(t) => status'[t] # "executing"
    <3>1. \A t \in Tasks : \A done : RestoredStatus(row[t], done) # "executing"
      BY RestoredStatusType DEF TypeOK
    <3> QED BY <1>10, <3>1 DEF Reload
  <2>2. \A t \in Tasks : status[t] = "absent" \/ Running(t) => status'[t] = status[t] /\ dev'[t] = dev[t]
    BY <1>10 DEF Reload
  <2> QED BY <2>1, <2>2, NoneTaken
<1>11. ASSUME NEW t \in Tasks, Pause(t) PROVE LeaseExclusive'
  BY <1>1, <1>11 DEF Pause
<1>12. ASSUME NEW S \in SUBSET Tasks, PausePhones(S) PROVE LeaseExclusive'
  <2>1. PICK P \in SUBSET Tasks : PauseAll(P)
    BY <1>12 DEF PausePhones
  <2> QED BY <1>1, <2>1
<1>13. ASSUME NEW d \in Devices, Kick(d) PROVE LeaseExclusive'
  <2>1. PICK P \in SUBSET Tasks : PauseAll(P)
    BY <1>13 DEF Kick
  <2> QED BY <1>1, <2>1
<1>14. ASSUME NEW d \in Devices, Flag(d) \/ Unflag(d) PROVE LeaseExclusive'
  BY <1>14, NoneTaken DEF Flag, Unflag, taskVars
<1> QED BY <1>2, <1>3, <1>4, <1>5, <1>6, <1>7, <1>8, <1>9, <1>10, <1>11, <1>12, <1>13, <1>14
        DEF Command

LEMMA OutsideLease == ASSUME TypeOK, TypeOK', LeaseExclusive, Outside PROVE LeaseExclusive'
<1>1. ASSUME NEW d \in Devices, DeviceUp(d) \/ DeviceDown(d) PROVE LeaseExclusive'
  BY <1>1, NoneTaken DEF DeviceUp, DeviceDown, taskVars
<1>2. ASSUME NEW newDay \in BOOLEAN, Restart(newDay) PROVE LeaseExclusive'
  <2>1. \A t \in Tasks : \A done : RestoredStatus(row'[t], done) # "executing"
    BY RestoredStatusType DEF TypeOK
  <2>2. \A t \in Tasks : status'[t] # "executing"
    BY <1>2, <2>1 DEF Restart
  <2> QED BY <2>2, NoneTaken
<1> QED BY <1>1, <1>2 DEF Outside

LEMMA HandleResultLease ==
  ASSUME TypeOK, WorkerAssigned, LeaseExclusive, NEW s \in Workers, HandleResult(s)
  PROVE  LeaseExclusive'
<1> DEFINE t == wk[s].task
<1>1. t \in Tasks
  BY DEF HandleResult, WorkerAssigned, NoWorker, Outcomes
<1>2. CASE UNCHANGED <<status, dev>>
  BY <1>2, NoneTaken
<1>3. ASSUME NEW W, MarkError({t}, W, TRUE) PROVE LeaseExclusive'
  BY <1>3, NoneTaken DEF MarkError
<1>4. ASSUME NEW done, SetTask(t, status[t], dev[t], done, FALSE) PROVE LeaseExclusive'
  <2>1. UNCHANGED <<status, dev>>
    BY <1>1, <1>4 DEF SetTask, TypeOK
  <2> QED BY <1>2, <2>1
<1>5. CASE Succeed(t)
  BY <1>1, <1>5, OneGiven DEF Succeed
<1>6. \/ UNCHANGED <<status, dev>>
      \/ \E W : MarkError({t}, W, TRUE)
      \/ \E done : SetTask(t, status[t], dev[t], done, FALSE)
      \/ Succeed(t)
  BY DEF HandleResult, Reschedule, NextIntervalRound, taskVars
<1> QED BY <1>2, <1>3, <1>4, <1>5, <1>6

LEMMA LeaseNext ==
  ASSUME TypeOK, TypeOK', WorkerAssigned, LeaseExclusive, [Next]_vars PROVE LeaseExclusive'
<1>1. CASE UNCHANGED <<status, dev>>
  BY <1>1, NoneTaken
<1>2. UNCHANGED vars => UNCHANGED <<status, dev>>
  BY DEF vars, taskVars
<1>3. ASSUME NEW w \in wakeups, Wakeup(w[1], w[2]) PROVE UNCHANGED <<status, dev>>
  BY <1>3 DEF Wakeup
<1>4. ASSUME NEW s \in Workers, Worker(s) \/ \E k \in Keywords : HandleKeywordDone(s, k)
      PROVE  UNCHANGED <<status, dev>>
  BY <1>4 DEF Worker, WorkerKeyword, WorkerEnds, WorkerCancelled, HandleKeywordDone, taskVars
<1> QED BY <1>1, <1>2, <1>3, <1>4, CommandLease, OutsideLease, HandleResultLease DEF Next, Report

-----------------------------------------------------------------------------
(* The theorems.                                                           *)

LEMMA InitLeaseInv == Init => LeaseInv
<1> SUFFICES ASSUME Init PROVE LeaseInv
  OBVIOUS
<1>1. TypeOK
  BY NoRuntimeType, NoRowType, NoWorkerType DEF Init, TypeOK, Statuses, NoEntry, RoundRows, RunRows
<1>2. RuntimeLeased /\ LiveWorkerOwned /\ ActiveWorkerReports /\ LeaseExclusive
  BY DEF Init, RuntimeLeased, Running, LiveWorkerOwned, LiveWorkers, ActiveWorkerReports,
         LeaseExclusive, NoRuntime, NoWorker
<1>3. WorkerAssigned
  BY DEF Init, WorkerAssigned
<1> QED BY <1>1, <1>2, <1>3 DEF LeaseInv

LEMMA LeaseInvNext == LeaseInv /\ [Next]_vars => LeaseInv'
<1> SUFFICES ASSUME LeaseInv, [Next]_vars PROVE LeaseInv'
  OBVIOUS
<1>1. Owners
  BY OwnedIsInvariantPart DEF LeaseInv, Owners
<1>2. TypeOK'
  BY TypeNext DEF LeaseInv
<1>3. OwnersAfter
  BY <1>1, OwnersNext
<1>4. LeaseExclusive'
  BY <1>2, LeaseNext DEF LeaseInv
<1> QED BY <1>2, <1>3, <1>4, OwnedIsInvariantPart DEF LeaseInv, OwnersAfter

\* In every reachable state the parts of the engine's state that lend devices
\* agree: runtimes, workers, leases.
THEOREM LeaseInvariant == Spec => []LeaseInv
BY InitLeaseInv, LeaseInvNext, PTL DEF Spec

\* The state keeps its type.
THEOREM TypeCorrect == Spec => []TypeOK
<1>1. LeaseInv => TypeOK
  BY DEF LeaseInv
<1> QED BY <1>1, LeaseInvariant, PTL

\* No device is leased to two executing tasks, whatever commands, reloads,
\* device changes and restarts come in between.
THEOREM DevicesLeasedOnce == Spec => []LeaseExclusive
<1>1. LeaseInv => LeaseExclusive
  BY DEF LeaseInv
<1> QED BY <1>1, LeaseInvariant, PTL

\* No phone is ever driven by two workers that were not told to stop.
THEOREM DevicesDrivenOnce == Spec => []OneWorkerPerDevice
<1>1. ASSUME LeaseInv, NEW r \in LiveWorkers, NEW s \in LiveWorkers, r # s
      PROVE  wk[r].dev # wk[s].dev
  <2> DEFINE t == wk[r].task
             u == wk[s].task
  <2>1. r \in Workers /\ s \in Workers /\ r # 0 /\ s # 0
    BY DEF LiveWorkers, Workers
  <2>2. t \in Tasks /\ u \in Tasks
    BY <1>1, <2>1 DEF LeaseInv, WorkerAssigned, LiveWorkers, NoWorker
  <2>3. rt[t].worker = r /\ rt[u].worker = s
    BY <1>1 DEF LeaseInv, LiveWorkerOwned
  <2>4. t # u
    BY <1>1, <2>3
  <2>5. rt[t].dev = wk[r].dev /\ rt[u].dev = wk[s].dev
    BY <1>1, <2>1, <2>2, <2>3 DEF LeaseInv, ActiveWorkerReports
  <2>6. Running(t) /\ Running(u)
    BY <1>1, <2>1, <2>2, <2>3 DEF LeaseInv, RuntimeLeased, NoRuntime
  <2>7. /\ status[t] = "executing" /\ status[u] = "executing"
        /\ dev[t] = wk[r].dev /\ dev[u] = wk[s].dev /\ dev[t] # None
    BY <1>1, <2>2, <2>5, <2>6 DEF LeaseInv, RuntimeLeased, Running
  <2> QED BY <1>1, <2>2, <2>4, <2>7 DEF LeaseInv, LeaseExclusive
<1>2. LeaseInv => OneWorkerPerDevice
  BY <1>1 DEF OneWorkerPerDevice
<1> QED BY <1>2, LeaseInvariant, PTL

\* A runtime that waits for a worker waits for one that will still report.
THEOREM WorkersReport == Spec => []ActiveWorkerReports
<1>1. LeaseInv => ActiveWorkerReports
  BY DEF LeaseInv
<1> QED BY <1>1, LeaseInvariant, PTL

-----------------------------------------------------------------------------
(* What the shared handlers do, as facts about the next state.             *)

\* A task that has a runtime is executing, and the numbers of its runtime are
\* those of rows.
LEMMA RunningFacts ==
  ASSUME LeaseInv, NEW t \in Tasks
  PROVE  /\ rt[t] \in Runtimes
         /\ Running(t) => /\ status[t] = "executing" /\ dev[t] = rt[t].dev
                          /\ rt[t].dev \in Devices /\ rt[t].round \in RoundIds
         /\ ~Running(t) => /\ rt[t] = NoRuntime /\ rt[t].worker = 0 /\ rt[t].wake = 0
                           /\ rt[t].round = 0 /\ rt[t].run = 0 /\ rt[t].dev = None
         /\ status[t] # "executing" => ~Running(t)
BY DEF LeaseInv, TypeOK, RuntimeLeased, Running, Runtimes, NoRuntime

LEMMA DropRuntimeFacts ==
  ASSUME TypeOK, NEW t \in Tasks, DropRuntime(t)
  PROVE  /\ rt'[t] = NoRuntime /\ row'[t] = NoRow
         /\ \A u \in Tasks : u # t => row'[u] = row[u] /\ rt'[u] = rt[u]
BY DEF DropRuntime, WithoutRuntime, TypeOK

\* What a launched runtime waits for: the next wakeup, a new worker, or nothing.
LaunchWaits(t, c) ==
  /\ rt'[t].worker = 0 /\ rt'[t].wake = nextWakeup
  /\ wakeups' = c.wakeups \cup {<<t, nextWakeup>>} /\ wk' = c.wk
LaunchRests(t, done, c) ==
  /\ done = Keywords /\ rt'[t].worker = 0 /\ rt'[t].wake = 0 /\ wakeups' = c.wakeups /\ wk' = c.wk
LaunchWorks(t, d, r, done, c) ==
  /\ done # Keywords /\ rt'[t].worker = nextWorker /\ nextWorker \in Workers /\ rt'[t].wake = 0
  /\ wakeups' = c.wakeups
  /\ \A s \in Workers : s # nextWorker => wk'[s] = c.wk[s]
  /\ wk'[nextWorker] = [NoWorker EXCEPT !.task = t, !.dev = d, !.round = r,
                                        !.todo = Keywords \ done, !.phase = "scan"]

\* A launch gives t a runtime for round r, and the next run.
Launched(t, d, r) ==
  /\ rt'[t] \in Runtimes /\ rt'[t].dev = d /\ rt'[t].round = r /\ rt'[t].run = nextRun
  /\ row'[t] = ExecutingRow(d, r)
  /\ \A u \in Tasks : u # t => rt'[u] = rt[u] /\ row'[u] = row[u]

LEMMA LaunchFacts ==
  ASSUME TypeOK, NEW t \in Tasks, NEW d \in Devices, NEW r \in RoundIds, NEW done \in SUBSET Keywords,
         NEW waits \in BOOLEAN, NEW c, CleanTypes(c), Launch(t, d, r, done, waits, c)
  PROVE  /\ nextRun \in RunIds /\ nextRun' = nextRun + 1
         /\ runs'[nextRun] = [task |-> t, st |-> "running"]
         /\ \A i \in RunIds : i # nextRun => runs'[i] = c.runs[i]
         /\ Launched(t, d, r)
         /\ LaunchWaits(t, c) \/ LaunchRests(t, done, c) \/ LaunchWorks(t, d, r, done, c)
         /\ LaunchWaits(t, c) => waits
<1> DEFINE Q == [round |-> r, run |-> nextRun, dev |-> d, worker |-> 0, wake |-> 0]
<1>1. /\ nextRun \in RunIds /\ nextRun' = nextRun + 1
      /\ runs'[nextRun] = [task |-> t, st |-> "running"]
      /\ \A i \in RunIds : i # nextRun => runs'[i] = c.runs[i]
      /\ row'[t] = ExecutingRow(d, r)
      /\ \A u \in Tasks : u # t => row'[u] = row[u]
  BY RunWithinBound DEF Launch, StartRun, TypeOK, CleanTypes
<1>2. Q \in Runtimes /\ Q.dev = d /\ Q.round = r /\ Q.run = nextRun /\ Q.worker = 0 /\ Q.wake = 0
  BY <1>1 DEF Runtimes
<1>9. ASSUME NEW P \in Runtimes, P.dev = d, P.round = r, P.run = nextRun, rt' = [rt EXCEPT ![t] = P]
      PROVE  Launched(t, d, r) /\ rt'[t] = P
  <2>1. rt'[t] = P /\ \A u \in Tasks : u # t => rt'[u] = rt[u]
    BY <1>9 DEF TypeOK
  <2> QED BY <1>1, <1>9, <2>1 DEF Launched
<1>3. CASE waits
  <2>1. Schedule(t, Q, c.wakeups) /\ wk' = c.wk
    BY <1>3 DEF Launch
  <2> DEFINE P == [Q EXCEPT !.wake = nextWakeup]
  <2>2. P \in Runtimes /\ P.dev = d /\ P.round = r /\ P.run = nextRun /\ P.worker = 0
        /\ P.wake = nextWakeup
    BY <1>2 DEF Runtimes, TypeOK
  <2>3. rt' = [rt EXCEPT ![t] = P] /\ wakeups' = c.wakeups \cup {<<t, nextWakeup>>}
    BY <2>1 DEF Schedule
  <2> HIDE DEF P, Q
  <2>4. Launched(t, d, r) /\ rt'[t] = P
    BY <1>9, <2>2, <2>3
  <2>5. LaunchWaits(t, c)
    BY <2>1, <2>2, <2>3, <2>4 DEF LaunchWaits
  <2> QED BY <1>1, <1>3, <2>4, <2>5
<1>n. ~waits => ~LaunchWaits(t, c)
  <2> SUFFICES ASSUME ~waits PROVE rt'[t].wake = 0 /\ nextWakeup # 0
    BY DEF LaunchWaits
  <2>1. SpawnWorker(t, Q, done, c.wk)
    BY DEF Launch
  <2>2. [Q EXCEPT !.worker = nextWorker, !.wake = 0].wake = 0 /\ Q.wake = 0
    OBVIOUS
  <2>3. rt' = [rt EXCEPT ![t] = Q] \/ rt' = [rt EXCEPT ![t] = [Q EXCEPT !.worker = nextWorker, !.wake = 0]]
    BY <2>1 DEF SpawnWorker
  <2> HIDE DEF Q
  <2> QED BY <2>2, <2>3 DEF TypeOK
<1>4. CASE ~waits /\ done = Keywords
  <2>1. SpawnWorker(t, Q, done, c.wk) /\ wakeups' = c.wakeups
    BY <1>4 DEF Launch
  <2>2. rt' = [rt EXCEPT ![t] = Q] /\ wk' = c.wk
    BY <1>4, <2>1 DEF SpawnWorker
  <2> HIDE DEF Q
  <2>3. Launched(t, d, r) /\ rt'[t] = Q
    BY <1>2, <1>9, <2>2
  <2>4. LaunchRests(t, done, c)
    BY <1>2, <1>4, <2>1, <2>2, <2>3 DEF LaunchRests
  <2> QED BY <1>1, <1>4, <1>n, <2>3, <2>4
<1>5. CASE ~waits /\ done # Keywords
  <2>1. SpawnWorker(t, Q, done, c.wk) /\ wakeups' = c.wakeups
    BY <1>5 DEF Launch
  <2> DEFINE P == [Q EXCEPT !.worker = nextWorker, !.wake = 0]
             v == [NoWorker EXCEPT !.task = t, !.dev = Q.dev, !.round = Q.round,
                                   !.todo = Keywords \ done, !.phase = "scan"]
  <2>2. nextWorker \in Workers
    BY <1>5, <2>1, WorkerWithinBound DEF SpawnWorker, TypeOK
  <2>3. P \in Runtimes /\ P.dev = d /\ P.round = r /\ P.run = nextRun /\ P.worker = nextWorker
        /\ P.wake = 0
    BY <1>2, <2>2 DEF Runtimes
  <2>4. rt' = [rt EXCEPT ![t] = P] /\ wk' = [c.wk EXCEPT ![nextWorker] = v]
    BY <1>5, <2>1 DEF SpawnWorker
  <2>5. wk'[nextWorker] = [NoWorker EXCEPT !.task = t, !.dev = d, !.round = r,
                                           !.todo = Keywords \ done, !.phase = "scan"]
    BY <2>2, <2>4 DEF CleanTypes
  <2> HIDE DEF P, Q, v
  <2>6. Launched(t, d, r) /\ rt'[t] = P
    BY <1>9, <2>3, <2>4
  <2>7. \A s \in Workers : s # nextWorker => wk'[s] = c.wk[s]
    BY <2>4 DEF CleanTypes
  <2>8. LaunchWorks(t, d, r, done, c)
    BY <1>5, <2>1, <2>2, <2>3, <2>5, <2>6, <2>7 DEF LaunchWorks
  <2> QED BY <1>1, <1>5, <1>n, <2>6, <2>8
<1> QED BY <1>3, <1>4, <1>5

\* The result of worker s is dropped: it is not the active worker of t.
Dropped(s, t) ==
  /\ rt[t].worker # s /\ wk' = [wk EXCEPT ![s] = NoWorker]
  /\ UNCHANGED <<taskVars, rt, wakeVars, row, rounds, runs, nextRound, flagged>>

\* The result is that of the active worker of the executing task t: the batch
\* leaves keywords, or ends the task or its round, or the task fails with the
\* keywords keep.
Counts(s, t) == rt[t].worker = s /\ Running(t) /\ status[t] = "executing"
Fails(s, t, keep) ==
  /\ Counts(s, t) /\ MarkError({t}, [wk EXCEPT ![s] = NoWorker], TRUE) /\ ok' = [ok EXCEPT ![t] = keep]
  /\ \/ keep = ok[t]
     \/ keep = ok[t] \cup wk[s].done
     \/ keep = {} /\ FALSE \in RoundOutcomes
Continues(s, t, done) ==
  /\ Counts(s, t) /\ wk[s].phase = "batch" /\ wk' = [wk EXCEPT ![s] = NoWorker]
  /\ done = ok[t] \cup wk[s].done /\ done # Keywords /\ Reschedule(t, done)
Ends(s, t) ==
  /\ Counts(s, t) /\ wk[s].phase = "batch" /\ wk' = [wk EXCEPT ![s] = NoWorker]
  /\ ok[t] \cup wk[s].done = Keywords
  /\ \/ t \notin IntervalTasks /\ Succeed(t)
     \/ t \in IntervalTasks /\ NextIntervalRound(t)

\* Nothing else happens: a result is dropped for good or counts.
LEMMA ResultCases ==
  ASSUME LeaseInv, NEW s \in Workers, HandleResult(s)
  PROVE  \E t \in Tasks :
           /\ t = wk[s].task /\ UNCHANGED <<nextWorker, progress, nextRun, table>>
           /\ \/ Dropped(s, t) \/ Ends(s, t)
              \/ \E keep \in SUBSET Keywords : Fails(s, t, keep)
              \/ \E done \in SUBSET Keywords : Continues(s, t, done)
<1> DEFINE t == wk[s].task
           done == ok[t] \cup wk[s].done
<1>1. wk[s].phase \in Outcomes /\ wk[s] # NoWorker /\ s # 0
  BY DEF HandleResult, NoWorker, Outcomes, Workers
<1>2. t \in Tasks
  BY <1>1 DEF LeaseInv, WorkerAssigned
<1>3. ASSUME rt[t].worker = s
      PROVE  /\ Running(t) /\ status[t] = "executing"
             /\ wk[s].phase \in {"batch", "offline", "fatal"}
  <2>1. Running(t)
    BY <1>1, <1>2, <1>3, RunningFacts
  <2>2. wk[s].phase \notin {"idle", "cancelled"}
    BY <1>1, <1>2, <1>3 DEF LeaseInv, ActiveWorkerReports
  <2> QED BY <1>1, <1>2, <2>1, <2>2, RunningFacts DEF Outcomes
<1>4. rt[t].worker # s => rt = [rt EXCEPT ![t].worker = IF @ = s THEN 0 ELSE @]
  <2> SUFFICES ASSUME rt[t].worker # s PROVE rt = [rt EXCEPT ![t].worker = rt[t].worker]
    OBVIOUS
  <2>1. rt[t] = [rt[t] EXCEPT !.worker = rt[t].worker]
    BY <1>2, RunningFacts DEF Runtimes
  <2> QED BY <1>2, <2>1 DEF LeaseInv, TypeOK
<1>5. UNCHANGED <<nextWorker, progress, nextRun, table>>
  BY DEF HandleResult
<1>6. CASE rt[t].worker # s
  <2>1. Dropped(s, t)
    BY <1>4, <1>6 DEF HandleResult, IsActive, Dropped
  <2> QED BY <1>2, <1>5, <2>1
<1>7. CASE rt[t].worker = s
  <2>1. Counts(s, t) /\ wk[s].phase \in {"batch", "offline", "fatal"}
    BY <1>3, <1>7 DEF Counts
  <2>2. ok[t] \in SUBSET Keywords /\ done \in SUBSET Keywords /\ {} \in SUBSET Keywords
    BY <1>2 DEF LeaseInv, TypeOK, WorkerStates
  <2>3. \/ Fails(s, t, ok[t]) \/ Fails(s, t, done) \/ Fails(s, t, {})
        \/ Continues(s, t, done) \/ Ends(s, t)
    BY <1>7, <2>1 DEF HandleResult, IsActive, Fails, Continues, Ends, Counts
  <2> QED BY <1>2, <1>5, <2>2, <2>3
<1> QED BY <1>6, <1>7

-----------------------------------------------------------------------------
(* Late reports.                                                           *)

\* What a worker that is not the active one of a task has left in the channel
\* changes nothing of that task (the worker_seq checks of handle_keyword_done
\* and handle_worker_result).
THEOREM LateReportsIgnored == Spec => StaleReportsIgnored
<1>1. ASSUME LeaseInv, NEW s \in Workers, Report(s), NEW t \in Tasks, rt[t].worker # s
      PROVE  status'[t] = status[t] /\ dev'[t] = dev[t] /\ ok'[t] = ok[t] /\ rt'[t] = rt[t]
  <2>1. CASE \E k \in Keywords : HandleKeywordDone(s, k)
    BY <1>1, <2>1 DEF HandleKeywordDone, IsActive, LeaseInv, TypeOK
  <2>2. CASE HandleResult(s)
    <3>1. PICK u \in Tasks : /\ u = wk[s].task
                             /\ \/ Dropped(s, u) \/ Ends(s, u)
                                \/ \E keep : Fails(s, u, keep)
                                \/ \E done : Continues(s, u, done)
      BY <1>1, <2>2, ResultCases
    <3>2. CASE Dropped(s, u)
      BY <3>2 DEF Dropped, taskVars
    <3>3. CASE Ends(s, u)
      BY <1>1, <3>3 DEF Ends, Counts, Succeed, NextIntervalRound, SetTask, WithoutRuntime, Schedule,
                        LeaseInv, TypeOK
    <3>4. ASSUME NEW keep, Fails(s, u, keep)
          PROVE  status'[t] = status[t] /\ dev'[t] = dev[t] /\ ok'[t] = ok[t] /\ rt'[t] = rt[t]
      BY <1>1, <3>4 DEF Fails, Counts, MarkError, LeaseInv, TypeOK
    <3>5. ASSUME NEW done, Continues(s, u, done)
          PROVE  status'[t] = status[t] /\ dev'[t] = dev[t] /\ ok'[t] = ok[t] /\ rt'[t] = rt[t]
      BY <1>1, <3>5 DEF Continues, Counts, Reschedule, SetTask, Schedule, LeaseInv, TypeOK
    <3> QED BY <3>1, <3>2, <3>3, <3>4, <3>5
  <2> QED BY <1>1, <2>1, <2>2 DEF Report
<1>2. LeaseInv => [\A s \in Workers : Report(s) =>
                     \A t \in Tasks : rt[t].worker # s =>
                       status'[t] = status[t] /\ dev'[t] = dev[t] /\ ok'[t] = ok[t] /\ rt'[t] = rt[t]]_vars
  BY <1>1
<1> QED BY <1>2, LeaseInvariant, PTL DEF StaleReportsIgnored
-----------------------------------------------------------------------------
(* The engine implements DeviceLease.  Under LeaseInv the driven devices    *)
(* are those of the tasks that have a live worker, so a step is told by     *)
(* what it does to the lease and to the worker of each task.               *)

Driven == {wk[s].dev : s \in LiveWorkers}
AtWork(t) == rt[t].worker # 0 /\ Live(wk[rt[t].worker])

LEMMA LeaseValue ==
  /\ \A t \in Tasks : LeaseOf[t] = IF status[t] = "executing" THEN dev[t] ELSE None
  /\ \A t \in Tasks : LeaseOf'[t] = IF status'[t] = "executing" THEN dev'[t] ELSE None
BY DEF LeaseOf

\* A task at work holds the device its worker drives, alone.
LEMMA WorkLeased ==
  ASSUME LeaseInv, NEW t \in Tasks, AtWork(t)
  PROVE  /\ rt[t].worker \in LiveWorkers /\ wk[rt[t].worker].dev = LeaseOf[t]
         /\ Running(t) /\ LeaseOf[t] \in Devices
         /\ \A u \in Tasks : u # t => LeaseOf[u] # LeaseOf[t]
<1>1. rt[t].worker \in Workers /\ rt[t].worker \in LiveWorkers
  BY WorkerIndex DEF LeaseInv, TypeOK, AtWork, LiveWorkers, Live
<1>2. wk[rt[t].worker].dev = rt[t].dev
  BY DEF LeaseInv, ActiveWorkerReports, AtWork
<1>3. Running(t) /\ status[t] = "executing" /\ dev[t] = rt[t].dev /\ rt[t].dev \in Devices
  BY RunningFacts DEF AtWork
<1>4. ASSUME NEW u \in Tasks, u # t PROVE LeaseOf[u] # LeaseOf[t]
  BY <1>3, <1>4, LeaseValue, ConstantsAssumption DEF LeaseInv, LeaseExclusive
<1> QED BY <1>1, <1>2, <1>3, <1>4, LeaseValue

LEMMA LiveAtWork ==
  ASSUME LeaseInv, NEW s \in LiveWorkers
  PROVE  wk[s].task \in Tasks /\ AtWork(wk[s].task) /\ rt[wk[s].task].worker = s
<1>1. s \in Workers /\ Live(wk[s]) /\ wk[s] # NoWorker /\ s # 0
  BY DEF LiveWorkers, Live, NoWorker, Workers
<1>2. wk[s].task \in Tasks
  BY <1>1 DEF LeaseInv, WorkerAssigned
<1>3. rt[wk[s].task].worker = s
  BY DEF LeaseInv, LiveWorkerOwned
<1> QED BY <1>1, <1>2, <1>3 DEF AtWork

DrivenAgrees ==
  /\ \A d : d \in Driven <=> \E t \in Tasks : AtWork(t) /\ LeaseOf[t] = d
  /\ \A t \in Tasks : AtWork(t) => LeaseOf[t] \in Devices

LEMMA DrivenNow == LeaseInv => DrivenAgrees
<1> SUFFICES ASSUME LeaseInv PROVE DrivenAgrees
  OBVIOUS
<1>1. ASSUME NEW d, d \in Driven PROVE \E t \in Tasks : AtWork(t) /\ LeaseOf[t] = d
  <2>1. PICK s \in LiveWorkers : d = wk[s].dev
    BY <1>1 DEF Driven
  <2>2. wk[s].task \in Tasks /\ AtWork(wk[s].task) /\ rt[wk[s].task].worker = s
    BY LiveAtWork
  <2> QED BY <2>1, <2>2, WorkLeased
<1>2. ASSUME NEW t \in Tasks, AtWork(t) PROVE LeaseOf[t] \in Driven /\ LeaseOf[t] \in Devices
  BY <1>2, WorkLeased DEF Driven
<1> QED BY <1>1, <1>2 DEF DrivenAgrees

LEMMA DrivenThen == LeaseInv' => DrivenAgrees'
BY DrivenNow, PTL

\* The worker of a task is where it was.
KeepsWork(t) == AtWork(t)' <=> AtWork(t)
Keeps(t)     == LeaseOf'[t] = LeaseOf[t] /\ KeepsWork(t)

LeaseStep == [Lease!Next]_(Lease!vars)

LEMMA LeaseFunctions ==
  /\ LeaseOf = [t \in Tasks |-> LeaseOf[t]] /\ LeaseOf' = [t \in Tasks |-> LeaseOf'[t]]
  /\ \A t \in Tasks : \A d : [LeaseOf EXCEPT ![t] = d] = [u \in Tasks |-> IF u = t THEN d ELSE LeaseOf[u]]
BY DEF LeaseOf

LEMMA Stutters ==
  ASSUME LeaseInv, LeaseInv', \A t \in Tasks : Keeps(t) PROVE LeaseStep
<1>1. LeaseOf' = LeaseOf
  BY LeaseFunctions DEF Keeps
<1>2. Driven' = Driven
  BY DrivenNow, DrivenThen DEF DrivenAgrees, Keeps, KeepsWork
<1> QED BY <1>1, <1>2 DEF LeaseStep, Lease!vars, Driven

\* The tasks of S hold nothing afterwards.
LEMMA Releases ==
  ASSUME LeaseInv, LeaseInv', NEW S \in SUBSET Tasks,
         \A t \in S : LeaseOf'[t] = None,
         \A t \in Tasks : t \notin S => Keeps(t)
  PROVE  LeaseStep
<1>1. LeaseOf' = [t \in Tasks |-> IF t \in S THEN None ELSE LeaseOf[t]]
  BY LeaseFunctions DEF Keeps
<1>2. Driven' = Driven \ {LeaseOf[t] : t \in S}
  <2>1. ASSUME NEW d, d \in Driven' PROVE d \in Driven \ {LeaseOf[t] : t \in S}
    <3>1. PICK t \in Tasks : AtWork(t)' /\ LeaseOf'[t] = d
      BY <2>1, DrivenThen DEF DrivenAgrees
    <3>2. d # None
      BY <3>1, DrivenThen, ConstantsAssumption DEF DrivenAgrees
    <3>3. t \notin S /\ AtWork(t) /\ LeaseOf[t] = d
      BY <3>1, <3>2 DEF Keeps, KeepsWork
    <3> QED BY <3>3, DrivenNow, WorkLeased DEF DrivenAgrees
  <2>2. ASSUME NEW d, d \in Driven, d \notin {LeaseOf[t] : t \in S} PROVE d \in Driven'
    <3>1. PICK t \in Tasks : AtWork(t) /\ LeaseOf[t] = d
      BY <2>2, DrivenNow DEF DrivenAgrees
    <3>2. t \notin S
      BY <2>2, <3>1
    <3> QED BY <3>1, <3>2, DrivenThen DEF DrivenAgrees, Keeps, KeepsWork
  <2> QED BY <2>1, <2>2
<1>3. Lease!Release(S)
  BY <1>1, <1>2 DEF Lease!Release, Driven
<1> QED BY <1>3 DEF LeaseStep, Lease!Next
\* t takes the free device d; whether it is at work is open.
LEMMA Takes ==
  ASSUME LeaseInv, LeaseInv', NEW t \in Tasks, NEW d \in Devices,
         \A u \in Tasks : LeaseOf[u] # d, LeaseOf'[t] = d, \A u \in Tasks : u # t => Keeps(u)
  PROVE  LeaseStep
<1>1. LeaseOf' = [LeaseOf EXCEPT ![t] = d]
  BY LeaseFunctions DEF Keeps
<1>2. ASSUME NEW e, e # d PROVE e \in Driven' <=> e \in Driven \ {LeaseOf[t]}
  <2>1. ASSUME e \in Driven' PROVE e \in Driven \ {LeaseOf[t]}
    <3>1. PICK u \in Tasks : AtWork(u)' /\ LeaseOf'[u] = e
      BY <2>1, DrivenThen DEF DrivenAgrees
    <3>2. AtWork(u) /\ LeaseOf[u] = e /\ u # t
      BY <1>2, <3>1 DEF Keeps, KeepsWork
    <3> QED BY <3>2, DrivenNow, WorkLeased DEF DrivenAgrees
  <2>2. ASSUME e \in Driven, e # LeaseOf[t] PROVE e \in Driven'
    <3>1. PICK u \in Tasks : AtWork(u) /\ LeaseOf[u] = e
      BY <2>2, DrivenNow DEF DrivenAgrees
    <3> QED BY <2>2, <3>1, DrivenThen DEF DrivenAgrees, Keeps, KeepsWork
  <2> QED BY <2>1, <2>2
<1>3. d \notin Driven
  BY DrivenNow DEF DrivenAgrees
<1>4. Driven' \in {Driven \ {LeaseOf[t]}, (Driven \ {LeaseOf[t]}) \cup {d}}
  <2>1. CASE d \in Driven'
    <3>1. Driven' = (Driven \ {LeaseOf[t]}) \cup {d}
      BY <1>2, <2>1
    <3> QED BY <3>1
  <2>2. CASE d \notin Driven'
    <3>1. Driven' = Driven \ {LeaseOf[t]}
      BY <1>2, <1>3, <2>2
    <3> QED BY <3>1
  <2> QED BY <2>1, <2>2
<1>5. Lease!Take(t, d)
  BY <1>1, <1>4 DEF Lease!Take, Lease!Free, Driven
<1> QED BY <1>5 DEF LeaseStep, Lease!Next

\* The leases stay, and at most t goes to work or rests.
LEMMA Works ==
  ASSUME LeaseInv, LeaseInv', NEW t \in Tasks, LeaseOf'[t] = LeaseOf[t],
         \A u \in Tasks : u # t => Keeps(u)
  PROVE  LeaseStep
<1>0. LeaseOf' = LeaseOf
  BY LeaseFunctions DEF Keeps
<1>1. CASE KeepsWork(t)
  BY <1>1, Stutters DEF Keeps
<1>d. PICK d : d = LeaseOf[t]
  OBVIOUS
<1>2. ASSUME NEW e, e # d PROVE e \in Driven' <=> e \in Driven
  BY <1>d, <1>0, <1>2, DrivenNow, DrivenThen DEF DrivenAgrees, Keeps, KeepsWork
<1>3. CASE AtWork(t)' /\ ~AtWork(t)
  <2>1. d \in Driven' /\ d \in Devices
    BY <1>d, <1>0, <1>3, DrivenThen DEF DrivenAgrees
  <2>2. d \notin Driven
    <3> SUFFICES ASSUME NEW u \in Tasks, AtWork(u), LeaseOf[u] = d PROVE FALSE
      BY DrivenNow DEF DrivenAgrees
    <3> QED BY <1>d, <1>3, WorkLeased
  <2>3. Driven' = Driven \cup {d}
    BY <1>2, <2>1, <2>2
  <2>4. Lease!Drive(d)
    BY <1>d, <1>0, <2>2, <2>3 DEF Lease!Drive, Lease!Free, Driven
  <2> QED BY <2>1, <2>4 DEF LeaseStep, Lease!Next
<1>4. CASE ~AtWork(t)' /\ AtWork(t)
  <2>1. d \in Driven /\ d \in Devices
    BY <1>d, <1>4, DrivenNow DEF DrivenAgrees
  <2>2. d \notin Driven'
    <3> SUFFICES ASSUME NEW u \in Tasks, AtWork(u)', LeaseOf'[u] = d PROVE FALSE
      BY DrivenThen DEF DrivenAgrees
    <3>1. u # t /\ LeaseOf[u] = d
      BY <1>d, <1>0, <1>4
    <3> QED BY <1>d, <1>4, <3>1, WorkLeased
  <2>3. Driven' = Driven \ {d}
    BY <1>2, <2>1, <2>2
  <2>4. Lease!Rest(d)
    BY <1>0, <2>1, <2>3 DEF Lease!Rest, Driven
  <2> QED BY <2>1, <2>4 DEF LeaseStep, Lease!Next
<1> QED BY <1>1, <1>3, <1>4 DEF KeepsWork

\* Cancelling the workers of the tasks of S leaves the workers of the others.
LEMMA OthersWork ==
  ASSUME LeaseInv, NEW S \in SUBSET Tasks, NEW t \in Tasks, t \notin S, rt[t].worker # 0
  PROVE  /\ rt[t].worker \in Workers
         /\ CancelWorkers(wk, {rt[u].worker : u \in S})[rt[t].worker] = wk[rt[t].worker]
<1>1. rt[t].worker \in Workers
  BY WorkerIndex DEF LeaseInv, TypeOK
<1>2. ASSUME NEW u \in S PROVE rt[u].worker # rt[t].worker
  BY DEF LeaseInv, ActiveWorkerReports
<1>3. rt[t].worker \notin {rt[u].worker : u \in S}
  BY <1>2
<1> DEFINE C == {rt[u].worker : u \in S}
<1> HIDE DEF C
<1>4. CancelWorkers(wk, C)[rt[t].worker] = wk[rt[t].worker]
  BY <1>1, <1>3 DEF CancelWorkers, C
<1> QED BY <1>1, <1>4 DEF C

LEMMA WorkKept ==
  ASSUME NEW t \in Tasks, rt'[t].worker = rt[t].worker,
         rt[t].worker # 0 => wk'[rt[t].worker] = wk[rt[t].worker]
  PROVE  KeepsWork(t)
BY DEF KeepsWork, AtWork

LEMMA LeaseKept ==
  ASSUME NEW t \in Tasks, status'[t] = status[t], dev'[t] = dev[t] PROVE LeaseOf'[t] = LeaseOf[t]
BY LeaseValue

\* The runtimes of S are dropped, their workers cancelled; the others stay.
LEMMA DropsLease ==
  ASSUME LeaseInv, LeaseInv', NEW S \in SUBSET Tasks,
         \A t \in S : status'[t] # "executing",
         \A t \in Tasks : t \notin S => rt'[t] = rt[t] /\ status'[t] = status[t] /\ dev'[t] = dev[t],
         wk' = CancelWorkers(wk, {rt[t].worker : t \in S})
  PROVE  LeaseStep
<1>1. \A t \in S : LeaseOf'[t] = None
  BY LeaseValue
<1>2. ASSUME NEW t \in Tasks, t \notin S PROVE Keeps(t)
  BY <1>2, OthersWork, WorkKept, LeaseKept DEF Keeps
<1> QED BY <1>1, <1>2, Releases

LEMMA PauseAllLease ==
  ASSUME LeaseInv, LeaseInv', NEW S \in SUBSET Tasks, PauseAll(S) PROVE LeaseStep
BY DropsLease DEF PauseAll

LEMMA StillLease ==
  ASSUME LeaseInv, LeaseInv', UNCHANGED <<status, dev, rt, wk>> PROVE LeaseStep
BY WorkKept, LeaseKept, Stutters DEF Keeps
\* The worker of a runtime is none of those still to be numbered.
LEMMA WorkerNumbered ==
  ASSUME LeaseInv, NEW t \in Tasks, rt[t].worker # 0 PROVE rt[t].worker # nextWorker
<1>1. rt[t].worker \in Workers
  BY WorkerIndex DEF LeaseInv, TypeOK
<1>2. wk[rt[t].worker] # NoWorker
  BY DEF LeaseInv, ActiveWorkerReports, NoWorker
<1> QED BY <1>1, <1>2 DEF LeaseInv, WorkerAssigned, TypeOK, Workers

LEMMA ReadyFree == ASSUME NEW d \in Devices, Ready(d) PROVE \A t \in Tasks : LeaseOf[t] # d
BY LeaseValue, ConstantsAssumption DEF Ready

LEMMA LaunchLease ==
  ASSUME LeaseInv, LeaseInv', NEW t \in Tasks, NEW d \in Devices, Ready(d), NEW r \in RoundIds,
         NEW done \in SUBSET Keywords, NEW waits \in BOOLEAN, NEW c, CleanTypes(c),
         Launch(t, d, r, done, waits, c), c.wk = wk \/ c.wk = CancelWorkers(wk, {rt[t].worker}),
         NEW keep, NEW m, SetTask(t, "executing", d, keep, m)
  PROVE  LeaseStep
<1>0. /\ TypeOK /\ t \in Tasks /\ d \in Devices /\ r \in RoundIds /\ done \in SUBSET Keywords
      /\ waits \in BOOLEAN /\ CleanTypes(c) /\ Launch(t, d, r, done, waits, c)
  BY DEF LeaseInv
<1>1. Launched(t, d, r)
  BY ONLY <1>0, LaunchFacts
<1>2. LaunchWaits(t, c) \/ LaunchRests(t, done, c) \/ LaunchWorks(t, d, r, done, c)
  BY ONLY <1>0, LaunchFacts
<1>3. /\ status'[t] = "executing" /\ dev'[t] = d
      /\ \A u \in Tasks : u # t => status'[u] = status[u] /\ dev'[u] = dev[u]
  BY <1>0 DEF SetTask, TypeOK
<1>4. ASSUME NEW u \in Tasks, u # t PROVE Keeps(u)
  <2>1. rt'[u] = rt[u]
    BY <1>1, <1>4 DEF Launched
  <2>2. ASSUME rt[u].worker # 0 PROVE wk'[rt[u].worker] = wk[rt[u].worker]
    <3>0. {t} \in SUBSET Tasks /\ u \notin {t}
      BY <1>4
    <3>1. rt[u].worker \in Workers /\ rt[u].worker # nextWorker
          /\ CancelWorkers(wk, {rt[v].worker : v \in {t}})[rt[u].worker] = wk[rt[u].worker]
      BY <2>2, <3>0, OthersWork, WorkerNumbered
    <3>2. {rt[v].worker : v \in {t}} = {rt[t].worker}
      OBVIOUS
    <3>3. c.wk[rt[u].worker] = wk[rt[u].worker]
      BY <3>1, <3>2
    <3>4. wk'[rt[u].worker] = c.wk[rt[u].worker]
      BY <1>2, <3>1 DEF LaunchWaits, LaunchRests, LaunchWorks
    <3> QED BY <3>3, <3>4
  <2> QED BY <1>3, <1>4, <2>1, <2>2, WorkKept, LeaseKept DEF Keeps
<1>5. LeaseOf'[t] = d
  BY <1>3, LeaseValue
<1> QED BY <1>4, <1>5, ReadyFree, Takes

LEMMA StartLease == ASSUME LeaseInv, LeaseInv', NEW t \in Tasks, Start(t) PROVE LeaseStep
<1>0. TypeOK /\ CleanTypes(Kept) /\ Kept.wk = wk /\ ok[t] \in SUBSET Keywords /\ FALSE \in BOOLEAN
  BY KeptType DEF LeaseInv, TypeOK, Kept
<1>1. PICK d \in Devices :
        /\ Ready(d)
        /\ \/ UNCHANGED <<taskVars, rt, workerVars>>
           \/ SetTask(t, "waiting", None, ok[t], FALSE) /\ UNCHANGED <<rt, workerVars>>
           \/ /\ CanCreateRound /\ SetTask(t, "executing", d, ok[t], ok[t] # Keywords)
              /\ Launch(t, d, nextRound, ok[t], FALSE, Kept)
  BY DEF Start
<1>2. CASE UNCHANGED <<taskVars, rt, workerVars>>
  BY <1>2, StillLease DEF taskVars, workerVars
<1>3. CASE SetTask(t, "waiting", None, ok[t], FALSE) /\ UNCHANGED <<rt, workerVars>>
  <2>1. status[t] = "waiting" /\ status'[t] = "waiting"
        /\ \A u \in Tasks : u # t => status'[u] = status[u] /\ dev'[u] = dev[u]
    BY <1>0, <1>3 DEF Start, SetTask, TypeOK
  <2>2. \A u \in Tasks : LeaseOf'[u] = LeaseOf[u]
    BY <2>1, LeaseValue
  <2>3. \A u \in Tasks : KeepsWork(u)
    BY <1>3, WorkKept DEF workerVars
  <2> QED BY <2>2, <2>3, Stutters DEF Keeps
<1>4. CASE /\ CanCreateRound /\ SetTask(t, "executing", d, ok[t], ok[t] # Keywords)
           /\ Launch(t, d, nextRound, ok[t], FALSE, Kept)
  <2>1. nextRound \in RoundIds
    BY <1>0, <1>4, RoundWithinBound DEF TypeOK
  <2> QED BY <1>0, <1>1, <1>4, <2>1, LaunchLease
<1> QED BY <1>1, <1>2, <1>3, <1>4

\* A resume takes the device even when the round fails.
LEMMA ResumeLease == ASSUME LeaseInv, LeaseInv', NEW t \in Tasks, Resume(t) PROVE LeaseStep
<1> DEFINE r == IF row[t].round = 0 THEN nextRound ELSE row[t].round
<1>0. TypeOK /\ CleanTypes(Kept) /\ Kept.wk = wk /\ ok[t] \in SUBSET Keywords
  BY KeptType DEF LeaseInv, TypeOK, Kept
<1>1. PICK d \in Devices, waits \in BOOLEAN :
        /\ Ready(d) /\ SetTask(t, "executing", d, ok[t], ~waits /\ ok[t] # Keywords)
        /\ \/ UNCHANGED <<rt, workerVars>>
           \/ (row[t].round = 0 => CanCreateRound) /\ Launch(t, d, r, ok[t], waits, Kept)
  BY DEF Resume
<1>2. CASE UNCHANGED <<rt, workerVars>>
  <2>1. /\ status'[t] = "executing" /\ dev'[t] = d
        /\ \A u \in Tasks : u # t => status'[u] = status[u] /\ dev'[u] = dev[u]
    BY <1>0, <1>1 DEF SetTask, TypeOK
  <2>2. LeaseOf'[t] = d
    BY <2>1, LeaseValue
  <2>3. \A u \in Tasks : u # t => Keeps(u)
    BY <1>2, <2>1, WorkKept, LeaseKept DEF Keeps, workerVars
  <2> QED BY <1>1, <2>2, <2>3, ReadyFree, Takes
<1>3. CASE (row[t].round = 0 => CanCreateRound) /\ Launch(t, d, r, ok[t], waits, Kept)
  <2>1. r \in RoundIds
    BY <1>0, <1>3, RoundWithinBound DEF TypeOK, StateRows
  <2> HIDE DEF r
  <2> QED BY <1>0, <1>1, <1>3, <2>1, LaunchLease
<1> QED BY <1>1, <1>2, <1>3

\* The runtime of t goes with its worker; the others stay.
LEMMA DropKeeps ==
  ASSUME LeaseInv, NEW t \in Tasks, DropRuntime(t), NEW u \in Tasks, u # t PROVE KeepsWork(u)
<1>1. rt'[u] = rt[u]
  BY DropRuntimeFacts DEF LeaseInv
<1>2. wk' = CancelWorkers(wk, {rt[v].worker : v \in {t}})
  <2>1. {rt[v].worker : v \in {t}} = {rt[t].worker}
    OBVIOUS
  <2> QED BY <2>1 DEF DropRuntime, Cleaned
<1> QED BY <1>1, <1>2, OthersWork, WorkKept

LEMMA RetryLease == ASSUME LeaseInv, LeaseInv', NEW t \in Tasks, Retry(t) PROVE LeaseStep
<1>0. /\ TypeOK /\ CleanTypes(Cleaned(t)) /\ {} \in SUBSET Keywords /\ FALSE \in BOOLEAN
      /\ Cleaned(t).wk = CancelWorkers(wk, {rt[t].worker})
  BY CleanedType DEF LeaseInv, Cleaned
<1>1. CASE DropRuntime(t) /\ UNCHANGED taskVars
  <2>1. \A u \in Tasks : LeaseOf'[u] = LeaseOf[u]
    BY <1>1, LeaseKept DEF taskVars
  <2> QED BY <1>1, <2>1, DropKeeps, Works DEF Keeps
<1>2. ASSUME NEW d \in Devices, Ready(d), SetTask(t, "executing", d, {}, TRUE), DropRuntime(t)
      PROVE  LeaseStep
  <2>1. /\ status'[t] = "executing" /\ dev'[t] = d
        /\ \A u \in Tasks : u # t => status'[u] = status[u] /\ dev'[u] = dev[u]
    BY <1>0, <1>2 DEF SetTask, TypeOK
  <2>2. LeaseOf'[t] = d
    BY <2>1, LeaseValue
  <2>3. \A u \in Tasks : u # t => Keeps(u)
    BY <1>2, <2>1, DropKeeps, LeaseKept DEF Keeps
  <2> QED BY <1>2, <2>2, <2>3, ReadyFree, Takes
<1>3. ASSUME NEW d \in Devices, Ready(d), SetTask(t, "executing", d, {}, TRUE), CanCreateRound,
             Launch(t, d, nextRound, {}, FALSE, Cleaned(t))
      PROVE  LeaseStep
  <2>1. nextRound \in RoundIds
    BY <1>0, <1>3, RoundWithinBound DEF TypeOK
  <2> QED BY <1>0, <1>3, <2>1, LaunchLease
<1> QED BY <1>1, <1>2, <1>3 DEF Retry
\* A reload gives back the devices of the tasks that execute without a runtime.
LEMMA ReloadLease == ASSUME LeaseInv, LeaseInv', Reload PROVE LeaseStep
<1> DEFINE S == {t \in Tasks : status[t] = "executing" /\ ~Running(t)}
<1>1. UNCHANGED <<rt, wk>>
  BY DEF Reload, workerVars
<1>2. \A t \in Tasks : row[t] \in StateRows
  BY DEF LeaseInv, TypeOK
<1>3. ASSUME NEW t \in S PROVE LeaseOf'[t] = None
  <2>1. status'[t] = RestoredStatus(row[t], RestoredOk(t, row[t], progress))
    BY <1>3 DEF Reload
  <2>2. status'[t] # "executing"
    BY <1>2, <1>3, <2>1, RestoredStatusType
  <2> QED BY <1>3, <2>2, LeaseValue
<1>4. ASSUME NEW t \in Tasks, t \notin S PROVE Keeps(t)
  <2>1. CASE status[t] = "executing"
    <3>1. status'[t] = status[t] /\ dev'[t] = dev[t]
      BY <1>4, <2>1 DEF Reload
    <3> QED BY <1>1, <3>1, LeaseKept, WorkKept DEF Keeps
  <2>2. CASE status[t] # "executing"
    <3>1. status'[t] \in {status[t], RestoredStatus(row[t], RestoredOk(t, row[t], progress))}
      BY DEF Reload
    <3>2. status'[t] # "executing"
      BY <1>2, <2>2, <3>1, RestoredStatusType
    <3> QED BY <1>1, <2>2, <3>2, LeaseValue, WorkKept DEF Keeps
  <2> QED BY <2>1, <2>2
<1> QED BY <1>3, <1>4, Releases

LEMMA ReloadTaskLease == ASSUME LeaseInv, LeaseInv', NEW t \in Tasks, ReloadTask(t) PROVE LeaseStep
<1>0. TypeOK /\ UNCHANGED <<rt, wk>>
  BY DEF ReloadTask, workerVars, LeaseInv
<1>1. CASE UNCHANGED <<status, dev>>
  BY <1>0, <1>1, StillLease
<1>2. ASSUME status[t] # "executing", NEW s, s # "executing", NEW d, NEW done, SetTask(t, s, d, done, FALSE)
      PROVE  LeaseStep
  <2>1. /\ status'[t] = s
        /\ \A u \in Tasks : u # t => status'[u] = status[u] /\ dev'[u] = dev[u]
    BY <1>0, <1>2 DEF SetTask, TypeOK
  <2>2. \A u \in Tasks : LeaseOf'[u] = LeaseOf[u]
    BY <1>2, <2>1, LeaseValue
  <2> QED BY <1>0, <2>2, WorkKept, Stutters DEF Keeps
<1>3. RestoredStatus(row[t], RestoredOk(t, row[t], progress)) # "executing"
  BY <1>0, RestoredStatusType DEF TypeOK
<1> QED BY <1>1, <1>2, <1>3 DEF ReloadTask

LEMMA CommandRefines == ASSUME LeaseInv, LeaseInv', Command PROVE LeaseStep
<1>0. TypeOK
  BY DEF LeaseInv
<1>1. ASSUME NEW t \in Tasks, Pause(t) PROVE LeaseStep
  BY <1>1, PauseAllLease DEF Pause
<1>2. ASSUME NEW S \in SUBSET Tasks, PausePhones(S) PROVE LeaseStep
  <2>1. PICK P \in SUBSET Tasks : PauseAll(P)
    BY <1>2 DEF PausePhones
  <2> QED BY <2>1, PauseAllLease
<1>3. ASSUME NEW d \in Devices, Kick(d) PROVE LeaseStep
  <2>1. PICK P \in SUBSET Tasks : PauseAll(P)
    BY <1>3 DEF Kick
  <2> QED BY <2>1, PauseAllLease
<1>4. ASSUME NEW t \in Tasks, Stop(t) PROVE LeaseStep
  <2>1. /\ status'[t] # "executing"
        /\ \A u \in Tasks : u # t => rt'[u] = rt[u] /\ status'[u] = status[u] /\ dev'[u] = dev[u]
    BY <1>0, <1>4, DropRuntimeFacts DEF Stop, SetTask, TypeOK
  <2>2. wk' = CancelWorkers(wk, {rt[u].worker : u \in {t}})
    <3>1. {rt[u].worker : u \in {t}} = {rt[t].worker}
      OBVIOUS
    <3> QED BY <1>4, <3>1 DEF Stop, DropRuntime, Cleaned
  <2>3. {t} \in SUBSET Tasks /\ \A u \in Tasks : u \notin {t} => u # t
    OBVIOUS
  <2> QED BY <2>1, <2>2, <2>3, DropsLease
<1>5. ASSUME NEW t \in Tasks, ClearDevice(t) PROVE LeaseStep
  <2>1. \A u \in Tasks : LeaseOf'[u] = LeaseOf[u]
    BY <1>0, <1>5, LeaseValue DEF ClearDevice, TypeOK
  <2> QED BY <1>5, <2>1, WorkKept, Stutters DEF ClearDevice, Keeps, workerVars
<1>6. ASSUME NEW online, ReleaseOffline(online) PROVE LeaseStep
  <2>1. PICK S \in SUBSET Tasks : MarkError(S, wk, FALSE)
    BY <1>6 DEF ReleaseOffline
  <2> QED BY <2>1, DropsLease DEF MarkError
<1>7. ASSUME NEW S \in SUBSET Tasks, Forget(S) PROVE LeaseStep
  BY <1>7, DropsLease DEF Forget
<1>8. ASSUME NEW d \in Devices, Flag(d) \/ Unflag(d) PROVE LeaseStep
  BY <1>8, StillLease DEF Flag, Unflag, taskVars, workerVars
<1> QED BY <1>1, <1>2, <1>3, <1>4, <1>5, <1>6, <1>7, <1>8, StartLease, ResumeLease, RetryLease,
           ReloadLease, ReloadTaskLease DEF Command

\* A restart gives every device back.
LEMMA RestartLease == ASSUME LeaseInv, LeaseInv', NEW newDay \in BOOLEAN, Restart(newDay) PROVE LeaseStep
<1>1. ASSUME NEW t \in Tasks PROVE LeaseOf'[t] = None
  <2>1. row'[t] \in StateRows
    BY DEF LeaseInv, TypeOK
  <2>2. status'[t] = "absent" \/ status'[t] = RestoredStatus(row'[t], RestoredOk(t, row'[t], progress'))
    BY DEF Restart
  <2>3. status'[t] # "executing"
    BY <2>1, <2>2, RestoredStatusType
  <2> QED BY <2>3, LeaseValue
<1> QED BY <1>1, Releases

LEMMA WakeupLease ==
  ASSUME LeaseInv, LeaseInv', NEW w \in wakeups, Wakeup(w[1], w[2]) PROVE LeaseStep
<1> DEFINE t == w[1]
<1>0. TypeOK /\ t \in Tasks /\ UNCHANGED <<status, dev>>
  BY DEF Wakeup, LeaseInv, TypeOK
<1> HIDE DEF t
<1>1. CASE UNCHANGED <<rt, wk>>
  BY <1>0, <1>1, StillLease
<1>2. CASE SpawnWorker(t, rt[t], ok[t], wk)
  <2>1. ASSUME NEW u \in Tasks, u # t PROVE KeepsWork(u)
    <3>1. rt'[u] = rt[u]
      BY <1>0, <1>2, <2>1 DEF SpawnWorker, TypeOK
    <3>2. \A s \in Workers : s # nextWorker => wk'[s] = wk[s]
      BY <1>0, <1>2 DEF SpawnWorker, TypeOK
    <3>3. rt[u].worker # 0 => rt[u].worker \in Workers /\ rt[u].worker # nextWorker
      BY <1>0, WorkerIndex, WorkerNumbered DEF TypeOK
    <3> QED BY <3>1, <3>2, <3>3, WorkKept
  <2>2. \A u \in Tasks : LeaseOf'[u] = LeaseOf[u]
    BY <1>0, LeaseKept
  <2> QED BY <1>0, <2>1, <2>2, Works DEF Keeps
<1> QED BY <1>1, <1>2 DEF Wakeup, workerVars, t

\* A step of worker s touches the one task that waits for it.
LEMMA WorkerLease ==
  ASSUME LeaseInv, LeaseInv', NEW s \in Workers, UNCHANGED <<status, dev, rt>>,
         \A r \in Workers : r # s => wk'[r] = wk[r]
  PROVE  LeaseStep
<1>1. \A u \in Tasks : LeaseOf'[u] = LeaseOf[u]
  BY LeaseKept
<1>2. ASSUME NEW u \in Tasks, rt[u].worker # s PROVE KeepsWork(u)
  <2>1. rt[u].worker # 0 => rt[u].worker \in Workers
    BY WorkerIndex DEF LeaseInv, TypeOK
  <2> QED BY <1>2, <2>1, WorkKept
<1>3. CASE \E t \in Tasks : rt[t].worker = s
  <2>1. PICK t \in Tasks : rt[t].worker = s
    BY <1>3
  <2>2. ASSUME NEW u \in Tasks, u # t PROVE rt[u].worker # s
    BY <2>1, <2>2 DEF LeaseInv, ActiveWorkerReports, Workers
  <2> QED BY <1>1, <1>2, <2>2, Works DEF Keeps
<1>4. CASE \A t \in Tasks : rt[t].worker # s
  BY <1>1, <1>2, <1>4, Stutters DEF Keeps
<1> QED BY <1>3, <1>4

LEMMA HandleResultRefines ==
  ASSUME LeaseInv, LeaseInv', NEW s \in Workers, HandleResult(s) PROVE LeaseStep
<1>0. TypeOK /\ wk[s].phase \in Outcomes
  BY DEF LeaseInv, HandleResult
<1>1. PICK t \in Tasks : \/ Dropped(s, t) \/ Ends(s, t)
                         \/ \E keep \in SUBSET Keywords : Fails(s, t, keep)
                         \/ \E done \in SUBSET Keywords : Continues(s, t, done)
  BY ResultCases
<1>2. CASE Dropped(s, t)
  <2>1. UNCHANGED <<status, dev, rt>> /\ \A r \in Workers : r # s => wk'[r] = wk[r]
    BY <1>0, <1>2 DEF Dropped, taskVars, TypeOK
  <2> QED BY <2>1, WorkerLease
<1>3. ASSUME Counts(s, t), \A r \in Workers : r # s => wk'[r] = wk[r],
             \A u \in Tasks : u # t => rt'[u] = rt[u] /\ status'[u] = status[u] /\ dev'[u] = dev[u]
      PROVE  \A u \in Tasks : u # t => Keeps(u)
  <2> SUFFICES ASSUME NEW u \in Tasks, u # t PROVE Keeps(u)
    OBVIOUS
  <2>1. rt[u].worker # 0 => rt[u].worker \in Workers /\ rt[u].worker # s
    BY <1>0, <1>3, WorkerIndex DEF LeaseInv, TypeOK, ActiveWorkerReports, Counts
  <2> QED BY <1>3, <2>1, WorkKept, LeaseKept DEF Keeps
<1>4. ASSUME NEW keep, Fails(s, t, keep) PROVE LeaseStep
  <2> DEFINE W == [wk EXCEPT ![s] = NoWorker]
  <2>1. wk' = CancelWorkers(W, {rt[u].worker : u \in {t}}) /\ Counts(s, t) /\ W \in [Workers -> WorkerStates]
    BY <1>0, <1>4, NoWorkerType DEF Fails, MarkError, TypeOK
  <2>2. \A r \in Workers : r # s => wk'[r] = wk[r]
    <3>1. {rt[u].worker : u \in {t}} = {s}
      BY <2>1 DEF Counts
    <3>2. \A r \in Workers : r # s => wk'[r] = W[r]
      BY <2>1, <3>1 DEF CancelWorkers
    <3> QED BY <1>0, <3>2 DEF TypeOK
  <2>3. /\ status'[t] # "executing"
        /\ \A u \in Tasks : u # t => rt'[u] = rt[u] /\ status'[u] = status[u] /\ dev'[u] = dev[u]
    BY <1>4 DEF Fails, MarkError
  <2>4. \A u \in Tasks : u # t => Keeps(u)
    BY <1>3, <2>1, <2>2, <2>3
  <2>5. \A u \in {t} : LeaseOf'[u] = None
    BY <2>3, LeaseValue
  <2>6. {t} \in SUBSET Tasks /\ \A u \in Tasks : u \notin {t} => Keeps(u)
    BY <2>4
  <2> QED BY <2>5, <2>6, Releases
<1>5. CASE Ends(s, t) /\ Succeed(t)
  <2>1. Counts(s, t) /\ \A r \in Workers : r # s => wk'[r] = wk[r]
    BY <1>0, <1>5 DEF Ends, TypeOK
  <2>2. /\ status'[t] # "executing"
        /\ \A u \in Tasks : u # t => rt'[u] = rt[u] /\ status'[u] = status[u] /\ dev'[u] = dev[u]
    BY <1>0, <1>5 DEF Succeed, SetTask, WithoutRuntime, TypeOK
  <2>3. \A u \in Tasks : u # t => Keeps(u)
    BY <1>3, <2>1, <2>2
  <2>4. \A u \in {t} : LeaseOf'[u] = None
    BY <2>2, LeaseValue
  <2>5. {t} \in SUBSET Tasks /\ \A u \in Tasks : u \notin {t} => Keeps(u)
    BY <2>3
  <2> QED BY <2>4, <2>5, Releases
<1>6. ASSUME Counts(s, t), wk' = [wk EXCEPT ![s] = NoWorker], NEW done, SetTask(t, status[t], dev[t], done, FALSE),
             NEW Q, Schedule(t, Q, wakeups)
      PROVE  LeaseStep
  <2>1. \A r \in Workers : r # s => wk'[r] = wk[r]
    BY <1>0, <1>6 DEF TypeOK
  <2>2. /\ status'[t] = status[t] /\ dev'[t] = dev[t]
        /\ \A u \in Tasks : u # t => rt'[u] = rt[u] /\ status'[u] = status[u] /\ dev'[u] = dev[u]
    BY <1>0, <1>6 DEF SetTask, Schedule, TypeOK
  <2>3. \A u \in Tasks : u # t => Keeps(u)
    BY <1>3, <1>6, <2>1, <2>2
  <2>4. LeaseOf'[t] = LeaseOf[t]
    BY <2>2, LeaseKept
  <2> QED BY <2>3, <2>4, Works
<1>7. ASSUME Ends(s, t), NextIntervalRound(t) PROVE LeaseStep
  BY <1>6, <1>7 DEF Ends, NextIntervalRound
<1>8. ASSUME NEW done, Continues(s, t, done) PROVE LeaseStep
  BY <1>6, <1>8 DEF Continues, Reschedule
<1> QED BY <1>1, <1>2, <1>4, <1>5, <1>7, <1>8 DEF Ends

LEMMA NextRefines == LeaseInv /\ LeaseInv' /\ [Next]_vars => [Lease!Next]_(Lease!vars)
<1> SUFFICES ASSUME LeaseInv, LeaseInv', [Next]_vars PROVE LeaseStep
  BY DEF LeaseStep
<1>1. CASE UNCHANGED vars
  BY <1>1, StillLease DEF vars, taskVars, workerVars
<1>2. ASSUME NEW s \in Workers, Worker(s) \/ \E k \in Keywords : HandleKeywordDone(s, k) PROVE LeaseStep
  <2>1. UNCHANGED <<status, dev, rt>> /\ \A r \in Workers : r # s => wk'[r] = wk[r]
    BY <1>2 DEF Worker, WorkerKeyword, WorkerEnds, WorkerCancelled, HandleKeywordDone, taskVars, LeaseInv, TypeOK
  <2> QED BY <2>1, WorkerLease
<1>3. ASSUME NEW d \in Devices, DeviceUp(d) \/ DeviceDown(d) PROVE LeaseStep
  BY <1>3, StillLease DEF DeviceUp, DeviceDown, taskVars, workerVars
<1> QED BY <1>1, <1>2, <1>3, CommandRefines, RestartLease, WakeupLease, HandleResultRefines
        DEF Next, Outside, Report

\* The engine, with all its messages, failures and restarts, implements the
\* abstract lease of devices: each of its steps takes, gives back, drives or
\* rests devices as DeviceLease allows, or changes nothing of it.
THEOREM EngineImplementsLease == Spec => ImplementsLease
<1>1. Init => Lease!Init
  <2> SUFFICES ASSUME Init PROVE Lease!Init
    OBVIOUS
  <2>1. LeaseOf = [t \in Tasks |-> None]
    BY LeaseFunctions, LeaseValue DEF Init
  <2>2. LiveWorkers = {}
    BY DEF Init, LiveWorkers, NoWorker
  <2> QED BY <2>1, <2>2 DEF Lease!Init
<1> QED BY <1>1, NextRefines, LeaseInvariant, PTL DEF Spec, ImplementsLease, Lease!Spec
=============================================================================
