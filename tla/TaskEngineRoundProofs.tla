------------------------ MODULE TaskEngineRoundProofs ------------------------
(***************************************************************************)
(* What the engine writes down agrees with what it does, for every value   *)
(* of the constants: rounds, wakeups, runs, progress and device rows       *)
(* follow the runtimes.  Each section proves one inductive invariant of    *)
(* TaskEngine on top of LeaseInv, and the properties it is for.            *)
(*                                                                         *)
(* Three of them need the instance to leave something out that the code    *)
(* allows and that does break them: empty batches (EmptyBatches), rounds   *)
(* that fail to open and two commands (RoundsStay), and tasks rebuilt      *)
(* during a wait (TasksStay).  The theorems name the one they need.        *)
(***************************************************************************)
EXTENDS TaskEngineLeaseProofs

-----------------------------------------------------------------------------
(* Rounds.                                                                 *)

Rounded == LeaseInv /\ RoundInv

\* The round of a runtime is its task's own.
LEMMA RoundOwned ==
  ASSUME Rounded, NEW t \in Tasks, Running(t)
  PROVE  /\ rt[t].round \in RoundIds /\ rt[t].round = row[t].round /\ rt[t].round # 0
         /\ rounds[rt[t].round] = [task |-> t, st |-> "running"]
         /\ rounds[rt[t].round].task = t
<1>1. rt[t].round \in RoundIds /\ rt[t].round = row[t].round /\ rt[t].round # 0
  BY RunningFacts DEF Rounded, RoundInv, RowNamesRound, RoundIds
<1>2. rt[t].round \in OpenRounds(t)
  BY DEF Rounded, RoundInv, RoundOpen
<1> QED BY <1>1, <1>2 DEF OpenRounds

LEMMA RoundsDiffer ==
  ASSUME Rounded, NEW t \in Tasks, NEW u \in Tasks, t # u, Running(t) PROVE rt[t].round # rt[u].round
<1>1. CASE Running(u)
  BY <1>1, RoundOwned
<1>2. CASE ~Running(u)
  BY <1>2, RoundOwned, RunningFacts DEF Rounded
<1> QED BY <1>1, <1>2

\* What finishing and creating do to the entry of a round.
LEMMA FinishedEntry ==
  ASSUME NEW R \in [RoundIds -> RoundRows], NEW I, NEW s, NEW i \in RoundIds
  PROVE  /\ FinishRounds(R, I, s)[i].task = R[i].task
         /\ i \notin I => FinishRounds(R, I, s)[i] = R[i]
         /\ i \in I => FinishRounds(R, I, s)[i] = [task |-> R[i].task, st |-> s]
BY DEF FinishRounds, RoundRows

LEMMA CreatedEntry ==
  ASSUME NEW R \in [RoundIds -> RoundRows], NEW t \in Tasks, NEW i \in RoundIds
  PROVE  /\ i = nextRound => CreateRound(R, t)[i] = [task |-> t, st |-> "running"]
         /\ i # nextRound => /\ CreateRound(R, t)[i].task = R[i].task
                             /\ R[i].task # t => CreateRound(R, t)[i] = R[i]
                             /\ R[i].task = t => CreateRound(R, t)[i] # [task |-> t, st |-> "running"]
BY DEF CreateRound, RoundRows

LEMMA NothingFinished ==
  ASSUME NEW R \in [RoundIds -> RoundRows], NEW s PROVE FinishRounds(R, {}, s) = R
BY DEF FinishRounds

\* t is running after the step, with the round it had.
StaysOn(t) == /\ Running(t) /\ rt'[t].round = rt[t].round
              /\ row'[t].status = "executing" /\ row'[t].round = row[t].round

\* Some rounds are finished: none of a runtime that stays.
LEMMA RoundsFinished ==
  ASSUME Rounded, NEW I, NEW s, s # "running",
         rounds' = FinishRounds(rounds, I, s), nextRound' = nextRound,
         \A t \in Tasks : rt'[t].dev # None => StaysOn(t) /\ rt[t].round \notin I,
         \A t \in Tasks : row'[t].round \in {0, row[t].round}
  PROVE  RoundInv'
<1>0. rounds \in [RoundIds -> RoundRows]
  BY DEF Rounded, LeaseInv, TypeOK
<1> DEFINE F == FinishRounds(rounds, I, s)
<1>e. \A i \in RoundIds : /\ rounds'[i].task = rounds[i].task
                          /\ i \notin I => rounds'[i] = rounds[i]
                          /\ i \in I => rounds'[i] = [task |-> rounds[i].task, st |-> s]
  <2>1. \A i \in RoundIds : /\ F[i].task = rounds[i].task
                            /\ i \notin I => F[i] = rounds[i]
                            /\ i \in I => F[i] = [task |-> rounds[i].task, st |-> s]
    BY <1>0, FinishedEntry
  <2>2. rounds' = F
    OBVIOUS
  <2> HIDE DEF F
  <2> QED BY <2>1, <2>2
<1>1. RoundsFresh'
  BY <1>e DEF Rounded, RoundInv, RoundsFresh
<1>2. ASSUME NEW t \in Tasks PROVE OpenRounds(t)' = OpenRounds(t) \ I
  <2>1. ASSUME NEW i \in RoundIds
        PROVE  rounds'[i] = [task |-> t, st |-> "running"]
               <=> rounds[i] = [task |-> t, st |-> "running"] /\ i \notin I
    <3>1. CASE i \in I
      <4>0. rounds'[i] = [task |-> rounds[i].task, st |-> s]
        BY <1>e, <3>1
      <4>1. rounds'[i].st = s
        BY <4>0
      <4>2. rounds'[i] # [task |-> t, st |-> "running"]
        BY <4>1
      <4> QED BY <3>1, <4>2
    <3>2. CASE i \notin I
      BY <1>e, <3>2
    <3> QED BY <3>1, <3>2
  <2> QED BY <2>1 DEF OpenRounds
<1>3. RowNamesRound'
  <2>1. ASSUME NEW t \in Tasks, rt'[t].dev # None
        PROVE  row'[t].status = "executing" /\ row'[t].round = rt'[t].round
    BY <2>1 DEF Rounded, RoundInv, RowNamesRound, StaysOn
  <2>2. ASSUME NEW t \in Tasks, row'[t].round # 0
        PROVE  rounds'[row'[t].round].task = t /\ OpenRounds(t)' \subseteq {row'[t].round}
    <3>1. row'[t].round = row[t].round /\ row[t].round \in RoundIds
      BY <2>2 DEF Rounded, LeaseInv, TypeOK, StateRows
    <3>2. rounds[row[t].round].task = t /\ OpenRounds(t) \subseteq {row[t].round}
      BY <2>2, <3>1 DEF Rounded, RoundInv, RowNamesRound
    <3> QED BY <1>e, <1>2, <3>1, <3>2
  <2> QED BY <2>1, <2>2 DEF RowNamesRound, Running
<1>4. RoundOpen'
  <2>1. ASSUME NEW t \in Tasks, rt'[t].dev # None PROVE OpenRounds(t)' = {rt'[t].round}
    <3>1. OpenRounds(t) = {rt[t].round} /\ rt'[t].round = rt[t].round /\ rt[t].round \notin I
      BY <2>1 DEF Rounded, RoundInv, RoundOpen, StaysOn
    <3> QED BY <1>2, <3>1
  <2> QED BY <2>1 DEF RoundOpen, Running
<1> QED BY <1>1, <1>3, <1>4 DEF RoundInv

LEMMA RoundsKept ==
  ASSUME Rounded, UNCHANGED <<rounds, nextRound>>,
         \A t \in Tasks : rt'[t].dev # None => StaysOn(t),
         \A t \in Tasks : row'[t].round \in {0, row[t].round}
  PROVE  RoundInv'
<1>1. rounds' = FinishRounds(rounds, {}, "stopped")
  BY NothingFinished DEF Rounded, LeaseInv, TypeOK
<1> QED BY <1>1, RoundsFinished

\* Nothing changes that rounds are about.
LEMMA RoundsUntouched ==
  ASSUME Rounded, UNCHANGED <<rounds, nextRound, row>>,
         \A t \in Tasks : rt'[t].dev = rt[t].dev /\ rt'[t].round = rt[t].round
  PROVE  RoundInv'
<1>1. \A t \in Tasks : rt'[t].dev # None => StaysOn(t)
  BY DEF StaysOn, Running, Rounded, RoundInv, RowNamesRound
<1> QED BY <1>1, RoundsKept

\* t gets the next round, or its own again; the others keep what they have.
LEMMA RoundCreated ==
  ASSUME Rounded, NEW t \in Tasks, NEW I, NEW s, s # "running", CanCreateRound,
         rounds' = CreateRound(FinishRounds(rounds, I, s), t), nextRound' = nextRound + 1,
         rt'[t].dev # None, rt'[t].round = nextRound,
         row'[t].status = "executing", row'[t].round = nextRound,
         \A u \in Tasks : u # t => rt'[u] = rt[u] /\ row'[u] = row[u],
         \A u \in Tasks : u # t /\ Running(u) => rt[u].round \notin I
  PROVE  RoundInv'
<1> DEFINE F == FinishRounds(rounds, I, s)
<1>0. /\ rounds \in [RoundIds -> RoundRows] /\ nextRound \in RoundIds /\ nextRound \in Nat /\ t # None
  BY RoundWithinBound, ConstantsAssumption DEF Rounded, LeaseInv, TypeOK
<1>1. F \in [RoundIds -> RoundRows] \/ F \in [RoundIds -> [task: Tasks \cup {None}, st: {s}] \cup RoundRows]
  BY <1>0 DEF FinishRounds, RoundRows
<1>2. \A i \in RoundIds : F[i].task = rounds[i].task /\ (i \notin I => F[i] = rounds[i])
                          /\ (i \in I => F[i] = [task |-> rounds[i].task, st |-> s])
  BY <1>0, FinishedEntry
<1>3. rounds[nextRound].task = None
  BY <1>0 DEF Rounded, RoundInv, RoundsFresh
<1>4. /\ rounds'[nextRound] = [task |-> t, st |-> "running"]
      /\ \A i \in RoundIds : i # nextRound =>
           /\ rounds'[i].task = rounds[i].task
           /\ rounds[i].task # t => rounds'[i] = F[i]
           /\ rounds[i].task = t => rounds'[i] # [task |-> t, st |-> "running"]
  <2> HIDE DEF F
  <2>1. rounds' = CreateRound(F, t)
    BY DEF F
  <2>2. ASSUME NEW i \in RoundIds, i # nextRound
        PROVE  /\ rounds'[i].task = rounds[i].task
               /\ rounds[i].task # t => rounds'[i] = F[i]
               /\ rounds[i].task = t => rounds'[i] # [task |-> t, st |-> "running"]
    <3>1. F[i] = rounds[i] \/ F[i] = [task |-> rounds[i].task, st |-> s]
      BY <1>2
    <3>2. rounds[i] \in RoundRows
      BY <1>0
    <3>3. rounds'[i] = IF F[i].task = t /\ F[i].st = "running" THEN [F[i] EXCEPT !.st = "stopped"] ELSE F[i]
      BY <2>1, <2>2 DEF CreateRound
    <3> QED BY <3>1, <3>2, <3>3 DEF RoundRows
  <2> QED BY <1>0, <2>1, <2>2 DEF CreateRound
<1>5. RoundsFresh'
  BY <1>0, <1>4 DEF Rounded, RoundInv, RoundsFresh, RoundIds
<1>6. OpenRounds(t)' = {nextRound}
  <2>1. ASSUME NEW i \in RoundIds, i # nextRound PROVE rounds'[i] # [task |-> t, st |-> "running"]
    <3>1. CASE rounds[i].task = t
      BY <1>4, <2>1, <3>1
    <3>2. CASE rounds[i].task # t
      <4>1. rounds'[i].task # t
        BY <1>4, <2>1, <3>2
      <4> QED BY <4>1
    <3> QED BY <3>1, <3>2
  <2> QED BY <1>0, <1>4, <2>1 DEF OpenRounds
<1>7. ASSUME NEW u \in Tasks, u # t PROVE OpenRounds(u)' = OpenRounds(u) \ I
  <2>1. ASSUME NEW i \in RoundIds
        PROVE  rounds'[i] = [task |-> u, st |-> "running"]
               <=> rounds[i] = [task |-> u, st |-> "running"] /\ i \notin I
    <3>1. CASE i = nextRound
      <4>1. rounds'[i].task = t /\ rounds[i].task = None /\ u # None
        BY <1>3, <1>4, <3>1, ConstantsAssumption
      <4> QED BY <1>7, <4>1
    <3>2. CASE i # nextRound /\ rounds[i].task = t
      BY <1>4, <1>7, <3>2
    <3>3. CASE i # nextRound /\ rounds[i].task # t
      <4>1. rounds'[i] = F[i]
        BY <1>4, <3>3
      <4>2. /\ i \notin I => F[i] = rounds[i]
            /\ i \in I => F[i] = [task |-> rounds[i].task, st |-> s]
        BY <1>2
      <4> HIDE DEF F
      <4> QED BY <4>1, <4>2
    <3> QED BY <3>1, <3>2, <3>3
  <2> QED BY <2>1 DEF OpenRounds
<1>8. RowNamesRound'
  <2>1. ASSUME NEW u \in Tasks, u # t, row[u].round # 0
        PROVE  rounds'[row[u].round].task = u /\ OpenRounds(u)' \subseteq {row[u].round}
    <3>1. row[u].round \in RoundIds /\ rounds[row[u].round].task = u /\ OpenRounds(u) \subseteq {row[u].round}
      BY <2>1 DEF Rounded, LeaseInv, TypeOK, StateRows, RoundInv, RowNamesRound
    <3>2. row[u].round # nextRound
      BY <1>3, <3>1, ConstantsAssumption
    <3> QED BY <1>4, <1>7, <2>1, <3>1, <3>2
  <2>2. \A u \in Tasks : u # t /\ Running(u) => row[u].status = "executing" /\ row[u].round = rt[u].round
    BY DEF Rounded, RoundInv, RowNamesRound
  <2>3. rounds'[nextRound].task = t
    BY <1>4
  <2> HIDE DEF F
  <2> QED BY <1>6, <2>1, <2>2, <2>3 DEF RowNamesRound, Running
<1>9. RoundOpen'
  <2>1. \A u \in Tasks : u # t /\ Running(u) => OpenRounds(u) = {rt[u].round}
    BY DEF Rounded, RoundInv, RoundOpen
  <2> HIDE DEF F
  <2> QED BY <1>6, <1>7, <2>1 DEF RoundOpen, Running
<1> QED BY <1>5, <1>8, <1>9 DEF RoundInv

LEMMA RoundReopened ==
  ASSUME Rounded, NEW t \in Tasks, row[t].round # 0,
         rounds' = FinishRounds(rounds, {row[t].round}, "running"), nextRound' = nextRound,
         rt'[t].dev # None, rt'[t].round = row[t].round,
         row'[t].status = "executing", row'[t].round = row[t].round,
         \A u \in Tasks : u # t => rt'[u] = rt[u] /\ row'[u] = row[u]
  PROVE  RoundInv'
<1> DEFINE r == row[t].round
<1>0. /\ rounds \in [RoundIds -> RoundRows] /\ r \in RoundIds
      /\ rounds[r].task = t /\ OpenRounds(t) \subseteq {r}
  BY DEF Rounded, LeaseInv, TypeOK, StateRows, RoundInv, RowNamesRound
<1>1. /\ rounds'[r] = [task |-> t, st |-> "running"]
      /\ \A i \in RoundIds : rounds'[i].task = rounds[i].task /\ (i # r => rounds'[i] = rounds[i])
  <2> DEFINE F == FinishRounds(rounds, {r}, "running")
  <2>1. \A i \in RoundIds : /\ F[i].task = rounds[i].task
                            /\ i \notin {r} => F[i] = rounds[i]
                            /\ i \in {r} => F[i] = [task |-> rounds[i].task, st |-> "running"]
    <3> HIDE DEF r
    <3> QED BY <1>0, FinishedEntry
  <2>2. rounds' = F
    OBVIOUS
  <2> HIDE DEF F, r
  <2> QED BY <1>0, <2>1, <2>2
<1> HIDE DEF r
<1>2. RoundsFresh'
  BY <1>1 DEF Rounded, RoundInv, RoundsFresh
<1>3. OpenRounds(t)' = {r}
  BY <1>0, <1>1 DEF OpenRounds
<1>4. ASSUME NEW u \in Tasks, u # t PROVE OpenRounds(u)' = OpenRounds(u)
  <2>1. ASSUME NEW i \in RoundIds
        PROVE  rounds'[i] = [task |-> u, st |-> "running"] <=> rounds[i] = [task |-> u, st |-> "running"]
    <3>1. CASE i = r
      <4>1. rounds[i].task # u /\ rounds'[i].task # u
        BY <1>0, <1>1, <1>4, <3>1
      <4> QED BY <4>1
    <3>2. CASE i # r
      BY <1>1, <3>2
    <3> QED BY <3>1, <3>2
  <2> QED BY <2>1 DEF OpenRounds
<1>5. RowNamesRound'
  <2>1. ASSUME NEW u \in Tasks, u # t, row[u].round # 0
        PROVE  rounds'[row[u].round].task = u /\ OpenRounds(u)' \subseteq {row[u].round}
    BY <1>1, <1>4, <2>1 DEF Rounded, LeaseInv, TypeOK, StateRows, RoundInv, RowNamesRound
  <2>2. \A u \in Tasks : u # t /\ Running(u) => row[u].status = "executing" /\ row[u].round = rt[u].round
    BY DEF Rounded, RoundInv, RowNamesRound
  <2>3. rounds'[r].task = t
    BY <1>1
  <2> QED BY <1>3, <2>1, <2>2, <2>3 DEF RowNamesRound, Running, r
<1>6. RoundOpen'
  <2>1. \A u \in Tasks : u # t /\ Running(u) => OpenRounds(u) = {rt[u].round}
    BY DEF Rounded, RoundInv, RoundOpen
  <2> QED BY <1>3, <1>4, <2>1 DEF RoundOpen, Running, r
<1> QED BY <1>2, <1>5, <1>6 DEF RoundInv
LEMMA RoundInit == Init => RoundInv
BY ConstantsAssumption
   DEF Init, RoundInv, RoundsFresh, RowNamesRound, RoundOpen, Running, NoRuntime, NoRow, NoEntry

\* The runtimes of S are dropped and their rounds finished; the rows of S have
\* these rounds or none.
LEMMA RoundsDropped ==
  ASSUME Rounded, NEW S \in SUBSET Tasks, NEW s, s # "running",
         rt' = [t \in Tasks |-> IF t \in S THEN NoRuntime ELSE rt[t]],
         rounds' = FinishRounds(rounds, {rt[t].round : t \in S}, s), nextRound' = nextRound,
         \A t \in Tasks : t \notin S => row'[t] = row[t],
         \A t \in S : row'[t].round \in {0, rt[t].round}
  PROVE  RoundInv'
<1> DEFINE I == {rt[t].round : t \in S}
<1>1. ASSUME NEW t \in Tasks, rt'[t].dev # None PROVE StaysOn(t) /\ rt[t].round \notin I
  <2>1. t \notin S /\ rt'[t] = rt[t]
    BY <1>1 DEF NoRuntime
  <2>2. Running(t)
    BY <1>1, <2>1 DEF Running
  <2>3. StaysOn(t)
    BY <2>1, <2>2 DEF StaysOn, Rounded, RoundInv, RowNamesRound
  <2>4. \A u \in S : rt[t].round # rt[u].round
    BY <2>1, <2>2, RoundsDiffer
  <2> QED BY <2>3, <2>4
<1>2. ASSUME NEW t \in Tasks PROVE row'[t].round \in {0, row[t].round}
  <2>1. CASE Running(t)
    BY <2>1, RoundOwned
  <2>2. CASE ~Running(t)
    BY <2>2, RunningFacts DEF Rounded
  <2> QED BY <2>1, <2>2
<1>3. rounds' = FinishRounds(rounds, I, s)
  OBVIOUS
<1> HIDE DEF I
<1> QED BY <1>1, <1>2, <1>3, RoundsFinished

LEMMA PauseAllRounds == ASSUME Rounded, NEW S \in SUBSET Tasks, PauseAll(S) PROVE RoundInv'
<1>1. \A t \in Tasks : t \notin S => row'[t] = row[t]
  BY DEF PauseAll
<1>2. \A t \in S : row'[t].round = rt[t].round
  BY DEF PauseAll
<1>3. /\ rt' = [t \in Tasks |-> IF t \in S THEN NoRuntime ELSE rt[t]]
      /\ rounds' = FinishRounds(rounds, {rt[t].round : t \in S}, "stopped") /\ nextRound' = nextRound
  BY DEF PauseAll
<1> QED BY <1>1, <1>2, <1>3, RoundsDropped

LEMMA MarkErrorRounds ==
  ASSUME Rounded, NEW S \in SUBSET Tasks, NEW W, NEW flag, MarkError(S, W, flag) PROVE RoundInv'
<1>1. \A t \in Tasks : t \notin S => row'[t] = row[t]
  BY DEF MarkError
<1>2. \A t \in S : row'[t].round = rt[t].round
  BY DEF MarkError
<1>3. /\ rt' = [t \in Tasks |-> IF t \in S THEN NoRuntime ELSE rt[t]]
      /\ rounds' = FinishRounds(rounds, {rt[t].round : t \in S}, "stopped") /\ nextRound' = nextRound
  BY DEF MarkError
<1> QED BY <1>1, <1>2, <1>3, RoundsDropped

\* One task: its runtime goes, its round is finished, its row has no round.
LEMMA OneDroppedRounds ==
  ASSUME Rounded, NEW t \in Tasks, NEW s, s # "running", NEW rw, rw.round = 0,
         rt' = WithoutRuntime(t), row' = [row EXCEPT ![t] = rw],
         rounds' = FinishRounds(rounds, {rt[t].round}, s), nextRound' = nextRound
  PROVE  RoundInv'
<1>1. rt' = [u \in Tasks |-> IF u \in {t} THEN NoRuntime ELSE rt[u]]
  BY DEF WithoutRuntime, Rounded, LeaseInv, TypeOK
<1>2. {rt[t].round} = {rt[u].round : u \in {t}}
  OBVIOUS
<1>3. (\A u \in Tasks : u \notin {t} => row'[u] = row[u]) /\ row'[t].round = 0
  BY DEF Rounded, LeaseInv, TypeOK
<1> QED BY <1>1, <1>2, <1>3, RoundsDropped

LEMMA DropRuntimeRounds == ASSUME Rounded, NEW t \in Tasks, DropRuntime(t) PROVE RoundInv'
BY OneDroppedRounds DEF DropRuntime, Cleaned, NoRow

\* A task is launched for the next round, its runtime being dropped before.
LEMMA LaunchedRounds ==
  ASSUME Rounded, NEW t \in Tasks, NEW d \in Devices, NEW done \in SUBSET Keywords,
         NEW waits \in BOOLEAN, NEW c, CleanTypes(c), CanCreateRound,
         Launch(t, d, nextRound, done, waits, c), NEW I, I = {} \/ I = {rt[t].round},
         rounds' = CreateRound(FinishRounds(rounds, I, "stopped"), t), nextRound' = nextRound + 1
  PROVE  RoundInv'
<1>1. nextRound \in RoundIds
  BY RoundWithinBound DEF Rounded, LeaseInv, TypeOK
<1>2. Launched(t, d, nextRound)
  BY <1>1, LaunchFacts DEF Rounded, LeaseInv
<1>3. /\ rt'[t].dev # None /\ rt'[t].round = nextRound
      /\ row'[t].status = "executing" /\ row'[t].round = nextRound
      /\ \A u \in Tasks : u # t => rt'[u] = rt[u] /\ row'[u] = row[u]
  BY <1>2, ConstantsAssumption DEF Launched, ExecutingRow
<1>4. \A u \in Tasks : u # t /\ Running(u) => rt[u].round \notin I
  BY RoundsDiffer
<1> QED BY <1>3, <1>4, RoundCreated

LEMMA StartRounds == ASSUME Rounded, NEW t \in Tasks, Start(t) PROVE RoundInv'
<1>1. CASE UNCHANGED <<rt, row, rounds, nextRound>>
  BY <1>1, RoundsUntouched
<1>2. ASSUME NEW d \in Devices, CanCreateRound, Launch(t, d, nextRound, ok[t], FALSE, Kept),
             rounds' = CreateRound(rounds, t), nextRound' = nextRound + 1
      PROVE  RoundInv'
  <2>1. rounds = FinishRounds(rounds, {}, "stopped") /\ ok[t] \in SUBSET Keywords /\ CleanTypes(Kept)
    BY NothingFinished, KeptType DEF Rounded, LeaseInv, TypeOK
  <2> QED BY <1>2, <2>1, LaunchedRounds
<1> QED BY <1>1, <1>2 DEF Start, ledgerVars

LEMMA ResumeRounds == ASSUME Rounded, NEW t \in Tasks, Resume(t) PROVE RoundInv'
<1>1. CASE UNCHANGED <<rt, row, rounds, nextRound>>
  BY <1>1, RoundsUntouched
<1>0. ok[t] \in SUBSET Keywords /\ row[t] \in StateRows
  BY DEF Rounded, LeaseInv, TypeOK
<1>2. ASSUME NEW d \in Devices, NEW waits \in BOOLEAN, CanCreateRound,
             Launch(t, d, nextRound, ok[t], waits, Kept),
             rounds' = CreateRound(rounds, t), nextRound' = nextRound + 1
      PROVE  RoundInv'
  <2>1. rounds = FinishRounds(rounds, {}, "stopped") /\ CleanTypes(Kept)
    BY NothingFinished, KeptType DEF Rounded, LeaseInv, TypeOK
  <2> QED BY <1>0, <1>2, <2>1, LaunchedRounds
<1>3. ASSUME NEW d \in Devices, NEW waits \in BOOLEAN, row[t].round # 0,
             Launch(t, d, row[t].round, ok[t], waits, Kept),
             rounds' = FinishRounds(rounds, {row[t].round}, "running"), nextRound' = nextRound
      PROVE  RoundInv'
  <2>1. row[t].round \in RoundIds
    BY <1>0, <1>3 DEF StateRows
  <2>2. Launched(t, d, row[t].round)
    BY <1>0, <1>3, <2>1, LaunchFacts, KeptType DEF Rounded, LeaseInv
  <2>3. /\ rt'[t].dev # None /\ rt'[t].round = row[t].round
        /\ row'[t].status = "executing" /\ row'[t].round = row[t].round
        /\ \A u \in Tasks : u # t => rt'[u] = rt[u] /\ row'[u] = row[u]
    BY <2>2, ConstantsAssumption DEF Launched, ExecutingRow
  <2> QED BY <1>3, <2>3, RoundReopened
<1>4. PICK d \in Devices, waits \in BOOLEAN :
        \/ UNCHANGED <<rt, row, rounds, nextRound>>
        \/ /\ row[t].round = 0 /\ CanCreateRound /\ Launch(t, d, nextRound, ok[t], waits, Kept)
           /\ rounds' = CreateRound(rounds, t) /\ nextRound' = nextRound + 1
        \/ /\ row[t].round # 0 /\ Launch(t, d, row[t].round, ok[t], waits, Kept)
           /\ rounds' = FinishRounds(rounds, {row[t].round}, "running") /\ nextRound' = nextRound
  BY DEF Resume, ledgerVars
<1> QED BY <1>1, <1>2, <1>3, <1>4

LEMMA RetryRounds == ASSUME Rounded, NEW t \in Tasks, Retry(t) PROVE RoundInv'
<1>1. CASE DropRuntime(t)
  BY <1>1, DropRuntimeRounds
<1>2. ASSUME NEW d \in Devices, CanCreateRound, Launch(t, d, nextRound, {}, FALSE, Cleaned(t)),
             rounds' = CreateRound(Cleaned(t).rounds, t), nextRound' = nextRound + 1
      PROVE  RoundInv'
  <2>1. Cleaned(t).rounds = FinishRounds(rounds, {rt[t].round}, "stopped")
    BY DEF Cleaned
  <2>2. rounds' = CreateRound(FinishRounds(rounds, {rt[t].round}, "stopped"), t)
    BY <1>2, <2>1
  <2>3. CleanTypes(Cleaned(t))
    BY CleanedType DEF Rounded, LeaseInv
  <2> QED BY <1>2, <2>2, <2>3, LaunchedRounds
<1> QED BY <1>1, <1>2 DEF Retry

LEMMA ForgetRounds == ASSUME Rounded, NEW S \in SUBSET Tasks, Forget(S) PROVE RoundInv'
<1> DEFINE I == {i \in RoundIds : rounds[i].task \in S}
<1>1. ASSUME NEW t \in Tasks, rt'[t].dev # None PROVE StaysOn(t) /\ rt[t].round \notin I
  <2>1. t \notin S /\ rt'[t] = rt[t] /\ row'[t] = row[t]
    BY <1>1 DEF NoRuntime, Forget
  <2>2. Running(t)
    BY <1>1, <2>1 DEF Running
  <2>3. StaysOn(t)
    BY <2>1, <2>2 DEF StaysOn, Rounded, RoundInv, RowNamesRound
  <2>4. rounds[rt[t].round].task = t
    BY <2>2, RoundOwned
  <2> QED BY <2>1, <2>3, <2>4
<1>2. \A t \in Tasks : row'[t].round \in {0, row[t].round}
  BY DEF Forget, NoRow
<1>3. rounds' = FinishRounds(rounds, I, "deleted") /\ nextRound' = nextRound
  BY DEF Forget
<1> HIDE DEF I
<1> QED BY <1>1, <1>2, <1>3, RoundsFinished

LEMMA RestartRounds == ASSUME Rounded, NEW newDay \in BOOLEAN, Restart(newDay) PROVE RoundInv'
<1>1. rt' = [t \in Tasks |-> NoRuntime] /\ nextRound' = nextRound
  BY DEF Restart
<1>2. \A t \in Tasks : rt'[t].dev = None
  BY <1>1 DEF NoRuntime
<1>3. ASSUME NEW t \in Tasks PROVE row'[t].round \in {0, row[t].round}
  <2>1. row[t] \in StateRows
    BY DEF Rounded, LeaseInv, TypeOK
  <2>2. CASE newDay
    BY <2>2 DEF Restart, NoRow
  <2>3. CASE ~newDay
    <3>1. row'[t] = IF row[t].status = "executing"
                    THEN [row[t] EXCEPT !.status = "paused", !.dev = None] ELSE row[t]
      BY <2>3 DEF Restart
    <3> QED BY <2>1, <3>1 DEF StateRows
  <2> QED BY <2>2, <2>3
<1>4. \/ rounds' = rounds
      \/ \E I : rounds' = FinishRounds(rounds, I, "stopped")
  BY DEF Restart
<1>5. CASE rounds' = rounds
  BY <1>1, <1>2, <1>3, <1>5, RoundsKept
<1>6. ASSUME NEW I, rounds' = FinishRounds(rounds, I, "stopped") PROVE RoundInv'
  BY <1>1, <1>2, <1>3, <1>6, RoundsFinished
<1> QED BY <1>4, <1>5, <1>6

LEMMA CommandRounds == ASSUME Rounded, Command PROVE RoundInv'
<1>1. ASSUME NEW t \in Tasks, Pause(t) PROVE RoundInv'
  BY <1>1, PauseAllRounds DEF Pause
<1>2. ASSUME NEW S \in SUBSET Tasks, PausePhones(S) PROVE RoundInv'
  <2>1. PICK P \in SUBSET Tasks : PauseAll(P)
    BY <1>2 DEF PausePhones
  <2> QED BY <2>1, PauseAllRounds
<1>3. ASSUME NEW d \in Devices, Kick(d) PROVE RoundInv'
  <2>1. PICK P \in SUBSET Tasks : PauseAll(P)
    BY <1>3 DEF Kick
  <2> QED BY <2>1, PauseAllRounds
<1>4. ASSUME NEW t \in Tasks, Stop(t) PROVE RoundInv'
  BY <1>4, DropRuntimeRounds DEF Stop
<1>5. ASSUME NEW t \in Tasks, status[t] # "executing", UNCHANGED <<rt, rounds, nextRound>>,
             NEW rw, rw.round = 0, row' = [row EXCEPT ![t] = rw]
      PROVE  RoundInv'
  <2>1. ~Running(t)
    BY <1>5, RunningFacts DEF Rounded
  <2>2. row'[t].round = 0 /\ \A u \in Tasks : u # t => row'[u] = row[u]
    BY <1>5 DEF Rounded, LeaseInv, TypeOK
  <2>3. \A u \in Tasks : rt'[u].dev # None => StaysOn(u)
    BY <1>5, <2>1, <2>2 DEF StaysOn, Running, Rounded, RoundInv, RowNamesRound
  <2> QED BY <1>5, <2>2, <2>3, RoundsKept
<1>6. ASSUME NEW t \in Tasks, ClearDevice(t) PROVE RoundInv'
  <2>1. [NoRow EXCEPT !.status = "error"].round = 0
    BY DEF NoRow
  <2> QED BY <1>5, <1>6, <2>1 DEF ClearDevice, ledgerVars
<1>7. ASSUME NEW t \in Tasks, ReloadTask(t) PROVE RoundInv'
  <2>1. CASE row' = row
    BY <1>7, <2>1, RoundsUntouched DEF ReloadTask, ledgerVars
  <2>2. CASE status[t] = "success" /\ row' = [row EXCEPT ![t] = NoRow]
    <3>1. NoRow.round = 0
      BY DEF NoRow
    <3> QED BY <1>5, <1>7, <2>2, <3>1 DEF ReloadTask, ledgerVars
  <2> QED BY <1>7, <2>1, <2>2 DEF ReloadTask
<1>8. ASSUME NEW online, ReleaseOffline(online) PROVE RoundInv'
  <2>1. PICK S \in SUBSET Tasks : MarkError(S, wk, FALSE)
    BY <1>8 DEF ReleaseOffline
  <2> QED BY <2>1, MarkErrorRounds
<1>9. ASSUME Reload PROVE RoundInv'
  BY <1>9, RoundsUntouched DEF Reload, ledgerVars
<1>10. ASSUME NEW d \in Devices, Flag(d) \/ Unflag(d) PROVE RoundInv'
  BY <1>10, RoundsUntouched DEF Flag, Unflag, ledgerVars
<1> QED BY <1>1, <1>2, <1>3, <1>4, <1>6, <1>7, <1>8, <1>9, <1>10, StartRounds, ResumeRounds,
           RetryRounds, ForgetRounds DEF Command

LEMMA WakeupRounds == ASSUME Rounded, NEW w \in wakeups, Wakeup(w[1], w[2]) PROVE RoundInv'
<1> DEFINE t == w[1]
<1>1. t \in Tasks
  BY DEF Rounded, LeaseInv, TypeOK
<1>2. CASE UNCHANGED <<rt, row>>
  BY <1>2, RoundsUntouched DEF Wakeup
<1>3. CASE /\ Running(t) /\ SpawnWorker(t, rt[t], ok[t], wk)
           /\ row' = [row EXCEPT ![t] = [ExecutingRow(dev[t], rt[t].round) EXCEPT !.status = status[t]]]
  <2>1. rt[t] \in Runtimes /\ status[t] = "executing" /\ row[t].round = rt[t].round
    BY <1>1, <1>3, RoundOwned, RunningFacts DEF Rounded
  <2>2. \A u \in Tasks : rt'[u].dev = rt[u].dev /\ rt'[u].round = rt[u].round
    <3>1. CASE ok[t] = Keywords
      BY <1>1, <1>3, <3>1 DEF SpawnWorker, Rounded, LeaseInv, TypeOK
    <3>2. CASE ok[t] # Keywords
      <4>1. rt' = [rt EXCEPT ![t] = [rt[t] EXCEPT !.worker = nextWorker, !.wake = 0]]
        BY <1>3, <3>2 DEF SpawnWorker
      <4> QED BY <1>1, <2>1, <4>1 DEF Runtimes, Rounded, LeaseInv, TypeOK
    <3> QED BY <3>1, <3>2
  <2>3. /\ row'[t].status = "executing" /\ row'[t].round = row[t].round
        /\ \A u \in Tasks : u # t => row'[u] = row[u]
    BY <1>1, <1>3, <2>1 DEF ExecutingRow, Rounded, LeaseInv, TypeOK
  <2> HIDE DEF t
  <2>4. \A u \in Tasks : rt'[u].dev # None => StaysOn(u)
    BY <2>2, <2>3 DEF StaysOn, Running, Rounded, RoundInv, RowNamesRound
  <2> QED BY <2>3, <2>4, RoundsKept DEF Wakeup
<1> QED BY <1>2, <1>3 DEF Wakeup

LEMMA HandleResultRounds == ASSUME Rounded, NEW s \in Workers, HandleResult(s) PROVE RoundInv'
<1>0. LeaseInv
  BY DEF Rounded
<1>1. PICK t \in Tasks : \/ Dropped(s, t) \/ Ends(s, t)
                         \/ \E keep \in SUBSET Keywords : Fails(s, t, keep)
                         \/ \E done \in SUBSET Keywords : Continues(s, t, done)
  BY <1>0, ResultCases
<1>2. CASE Dropped(s, t)
  BY <1>2, RoundsUntouched DEF Dropped
<1>3. ASSUME NEW keep, Fails(s, t, keep) PROVE RoundInv'
  BY <1>3, MarkErrorRounds DEF Fails
<1>4. ASSUME Counts(s, t), Schedule(t, [rt[t] EXCEPT !.worker = 0], wakeups),
             row' = [row EXCEPT ![t] = ExecutingRow(dev[t], rt[t].round)], UNCHANGED <<rounds, nextRound>>
      PROVE  RoundInv'
  <2>1. rt[t] \in Runtimes /\ row[t].round = rt[t].round
    BY <1>0, <1>4, RoundOwned, RunningFacts DEF Counts
  <2>2. \A u \in Tasks : rt'[u].dev = rt[u].dev /\ rt'[u].round = rt[u].round
    BY <1>4, <2>1 DEF Schedule, Runtimes, Rounded, LeaseInv, TypeOK
  <2>3. /\ row'[t].status = "executing" /\ row'[t].round = row[t].round
        /\ \A u \in Tasks : u # t => row'[u] = row[u]
    BY <1>4, <2>1 DEF ExecutingRow, Rounded, LeaseInv, TypeOK
  <2>4. \A u \in Tasks : rt'[u].dev # None => StaysOn(u)
    BY <2>2, <2>3 DEF StaysOn, Running, Rounded, RoundInv, RowNamesRound
  <2> QED BY <1>4, <2>3, <2>4, RoundsKept
<1>5. CASE Ends(s, t) /\ Succeed(t)
  <2>1. [NoRow EXCEPT !.status = "success"].round = 0
    BY DEF NoRow
  <2> QED BY <1>5, <2>1, OneDroppedRounds DEF Succeed
<1>6. CASE Ends(s, t) /\ NextIntervalRound(t)
  <2>1. nextRound \in RoundIds /\ rt[t] \in Runtimes /\ rt[t].dev # None
    BY <1>6, <1>0, RoundWithinBound, RunningFacts
       DEF NextIntervalRound, LeaseInv, TypeOK, Ends, Counts, Running
  <2>2. /\ rt'[t].dev # None /\ rt'[t].round = nextRound
        /\ row'[t].status = "executing" /\ row'[t].round = nextRound
        /\ \A u \in Tasks : u # t => rt'[u] = rt[u] /\ row'[u] = row[u]
    BY <1>6, <2>1 DEF NextIntervalRound, Schedule, Runtimes, ExecutingRow, Rounded, LeaseInv, TypeOK
  <2>3. \A u \in Tasks : u # t /\ Running(u) => rt[u].round \notin {rt[t].round}
    BY RoundsDiffer
  <2> QED BY <1>6, <2>2, <2>3, RoundCreated DEF NextIntervalRound
<1>7. ASSUME NEW done, Continues(s, t, done) PROVE RoundInv'
  BY <1>4, <1>7 DEF Continues, Reschedule
<1> QED BY <1>1, <1>2, <1>3, <1>5, <1>6, <1>7 DEF Ends

LEMMA RoundNext == ASSUME Rounded, [Next]_vars PROVE RoundInv'
<1>1. CASE UNCHANGED vars
  BY <1>1, RoundsUntouched DEF vars, ledgerVars
<1>2. ASSUME NEW s \in Workers, Worker(s) \/ \E k \in Keywords : HandleKeywordDone(s, k) PROVE RoundInv'
  BY <1>2, RoundsUntouched
     DEF Worker, WorkerKeyword, WorkerEnds, WorkerCancelled, HandleKeywordDone, ledgerVars
<1>3. ASSUME NEW d \in Devices, DeviceUp(d) \/ DeviceDown(d) PROVE RoundInv'
  BY <1>3, RoundsUntouched DEF DeviceUp, DeviceDown, ledgerVars
<1> QED BY <1>1, <1>2, <1>3, CommandRounds, RestartRounds, WakeupRounds, HandleResultRounds
        DEF Next, Outside, Report

\* In every reachable state the rounds of a_task_rounds, the state rows and the
\* runtimes agree.
THEOREM RoundsAgree == Spec => []RoundInv
<1>1. Rounded /\ [Next]_vars => Rounded'
  BY RoundNext, LeaseInvNext DEF Rounded
<1>2. Init => Rounded
  BY RoundInit, InitLeaseInv DEF Rounded
<1>3. Rounded => RoundInv
  BY DEF Rounded
<1> QED BY <1>1, <1>2, <1>3, PTL DEF Spec

\* The round of a runtime is open, and no other round of its task is.
THEOREM OneRoundOpen == Spec => []RoundOpen
<1>1. RoundInv => RoundOpen
  BY DEF RoundInv
<1> QED BY <1>1, RoundsAgree, PTL
-----------------------------------------------------------------------------
(* Kicked devices.                                                         *)

Quieted == LeaseInv /\ QuietInv

\* The parts of a step that QuietInv asks about: a task is paused without a
\* device, a row that is not "executing" or "error" names none, a runtime has
\* a device that has a row.
Parks(t) == status'[t] = "paused" => dev'[t] = None \/ (status[t] = "paused" /\ dev'[t] = dev[t])
ParksRow(t) == \/ row'[t].status \in {"executing", "error"}
               \/ row'[t].dev = None
               \/ row'[t].dev = row[t].dev /\ row'[t].status = row[t].status
KeepsKnown(t) == rt'[t].dev = None \/ table'[rt'[t].dev] # "absent"

LEMMA QuietStep ==
  ASSUME Quieted, \A t \in Tasks : Parks(t) /\ ParksRow(t) /\ KeepsKnown(t) PROVE QuietInv'
BY DEF Quieted, QuietInv, ParkedFree, DeviceKnown, Running, Parks, ParksRow, KeepsKnown

\* Runtimes are kept or dropped, and no row of a_devices is deleted.
LEMMA KeptKnown ==
  ASSUME Quieted, NEW t \in Tasks, rt'[t].dev \in {None, rt[t].dev},
         \A d \in Devices : table[d] # "absent" => table'[d] # "absent"
  PROVE  KeepsKnown(t)
BY RunningFacts DEF Quieted, QuietInv, DeviceKnown, Running, KeepsKnown

\* A task that is rebuilt as paused has no device.
LEMMA RestoredParked ==
  ASSUME NEW rw \in StateRows, rw.status \notin {"executing", "error"} => rw.dev = None, NEW done,
         RestoredStatus(rw, done) = "paused"
  PROVE  RestoredDev(rw) = None
BY DEF RestoredStatus, RestoredDev, StateRows, Statuses

LEMMA RowsParked ==
  ASSUME Quieted, NEW t \in Tasks
  PROVE  row[t] \in StateRows /\ (row[t].status \notin {"executing", "error"} => row[t].dev = None)
BY DEF Quieted, LeaseInv, TypeOK, QuietInv, ParkedFree

LEMMA QuietInit == Init => QuietInv
BY DEF Init, QuietInv, ParkedFree, DeviceKnown, Running, NoRuntime, NoRow

\* Nothing changes that QuietInv is about, but for devices that appear.
LEMMA QuietKept ==
  ASSUME Quieted, UNCHANGED <<status, dev, row>>,
         \A t \in Tasks : rt'[t].dev \in {None, rt[t].dev},
         \A d \in Devices : table[d] # "absent" => table'[d] # "absent"
  PROVE  QuietInv'
BY KeptKnown, QuietStep DEF Parks, ParksRow

LEMMA PauseAllQuiet ==
  ASSUME Quieted, NEW S \in SUBSET Tasks, PauseAll(S),
         \A t \in Tasks : rt'[t].dev # None => table'[rt'[t].dev] # "absent"
  PROVE  QuietInv'
<1>1. ASSUME NEW t \in Tasks PROVE Parks(t) /\ ParksRow(t)
  <2>1. CASE t \in S
    BY <2>1 DEF PauseAll, Parks, ParksRow
  <2>2. CASE t \notin S
    BY <2>2 DEF PauseAll, Parks, ParksRow
  <2> QED BY <2>1, <2>2
<1> QED BY <1>1, QuietStep DEF KeepsKnown

LEMMA PauseAllKept ==
  ASSUME Quieted, NEW S \in SUBSET Tasks, PauseAll(S), UNCHANGED table PROVE QuietInv'
<1>1. \A t \in Tasks : rt'[t].dev \in {None, rt[t].dev}
  BY DEF PauseAll, NoRuntime
<1>2. \A t \in Tasks : rt'[t].dev # None => table'[rt'[t].dev] # "absent"
  BY <1>1, KeptKnown DEF KeepsKnown
<1> QED BY <1>2, PauseAllQuiet

\* The one task that uses a kicked device is paused before the device goes.
LEMMA KickQuiet == ASSUME Quieted, NEW d \in Devices, Kick(d) PROVE QuietInv'
<1> DEFINE held == {t \in Tasks : dev[t] = d /\ status[t] \in {"executing", "paused"}}
<1>1. PICK S \in SUBSET Tasks : /\ PauseAll(S)
                                /\ \/ held = {}
                                   \/ \E t \in held : S = {t} \cap {u \in Tasks : status[u] = "executing"}
  BY DEF Kick
<1>2. ASSUME NEW t \in Tasks, rt'[t].dev # None PROVE table'[rt'[t].dev] # "absent"
  <2>1. t \notin S /\ rt'[t] = rt[t] /\ Running(t)
    BY <1>1, <1>2 DEF PauseAll, NoRuntime, Running
  <2>2. status[t] = "executing" /\ dev[t] = rt[t].dev /\ rt[t].dev \in Devices
    BY <2>1, RunningFacts DEF Quieted
  <2>3. rt[t].dev # d
    <3> SUFFICES ASSUME rt[t].dev = d PROVE FALSE
      OBVIOUS
    <3>1. t \in held
      BY <2>2
    <3>2. PICK u \in held : S = {u} \cap {v \in Tasks : status[v] = "executing"}
      BY <1>1, <3>1
    <3>3. status[u] = "executing"
      BY <3>2, ConstantsAssumption DEF Quieted, QuietInv, ParkedFree
    <3>4. u = t
      BY <2>2, <3>2, <3>3, ConstantsAssumption DEF Quieted, LeaseInv, LeaseExclusive
    <3> QED BY <2>1, <3>2, <3>3, <3>4
  <2>4. table[rt[t].dev] # "absent"
    BY <2>1 DEF Quieted, QuietInv, DeviceKnown
  <2>5. table' = [table EXCEPT ![d] = "absent"] /\ table \in [Devices -> {"absent", "offline", "device"}]
    BY DEF Kick, Quieted, LeaseInv, TypeOK
  <2> QED BY <2>1, <2>2, <2>3, <2>4, <2>5
<1> QED BY <1>1, <1>2, PauseAllQuiet

LEMMA MarkErrorQuiet ==
  ASSUME Quieted, NEW S \in SUBSET Tasks, NEW W, NEW flag, MarkError(S, W, flag) PROVE QuietInv'
<1>1. ASSUME NEW t \in Tasks PROVE Parks(t) /\ ParksRow(t) /\ rt'[t].dev \in {None, rt[t].dev}
  <2>1. CASE t \in S
    BY <2>1 DEF MarkError, Parks, ParksRow, NoRuntime
  <2>2. CASE t \notin S
    BY <2>2 DEF MarkError, Parks, ParksRow
  <2> QED BY <2>1, <2>2
<1>2. table' = table
  BY DEF MarkError
<1> QED BY <1>1, <1>2, KeptKnown, QuietStep

\* One task is set to something else than "paused", and its row is one that
\* QuietInv allows; its runtime, if it has one after, is on a known device.
LEMMA OneQuiet ==
  ASSUME Quieted, NEW t \in Tasks, NEW s, NEW d, s # "paused" \/ d = None, NEW done, NEW m,
         SetTask(t, s, d, done, m), ParksRow(t), KeepsKnown(t), UNCHANGED table,
         \A u \in Tasks : u # t => row'[u] = row[u] /\ rt'[u] = rt[u]
  PROVE  QuietInv'
<1>1. /\ status'[t] = s /\ dev'[t] = d
      /\ \A u \in Tasks : u # t => status'[u] = status[u] /\ dev'[u] = dev[u]
  BY DEF SetTask, Quieted, LeaseInv, TypeOK
<1>2. \A u \in Tasks : u # t => KeepsKnown(u)
  BY KeptKnown
<1>3. \A u \in Tasks : Parks(u) /\ ParksRow(u)
  BY <1>1 DEF Parks, ParksRow
<1> QED BY <1>2, <1>3, QuietStep

LEMMA LaunchQuiet ==
  ASSUME Quieted, NEW t \in Tasks, NEW d \in Devices, Ready(d), NEW r, Launched(t, d, r), NEW done, NEW m,
         SetTask(t, "executing", d, done, m), UNCHANGED table
  PROVE  QuietInv'
<1>1. ParksRow(t)
  BY DEF ParksRow, Launched, ExecutingRow
<1>2. KeepsKnown(t)
  BY DEF KeepsKnown, Launched, Ready
<1>3. \A u \in Tasks : u # t => row'[u] = row[u] /\ rt'[u] = rt[u]
  BY DEF Launched
<1> QED BY <1>1, <1>2, <1>3, OneQuiet

LEMMA StartQuiet == ASSUME Quieted, NEW t \in Tasks, Start(t) PROVE QuietInv'
<1>0. TypeOK /\ CleanTypes(Kept) /\ ok[t] \in SUBSET Keywords /\ UNCHANGED table
  BY KeptType DEF Quieted, LeaseInv, TypeOK, Start
<1>1. CASE UNCHANGED <<taskVars, rt, row, table>>
  BY <1>1, QuietKept DEF taskVars
<1>2. ASSUME SetTask(t, "waiting", None, ok[t], FALSE), UNCHANGED <<rt, row>> PROVE QuietInv'
  <2>1. ParksRow(t) /\ KeepsKnown(t)
    BY <1>0, <1>2, KeptKnown DEF ParksRow
  <2> QED BY <1>0, <1>2, <2>1, OneQuiet
<1>3. ASSUME NEW d \in Devices, Ready(d), CanCreateRound,
             SetTask(t, "executing", d, ok[t], ok[t] # Keywords), Launch(t, d, nextRound, ok[t], FALSE, Kept)
      PROVE  QuietInv'
  <2>1. nextRound \in RoundIds
    BY <1>0, <1>3, RoundWithinBound DEF TypeOK
  <2>2. Launched(t, d, nextRound)
    BY <1>0, <1>3, <2>1, LaunchFacts
  <2> QED BY <1>0, <1>3, <2>2, LaunchQuiet
<1>4. PICK d \in Devices :
        /\ Ready(d)
        /\ \/ UNCHANGED <<taskVars, rt, row>>
           \/ SetTask(t, "waiting", None, ok[t], FALSE) /\ UNCHANGED <<rt, row>>
           \/ /\ CanCreateRound /\ SetTask(t, "executing", d, ok[t], ok[t] # Keywords)
              /\ Launch(t, d, nextRound, ok[t], FALSE, Kept)
  BY DEF Start
<1> QED BY <1>0, <1>1, <1>2, <1>3, <1>4

LEMMA ResumeQuiet == ASSUME Quieted, NEW t \in Tasks, Resume(t) PROVE QuietInv'
<1> DEFINE r == IF row[t].round = 0 THEN nextRound ELSE row[t].round
<1>0. TypeOK /\ CleanTypes(Kept) /\ ok[t] \in SUBSET Keywords /\ UNCHANGED table
  BY KeptType DEF Quieted, LeaseInv, TypeOK, Resume, deviceVars
<1>1. PICK d \in Devices, waits \in BOOLEAN :
        /\ Ready(d) /\ SetTask(t, "executing", d, ok[t], ~waits /\ ok[t] # Keywords)
        /\ \/ UNCHANGED <<rt, row>>
           \/ (row[t].round = 0 => CanCreateRound) /\ Launch(t, d, r, ok[t], waits, Kept)
  BY DEF Resume
<1>2. CASE UNCHANGED <<rt, row>>
  <2>1. ParksRow(t) /\ KeepsKnown(t)
    BY <1>0, <1>2, KeptKnown DEF ParksRow
  <2> QED BY <1>0, <1>1, <1>2, <2>1, OneQuiet
<1>3. CASE (row[t].round = 0 => CanCreateRound) /\ Launch(t, d, r, ok[t], waits, Kept)
  <2>1. r \in RoundIds
    BY <1>0, <1>3, RoundWithinBound DEF TypeOK, StateRows
  <2> HIDE DEF r
  <2>2. Launched(t, d, r)
    BY <1>0, <1>3, <2>1, LaunchFacts
  <2> QED BY <1>0, <1>1, <2>2, LaunchQuiet
<1> QED BY <1>1, <1>2, <1>3

LEMMA RetryQuiet == ASSUME Quieted, NEW t \in Tasks, Retry(t) PROVE QuietInv'
<1>0. TypeOK /\ CleanTypes(Cleaned(t)) /\ {} \in SUBSET Keywords /\ UNCHANGED table
  BY CleanedType DEF Quieted, LeaseInv, Retry, deviceVars
<1>1. DropRuntime(t) => ParksRow(t) /\ KeepsKnown(t)
  BY <1>0, DropRuntimeFacts DEF ParksRow, KeepsKnown, NoRow, NoRuntime
<1>2. CASE DropRuntime(t) /\ UNCHANGED taskVars
  <2>1. \A u \in Tasks : Parks(u)
    BY <1>2 DEF taskVars, Parks
  <2>2. \A u \in Tasks : u # t => ParksRow(u) /\ KeepsKnown(u)
    BY <1>0, <1>2, DropRuntimeFacts, KeptKnown DEF ParksRow
  <2> QED BY <1>1, <1>2, <2>1, <2>2, QuietStep
<1>3. ASSUME NEW d \in Devices, SetTask(t, "executing", d, {}, TRUE), DropRuntime(t) PROVE QuietInv'
  BY <1>0, <1>1, <1>3, DropRuntimeFacts, OneQuiet
<1>4. ASSUME NEW d \in Devices, Ready(d), CanCreateRound, SetTask(t, "executing", d, {}, TRUE),
             Launch(t, d, nextRound, {}, FALSE, Cleaned(t))
      PROVE  QuietInv'
  <2>1. nextRound \in RoundIds
    BY <1>0, <1>4, RoundWithinBound DEF TypeOK
  <2>2. Launched(t, d, nextRound)
    BY <1>0, <1>4, <2>1, LaunchFacts
  <2> QED BY <1>0, <1>4, <2>2, LaunchQuiet
<1> QED BY <1>2, <1>3, <1>4 DEF Retry

LEMMA ReloadQuiet == ASSUME Quieted, Reload PROVE QuietInv'
<1>1. UNCHANGED <<rt, row, table>>
  BY DEF Reload, deviceVars
<1>2. ASSUME NEW t \in Tasks PROVE Parks(t)
  <2>1. CASE Running(t) \/ status[t] = "absent"
    BY <2>1 DEF Reload, Parks
  <2>2. CASE ~(Running(t) \/ status[t] = "absent")
    BY <2>2, RowsParked, RestoredParked DEF Reload, Parks
  <2> QED BY <2>1, <2>2
<1>3. \A t \in Tasks : ParksRow(t) /\ KeepsKnown(t)
  BY <1>1, KeptKnown DEF ParksRow
<1> QED BY <1>2, <1>3, QuietStep

LEMMA ReloadTaskQuiet == ASSUME Quieted, NEW t \in Tasks, ReloadTask(t) PROVE QuietInv'
<1>0. UNCHANGED <<rt, table>>
  BY DEF ReloadTask, deviceVars
<1>1. \A u \in Tasks : KeepsKnown(u)
  BY <1>0, KeptKnown
<1>2. CASE UNCHANGED <<status, dev, row>>
  BY <1>0, <1>2, QuietKept
<1>3. CASE SetTask(t, "waiting", None, {}, FALSE) /\ row' = [row EXCEPT ![t] = NoRow]
  <2>1. ParksRow(t) /\ \A u \in Tasks : u # t => row'[u] = row[u]
    BY <1>3 DEF ParksRow, NoRow, Quieted, LeaseInv, TypeOK
  <2> QED BY <1>0, <1>1, <1>3, <2>1, OneQuiet
<1>4. ASSUME NEW done, row' = row, SetTask(t, RestoredStatus(row[t], done), RestoredDev(row[t]), done, FALSE)
      PROVE  QuietInv'
  <2>1. RestoredStatus(row[t], done) # "paused" \/ RestoredDev(row[t]) = None
    BY RowsParked, RestoredParked
  <2> QED BY <1>0, <1>1, <1>4, <2>1, OneQuiet DEF ParksRow
<1> QED BY <1>2, <1>3, <1>4 DEF ReloadTask

LEMMA ForgetQuiet == ASSUME Quieted, NEW S \in SUBSET Tasks, Forget(S) PROVE QuietInv'
<1>1. ASSUME NEW t \in Tasks PROVE Parks(t) /\ ParksRow(t) /\ rt'[t].dev \in {None, rt[t].dev}
  <2>1. CASE t \in S
    BY <2>1 DEF Forget, Parks, ParksRow, NoRuntime, NoRow
  <2>2. CASE t \notin S
    BY <2>2 DEF Forget, Parks, ParksRow
  <2> QED BY <2>1, <2>2
<1>2. table' = table
  BY DEF Forget, deviceVars
<1> QED BY <1>1, <1>2, KeptKnown, QuietStep

LEMMA RestartQuiet == ASSUME Quieted, TypeOK', NEW newDay \in BOOLEAN, Restart(newDay) PROVE QuietInv'
<1>1. ASSUME NEW t \in Tasks
      PROVE  row'[t] \in StateRows /\ (row'[t].status \notin {"executing", "error"} => row'[t].dev = None)
  <2>1. row'[t] \in StateRows
    BY DEF TypeOK
  <2>2. CASE newDay
    BY <2>1, <2>2 DEF Restart, NoRow
  <2>3. CASE ~newDay
    <3>1. row'[t] = IF row[t].status = "executing"
                    THEN [row[t] EXCEPT !.status = "paused", !.dev = None] ELSE row[t]
      BY <2>3 DEF Restart
    <3> QED BY <2>1, <3>1, RowsParked DEF StateRows
  <2> QED BY <2>2, <2>3
<1>2. ASSUME NEW t \in Tasks, status'[t] = "paused" PROVE dev'[t] = None
  <2> DEFINE done == RestoredOk(t, row'[t], progress')
  <2>1. /\ status'[t] = IF status[t] # "absent" THEN RestoredStatus(row'[t], done) ELSE "absent"
        /\ dev'[t] = IF status[t] # "absent" THEN RestoredDev(row'[t]) ELSE None
    BY DEF Restart
  <2> HIDE DEF done
  <2> QED BY <1>1, <1>2, <2>1, RestoredParked
<1>3. \A t \in Tasks : rt'[t].dev = None
  BY DEF Restart, NoRuntime
<1> QED BY <1>1, <1>2, <1>3 DEF QuietInv, ParkedFree, DeviceKnown, Running

LEMMA CommandQuiet == ASSUME Quieted, Command PROVE QuietInv'
<1>1. ASSUME NEW t \in Tasks, Pause(t) PROVE QuietInv'
  BY <1>1, PauseAllKept DEF Pause, deviceVars
<1>2. ASSUME NEW S \in SUBSET Tasks, PausePhones(S) PROVE QuietInv'
  <2>1. PICK P \in SUBSET Tasks : PauseAll(P) /\ UNCHANGED table
    BY <1>2 DEF PausePhones, deviceVars
  <2> QED BY <2>1, PauseAllKept
<1>3. ASSUME NEW t \in Tasks, Stop(t) PROVE QuietInv'
  <2>1. TypeOK /\ UNCHANGED table /\ DropRuntime(t) /\ SetTask(t, "waiting", None, {}, FALSE)
    BY <1>3 DEF Stop, deviceVars, Quieted, LeaseInv
  <2>2. ParksRow(t) /\ KeepsKnown(t)
    BY <2>1, DropRuntimeFacts DEF ParksRow, KeepsKnown, NoRow, NoRuntime
  <2> QED BY <2>1, <2>2, DropRuntimeFacts, OneQuiet
<1>4. ASSUME NEW t \in Tasks, ClearDevice(t) PROVE QuietInv'
  <2>1. \A u \in Tasks : Parks(u) /\ ParksRow(u) /\ rt'[u] = rt[u]
    BY <1>4 DEF ClearDevice, Parks, ParksRow, NoRow, Quieted, LeaseInv, TypeOK
  <2>2. table' = table
    BY <1>4 DEF ClearDevice, deviceVars
  <2> QED BY <2>1, <2>2, KeptKnown, QuietStep
<1>5. ASSUME NEW online, ReleaseOffline(online) PROVE QuietInv'
  <2>1. PICK S \in SUBSET Tasks : MarkError(S, wk, FALSE)
    BY <1>5 DEF ReleaseOffline
  <2> QED BY <2>1, MarkErrorQuiet
<1>6. ASSUME NEW d \in Devices, Flag(d) \/ Unflag(d) PROVE QuietInv'
  BY <1>6, QuietKept DEF Flag, Unflag, taskVars
<1> QED BY <1>1, <1>2, <1>3, <1>4, <1>5, <1>6, StartQuiet, ResumeQuiet, RetryQuiet, ReloadTaskQuiet,
           ForgetQuiet, KickQuiet, ReloadQuiet DEF Command

\* The runtimes of all tasks keep their devices and their rounds.
KeepsPlaces == \A t \in Tasks : rt'[t].dev = rt[t].dev /\ rt'[t].round = rt[t].round

LEMMA SpawnPlaces ==
  ASSUME TypeOK, NEW t \in Tasks, NEW done, NEW W, SpawnWorker(t, rt[t], done, W) PROVE KeepsPlaces
<1>1. CASE done = Keywords
  BY <1>1 DEF SpawnWorker, TypeOK, KeepsPlaces
<1>2. CASE done # Keywords
  <2>1. rt' = [rt EXCEPT ![t] = [rt[t] EXCEPT !.worker = nextWorker, !.wake = 0]]
    BY <1>2 DEF SpawnWorker
  <2>2. rt[t] \in Runtimes
    BY DEF TypeOK
  <2> QED BY <2>1, <2>2 DEF Runtimes, TypeOK, KeepsPlaces
<1> QED BY <1>1, <1>2

LEMMA WakeupQuiet == ASSUME Quieted, NEW w \in wakeups, Wakeup(w[1], w[2]) PROVE QuietInv'
<1> DEFINE t == w[1]
<1>1. t \in Tasks /\ TypeOK
  BY DEF Quieted, LeaseInv, TypeOK
<1>0. UNCHANGED <<status, dev, table>>
  BY DEF Wakeup, deviceVars
<1>2. CASE UNCHANGED <<rt, row>>
  BY <1>0, <1>2, QuietKept
<1>3. CASE /\ Running(t) /\ SpawnWorker(t, rt[t], ok[t], wk)
           /\ row' = [row EXCEPT ![t] = [ExecutingRow(dev[t], rt[t].round) EXCEPT !.status = status[t]]]
  <2> HIDE DEF t
  <2>1. status[t] = "executing"
    BY <1>1, <1>3, RunningFacts DEF Quieted
  <2>2. \A u \in Tasks : Parks(u) /\ ParksRow(u)
    BY <1>0, <1>1, <1>3, <2>1 DEF Parks, ParksRow, ExecutingRow, TypeOK
  <2>3. KeepsPlaces
    BY <1>1, <1>3, SpawnPlaces
  <2> QED BY <1>0, <2>2, <2>3, KeptKnown, QuietStep DEF KeepsPlaces
<1> QED BY <1>2, <1>3 DEF Wakeup

LEMMA HandleResultQuiet == ASSUME Quieted, NEW s \in Workers, HandleResult(s) PROVE QuietInv'
<1>0. LeaseInv /\ TypeOK
  BY DEF Quieted, LeaseInv
<1>1. PICK t \in Tasks : \/ Dropped(s, t) \/ Ends(s, t)
                         \/ \E keep \in SUBSET Keywords : Fails(s, t, keep)
                         \/ \E done \in SUBSET Keywords : Continues(s, t, done)
  BY <1>0, ResultCases
<1>t. table' = table
  BY DEF HandleResult
<1>2. CASE Dropped(s, t)
  BY <1>t, <1>2, QuietKept DEF Dropped, taskVars
<1>3. ASSUME NEW keep, Fails(s, t, keep) PROVE QuietInv'
  BY <1>3, MarkErrorQuiet DEF Fails
<1>4. ASSUME Counts(s, t), NEW Q, Q.dev = rt[t].dev, Schedule(t, Q, wakeups), NEW done, NEW r,
             SetTask(t, status[t], dev[t], done, FALSE), row' = [row EXCEPT ![t] = ExecutingRow(dev[t], r)]
      PROVE  QuietInv'
  <2>1. rt'[t].dev = rt[t].dev /\ \A u \in Tasks : u # t => rt'[u] = rt[u]
    <3>1. [Q EXCEPT !.wake = nextWakeup].dev = Q.dev
      OBVIOUS
    <3> QED BY <1>0, <1>4, <3>1 DEF Schedule, TypeOK
  <2>2. ParksRow(t) /\ \A u \in Tasks : u # t => row'[u] = row[u]
    BY <1>0, <1>4 DEF ExecutingRow, ParksRow, TypeOK
  <2>3. KeepsKnown(t)
    BY <1>t, <2>1, KeptKnown
  <2> QED BY <1>t, <1>4, <2>1, <2>2, <2>3, OneQuiet DEF Counts
<1>5. CASE Ends(s, t) /\ Succeed(t)
  <2>1. rt'[t] = NoRuntime /\ \A u \in Tasks : u # t => row'[u] = row[u] /\ rt'[u] = rt[u]
    BY <1>0, <1>5 DEF Succeed, WithoutRuntime, TypeOK
  <2>2. ParksRow(t)
    BY <1>0, <1>5 DEF Succeed, NoRow, ParksRow, TypeOK
  <2>3. KeepsKnown(t)
    BY <2>1 DEF KeepsKnown, NoRuntime
  <2> QED BY <1>t, <1>5, <2>1, <2>2, <2>3, OneQuiet DEF Succeed
<1>6. CASE Ends(s, t) /\ NextIntervalRound(t)
  <2>1. [rt[t] EXCEPT !.round = nextRound, !.worker = 0].dev = rt[t].dev
    BY <1>0 DEF TypeOK, Runtimes
  <2> QED BY <1>4, <1>6, <2>1 DEF Ends, NextIntervalRound
<1>7. ASSUME NEW done, Continues(s, t, done) PROVE QuietInv'
  <2>1. [rt[t] EXCEPT !.worker = 0].dev = rt[t].dev
    BY <1>0 DEF TypeOK, Runtimes
  <2> QED BY <1>4, <1>7, <2>1 DEF Continues, Reschedule
<1> QED BY <1>1, <1>2, <1>3, <1>5, <1>6, <1>7 DEF Ends

LEMMA QuietNext == ASSUME Quieted, [Next]_vars PROVE QuietInv'
<1>1. CASE UNCHANGED vars
  BY <1>1, QuietKept DEF vars, taskVars, deviceVars
<1>2. ASSUME NEW s \in Workers, Worker(s) \/ \E k \in Keywords : HandleKeywordDone(s, k) PROVE QuietInv'
  BY <1>2, QuietKept
     DEF Worker, WorkerKeyword, WorkerEnds, WorkerCancelled, HandleKeywordDone, taskVars, deviceVars
<1>3. ASSUME NEW d \in Devices, DeviceUp(d) \/ DeviceDown(d) PROVE QuietInv'
  <2>1. \A e \in Devices : table[e] # "absent" => table'[e] # "absent"
    BY <1>3 DEF DeviceUp, DeviceDown, Quieted, LeaseInv, TypeOK
  <2> QED BY <1>3, <2>1, QuietKept DEF DeviceUp, DeviceDown, taskVars
<1>4. TypeOK'
  BY TypeNext DEF Quieted, LeaseInv
<1> QED BY <1>1, <1>2, <1>3, <1>4, CommandQuiet, RestartQuiet, WakeupQuiet, HandleResultQuiet
        DEF Next, Outside, Report

\* A kick finds the task that uses its device, and every runtime has a device
\* that is known.
THEOREM DevicesKnown == Spec => []QuietInv
<1>1. Quieted /\ [Next]_vars => Quieted'
  BY QuietNext, LeaseInvNext DEF Quieted
<1>2. Init => Quieted
  BY QuietInit, InitLeaseInv DEF Quieted
<1>3. Quieted => QuietInv
  BY DEF Quieted
<1> QED BY <1>1, <1>2, <1>3, PTL DEF Spec

\* No live worker drives a device that was kicked.
THEOREM KickedDevicesQuiet == Spec => []KickedDeviceIsQuiet
<1>1. ASSUME LeaseInv, QuietInv, NEW s \in LiveWorkers PROVE table[wk[s].dev] # "absent"
  <2> DEFINE t == wk[s].task
  <2>1. s \in Workers /\ s # 0
    BY DEF LiveWorkers, Workers
  <2>2. t \in Tasks
    BY <1>1, <2>1 DEF LeaseInv, WorkerAssigned, LiveWorkers, NoWorker
  <2>3. rt[t].worker = s
    BY <1>1 DEF LeaseInv, LiveWorkerOwned
  <2>4. rt[t].dev = wk[s].dev /\ Running(t)
    BY <1>1, <2>1, <2>2, <2>3, RunningFacts DEF LeaseInv, ActiveWorkerReports
  <2> QED BY <1>1, <2>2, <2>4 DEF QuietInv, DeviceKnown
<1>2. LeaseInv /\ QuietInv => KickedDeviceIsQuiet
  BY <1>1 DEF KickedDeviceIsQuiet
<1> QED BY <1>2, LeaseInvariant, DevicesKnown, PTL
-----------------------------------------------------------------------------
(* Wakeups.                                                                *)

Heaped == LeaseInv /\ RoundInv /\ HeapInv

\* What HeapInv says of one task.
HeapOf(t) ==
  /\ rt[t].wake # 0 => rt[t].worker = 0
  /\ Running(t) => ~row[t].wait
  /\ (rt[t].wake # 0 \/ row[t].wait) /\ ok[t] = Keywords => RestoredOk(t, row[t], progress) = Keywords
  /\ Running(t) /\ rt[t].wake # 0 /\ ok[t] # Keywords => <<t, rt[t].wake>> \in wakeups

LEMMA HeapParts == (HeapInv <=> \A t \in Tasks : HeapOf(t)) /\ (HeapInv' <=> \A t \in Tasks : HeapOf(t)')
BY DEF HeapInv, WaitsForOne, HeapCoversArmed, HeapOf, Running

\* Nothing recorded for t is lost; then nothing that can be restored is.
KeepsRecords(t) == \A k \in Keywords, i \in RoundIds : <<t, k, i>> \in progress => <<t, k, i>> \in progress'

LEMMA RestoredGrows ==
  ASSUME NEW t, KeepsRecords(t), NEW rw \in StateRows
  PROVE  RestoredOk(t, rw, progress) \subseteq RestoredOk(t, rw, progress')
BY DEF KeepsRecords, RestoredOk, StateRows

\* Only the round of a row matters to what is restored.
LEMMA RestoredByRound ==
  ASSUME NEW t, NEW P, NEW rw, NEW rv, rv.round = rw.round
  PROVE  RestoredOk(t, rw, P) = RestoredOk(t, rv, P)
BY DEF RestoredOk

LEMMA ClearSyncedKeeps ==
  ASSUME NEW S, ClearSynced(S), NEW t, t \notin S PROVE KeepsRecords(t)
BY DEF ClearSynced, KeepsRecords

\* The entry that a runtime waits for survives the compaction of the heap.
LEMMA CompactKeeps ==
  ASSUME NEW heap, NEW R, NEW t, <<t, R[t].wake>> \in heap PROVE <<t, R[t].wake>> \in Compact(heap, R)
BY DEF Compact

KeepsEntry(t) == <<t, rt[t].wake>> \in wakeups => <<t, rt[t].wake>> \in wakeups'

LEMMA HeapKept ==
  ASSUME Heaped, NEW t \in Tasks, rt'[t] = rt[t], ok'[t] = ok[t], row'[t] = row[t],
         KeepsRecords(t), KeepsEntry(t)
  PROVE  HeapOf(t)'
<1>1. HeapOf(t)
  BY HeapParts DEF Heaped
<1>2. row[t] \in StateRows
  BY DEF Heaped, LeaseInv, TypeOK
<1>3. RestoredOk(t, row[t], progress) = Keywords => RestoredOk(t, row[t], progress') = Keywords
  BY <1>2, RestoredGrows, RestoredOkType
<1> QED BY <1>1, <1>3 DEF HeapOf, KeepsEntry, Running

LEMMA HeapFree ==
  ASSUME NEW t \in Tasks, rt'[t] = NoRuntime,
         row'[t].wait /\ ok'[t] = Keywords => RestoredOk(t, row'[t], progress') = Keywords
  PROVE  HeapOf(t)'
BY DEF HeapOf, Running, NoRuntime

\* t is in a batch, or sleeps with its entry in the heap.
LEMMA HeapBusy ==
  ASSUME NEW t \in Tasks, ~row'[t].wait,
         \/ rt'[t].wake = 0
         \/ /\ rt'[t].worker = 0 /\ <<t, rt'[t].wake>> \in wakeups'
            /\ ok'[t] = Keywords => RestoredOk(t, row'[t], progress') = Keywords
  PROVE  HeapOf(t)'
BY DEF HeapOf, Running

LEMMA HeapInit == Init => HeapInv
<1> SUFFICES ASSUME Init, NEW t \in Tasks PROVE HeapOf(t)
  BY HeapParts
<1> QED BY DEF Init, HeapOf, Running, NoRuntime, NoRow

\* Runtimes, ok keywords, rows and heap are kept; progress may grow.
LEMMA HeapUntouched ==
  ASSUME Heaped, UNCHANGED <<rt, ok, row, wakeups>>, \A t \in Tasks : KeepsRecords(t) PROVE HeapInv'
<1>1. \A t \in Tasks : HeapOf(t)'
  BY HeapKept DEF KeepsEntry
<1> QED BY <1>1, HeapParts

LEMMA SameProgress == ASSUME UNCHANGED progress, NEW t PROVE KeepsRecords(t)
BY DEF KeepsRecords

LEMMA DropKeepsEntry ==
  ASSUME NEW R, wakeups' = Compact(wakeups, R), NEW t, R[t] = rt[t] PROVE KeepsEntry(t)
BY CompactKeeps DEF KeepsEntry

LEMMA PauseAllHeap == ASSUME Heaped, NEW S \in SUBSET Tasks, PauseAll(S) PROVE HeapInv'
<1>1. ASSUME NEW t \in S PROVE HeapOf(t)'
  <2>1. rt'[t] = NoRuntime /\ row'[t].wait = SavedWait(t) /\ ok'[t] = ok[t]
    BY DEF PauseAll
  <2>2. ok[t] = Keywords => ~row'[t].wait
    BY <2>1, ConstantsAssumption DEF SavedWait, AllPending
  <2> QED BY <2>1, <2>2, HeapFree
<1>2. ASSUME NEW t \in Tasks, t \notin S PROVE HeapOf(t)'
  <2>1. rt'[t] = rt[t] /\ row'[t] = row[t] /\ ok'[t] = ok[t] /\ KeepsRecords(t) /\ KeepsEntry(t)
    BY <1>2, SameProgress DEF PauseAll, KeepsEntry, wakeVars
  <2> QED BY <2>1, HeapKept
<1> QED BY <1>1, <1>2, HeapParts

\* mark_task_error; ok changes, if at all, for the failed task.
LEMMA MarkErrorHeap ==
  ASSUME Heaped, NEW S \in SUBSET Tasks, NEW W, NEW flag, MarkError(S, W, flag),
         \A t \in Tasks : t \notin S => ok'[t] = ok[t]
  PROVE  HeapInv'
<1>1. ASSUME NEW t \in S PROVE HeapOf(t)'
  <2>1. rt'[t] = NoRuntime /\ ~row'[t].wait
    BY DEF MarkError
  <2> QED BY <2>1, HeapFree
<1>2. ASSUME NEW t \in Tasks, t \notin S PROVE HeapOf(t)'
  <2>1. rt'[t] = rt[t] /\ row'[t] = row[t] /\ ok'[t] = ok[t] /\ KeepsRecords(t)
    BY <1>2, SameProgress DEF MarkError
  <2>2. KeepsEntry(t)
    BY <2>1, DropKeepsEntry DEF MarkError
  <2> QED BY <2>1, <2>2, HeapKept
<1> QED BY <1>1, <1>2, HeapParts

LEMMA CleanedEntry ==
  ASSUME TypeOK, NEW t \in Tasks, NEW u \in Tasks, u # t, <<u, rt[u].wake>> \in wakeups
  PROVE  <<u, rt[u].wake>> \in Cleaned(t).wakeups
<1>1. WithoutRuntime(t)[u] = rt[u]
  BY DEF WithoutRuntime, TypeOK
<1>2. <<u, rt[u].wake>> \in Compact(wakeups, WithoutRuntime(t))
  BY <1>1, CompactKeeps
<1> QED BY <1>2 DEF Cleaned

\* One task: the others keep all that HeapInv is about.
LEMMA OneHeap ==
  ASSUME Heaped, NEW t \in Tasks, HeapOf(t)',
         \A u \in Tasks : u # t => /\ rt'[u] = rt[u] /\ ok'[u] = ok[u] /\ row'[u] = row[u]
                                   /\ KeepsRecords(u) /\ KeepsEntry(u)
  PROVE  HeapInv'
BY HeapKept, HeapParts

LEMMA DropRuntimeHeap ==
  ASSUME Heaped, NEW t \in Tasks, DropRuntime(t), ClearSynced({t}),
         \A u \in Tasks : u # t => ok'[u] = ok[u]
  PROVE  HeapInv'
<1>1. TypeOK
  BY DEF Heaped, LeaseInv
<1>2. HeapOf(t)'
  BY <1>1, DropRuntimeFacts, HeapFree DEF NoRow
<1>3. ASSUME NEW u \in Tasks, u # t PROVE KeepsRecords(u) /\ KeepsEntry(u)
  BY <1>1, <1>3, ClearSyncedKeeps, CleanedEntry DEF DropRuntime, KeepsEntry
<1> QED BY <1>1, <1>2, <1>3, DropRuntimeFacts, OneHeap

\* A launch without a saved wait, or with one that is kept.
LEMMA LaunchHeap ==
  ASSUME Heaped, NEW t \in Tasks, NEW d \in Devices, NEW r \in RoundIds, NEW done \in SUBSET Keywords,
         NEW waits \in BOOLEAN, NEW c, CleanTypes(c), Launch(t, d, r, done, waits, c),
         ok'[t] = done, waits /\ done = Keywords => row[t].round = r /\ row[t].wait /\ ok[t] = Keywords,
         KeepsRecords(t) \/ ~waits,
         \A u \in Tasks : u # t => /\ ok'[u] = ok[u] /\ KeepsRecords(u)
                                   /\ <<u, rt[u].wake>> \in wakeups => <<u, rt[u].wake>> \in c.wakeups
  PROVE  HeapInv'
<1>0. TypeOK
  BY DEF Heaped, LeaseInv
<1>1. /\ Launched(t, d, r)
      /\ LaunchWaits(t, c) \/ LaunchRests(t, done, c) \/ LaunchWorks(t, d, r, done, c)
      /\ LaunchWaits(t, c) => waits
  <2>1. TypeOK /\ t \in Tasks /\ d \in Devices /\ r \in RoundIds /\ done \in SUBSET Keywords
        /\ waits \in BOOLEAN /\ CleanTypes(c) /\ Launch(t, d, r, done, waits, c)
    BY <1>0
  <2>2. Launched(t, d, r)
    BY ONLY <2>1, LaunchFacts
  <2>3. LaunchWaits(t, c) \/ LaunchRests(t, done, c) \/ LaunchWorks(t, d, r, done, c)
    BY ONLY <2>1, LaunchFacts
  <2>4. LaunchWaits(t, c) => waits
    BY ONLY <2>1, LaunchFacts
  <2> QED BY <2>2, <2>3, <2>4
<1>2. /\ ~row'[t].wait /\ row'[t].round = r
      /\ \A u \in Tasks : u # t => rt'[u] = rt[u] /\ row'[u] = row[u]
  BY <1>1 DEF Launched, ExecutingRow
<1>3. c.wakeups \subseteq wakeups'
  BY <1>1 DEF LaunchWaits, LaunchRests, LaunchWorks
<1>4. HeapOf(t)'
  <2>1. CASE LaunchWaits(t, c)
    <3>1. ASSUME done = Keywords PROVE RestoredOk(t, row'[t], progress') = Keywords
      <4>1. row[t].round = r /\ row[t].wait /\ ok[t] = Keywords /\ row[t] \in StateRows
        BY <1>0, <1>1, <2>1, <3>1 DEF TypeOK
      <4>2. RestoredOk(t, row[t], progress) = Keywords
        BY <4>1, HeapParts DEF Heaped, HeapOf
      <4>3. RestoredOk(t, row[t], progress') = Keywords
        BY <1>1, <2>1, <4>1, <4>2, RestoredGrows, RestoredOkType
      <4>4. RestoredOk(t, row[t], progress') = RestoredOk(t, row'[t], progress')
        BY <1>2, <4>1, RestoredByRound
      <4> QED BY <4>3, <4>4
    <3>2. rt'[t].worker = 0 /\ <<t, rt'[t].wake>> \in wakeups'
      BY <2>1 DEF LaunchWaits
    <3> QED BY <1>2, <3>1, <3>2, HeapBusy
  <2>2. CASE LaunchRests(t, done, c) \/ LaunchWorks(t, d, r, done, c)
    BY <1>2, <2>2, HeapBusy DEF LaunchRests, LaunchWorks
  <2> QED BY <1>1, <2>1, <2>2
<1> QED BY <1>2, <1>3, <1>4, OneHeap DEF KeepsEntry

LEMMA StartHeap == ASSUME Heaped, NEW t \in Tasks, Start(t) PROVE HeapInv'
<1>0. /\ TypeOK /\ CleanTypes(Kept) /\ ok[t] \in SUBSET Keywords /\ Kept.wakeups = wakeups
      /\ UNCHANGED progress /\ \A u \in Tasks : KeepsRecords(u)
  BY KeptType, SameProgress DEF Heaped, LeaseInv, TypeOK, Start, Kept
<1>1. CASE UNCHANGED <<rt, wakeVars, ok, row>>
  BY <1>0, <1>1, HeapUntouched DEF wakeVars
<1>2. ASSUME NEW d \in Devices, CanCreateRound, UNCHANGED ok, Launch(t, d, nextRound, ok[t], FALSE, Kept)
      PROVE  HeapInv'
  <2>1. nextRound \in RoundIds
    BY <1>0, <1>2, RoundWithinBound DEF TypeOK
  <2> QED BY <1>0, <1>2, <2>1, LaunchHeap
<1>3. ASSUME NEW s, NEW d, NEW m, SetTask(t, s, d, ok[t], m) PROVE UNCHANGED ok
  BY <1>0, <1>3 DEF SetTask, TypeOK
<1>4. PICK d \in Devices :
        \/ UNCHANGED <<taskVars, rt, wakeVars, row>>
        \/ SetTask(t, "waiting", None, ok[t], FALSE) /\ UNCHANGED <<rt, wakeVars, row>>
        \/ /\ CanCreateRound /\ SetTask(t, "executing", d, ok[t], ok[t] # Keywords)
           /\ Launch(t, d, nextRound, ok[t], FALSE, Kept)
  BY DEF Start
<1> QED BY <1>1, <1>2, <1>3, <1>4 DEF taskVars

LEMMA ResumeHeap == ASSUME Heaped, NEW t \in Tasks, Resume(t) PROVE HeapInv'
<1> DEFINE r == IF row[t].round = 0 THEN nextRound ELSE row[t].round
<1>0. /\ TypeOK /\ CleanTypes(Kept) /\ ok[t] \in SUBSET Keywords /\ Kept.wakeups = wakeups
      /\ UNCHANGED progress /\ \A u \in Tasks : KeepsRecords(u)
  BY KeptType, SameProgress DEF Heaped, LeaseInv, TypeOK, Resume, Kept
<1>1. PICK d \in Devices, waits \in (IF row[t].wait THEN BOOLEAN ELSE {FALSE}) :
        /\ SetTask(t, "executing", d, ok[t], ~waits /\ ok[t] # Keywords)
        /\ \/ UNCHANGED <<rt, wakeVars, row>>
           \/ (row[t].round = 0 => CanCreateRound) /\ Launch(t, d, r, ok[t], waits, Kept)
  BY DEF Resume
<1>2. UNCHANGED ok
  BY <1>0, <1>1 DEF SetTask, TypeOK
<1>3. CASE UNCHANGED <<rt, wakeVars, row>>
  BY <1>0, <1>2, <1>3, HeapUntouched DEF wakeVars
<1>4. CASE (row[t].round = 0 => CanCreateRound) /\ Launch(t, d, r, ok[t], waits, Kept)
  <2>1. r \in RoundIds /\ waits \in BOOLEAN
    BY <1>0, <1>4, RoundWithinBound DEF TypeOK, StateRows
  <2>2. waits /\ ok[t] = Keywords => row[t].round = r /\ row[t].wait
    <3> SUFFICES ASSUME waits, ok[t] = Keywords PROVE row[t].round # 0 /\ row[t].wait
      OBVIOUS
    <3>1. row[t].wait
      BY <1>1
    <3>2. RestoredOk(t, row[t], progress) = Keywords
      BY <3>1, HeapParts DEF Heaped, HeapOf
    <3> QED BY <3>1, <3>2, ConstantsAssumption DEF RestoredOk
  <2> HIDE DEF r
  <2> QED BY <1>0, <1>2, <1>4, <2>1, <2>2, LaunchHeap
<1> QED BY <1>1, <1>3, <1>4

LEMMA RetryHeap == ASSUME Heaped, NEW t \in Tasks, Retry(t) PROVE HeapInv'
<1>0. TypeOK /\ CleanTypes(Cleaned(t)) /\ {} \in SUBSET Keywords /\ ClearSynced({t})
  BY CleanedType DEF Heaped, LeaseInv, Retry
<1>1. CASE DropRuntime(t) /\ UNCHANGED taskVars
  BY <1>0, <1>1, DropRuntimeHeap DEF taskVars
<1>2. ASSUME NEW d, SetTask(t, "executing", d, {}, TRUE)
      PROVE  ok'[t] = {} /\ \A u \in Tasks : u # t => ok'[u] = ok[u]
  BY <1>0, <1>2 DEF SetTask, TypeOK
<1>3. ASSUME NEW d, SetTask(t, "executing", d, {}, TRUE), DropRuntime(t) PROVE HeapInv'
  BY <1>0, <1>2, <1>3, DropRuntimeHeap
<1>4. ASSUME NEW d \in Devices, SetTask(t, "executing", d, {}, TRUE), CanCreateRound,
             Launch(t, d, nextRound, {}, FALSE, Cleaned(t))
      PROVE  HeapInv'
  <2>1. nextRound \in RoundIds
    BY <1>0, <1>4, RoundWithinBound DEF TypeOK
  <2>2. ok'[t] = {} /\ \A u \in Tasks : u # t => ok'[u] = ok[u]
    BY <1>2, <1>4
  <2>3. \A u \in Tasks : u # t => /\ KeepsRecords(u)
                                  /\ <<u, rt[u].wake>> \in wakeups => <<u, rt[u].wake>> \in Cleaned(t).wakeups
    BY <1>0, ClearSyncedKeeps, CleanedEntry
  <2> QED BY <1>0, <1>4, <2>1, <2>2, <2>3, LaunchHeap
<1> QED BY <1>1, <1>3, <1>4 DEF Retry

\* A reload takes ok from the database, as a restart does.
LEMMA ReloadHeap == ASSUME Heaped, Reload PROVE HeapInv'
<1>0. UNCHANGED <<rt, wakeups, row, progress>>
  BY DEF Reload, wakeVars
<1>1. ASSUME NEW t \in Tasks PROVE HeapOf(t)'
  <2>1. HeapOf(t)
    BY HeapParts DEF Heaped
  <2>2. CASE status[t] = "absent"
    <3>1. ok'[t] = {} /\ rt'[t] = NoRuntime
      BY <1>0, <2>2, RunningFacts DEF Reload, Heaped
    <3> QED BY <3>1, HeapFree, ConstantsAssumption
  <2>3. CASE status[t] # "absent"
    <3>1. ok'[t] = RestoredOk(t, row[t], progress)
      BY <2>3 DEF Reload
    <3> QED BY <1>0, <2>1, <3>1 DEF HeapOf, Running
  <2> QED BY <2>2, <2>3
<1> QED BY <1>1, HeapParts

LEMMA ReloadTaskHeap == ASSUME Heaped, NEW t \in Tasks, ReloadTask(t) PROVE HeapInv'
<1>0. TypeOK /\ UNCHANGED <<rt, wakeups>>
  BY DEF ReloadTask, wakeVars, Heaped, LeaseInv
<1>1. CASE UNCHANGED <<ok, row, progress>>
  BY <1>0, <1>1, SameProgress, HeapUntouched
<1>2. CASE status[t] = "success" /\ ClearSynced({t}) /\ row' = [row EXCEPT ![t] = NoRow]
           /\ SetTask(t, "waiting", None, {}, FALSE)
  <2>1. rt'[t] = NoRuntime /\ row'[t] = NoRow
    BY <1>0, <1>2, RunningFacts DEF Heaped, TypeOK
  <2>2. HeapOf(t)'
    BY <2>1, HeapFree DEF NoRow
  <2>3. \A u \in Tasks : u # t => ok'[u] = ok[u] /\ row'[u] = row[u] /\ KeepsRecords(u)
    BY <1>0, <1>2, ClearSyncedKeeps DEF SetTask, TypeOK
  <2> QED BY <1>0, <2>2, <2>3, OneHeap DEF KeepsEntry
<1>3. CASE /\ status[t] \in {"absent", "waiting"} /\ UNCHANGED <<row, progress>>
           /\ \E s, d : SetTask(t, s, d, RestoredOk(t, row[t], progress), FALSE)
  <2>1. rt'[t] = NoRuntime
    BY <1>0, <1>3, RunningFacts DEF Heaped
  <2>2. ok'[t] = RestoredOk(t, row'[t], progress') /\ \A u \in Tasks : u # t => ok'[u] = ok[u]
    BY <1>0, <1>3 DEF SetTask, TypeOK
  <2>3. HeapOf(t)'
    BY <2>1, <2>2, HeapFree
  <2> QED BY <1>0, <1>3, <2>2, <2>3, SameProgress, OneHeap DEF KeepsEntry
<1> QED BY <1>1, <1>2, <1>3 DEF ReloadTask

LEMMA ForgetHeap == ASSUME Heaped, NEW S \in SUBSET Tasks, Forget(S) PROVE HeapInv'
<1>1. ASSUME NEW t \in S PROVE HeapOf(t)'
  <2>1. rt'[t] = NoRuntime /\ ~row'[t].wait
    BY DEF Forget, NoRow
  <2> QED BY <2>1, HeapFree
<1>2. ASSUME NEW t \in Tasks, t \notin S PROVE HeapOf(t)'
  <2>1. rt'[t] = rt[t] /\ row'[t] = row[t] /\ ok'[t] = ok[t] /\ KeepsRecords(t)
    BY <1>2 DEF Forget, KeepsRecords
  <2>2. KeepsEntry(t)
    BY <2>1, DropKeepsEntry DEF Forget
  <2> QED BY <2>1, <2>2, HeapKept
<1> QED BY <1>1, <1>2, HeapParts

LEMMA RestartHeap == ASSUME NEW newDay \in BOOLEAN, Restart(newDay) PROVE HeapInv'
<1>1. ASSUME NEW t \in Tasks PROVE HeapOf(t)'
  <2>1. rt'[t] = NoRuntime
    BY DEF Restart
  <2>2. ok'[t] = RestoredOk(t, row'[t], progress') \/ ok'[t] = {}
    BY DEF Restart
  <2> QED BY <2>1, <2>2, HeapFree, ConstantsAssumption
<1> QED BY <1>1, HeapParts

LEMMA CommandHeap == ASSUME Heaped, Command PROVE HeapInv'
<1>1. ASSUME NEW t \in Tasks, Pause(t) PROVE HeapInv'
  BY <1>1, PauseAllHeap DEF Pause
<1>2. ASSUME NEW S \in SUBSET Tasks, PausePhones(S) PROVE HeapInv'
  <2>1. PICK P \in SUBSET Tasks : PauseAll(P)
    BY <1>2 DEF PausePhones
  <2> QED BY <2>1, PauseAllHeap
<1>3. ASSUME NEW d \in Devices, Kick(d) PROVE HeapInv'
  <2>1. PICK P \in SUBSET Tasks : PauseAll(P)
    BY <1>3 DEF Kick
  <2> QED BY <2>1, PauseAllHeap
<1>4. ASSUME NEW t \in Tasks, Stop(t) PROVE HeapInv'
  <2>1. \A u \in Tasks : u # t => ok'[u] = ok[u]
    BY <1>4 DEF Stop, SetTask, Heaped, LeaseInv, TypeOK
  <2> QED BY <1>4, <2>1, DropRuntimeHeap DEF Stop
<1>5. ASSUME NEW t \in Tasks, ClearDevice(t) PROVE HeapInv'
  <2>1. rt'[t] = NoRuntime
    BY <1>5, RunningFacts DEF ClearDevice, Heaped
  <2>2. ~row'[t].wait /\ \A u \in Tasks : u # t => row'[u] = row[u]
    BY <1>5 DEF ClearDevice, NoRow, Heaped, LeaseInv, TypeOK
  <2>3. HeapOf(t)'
    BY <2>1, <2>2, HeapFree
  <2> QED BY <1>5, <2>2, <2>3, SameProgress, OneHeap DEF ClearDevice, KeepsEntry, wakeVars
<1>6. ASSUME NEW online, ReleaseOffline(online) PROVE HeapInv'
  <2>1. PICK S \in SUBSET Tasks : MarkError(S, wk, FALSE)
    BY <1>6 DEF ReleaseOffline
  <2> QED BY <1>6, <2>1, MarkErrorHeap DEF ReleaseOffline
<1>7. ASSUME NEW d \in Devices, Flag(d) \/ Unflag(d) PROVE HeapInv'
  BY <1>7, SameProgress, HeapUntouched DEF Flag, Unflag, taskVars, wakeVars
<1> QED BY <1>1, <1>2, <1>3, <1>4, <1>5, <1>6, <1>7, StartHeap, ResumeHeap, RetryHeap, ReloadTaskHeap,
           ForgetHeap, ReloadHeap DEF Command

\* An entry is taken off the heap only for a task that was not waiting for it
\* or that is served.
LEMMA WakeupHeap == ASSUME Heaped, NEW w \in wakeups, Wakeup(w[1], w[2]) PROVE HeapInv'
<1> DEFINE t == w[1]
           heap == wakeups \ {<<t, w[2]>>}
<1>0. /\ TypeOK /\ t \in Tasks /\ UNCHANGED <<ok, progress>> /\ w = <<t, w[2]>>
      /\ wakeups' = Compact(heap, rt')
  BY DEF Wakeup, Heaped, LeaseInv, TypeOK
<1>1. ASSUME NEW u \in Tasks, rt'[u] = rt[u], u # t \/ rt[u].wake # w[2] PROVE KeepsEntry(u)
  <2>1. <<u, rt[u].wake>> \in wakeups => <<u, rt'[u].wake>> \in heap
    BY <1>1
  <2> HIDE DEF heap
  <2> QED BY <1>0, <1>1, <2>1, CompactKeeps DEF KeepsEntry
<1>2. CASE ~(Running(t) /\ rt[t].wake = w[2] /\ rt[t].worker = 0) /\ UNCHANGED <<rt, row>>
  <2>1. \A u \in Tasks : u # t => HeapOf(u)'
    BY <1>0, <1>1, <1>2, SameProgress, HeapKept
  <2>2. HeapOf(t)'
    <3>1. CASE rt[t].wake # w[2]
      BY <1>0, <1>1, <1>2, <3>1, SameProgress, HeapKept
    <3>2. CASE ~Running(t)
      <4>1. HeapOf(t) /\ rt[t].wake = 0
        BY <1>0, <3>2, HeapParts, RunningFacts DEF Heaped
      <4> HIDE DEF t
      <4> QED BY <1>0, <1>2, <3>2, <4>1 DEF HeapOf, Running
    <3>3. CASE rt[t].worker # 0
      <4>1. HeapOf(t)
        BY <1>0, HeapParts DEF Heaped
      <4> HIDE DEF t
      <4> QED BY <1>0, <1>2, <3>3, <4>1 DEF HeapOf, Running
    <3> QED BY <1>2, <3>1, <3>2, <3>3
  <2> QED BY <1>0, <2>1, <2>2, HeapParts
<1>3. CASE /\ Running(t) /\ rt[t].worker = 0 /\ SpawnWorker(t, rt[t], ok[t], wk)
           /\ row' = [row EXCEPT ![t] = [ExecutingRow(dev[t], rt[t].round) EXCEPT !.status = status[t]]]
  <2> HIDE DEF t
  <2>1. ~row'[t].wait /\ row'[t].round = rt[t].round /\ \A u \in Tasks : u # t => row'[u] = row[u]
    BY <1>0, <1>3 DEF ExecutingRow, TypeOK
  <2>2. \A u \in Tasks : u # t => rt'[u] = rt[u]
    BY <1>0, <1>3 DEF SpawnWorker, TypeOK
  <2>3. \A u \in Tasks : u # t => HeapOf(u)'
    BY <1>0, <1>1, <2>1, <2>2, SameProgress, HeapKept
  <2>4. HeapOf(t)'
    <3>1. CASE ok[t] # Keywords
      <4>1. rt' = [rt EXCEPT ![t] = [rt[t] EXCEPT !.worker = nextWorker, !.wake = 0]]
        BY <1>3, <3>1 DEF SpawnWorker
      <4>2. rt'[t].wake = 0
        BY <1>0, <4>1, RunningFacts DEF TypeOK, Runtimes
      <4> QED BY <1>0, <2>1, <4>2, HeapBusy
    <3>2. CASE ok[t] = Keywords
      <4>1. rt'[t] = rt[t]
        BY <1>0, <1>3, <3>2 DEF SpawnWorker, TypeOK
      <4>2. row[t].round = rt[t].round
        BY <1>0, <1>3 DEF Heaped, RoundInv, RowNamesRound
      <4>3. RestoredOk(t, row[t], progress) = RestoredOk(t, row'[t], progress')
        BY <1>0, <2>1, <4>2, RestoredByRound
      <4>4. HeapOf(t)
        BY <1>0, HeapParts DEF Heaped
      <4> QED BY <1>0, <1>3, <2>1, <3>2, <4>1, <4>3, <4>4 DEF HeapOf, Running
    <3> QED BY <3>1, <3>2
  <2> QED BY <2>3, <2>4, HeapParts
<1> QED BY <1>0, <1>2, <1>3 DEF Wakeup

LEMMA WorkerRecords == ASSUME NEW s \in Workers, Worker(s) PROVE progress \subseteq progress'
BY DEF Worker, WorkerKeyword, WorkerEnds, WorkerCancelled

LEMMA WorkerHeap == ASSUME Heaped, NEW s \in Workers, Worker(s) PROVE HeapInv'
<1>1. \A t \in Tasks : KeepsRecords(t)
  BY WorkerRecords DEF KeepsRecords
<1>2. UNCHANGED <<rt, ok, row, wakeups>>
  BY DEF Worker, WorkerKeyword, WorkerEnds, WorkerCancelled, taskVars, wakeVars
<1> QED BY <1>1, <1>2, HeapUntouched

\* A keyword counts only while its task waits for the worker.
LEMMA HandleKeywordDoneHeap ==
  ASSUME Heaped, NEW s \in Workers, NEW k \in Keywords, HandleKeywordDone(s, k) PROVE HeapInv'
<1>1. UNCHANGED <<rt, row, wakeups, progress>> /\ TypeOK
  BY DEF HandleKeywordDone, wakeVars, Heaped, LeaseInv
<1>2. ASSUME NEW t \in Tasks PROVE HeapOf(t)'
  <2>0. HeapOf(t)
    BY HeapParts DEF Heaped
  <2>1. CASE ok'[t] = ok[t]
    BY <1>1, <2>0, <2>1 DEF HeapOf, Running
  <2>2. CASE ok'[t] # ok[t]
    <3>1. rt[t].worker = s /\ s # 0
      BY <1>1, <2>2 DEF HandleKeywordDone, IsActive, TypeOK, Workers
    <3>2. Running(t)
      BY <3>1, RunningFacts DEF Heaped
    <3> QED BY <1>1, <2>0, <3>1, <3>2 DEF HeapOf, Running
  <2> QED BY <2>1, <2>2
<1> QED BY <1>2, HeapParts

LEMMA HandleResultHeap == ASSUME Heaped, NEW s \in Workers, HandleResult(s) PROVE HeapInv'
<1>0. LeaseInv /\ TypeOK /\ UNCHANGED progress /\ \A u \in Tasks : KeepsRecords(u)
  BY SameProgress DEF Heaped, LeaseInv, HandleResult
<1>1. PICK t \in Tasks : \/ Dropped(s, t) \/ Ends(s, t)
                         \/ \E keep \in SUBSET Keywords : Fails(s, t, keep)
                         \/ \E done \in SUBSET Keywords : Continues(s, t, done)
  BY <1>0, ResultCases
<1>2. CASE Dropped(s, t)
  BY <1>0, <1>2, HeapUntouched DEF Dropped, taskVars, wakeVars
<1>3. ASSUME NEW keep, Fails(s, t, keep) PROVE HeapInv'
  <2>1. \A u \in Tasks : u \notin {t} => ok'[u] = ok[u]
    BY <1>0, <1>3 DEF Fails, TypeOK
  <2> QED BY <1>3, <2>1, MarkErrorHeap DEF Fails
<1>4. ASSUME NEW Q \in Runtimes, Q.worker = 0, Schedule(t, Q, wakeups), NEW done, done # Keywords, NEW r,
             SetTask(t, status[t], dev[t], done, FALSE), row' = [row EXCEPT ![t] = ExecutingRow(dev[t], r)]
      PROVE  HeapInv'
  <2>1. rt' = [rt EXCEPT ![t] = [Q EXCEPT !.wake = nextWakeup]]
        /\ wakeups' = wakeups \cup {<<t, nextWakeup>>}
    BY <1>4 DEF Schedule
  <2>2. rt'[t].worker = 0 /\ rt'[t].wake = nextWakeup /\ \A u \in Tasks : u # t => rt'[u] = rt[u]
    BY <1>0, <1>4, <2>1 DEF TypeOK, Runtimes
  <2>3. ~row'[t].wait /\ ok'[t] = done /\ \A u \in Tasks : u # t => row'[u] = row[u] /\ ok'[u] = ok[u]
    BY <1>0, <1>4 DEF ExecutingRow, SetTask, TypeOK
  <2>4. HeapOf(t)'
    <3>1. <<t, rt'[t].wake>> \in wakeups' /\ ok'[t] # Keywords
      BY <1>4, <2>1, <2>2, <2>3
    <3> QED BY <2>2, <2>3, <3>1, HeapBusy
  <2> QED BY <1>0, <2>1, <2>2, <2>3, <2>4, OneHeap DEF KeepsEntry
<1>5. CASE Ends(s, t) /\ Succeed(t)
  <2>1. rt'[t] = NoRuntime /\ ~row'[t].wait
        /\ \A u \in Tasks : u # t => row'[u] = row[u] /\ rt'[u] = rt[u] /\ ok'[u] = ok[u]
    BY <1>0, <1>5 DEF Succeed, SetTask, WithoutRuntime, NoRow, TypeOK
  <2>2. HeapOf(t)'
    BY <2>1, HeapFree
  <2> QED BY <1>0, <1>5, <2>1, <2>2, OneHeap DEF Succeed, KeepsEntry, wakeVars
<1>6. CASE Ends(s, t) /\ NextIntervalRound(t)
  <2>1. nextRound \in RoundIds
    BY <1>0, <1>6, RoundWithinBound DEF NextIntervalRound, TypeOK
  <2>2. /\ [rt[t] EXCEPT !.round = nextRound, !.worker = 0] \in Runtimes
        /\ [rt[t] EXCEPT !.round = nextRound, !.worker = 0].worker = 0
    BY <1>0, <2>1 DEF TypeOK, Runtimes
  <2> QED BY <1>4, <1>6, <2>2, ConstantsAssumption DEF NextIntervalRound
<1>7. ASSUME NEW done, Continues(s, t, done) PROVE HeapInv'
  <2>1. [rt[t] EXCEPT !.worker = 0] \in Runtimes /\ [rt[t] EXCEPT !.worker = 0].worker = 0
    BY <1>0 DEF TypeOK, Runtimes
  <2> QED BY <1>4, <1>7, <2>1 DEF Continues, Reschedule
<1> QED BY <1>1, <1>2, <1>3, <1>5, <1>6, <1>7 DEF Ends

LEMMA HeapNext == ASSUME Heaped, [Next]_vars PROVE HeapInv'
<1>1. CASE UNCHANGED vars
  BY <1>1, SameProgress, HeapUntouched DEF vars, taskVars, wakeVars
<1>2. ASSUME NEW d \in Devices, DeviceUp(d) \/ DeviceDown(d) PROVE HeapInv'
  BY <1>2, SameProgress, HeapUntouched DEF DeviceUp, DeviceDown, taskVars, wakeVars
<1> QED BY <1>1, <1>2, CommandHeap, RestartHeap, WakeupHeap, WorkerHeap, HandleKeywordDoneHeap,
           HandleResultHeap DEF Next, Outside, Report

\* Each runtime waits for one thing, and what it waits for will come.
THEOREM WaitsCovered == Spec => []HeapInv
<1>1. Heaped /\ [Next]_vars => Heaped'
  BY HeapNext, RoundNext, LeaseInvNext DEF Heaped, Rounded
<1>2. Init => Heaped
  BY HeapInit, RoundInit, InitLeaseInv DEF Heaped
<1>3. Heaped => HeapInv
  BY DEF Heaped
<1> QED BY <1>1, <1>2, <1>3, PTL DEF Spec

\* compact_wakeup_heap never throws away the entry of a runtime that is to be
\* woken for the keywords it has left.
THEOREM ArmedWakeupsKept == Spec => []HeapCoversArmed
<1>1. HeapInv => HeapCoversArmed
  BY DEF HeapInv
<1> QED BY <1>1, WaitsCovered, PTL
-----------------------------------------------------------------------------
(* Runs.  Where no batch is empty, the ledger of a_task_runs follows the    *)
(* runtimes.                                                               *)

Ledgered == LeaseInv /\ EmptyBatches = FALSE /\ LedgerInv

\* The parts of LedgerInv: the run rows, and for one task or worker what keeps
\* a wakeup from being taken for the start of an interval.
RunsAgree   == RunsFresh /\ RunOwned /\ LedgerFollowsRuntime
MarkedOf(t) == t \notin IntervalTasks => /\ rt[t].wake # 0 => ok[t] # {} \/ mark[t]
                                         /\ ~row[t].wait
FullBatch(s) == wk[s].phase = "batch" => wk[s].done # {}

LEMMA LedgerParts ==
  LedgerInv <=> RunsAgree /\ (\A t \in Tasks : MarkedOf(t)) /\ (\A s \in Workers : FullBatch(s))
BY DEF LedgerInv, RunsAgree, BatchesMarked, MarkedOf, FullBatch, AllPending

\* A step keeps the row of a run, or finishes it.
KeepsRun(i) == runs'[i].task = runs[i].task /\ (runs'[i] = runs[i] \/ runs'[i].st # "running")

\* The runtime of t keeps its run, or goes with it.
RunFollows(t) ==
  IF rt'[t].dev # None
  THEN Running(t) /\ rt'[t].run = rt[t].run /\ (t \in IntervalTasks \/ runs'[rt[t].run] = runs[rt[t].run])
  ELSE Running(t) /\ t \notin IntervalTasks => runs'[rt[t].run].st # "running"

LEMMA OwnRun ==
  ASSUME Ledgered, NEW t \in Tasks, Running(t)
  PROVE  rt[t].run \in RunIds /\ runs[rt[t].run].task = t /\ rt[t].run < nextRun
BY ConstantsAssumption DEF Ledgered, LedgerInv, RunOwned, RunsFresh

LEMMA RunsDiffer ==
  ASSUME Ledgered, NEW t \in Tasks, NEW u \in Tasks, t # u, Running(t) PROVE rt[t].run # rt[u].run
<1>1. CASE Running(u)
  BY <1>1, OwnRun
<1>2. CASE ~Running(u)
  <2>1. rt[u].run = 0
    BY <1>2, RunningFacts DEF Ledgered
  <2> QED BY <2>1, OwnRun DEF RunIds
<1> QED BY <1>1, <1>2

\* The open runs of a task whose runtime keeps its run or goes with it; other
\* is a run that is opened for another task.
LEMMA OpenRunsFollow ==
  ASSUME Ledgered, NEW t \in Tasks \ IntervalTasks, RunFollows(t), NEW other,
         \A i \in RunIds : i # other => KeepsRun(i),
         other \in RunIds => runs'[other].task # t /\ runs[other].task # t
  PROVE  OpenRuns(t)' = IF rt'[t].dev # None THEN {rt'[t].run} ELSE {}
<1>1. OpenRuns(t)' \subseteq OpenRuns(t)
  <2> SUFFICES ASSUME NEW i \in RunIds, runs'[i] = [task |-> t, st |-> "running"]
               PROVE  runs[i] = [task |-> t, st |-> "running"]
    BY DEF OpenRuns
  <2>1. runs'[i].task = t /\ runs'[i].st = "running"
    OBVIOUS
  <2> QED BY <2>1 DEF KeepsRun
<1>2. OpenRuns(t) = IF Running(t) THEN {rt[t].run} ELSE {}
  BY DEF Ledgered, LedgerInv, LedgerFollowsRuntime
<1>3. CASE rt'[t].dev # None
  <2>1. Running(t) /\ rt'[t].run = rt[t].run /\ runs'[rt[t].run] = runs[rt[t].run]
    BY <1>3 DEF RunFollows
  <2>2. rt[t].run \in OpenRuns(t)
    BY <1>2, <2>1
  <2>3. rt[t].run \in OpenRuns(t)'
    BY <2>1, <2>2 DEF OpenRuns
  <2> QED BY <1>1, <1>2, <1>3, <2>1, <2>3
<1>4. CASE rt'[t].dev = None /\ Running(t)
  <2>1. runs'[rt[t].run].st # "running"
    BY <1>4 DEF RunFollows
  <2>2. rt[t].run \notin OpenRuns(t)'
    BY <2>1 DEF OpenRuns
  <2> QED BY <1>1, <1>2, <1>4, <2>2
<1>5. CASE rt'[t].dev = None /\ ~Running(t)
  BY <1>1, <1>2, <1>5
<1> QED BY <1>3, <1>4, <1>5

\* A step that inserts no run row.
LEMMA RunsFollow ==
  ASSUME Ledgered, nextRun' = nextRun, \A i \in RunIds : KeepsRun(i), \A t \in Tasks : RunFollows(t)
  PROVE  RunsAgree'
<1>1. RunsFresh'
  BY DEF Ledgered, LedgerInv, RunsFresh, KeepsRun
<1>2. RunOwned'
  <2> SUFFICES ASSUME NEW t \in Tasks, rt'[t].dev # None
               PROVE  rt'[t].run \in RunIds /\ runs'[rt'[t].run].task = t
    BY DEF RunOwned, Running
  <2>1. Running(t) /\ rt'[t].run = rt[t].run
    BY DEF RunFollows
  <2> QED BY <2>1, OwnRun DEF KeepsRun
<1>3. LedgerFollowsRuntime'
  <2> SUFFICES ASSUME NEW t \in Tasks \ IntervalTasks
               PROVE  OpenRuns(t)' = IF rt'[t].dev # None THEN {rt'[t].run} ELSE {}
    BY DEF LedgerFollowsRuntime, Running
  <2>1. 0 \notin RunIds
    BY DEF RunIds
  <2> QED BY <2>1, OpenRunsFollow
<1> QED BY <1>1, <1>2, <1>3 DEF RunsAgree

\* A step that inserts the run row nextRun for t: its runtime is launched with
\* it, or t waits for the next round of its interval.
LEMMA RunInserted ==
  ASSUME Ledgered, NEW t \in Tasks, nextRun \in RunIds, nextRun' = nextRun + 1,
         runs'[nextRun] = [task |-> t, st |-> "running"],
         \A i \in RunIds : i # nextRun => KeepsRun(i),
         \A u \in Tasks : u # t => RunFollows(u),
         rt'[t].dev # None,
         \/ /\ rt'[t].run = nextRun
            /\ Running(t) /\ t \notin IntervalTasks => runs'[rt[t].run].st # "running"
         \/ t \in IntervalTasks /\ Running(t) /\ rt'[t].run = rt[t].run
  PROVE  RunsAgree'
<1>0. nextRun \in Nat /\ RunIds \subseteq Nat /\ runs[nextRun].task = None /\ runs'[nextRun].task = t
  BY DEF Ledgered, LeaseInv, TypeOK, LedgerInv, RunsFresh, RunIds
<1>1. RunsFresh'
  BY <1>0 DEF Ledgered, LedgerInv, RunsFresh, KeepsRun
<1>2. RunOwned'
  <2> SUFFICES ASSUME NEW u \in Tasks, rt'[u].dev # None
               PROVE  rt'[u].run \in RunIds /\ runs'[rt'[u].run].task = u
    BY DEF RunOwned, Running
  <2>1. CASE u = t /\ rt'[t].run = nextRun
    BY <1>0, <2>1
  <2>2. CASE Running(u) /\ rt'[u].run = rt[u].run
    <3>1. rt[u].run \in RunIds /\ runs[rt[u].run].task = u /\ rt[u].run # nextRun
      BY <1>0, <2>2, OwnRun
    <3> QED BY <2>2, <3>1 DEF KeepsRun
  <2> QED BY <2>1, <2>2 DEF RunFollows
<1>3. LedgerFollowsRuntime'
  <2> SUFFICES ASSUME NEW u \in Tasks \ IntervalTasks
               PROVE  OpenRuns(u)' = IF rt'[u].dev # None THEN {rt'[u].run} ELSE {}
    BY DEF LedgerFollowsRuntime, Running
  <2>1. CASE u # t
    <3>1. runs'[nextRun].task # u /\ runs[nextRun].task # u
      BY <1>0, <2>1, ConstantsAssumption
    <3> QED BY <2>1, <3>1, OpenRunsFollow
  <2>2. CASE u = t
    <3>1. rt'[t].run = nextRun
      BY <2>2
    <3>2. OpenRuns(t) = IF Running(t) THEN {rt[t].run} ELSE {}
      BY <2>2 DEF Ledgered, LedgerInv, LedgerFollowsRuntime
    <3>3. ASSUME NEW i \in RunIds, i # nextRun, runs'[i] = [task |-> t, st |-> "running"] PROVE FALSE
      <4>1. runs'[i].task = t /\ runs'[i].st = "running"
        BY <3>3
      <4>2. i \in OpenRuns(t)
        BY <3>3, <4>1 DEF KeepsRun, OpenRuns
      <4>3. Running(t) /\ i = rt[t].run
        BY <3>2, <4>2
      <4> QED BY <2>2, <4>1, <4>3
    <3>4. OpenRuns(t)' = {nextRun}
      BY <3>3 DEF OpenRuns
    <3> QED BY <2>2, <3>1, <3>4
  <2> QED BY <2>1, <2>2
<1> QED BY <1>1, <1>2, <1>3 DEF RunsAgree
LEMMA LedgerInit == Init => LedgerInv
<1> SUFFICES ASSUME Init PROVE LedgerInv
  OBVIOUS
<1>1. RunsAgree
  BY ConstantsAssumption
     DEF Init, RunsAgree, RunsFresh, RunOwned, LedgerFollowsRuntime, OpenRuns, Running, NoRuntime, NoEntry
<1>2. \A t \in Tasks : MarkedOf(t)
  BY DEF Init, MarkedOf, NoRuntime, NoRow
<1>3. \A s \in Workers : FullBatch(s)
  BY DEF Init, FullBatch, NoWorker
<1> QED BY <1>1, <1>2, <1>3, LedgerParts

FullBatches(W) == \A s \in Workers : W[s].phase = "batch" => W[s].done # {}

LEMMA LedgerStep ==
  ASSUME RunsAgree', \A t \in Tasks : MarkedOf(t)', FullBatches(wk') PROVE LedgerInv'
BY DEF FullBatches, LedgerInv, RunsAgree, BatchesMarked, MarkedOf, AllPending

LEMMA BatchesFull == ASSUME Ledgered PROVE FullBatches(wk) /\ \A t \in Tasks : MarkedOf(t)
BY LedgerParts DEF Ledgered, FullBatches, FullBatch

LEMMA CancelledBatches ==
  ASSUME NEW W \in [Workers -> WorkerStates], FullBatches(W), NEW C PROVE FullBatches(CancelWorkers(W, C))
BY DEF FullBatches, CancelWorkers, WorkerStates

LEMMA ForgottenBatch ==
  ASSUME NEW W \in [Workers -> WorkerStates], FullBatches(W), NEW s \in Workers
  PROVE  FullBatches([W EXCEPT ![s] = NoWorker])
BY DEF FullBatches, NoWorker

\* A task with a mark, or with what it had.
LEMMA MarkKept ==
  ASSUME NEW t \in Tasks, MarkedOf(t), rt'[t].wake \in {0, rt[t].wake},
         ok'[t] # {} \/ mark'[t] \/ (ok'[t] = ok[t] /\ mark'[t] = mark[t]) \/ rt'[t].wake = 0,
         row'[t].wait => row[t].wait
  PROVE  MarkedOf(t)'
BY DEF MarkedOf

LEMMA FinishedRun ==
  ASSUME NEW L \in [RunIds -> RunRows], NEW I, NEW s, s # "running", NEW i \in RunIds
  PROVE  /\ FinishRuns(L, I, s)[i].task = L[i].task
         /\ i \notin I => FinishRuns(L, I, s)[i] = L[i]
         /\ i \in I => FinishRuns(L, I, s)[i].st # "running"
BY DEF FinishRuns, RunRows

\* The runtimes of S are dropped and their runs finished.
LEMMA RunsDropped ==
  ASSUME Ledgered, NEW S \in SUBSET Tasks, NEW s, s # "running",
         rt' = [t \in Tasks |-> IF t \in S THEN NoRuntime ELSE rt[t]],
         runs' = FinishRuns(runs, {rt[t].run : t \in S}, s), nextRun' = nextRun
  PROVE  RunsAgree'
<1> DEFINE I == {rt[t].run : t \in S}
<1>1. \A i \in RunIds : /\ runs'[i].task = runs[i].task
                        /\ i \notin I => runs'[i] = runs[i]
                        /\ i \in I => runs'[i].st # "running"
  <2>1. runs \in [RunIds -> RunRows] /\ runs' = FinishRuns(runs, I, s)
    BY DEF Ledgered, LeaseInv, TypeOK
  <2> HIDE DEF I
  <2> QED BY <2>1, FinishedRun
<1>2. \A i \in RunIds : KeepsRun(i)
  BY <1>1 DEF KeepsRun
<1>3. ASSUME NEW t \in Tasks PROVE RunFollows(t)
  <2>1. CASE t \in S
    <3>1. rt'[t].dev = None /\ rt[t].run \in I
      BY <2>1 DEF NoRuntime
    <3> HIDE DEF I
    <3>2. Running(t) => runs'[rt[t].run].st # "running"
      BY <1>1, <3>1, OwnRun
    <3> QED BY <3>1, <3>2 DEF RunFollows
  <2>2. CASE t \notin S
    <3>1. rt'[t] = rt[t]
      BY <2>2
    <3>2. Running(t) => rt[t].run \notin I
      BY <2>2, RunsDiffer
    <3> HIDE DEF I
    <3>3. Running(t) => runs'[rt[t].run] = runs[rt[t].run]
      BY <1>1, <3>2, OwnRun
    <3> QED BY <3>1, <3>3 DEF RunFollows, Running
  <2> QED BY <2>1, <2>2
<1> HIDE DEF I
<1> QED BY <1>2, <1>3, RunsFollow

LEMMA RunsUntouched ==
  ASSUME Ledgered, UNCHANGED <<runs, nextRun>>,
         \A t \in Tasks : rt'[t].dev = rt[t].dev /\ rt'[t].run = rt[t].run
  PROVE  RunsAgree'
<1>1. \A i \in RunIds : KeepsRun(i)
  BY DEF KeepsRun
<1>2. \A t \in Tasks : RunFollows(t)
  BY DEF RunFollows, Running
<1> QED BY <1>1, <1>2, RunsFollow

LEMMA OneRunDropped ==
  ASSUME Ledgered, NEW t \in Tasks, NEW s, s # "running",
         rt' = WithoutRuntime(t), runs' = FinishRuns(runs, {rt[t].run}, s), nextRun' = nextRun
  PROVE  RunsAgree'
<1>1. rt' = [u \in Tasks |-> IF u \in {t} THEN NoRuntime ELSE rt[u]]
  BY DEF WithoutRuntime, Ledgered, LeaseInv, TypeOK
<1>2. {rt[t].run} = {rt[u].run : u \in {t}}
  OBVIOUS
<1> QED BY <1>1, <1>2, RunsDropped

\* Nothing changes that LedgerInv is about, but for the keywords of tasks that
\* are marked or have some.
LEMMA LedgerUntouched ==
  ASSUME Ledgered, UNCHANGED <<rt, runs, nextRun>>, FullBatches(wk'),
         \A t \in Tasks : /\ ok'[t] # {} \/ mark'[t] \/ (ok'[t] = ok[t] /\ mark'[t] = mark[t]) \/ ~Running(t)
                          /\ row'[t].wait => row[t].wait
  PROVE  LedgerInv'
<1>1. RunsAgree'
  BY RunsUntouched
<1>2. ASSUME NEW t \in Tasks PROVE MarkedOf(t)'
  <2>1. ~Running(t) => rt[t].wake = 0
    BY RunningFacts DEF Ledgered
  <2> QED BY <2>1, BatchesFull, MarkKept
<1> QED BY <1>1, <1>2, LedgerStep

LEMMA PauseAllLedger == ASSUME Ledgered, NEW S \in SUBSET Tasks, PauseAll(S) PROVE LedgerInv'
<1>1. RunsAgree'
  <2>1. /\ rt' = [t \in Tasks |-> IF t \in S THEN NoRuntime ELSE rt[t]]
        /\ runs' = FinishRuns(runs, {rt[t].run : t \in S}, "paused") /\ nextRun' = nextRun
    BY DEF PauseAll
  <2> QED BY <2>1, RunsDropped
<1>2. ASSUME NEW t \in Tasks PROVE MarkedOf(t)'
  <2>1. CASE t \in S
    <3>1. rt'[t].wake = 0 /\ (row'[t].wait => t \in IntervalTasks)
      BY <2>1 DEF PauseAll, NoRuntime, SavedWait
    <3> QED BY <3>1 DEF MarkedOf
  <2>2. CASE t \notin S
    <3>1. rt'[t] = rt[t] /\ ok'[t] = ok[t] /\ mark'[t] = mark[t] /\ row'[t] = row[t]
      BY <2>2 DEF PauseAll
    <3> QED BY <3>1, BatchesFull, MarkKept
  <2> QED BY <2>1, <2>2
<1>3. FullBatches(wk')
  BY BatchesFull, CancelledBatches DEF PauseAll, Ledgered, LeaseInv, TypeOK
<1> QED BY <1>1, <1>2, <1>3, LedgerStep

LEMMA MarkErrorLedger ==
  ASSUME Ledgered, NEW S \in SUBSET Tasks, NEW W \in [Workers -> WorkerStates], FullBatches(W), NEW flag,
         MarkError(S, W, flag), nextRun' = nextRun, \A t \in Tasks : t \notin S => ok'[t] = ok[t]
  PROVE  LedgerInv'
<1>1. RunsAgree'
  <2>1. /\ rt' = [t \in Tasks |-> IF t \in S THEN NoRuntime ELSE rt[t]]
        /\ runs' = FinishRuns(runs, {rt[t].run : t \in S}, "stopped")
    BY DEF MarkError
  <2> QED BY <2>1, RunsDropped
<1>2. ASSUME NEW t \in Tasks PROVE MarkedOf(t)'
  <2>1. CASE t \in S
    <3>1. rt'[t].wake = 0 /\ ~row'[t].wait
      BY <2>1 DEF MarkError, NoRuntime
    <3> QED BY <3>1 DEF MarkedOf
  <2>2. CASE t \notin S
    <3>1. rt'[t] = rt[t] /\ ok'[t] = ok[t] /\ mark'[t] = mark[t] /\ row'[t] = row[t]
      BY <2>2 DEF MarkError
    <3> QED BY <3>1, BatchesFull, MarkKept
  <2> QED BY <2>1, <2>2
<1>3. FullBatches(wk')
  BY CancelledBatches DEF MarkError
<1> QED BY <1>1, <1>2, <1>3, LedgerStep

LEMMA DropRuntimeLedger ==
  ASSUME Ledgered, NEW t \in Tasks, DropRuntime(t),
         \A u \in Tasks : u # t => ok'[u] = ok[u] /\ mark'[u] = mark[u]
  PROVE  LedgerInv'
<1>0. TypeOK
  BY DEF Ledgered, LeaseInv
<1>1. RunsAgree'
  <2>1. /\ rt' = WithoutRuntime(t) /\ nextRun' = nextRun
        /\ runs' = FinishRuns(runs, {rt[t].run}, "stopped")
    BY DEF DropRuntime, Cleaned
  <2> QED BY <2>1, OneRunDropped
<1>2. ASSUME NEW u \in Tasks PROVE MarkedOf(u)'
  <2>1. CASE u = t
    <3>1. rt'[u].wake = 0 /\ ~row'[u].wait
      BY <1>0, <2>1, DropRuntimeFacts DEF NoRuntime, NoRow
    <3> QED BY <3>1 DEF MarkedOf
  <2>2. CASE u # t
    BY <1>0, <2>2, DropRuntimeFacts, BatchesFull, MarkKept
  <2> QED BY <2>1, <2>2
<1>3. FullBatches(wk')
  BY <1>0, BatchesFull, CancelledBatches DEF DropRuntime, Cleaned, TypeOK
<1> QED BY <1>1, <1>2, <1>3, LedgerStep
LEMMA NoRunFinished == ASSUME NEW L \in [RunIds -> RunRows], NEW s PROVE FinishRuns(L, {}, s) = L
BY DEF FinishRuns

\* A launch, after the runtime of the task, if it has one, was dropped.
LEMMA LaunchLedger ==
  ASSUME Ledgered, NEW t \in Tasks, NEW d \in Devices, NEW r \in RoundIds, NEW done \in SUBSET Keywords,
         NEW waits \in BOOLEAN, NEW c, CleanTypes(c), Launch(t, d, r, done, waits, c),
         waits => t \in IntervalTasks, FullBatches(c.wk),
         NEW I, I = {rt[t].run} \/ (I = {} /\ ~Running(t)), c.runs = FinishRuns(runs, I, "stopped"),
         \A u \in Tasks : u # t => ok'[u] = ok[u] /\ mark'[u] = mark[u]
  PROVE  LedgerInv'
<1>0. /\ TypeOK /\ t \in Tasks /\ d \in Devices /\ r \in RoundIds /\ done \in SUBSET Keywords
      /\ waits \in BOOLEAN /\ CleanTypes(c) /\ Launch(t, d, r, done, waits, c)
  BY DEF Ledgered, LeaseInv
<1>1. /\ nextRun \in RunIds /\ nextRun' = nextRun + 1
      /\ runs'[nextRun] = [task |-> t, st |-> "running"]
      /\ \A i \in RunIds : i # nextRun => runs'[i] = c.runs[i]
  BY ONLY <1>0, LaunchFacts
<1>2. Launched(t, d, r)
  BY ONLY <1>0, LaunchFacts
<1>3. LaunchWaits(t, c) \/ LaunchRests(t, done, c) \/ LaunchWorks(t, d, r, done, c)
  BY ONLY <1>0, LaunchFacts
<1>4. LaunchWaits(t, c) => waits
  BY ONLY <1>0, LaunchFacts
<1>5. /\ rt'[t].dev # None /\ rt'[t].run = nextRun /\ ~row'[t].wait
      /\ \A u \in Tasks : u # t => rt'[u] = rt[u] /\ row'[u] = row[u]
  BY <1>2, ConstantsAssumption DEF Launched, ExecutingRow
<1>6. \A i \in RunIds : /\ c.runs[i].task = runs[i].task
                        /\ i \notin I => c.runs[i] = runs[i]
                        /\ i \in I => c.runs[i].st # "running"
  BY <1>0, FinishedRun DEF TypeOK
<1>7. \A i \in RunIds : i # nextRun => KeepsRun(i)
  BY <1>1, <1>6 DEF KeepsRun
<1>8. ASSUME NEW u \in Tasks, u # t PROVE RunFollows(u)
  <2>1. CASE Running(u)
    <3>1. rt[u].run \in RunIds /\ rt[u].run # nextRun /\ rt[u].run # rt[t].run
      BY <1>8, <2>1, OwnRun, RunsDiffer DEF RunIds
    <3>2. runs'[rt[u].run] = runs[rt[u].run]
      BY <1>1, <1>6, <3>1
    <3> QED BY <1>5, <1>8, <2>1, <3>2 DEF RunFollows, Running
  <2>2. CASE ~Running(u)
    BY <1>5, <1>8, <2>2 DEF RunFollows, Running
  <2> QED BY <2>1, <2>2
<1>9. Running(t) => runs'[rt[t].run].st # "running"
  <2> SUFFICES ASSUME Running(t) PROVE runs'[rt[t].run].st # "running"
    OBVIOUS
  <2>1. rt[t].run \in RunIds /\ rt[t].run # nextRun /\ rt[t].run \in I
    BY OwnRun DEF RunIds
  <2> QED BY <1>1, <1>6, <2>1
<1>10. RunsAgree'
  BY <1>1, <1>5, <1>7, <1>8, <1>9, RunInserted
<1>11. ASSUME NEW u \in Tasks PROVE MarkedOf(u)'
  <2>1. CASE u # t
    BY <1>5, <2>1, BatchesFull, MarkKept
  <2>2. CASE u = t
    <3>1. t \notin IntervalTasks => rt'[t].wake = 0
      BY <1>3, <1>4 DEF LaunchRests, LaunchWorks
    <3> QED BY <1>5, <2>2, <3>1 DEF MarkedOf
  <2> QED BY <2>1, <2>2
<1>12. FullBatches(wk')
  <2>1. CASE wk' = c.wk
    BY <2>1
  <2>2. CASE LaunchWorks(t, d, r, done, c)
    <3>1. wk'[nextWorker].phase = "scan"
      BY <2>2 DEF LaunchWorks, NoWorker
    <3> QED BY <2>2, <3>1 DEF LaunchWorks, FullBatches
  <2> QED BY <1>3, <2>1, <2>2 DEF LaunchWaits, LaunchRests
<1> QED BY <1>10, <1>11, <1>12, LedgerStep

LEMMA StartLedger == ASSUME Ledgered, NEW t \in Tasks, Start(t) PROVE LedgerInv'
<1>0. /\ TypeOK /\ CleanTypes(Kept) /\ ok[t] \in SUBSET Keywords /\ ~Running(t) /\ FullBatches(Kept.wk)
      /\ Kept.runs = FinishRuns(runs, {}, "stopped")
  <2>1. runs = FinishRuns(runs, {}, "stopped")
    BY NoRunFinished DEF Ledgered, LeaseInv, TypeOK
  <2>2. status[t] # "executing" /\ Kept.runs = runs /\ Kept.wk = wk
    BY DEF Start, Kept
  <2>3. ~Running(t)
    BY <2>2, RunningFacts DEF Ledgered
  <2> QED BY <2>1, <2>2, <2>3, BatchesFull, KeptType DEF Ledgered, LeaseInv, TypeOK
<1>1. CASE UNCHANGED <<taskVars, rt, wk, row, runs, nextRun>>
  BY <1>1, BatchesFull, LedgerUntouched DEF taskVars
<1>2. ASSUME SetTask(t, "waiting", None, ok[t], FALSE), UNCHANGED <<rt, wk, row, runs, nextRun>>
      PROVE  LedgerInv'
  <2>1. \A u \in Tasks : u # t => ok'[u] = ok[u] /\ mark'[u] = mark[u]
    BY <1>0, <1>2 DEF SetTask, TypeOK
  <2> QED BY <1>0, <1>2, <2>1, BatchesFull, LedgerUntouched
<1>3. ASSUME NEW d \in Devices, CanCreateRound, SetTask(t, "executing", d, ok[t], ok[t] # Keywords),
             Launch(t, d, nextRound, ok[t], FALSE, Kept)
      PROVE  LedgerInv'
  <2>1. nextRound \in RoundIds
    BY <1>0, <1>3, RoundWithinBound DEF TypeOK
  <2>2. \A u \in Tasks : u # t => ok'[u] = ok[u] /\ mark'[u] = mark[u]
    BY <1>0, <1>3 DEF SetTask, TypeOK
  <2> QED BY <1>0, <1>3, <2>1, <2>2, LaunchLedger
<1>4. PICK d \in Devices :
        \/ UNCHANGED <<taskVars, rt, wk, row, runs, nextRun>>
        \/ SetTask(t, "waiting", None, ok[t], FALSE) /\ UNCHANGED <<rt, wk, row, runs, nextRun>>
        \/ /\ CanCreateRound /\ SetTask(t, "executing", d, ok[t], ok[t] # Keywords)
           /\ Launch(t, d, nextRound, ok[t], FALSE, Kept)
  BY DEF Start, workerVars, ledgerVars
<1> QED BY <1>1, <1>2, <1>3, <1>4

LEMMA ResumeLedger == ASSUME Ledgered, NEW t \in Tasks, Resume(t) PROVE LedgerInv'
<1> DEFINE r == IF row[t].round = 0 THEN nextRound ELSE row[t].round
<1>0. /\ TypeOK /\ CleanTypes(Kept) /\ ok[t] \in SUBSET Keywords /\ ~Running(t) /\ FullBatches(Kept.wk)
      /\ Kept.runs = FinishRuns(runs, {}, "stopped") /\ (row[t].wait => t \in IntervalTasks)
  <2>1. runs = FinishRuns(runs, {}, "stopped")
    BY NoRunFinished DEF Ledgered, LeaseInv, TypeOK
  <2>2. status[t] # "executing" /\ Kept.runs = runs /\ Kept.wk = wk
    BY DEF Resume, Kept
  <2>3. ~Running(t)
    BY <2>2, RunningFacts DEF Ledgered
  <2>4. row[t].wait => t \in IntervalTasks
    BY BatchesFull DEF MarkedOf
  <2> QED BY <2>1, <2>2, <2>3, <2>4, BatchesFull, KeptType DEF Ledgered, LeaseInv, TypeOK
<1>1. PICK d \in Devices, waits \in BOOLEAN :
        /\ SetTask(t, "executing", d, ok[t], ~waits /\ ok[t] # Keywords) /\ (waits => row[t].wait)
        /\ \/ UNCHANGED <<rt, wk, row, runs, nextRun>>
           \/ (row[t].round = 0 => CanCreateRound) /\ Launch(t, d, r, ok[t], waits, Kept)
  BY DEF Resume, workerVars, ledgerVars
<1>2. \A u \in Tasks : u # t => ok'[u] = ok[u] /\ mark'[u] = mark[u]
  BY <1>0, <1>1 DEF SetTask, TypeOK
<1>3. CASE UNCHANGED <<rt, wk, row, runs, nextRun>>
  BY <1>0, <1>2, <1>3, BatchesFull, LedgerUntouched
<1>4. CASE (row[t].round = 0 => CanCreateRound) /\ Launch(t, d, r, ok[t], waits, Kept)
  <2>1. r \in RoundIds
    BY <1>0, <1>4, RoundWithinBound DEF TypeOK, StateRows
  <2> HIDE DEF r
  <2>2. waits => t \in IntervalTasks
    BY <1>0, <1>1
  <2> QED BY <1>0, <1>2, <1>4, <2>1, <2>2, LaunchLedger
<1> QED BY <1>1, <1>3, <1>4

LEMMA RetryLedger == ASSUME Ledgered, NEW t \in Tasks, Retry(t) PROVE LedgerInv'
<1>0. /\ TypeOK /\ CleanTypes(Cleaned(t)) /\ {} \in SUBSET Keywords
      /\ Cleaned(t).runs = FinishRuns(runs, {rt[t].run}, "stopped")
  BY CleanedType DEF Ledgered, LeaseInv, Cleaned
<1>1. FullBatches(Cleaned(t).wk)
  BY <1>0, BatchesFull, CancelledBatches DEF Cleaned, TypeOK
<1>2. \A u \in Tasks : u # t => ok'[u] = ok[u] /\ mark'[u] = mark[u]
  BY <1>0 DEF Retry, SetTask, TypeOK, taskVars
<1>3. CASE DropRuntime(t)
  BY <1>2, <1>3, DropRuntimeLedger
<1>4. ASSUME NEW d \in Devices, CanCreateRound, Launch(t, d, nextRound, {}, FALSE, Cleaned(t))
      PROVE  LedgerInv'
  <2>1. nextRound \in RoundIds
    BY <1>0, <1>4, RoundWithinBound DEF TypeOK
  <2> QED BY <1>0, <1>1, <1>2, <1>4, <2>1, LaunchLedger
<1> QED BY <1>3, <1>4 DEF Retry

LEMMA ForgetLedger == ASSUME Ledgered, NEW S \in SUBSET Tasks, Forget(S) PROVE LedgerInv'
<1> DEFINE I == {i \in RunIds : runs[i].task \in S}
<1>0. runs' = FinishRuns(runs, I, "deleted") /\ nextRun' = nextRun /\ runs \in [RunIds -> RunRows]
  BY DEF Forget, Ledgered, LeaseInv, TypeOK
<1>1. \A i \in RunIds : /\ runs'[i].task = runs[i].task
                        /\ i \notin I => runs'[i] = runs[i]
                        /\ i \in I => runs'[i].st # "running"
  <2> HIDE DEF I
  <2> QED BY <1>0, FinishedRun
<1>2. ASSUME NEW t \in Tasks PROVE RunFollows(t)
  <2>1. CASE t \in S
    <3>1. rt'[t].dev = None
      BY <2>1 DEF Forget, NoRuntime
    <3>2. Running(t) => rt[t].run \in I /\ rt[t].run \in RunIds
      BY <2>1, OwnRun
    <3> HIDE DEF I
    <3> QED BY <1>1, <3>1, <3>2 DEF RunFollows
  <2>2. CASE t \notin S
    <3>1. rt'[t] = rt[t]
      BY <2>2 DEF Forget
    <3>2. Running(t) => rt[t].run \notin I /\ rt[t].run \in RunIds
      BY <2>2, OwnRun
    <3> HIDE DEF I
    <3> QED BY <1>1, <3>1, <3>2 DEF RunFollows, Running
  <2> QED BY <2>1, <2>2
<1>3. RunsAgree'
  <2>1. \A i \in RunIds : KeepsRun(i)
    BY <1>1 DEF KeepsRun
  <2> QED BY <1>0, <1>2, <2>1, RunsFollow
<1>4. ASSUME NEW t \in Tasks PROVE MarkedOf(t)'
  <2>1. CASE t \in S
    <3>1. rt'[t].wake = 0 /\ ~row'[t].wait
      BY <2>1 DEF Forget, NoRuntime, NoRow
    <3> QED BY <3>1 DEF MarkedOf
  <2>2. CASE t \notin S
    <3>1. rt'[t] = rt[t] /\ ok'[t] = ok[t] /\ row'[t] = row[t]
      BY <2>2 DEF Forget
    <3>2. mark'[t] = mark[t]
      BY <2>2 DEF Forget, Ledgered, LeaseInv, TypeOK
    <3> QED BY <3>1, <3>2, BatchesFull, MarkKept
  <2> QED BY <2>1, <2>2
<1>5. FullBatches(wk')
  BY BatchesFull, CancelledBatches DEF Forget, Ledgered, LeaseInv, TypeOK
<1> QED BY <1>3, <1>4, <1>5, LedgerStep

LEMMA RestartLedger == ASSUME Ledgered, NEW newDay \in BOOLEAN, Restart(newDay) PROVE LedgerInv'
<1>1. PICK open : /\ runs' = FinishRuns(runs, {i \in DOMAIN runs : runs[i].st \in open}, "stopped")
                  /\ "running" \in open
  <2>1. CASE newDay
    BY <2>1 DEF Restart
  <2>2. CASE ~newDay
    BY <2>2 DEF Restart
  <2> QED BY <2>1, <2>2
<1> DEFINE I == {i \in RunIds : runs[i].st \in open}
<1>2. runs \in [RunIds -> RunRows] /\ runs' = FinishRuns(runs, I, "stopped")
  BY <1>1 DEF Ledgered, LeaseInv, TypeOK
<1>3. \A i \in RunIds : KeepsRun(i) /\ runs'[i].st # "running"
  <2>1. \A i \in RunIds : i \notin I => runs[i].st # "running"
    BY <1>1
  <2> HIDE DEF I
  <2> QED BY <1>2, <2>1, FinishedRun DEF KeepsRun
<1>4. \A t \in Tasks : rt'[t] = NoRuntime
  BY DEF Restart
<1>5. RunsAgree'
  <2>1. \A t \in Tasks : RunFollows(t)
    BY <1>3, <1>4, OwnRun DEF RunFollows, NoRuntime
  <2>2. nextRun' = nextRun
    BY DEF Restart
  <2> QED BY <1>3, <2>1, <2>2, RunsFollow
<1>6. ASSUME NEW t \in Tasks PROVE MarkedOf(t)'
  <2>1. row'[t].wait => row[t].wait
    <3>1. row[t] \in StateRows
      BY DEF Ledgered, LeaseInv, TypeOK
    <3>2. CASE newDay
      BY <3>2 DEF Restart, NoRow
    <3>3. CASE ~newDay
      BY <3>1, <3>3 DEF Restart, StateRows
    <3> QED BY <3>2, <3>3
  <2>2. rt'[t].wake = 0
    BY <1>4 DEF NoRuntime
  <2> QED BY <2>1, <2>2, BatchesFull, MarkKept
<1>7. FullBatches(wk')
  BY DEF Restart, FullBatches, NoWorker
<1> QED BY <1>5, <1>6, <1>7, LedgerStep
LEMMA ReloadLedger == ASSUME Ledgered, Reload PROVE LedgerInv'
<1>1. UNCHANGED <<rt, wk, row, runs, nextRun>>
  BY DEF Reload, workerVars, ledgerVars
<1>2. ASSUME NEW t \in Tasks, Running(t) PROVE ok'[t] # {} \/ mark'[t]
  <2>1. status[t] = "executing"
    BY <1>2, RunningFacts DEF Ledgered
  <2>2. CASE RestoredOk(t, row[t], progress) # Keywords
    BY <1>2, <2>1, <2>2 DEF Reload
  <2>3. CASE RestoredOk(t, row[t], progress) = Keywords
    BY <2>1, <2>3, ConstantsAssumption DEF Reload
  <2> QED BY <2>2, <2>3
<1> QED BY <1>1, <1>2, BatchesFull, LedgerUntouched

LEMMA ReloadTaskLedger == ASSUME Ledgered, NEW t \in Tasks, ReloadTask(t) PROVE LedgerInv'
<1>0. TypeOK /\ UNCHANGED <<rt, wk, runs, nextRun>>
  BY DEF ReloadTask, workerVars, ledgerVars, Ledgered, LeaseInv
<1>1. \A u \in Tasks : u # t => ok'[u] = ok[u] /\ mark'[u] = mark[u]
  BY <1>0 DEF ReloadTask, SetTask, TypeOK
<1>2. \A u \in Tasks : row'[u].wait => row[u].wait
  <2>1. CASE row' = [row EXCEPT ![t] = NoRow]
    BY <1>0, <2>1 DEF NoRow, TypeOK
  <2> QED BY <2>1 DEF ReloadTask
<1>3. ok'[t] # {} \/ mark'[t] \/ (ok'[t] = ok[t] /\ mark'[t] = mark[t]) \/ ~Running(t)
  <2> SUFFICES ASSUME Running(t) PROVE ok'[t] # {} \/ mark'[t]
    OBVIOUS
  <2>1. status[t] = "executing"
    BY RunningFacts DEF Ledgered
  <2>2. ok' = ok /\ mark' = [mark EXCEPT ![t] = status[t] = "executing" /\ ok[t] # Keywords]
    BY <2>1 DEF ReloadTask
  <2> QED BY <1>0, <2>1, <2>2, ConstantsAssumption DEF TypeOK
<1> QED BY <1>0, <1>1, <1>2, <1>3, BatchesFull, LedgerUntouched

LEMMA CommandLedger == ASSUME Ledgered, Command PROVE LedgerInv'
<1>0. TypeOK /\ wk \in [Workers -> WorkerStates] /\ FullBatches(wk)
  BY BatchesFull DEF Ledgered, LeaseInv, TypeOK
<1>1. ASSUME NEW t \in Tasks, Pause(t) PROVE LedgerInv'
  BY <1>1, PauseAllLedger DEF Pause
<1>2. ASSUME NEW S \in SUBSET Tasks, PausePhones(S) PROVE LedgerInv'
  <2>1. PICK P \in SUBSET Tasks : PauseAll(P)
    BY <1>2 DEF PausePhones
  <2> QED BY <2>1, PauseAllLedger
<1>3. ASSUME NEW d \in Devices, Kick(d) PROVE LedgerInv'
  <2>1. PICK P \in SUBSET Tasks : PauseAll(P)
    BY <1>3 DEF Kick
  <2> QED BY <2>1, PauseAllLedger
<1>4. ASSUME NEW t \in Tasks, Stop(t) PROVE LedgerInv'
  <2>1. \A u \in Tasks : u # t => ok'[u] = ok[u] /\ mark'[u] = mark[u]
    BY <1>0, <1>4 DEF Stop, SetTask, TypeOK
  <2> QED BY <1>4, <2>1, DropRuntimeLedger DEF Stop
<1>5. ASSUME NEW t \in Tasks, ClearDevice(t) PROVE LedgerInv'
  <2>1. \A u \in Tasks : row'[u].wait => row[u].wait
    BY <1>0, <1>5 DEF ClearDevice, NoRow, TypeOK
  <2> QED BY <1>0, <1>5, <2>1, LedgerUntouched DEF ClearDevice, workerVars, ledgerVars
<1>6. ASSUME NEW online, ReleaseOffline(online) PROVE LedgerInv'
  <2>1. PICK S \in SUBSET Tasks : MarkError(S, wk, FALSE)
    BY <1>6 DEF ReleaseOffline
  <2>2. nextRun' = nextRun /\ ok' = ok
    BY <1>6, <2>1 DEF ReleaseOffline, MarkError
  <2> QED BY <1>0, <2>1, <2>2, MarkErrorLedger
<1>7. ASSUME NEW d \in Devices, Flag(d) \/ Unflag(d) PROVE LedgerInv'
  BY <1>0, <1>7, LedgerUntouched DEF Flag, Unflag, taskVars, workerVars, ledgerVars
<1> QED BY <1>1, <1>2, <1>3, <1>4, <1>5, <1>6, <1>7, StartLedger, ResumeLedger, RetryLedger, ReloadTaskLedger,
           ForgetLedger, ReloadLedger DEF Command

\* Only the wakeup of a task with an interval opens a run.
LEMMA WakeupLedger == ASSUME Ledgered, NEW w \in wakeups, Wakeup(w[1], w[2]) PROVE LedgerInv'
<1> DEFINE t == w[1]
<1>0. /\ TypeOK /\ t \in Tasks /\ w[2] # 0 /\ UNCHANGED ok /\ rt[t] \in Runtimes /\ FullBatches(wk)
  BY BatchesFull DEF Wakeup, Ledgered, LeaseInv, TypeOK
<1>1. CASE UNCHANGED <<mark, rt, wk, row, runs, nextRun>>
  BY <1>0, <1>1, LedgerUntouched
<1>2. CASE /\ Running(t) /\ rt[t].wake = w[2] /\ SpawnWorker(t, rt[t], ok[t], wk)
           /\ IF status[t] = "executing" /\ AllPending(t)
              THEN mark' = [mark EXCEPT ![t] = TRUE] /\ StartRun(t, runs)
              ELSE UNCHANGED <<mark, runs, nextRun>>
           /\ row' = [row EXCEPT ![t] = [ExecutingRow(dev[t], rt[t].round) EXCEPT !.status = status[t]]]
  <2> HIDE DEF t
  <2>1. ~row'[t].wait /\ \A u \in Tasks : u # t => row'[u] = row[u]
    BY <1>0, <1>2 DEF ExecutingRow, TypeOK
  <2>2. /\ \A u \in Tasks : u # t => rt'[u] = rt[u]
        /\ rt'[t].dev = rt[t].dev /\ rt'[t].run = rt[t].run /\ rt'[t].wake \in {0, rt[t].wake}
    <3>1. CASE ok[t] = Keywords
      BY <1>0, <1>2, <3>1 DEF SpawnWorker, TypeOK
    <3>2. CASE ok[t] # Keywords
      <4>1. rt' = [rt EXCEPT ![t] = [rt[t] EXCEPT !.worker = nextWorker, !.wake = 0]]
        BY <1>2, <3>2 DEF SpawnWorker
      <4> QED BY <1>0, <4>1 DEF TypeOK, Runtimes
    <3> QED BY <3>1, <3>2
  <2>3. FullBatches(wk')
    <3>1. CASE ok[t] = Keywords
      BY <1>0, <1>2, <3>1 DEF SpawnWorker
    <3>2. CASE ok[t] # Keywords
      <4> DEFINE v == [NoWorker EXCEPT !.task = t, !.dev = rt[t].dev, !.round = rt[t].round,
                                       !.todo = Keywords \ ok[t], !.phase = "scan"]
      <4>1. wk' = [wk EXCEPT ![nextWorker] = v]
        BY <1>2, <3>2 DEF SpawnWorker
      <4>2. v.phase = "scan"
        BY DEF NoWorker
      <4> HIDE DEF v
      <4> QED BY <1>0, <4>1, <4>2 DEF FullBatches, TypeOK
    <3> QED BY <3>1, <3>2
  <2>4. ASSUME NEW u \in Tasks PROVE MarkedOf(u)'
    <3>1. CASE u # t
      <4>1. mark'[u] = mark[u]
        BY <1>0, <1>2, <3>1 DEF TypeOK
      <4> QED BY <1>0, <2>1, <2>2, <3>1, <4>1, BatchesFull, MarkKept
    <3>2. CASE u = t
      <4>1. mark'[t] \/ mark'[t] = mark[t]
        BY <1>0, <1>2 DEF TypeOK
      <4> QED BY <1>0, <2>1, <2>2, <3>2, <4>1, BatchesFull, MarkKept
    <3> QED BY <3>1, <3>2
  <2>5. CASE UNCHANGED <<runs, nextRun>>
    <3>1. \A u \in Tasks : rt'[u].dev = rt[u].dev /\ rt'[u].run = rt[u].run
      BY <2>2
    <3> QED BY <2>3, <2>4, <2>5, <3>1, RunsUntouched, LedgerStep
  <2>6. CASE AllPending(t) /\ StartRun(t, runs)
    <3>1. t \in IntervalTasks
      <4>1. MarkedOf(t) /\ rt[t].wake # 0 /\ ok[t] = {} /\ ~mark[t]
        BY <1>0, <1>2, <2>6, BatchesFull DEF AllPending
      <4> QED BY <4>1 DEF MarkedOf
    <3>2. /\ nextRun \in RunIds /\ nextRun' = nextRun + 1
          /\ runs'[nextRun] = [task |-> t, st |-> "running"]
          /\ \A i \in RunIds : i # nextRun => runs'[i] = runs[i]
      BY <1>0, <2>6, RunWithinBound DEF StartRun, TypeOK
    <3>3. \A i \in RunIds : i # nextRun => KeepsRun(i)
      BY <3>2 DEF KeepsRun
    <3>4. ASSUME NEW u \in Tasks, u # t PROVE RunFollows(u)
      <4>1. CASE Running(u)
        <5>1. rt[u].run \in RunIds /\ rt[u].run # nextRun
          BY <4>1, OwnRun DEF RunIds
        <5> QED BY <2>2, <3>2, <3>4, <4>1, <5>1 DEF RunFollows, Running
      <4>2. CASE ~Running(u)
        BY <2>2, <3>4, <4>2 DEF RunFollows, Running
      <4> QED BY <4>1, <4>2
    <3>5. rt'[t].dev # None
      BY <1>2, <2>2 DEF Running
    <3>6. RunsAgree'
      BY <1>0, <1>2, <2>2, <3>1, <3>2, <3>3, <3>4, <3>5, RunInserted
    <3> QED BY <2>3, <2>4, <3>6, LedgerStep
  <2> QED BY <1>2, <2>5, <2>6
<1> QED BY <1>1, <1>2 DEF Wakeup, workerVars

\* No phone ends a batch without a result.
LEMMA WorkerLedger == ASSUME Ledgered, NEW s \in Workers, Worker(s) PROVE LedgerInv'
<1>0. FullBatches(wk) /\ wk \in [Workers -> WorkerStates] /\ wk[s] \in WorkerStates
  BY BatchesFull DEF Ledgered, LeaseInv, TypeOK
<1>1. UNCHANGED <<taskVars, rt, row, runs, nextRun>>
  BY DEF Worker, WorkerKeyword, WorkerEnds, WorkerCancelled, ledgerVars
<1>2. ASSUME NEW v, wk' = [wk EXCEPT ![s] = v], v.phase = "batch" => v.done # {} PROVE FullBatches(wk')
  BY <1>0, <1>2 DEF FullBatches
<1>3. FullBatches(wk')
  <2>1. ASSUME NEW k \in Keywords, WorkerKeyword(s, k) PROVE FullBatches(wk')
    <3>1. wk' = [wk EXCEPT ![s] = [wk[s] EXCEPT !.todo = wk[s].todo \ {k}, !.done = wk[s].done \cup {k},
                                                !.unread = wk[s].unread \cup {k}]]
          /\ wk[s].phase = "scan"
      BY <1>0, <2>1 DEF WorkerKeyword
    <3>2. [wk[s] EXCEPT !.todo = wk[s].todo \ {k}, !.done = wk[s].done \cup {k},
                        !.unread = wk[s].unread \cup {k}].phase = "scan"
      BY <1>0, <3>1 DEF WorkerStates
    <3> QED BY <1>2, <3>1, <3>2
  <2>2. CASE WorkerEnds(s)
    <3>1. PICK o : wk' = [wk EXCEPT ![s] = [wk[s] EXCEPT !.phase = o]] /\ (o = "batch" => wk[s].done # {})
      <4>1. PICK o \in (IF wk[s].done # {} \/ EmptyBatches THEN {"batch"} ELSE {})
                       \cup (IF wk[s].done = {} THEN {"offline"} ELSE {}) \cup {"fatal"} :
                 wk' = [wk EXCEPT ![s].phase = o]
        BY <2>2 DEF WorkerEnds
      <4> QED BY <1>0, <4>1 DEF Ledgered
    <3>2. [wk[s] EXCEPT !.phase = o].phase = o /\ [wk[s] EXCEPT !.phase = o].done = wk[s].done
      BY <1>0 DEF WorkerStates
    <3> QED BY <1>2, <3>1, <3>2
  <2>3. CASE WorkerCancelled(s)
    <3>1. wk' = [wk EXCEPT ![s] = [wk[s] EXCEPT !.phase = "cancelled"]]
      BY <2>3 DEF WorkerCancelled
    <3>2. [wk[s] EXCEPT !.phase = "cancelled"].phase = "cancelled"
      BY <1>0 DEF WorkerStates
    <3> QED BY <1>2, <3>1, <3>2
  <2> QED BY <2>1, <2>2, <2>3 DEF Worker
<1> QED BY <1>1, <1>3, LedgerUntouched DEF taskVars

LEMMA HandleKeywordDoneLedger ==
  ASSUME Ledgered, NEW s \in Workers, NEW k \in Keywords, HandleKeywordDone(s, k) PROVE LedgerInv'
<1>0. FullBatches(wk) /\ TypeOK /\ wk[s] \in WorkerStates
  BY BatchesFull DEF Ledgered, LeaseInv, TypeOK
<1>1. UNCHANGED <<mark, rt, row, runs, nextRun>>
  BY DEF HandleKeywordDone, ledgerVars
<1>2. \A t \in Tasks : ok'[t] # {} \/ ok'[t] = ok[t]
  BY <1>0 DEF HandleKeywordDone, TypeOK
<1>3. FullBatches(wk')
  <2>1. wk' = [wk EXCEPT ![s] = [wk[s] EXCEPT !.unread = wk[s].unread \ {k}]]
    BY DEF HandleKeywordDone
  <2>2. /\ [wk[s] EXCEPT !.unread = wk[s].unread \ {k}].phase = wk[s].phase
        /\ [wk[s] EXCEPT !.unread = wk[s].unread \ {k}].done = wk[s].done
    BY <1>0 DEF WorkerStates
  <2> QED BY <1>0, <2>1, <2>2 DEF FullBatches, TypeOK
<1> QED BY <1>1, <1>2, <1>3, LedgerUntouched
LEMMA HandleResultLedger == ASSUME Ledgered, NEW s \in Workers, HandleResult(s) PROVE LedgerInv'
<1> DEFINE W == [wk EXCEPT ![s] = NoWorker]
<1>0. /\ LeaseInv /\ TypeOK /\ FullBatches(wk) /\ wk \in [Workers -> WorkerStates]
      /\ W \in [Workers -> WorkerStates] /\ FullBatches(W)
  <2>1. LeaseInv /\ TypeOK /\ FullBatches(wk) /\ wk \in [Workers -> WorkerStates]
    BY BatchesFull DEF Ledgered, LeaseInv, TypeOK
  <2>2. W \in [Workers -> WorkerStates]
    BY <2>1 DEF W, NoWorker, WorkerStates
  <2> QED BY <2>1, <2>2, ForgottenBatch
<1> HIDE DEF W
<1>1. PICK t \in Tasks : /\ UNCHANGED nextRun
                         /\ \/ Dropped(s, t) \/ Ends(s, t)
                            \/ \E keep \in SUBSET Keywords : Fails(s, t, keep)
                            \/ \E done \in SUBSET Keywords : Continues(s, t, done)
  BY <1>0, ResultCases
<1>2. CASE Dropped(s, t)
  <2>1. wk' = W /\ UNCHANGED <<taskVars, rt, row, runs>>
    BY <1>2 DEF Dropped, W
  <2> QED BY <1>0, <1>1, <2>1, LedgerUntouched DEF taskVars
<1>3. ASSUME NEW keep, Fails(s, t, keep) PROVE LedgerInv'
  <2>1. MarkError({t}, W, TRUE) /\ \A u \in Tasks : u \notin {t} => ok'[u] = ok[u]
    BY <1>0, <1>3 DEF Fails, TypeOK, W
  <2> QED BY <1>0, <1>1, <2>1, MarkErrorLedger
<1>4. CASE Ends(s, t) /\ Succeed(t)
  <2>1. RunsAgree'
    <3>1. /\ rt' = WithoutRuntime(t) /\ runs' = FinishRuns(runs, {rt[t].run}, "completed")
      BY <1>4 DEF Succeed
    <3> QED BY <1>1, <3>1, OneRunDropped
  <2>2. /\ rt'[t].wake = 0 /\ ~row'[t].wait
        /\ \A u \in Tasks : u # t => /\ rt'[u] = rt[u] /\ row'[u] = row[u]
                                     /\ ok'[u] = ok[u] /\ mark'[u] = mark[u]
    BY <1>0, <1>4 DEF Succeed, WithoutRuntime, NoRuntime, NoRow, SetTask, TypeOK
  <2>3. ASSUME NEW u \in Tasks PROVE MarkedOf(u)'
    <3>1. CASE u = t
      BY <2>2, <3>1 DEF MarkedOf
    <3>2. CASE u # t
      BY <2>2, <3>2, BatchesFull, MarkKept
    <3> QED BY <3>1, <3>2
  <2>4. wk' = W
    BY <1>4 DEF Ends, W
  <2> QED BY <1>0, <2>1, <2>3, <2>4, LedgerStep
<1>5. ASSUME NEW Q \in Runtimes, Q.dev = rt[t].dev, Q.run = rt[t].run, Schedule(t, Q, wakeups), Counts(s, t),
             NEW done, t \in IntervalTasks \/ done # {}, SetTask(t, status[t], dev[t], done, FALSE),
             NEW r, row' = [row EXCEPT ![t] = ExecutingRow(dev[t], r)]
      PROVE  /\ rt'[t].dev = rt[t].dev /\ rt'[t].run = rt[t].run /\ rt'[t].dev # None
             /\ \A u \in Tasks : u # t => rt'[u] = rt[u]
             /\ \A u \in Tasks : MarkedOf(u)'
  <2>1. rt' = [rt EXCEPT ![t] = [Q EXCEPT !.wake = nextWakeup]]
    BY <1>5 DEF Schedule
  <2>2. /\ rt'[t].dev = rt[t].dev /\ rt'[t].run = rt[t].run /\ rt'[t].dev # None
        /\ \A u \in Tasks : u # t => rt'[u] = rt[u]
    BY <1>0, <1>5, <2>1 DEF TypeOK, Runtimes, Counts, Running
  <2>3. /\ ~row'[t].wait /\ ok'[t] = done
        /\ \A u \in Tasks : u # t => row'[u] = row[u] /\ ok'[u] = ok[u] /\ mark'[u] = mark[u]
    BY <1>0, <1>5 DEF ExecutingRow, SetTask, TypeOK
  <2>4. ASSUME NEW u \in Tasks PROVE MarkedOf(u)'
    <3>1. CASE u = t
      BY <1>5, <2>3, <3>1 DEF MarkedOf
    <3>2. CASE u # t
      BY <2>2, <2>3, <3>2, BatchesFull, MarkKept
    <3> QED BY <3>1, <3>2
  <2> QED BY <2>2, <2>4
<1>6. CASE Ends(s, t) /\ t \in IntervalTasks /\ NextIntervalRound(t)
  <2> DEFINE Q == [rt[t] EXCEPT !.round = nextRound, !.worker = 0]
  <2>1. nextRound \in RoundIds /\ rt[t] \in Runtimes
    BY <1>0, <1>6, RoundWithinBound DEF NextIntervalRound, TypeOK
  <2>2. Q \in Runtimes /\ Q.dev = rt[t].dev /\ Q.run = rt[t].run
    BY <2>1 DEF Runtimes
  <2>3. /\ Schedule(t, Q, wakeups) /\ Counts(s, t) /\ t \in IntervalTasks
        /\ SetTask(t, status[t], dev[t], {}, FALSE) /\ row' = [row EXCEPT ![t] = ExecutingRow(dev[t], nextRound)]
    BY <1>6 DEF Ends, NextIntervalRound
  <2> HIDE DEF Q
  <2>4. /\ rt'[t].dev = rt[t].dev /\ rt'[t].run = rt[t].run /\ rt'[t].dev # None
        /\ \A u \in Tasks : u # t => rt'[u] = rt[u]
        /\ \A u \in Tasks : MarkedOf(u)'
    BY <1>5, <2>2, <2>3
  <2>5. \A i \in RunIds : /\ runs'[i].task = runs[i].task
                          /\ i # rt[t].run => runs'[i] = runs[i]
                          /\ KeepsRun(i)
    <3>1. runs' = FinishRuns(runs, {rt[t].run}, "completed") /\ runs \in [RunIds -> RunRows]
      BY <1>0, <1>6 DEF NextIntervalRound, TypeOK
    <3> QED BY <3>1, FinishedRun DEF KeepsRun
  <2>6. ASSUME NEW u \in Tasks PROVE RunFollows(u)
    <3>1. CASE u = t
      BY <2>3, <2>4, <3>1 DEF RunFollows, Counts
    <3>2. CASE u # t /\ Running(u)
      <4>1. rt[u].run \in RunIds /\ rt[u].run # rt[t].run
        BY <3>2, OwnRun, RunsDiffer
      <4> QED BY <2>4, <2>5, <3>2, <4>1 DEF RunFollows, Running
    <3>3. CASE u # t /\ ~Running(u)
      BY <2>4, <3>3 DEF RunFollows, Running
    <3> QED BY <3>1, <3>2, <3>3
  <2>7. RunsAgree'
    BY <1>1, <2>5, <2>6, RunsFollow
  <2>8. wk' = W
    BY <1>6 DEF Ends, W
  <2> QED BY <1>0, <2>4, <2>7, <2>8, LedgerStep
<1>7. ASSUME NEW done, Continues(s, t, done) PROVE LedgerInv'
  <2> DEFINE Q == [rt[t] EXCEPT !.worker = 0]
  <2>1. Q \in Runtimes /\ Q.dev = rt[t].dev /\ Q.run = rt[t].run
    BY <1>0 DEF TypeOK, Runtimes
  <2>2. wk[s].phase = "batch" /\ done = ok[t] \cup wk[s].done /\ wk' = W /\ UNCHANGED runs
    BY <1>7 DEF Continues, Reschedule, W
  <2>3. done # {}
    BY <1>0, <2>2 DEF FullBatches
  <2>4. /\ Schedule(t, Q, wakeups) /\ Counts(s, t)
        /\ SetTask(t, status[t], dev[t], done, FALSE)
        /\ row' = [row EXCEPT ![t] = ExecutingRow(dev[t], rt[t].round)]
    BY <1>7 DEF Continues, Reschedule
  <2> HIDE DEF Q
  <2>5. /\ rt'[t].dev = rt[t].dev /\ rt'[t].run = rt[t].run
        /\ \A u \in Tasks : u # t => rt'[u] = rt[u]
        /\ \A u \in Tasks : MarkedOf(u)'
    BY <1>5, <2>1, <2>3, <2>4
  <2>6. RunsAgree'
    BY <1>1, <2>2, <2>5, RunsUntouched
  <2> QED BY <1>0, <2>2, <2>5, <2>6, LedgerStep
<1> QED BY <1>1, <1>2, <1>3, <1>4, <1>6, <1>7 DEF Ends

LEMMA LedgerNext == ASSUME Ledgered, [Next]_vars PROVE LedgerInv'
<1>0. FullBatches(wk)
  BY BatchesFull
<1>1. CASE UNCHANGED vars
  BY <1>0, <1>1, LedgerUntouched DEF vars, taskVars, workerVars, ledgerVars
<1>2. ASSUME NEW d \in Devices, DeviceUp(d) \/ DeviceDown(d) PROVE LedgerInv'
  BY <1>0, <1>2, LedgerUntouched DEF DeviceUp, DeviceDown, taskVars, workerVars, ledgerVars
<1> QED BY <1>1, <1>2, CommandLedger, RestartLedger, WakeupLedger, WorkerLedger, HandleKeywordDoneLedger,
           HandleResultLedger DEF Next, Outside, Report

\* Where no phone ends a batch without a result, the running rows of
\* a_task_runs are those of the runtimes.
THEOREM LedgerAgrees == EmptyBatches = FALSE /\ Spec => []LedgerInv
<1>1. Ledgered /\ [Next]_vars => Ledgered'
  BY LedgerNext, LeaseInvNext DEF Ledgered
<1>2. EmptyBatches = FALSE /\ Init => Ledgered
  BY LedgerInit, InitLeaseInv DEF Ledgered
<1>3. Ledgered => LedgerInv
  BY DEF Ledgered
<1> QED BY <1>1, <1>2, <1>3, PTL DEF Spec

\* The running row of a task without interval is the one its runtime will
\* finish, through pauses, errors, retries and crashes.
THEOREM RunsFollowRuntimes == EmptyBatches = FALSE /\ Spec => []LedgerFollowsRuntime
<1>1. LedgerInv => LedgerFollowsRuntime
  BY DEF LedgerInv
<1> QED BY <1>1, LedgerAgrees, PTL
-----------------------------------------------------------------------------
(* Progress.  Where rounds stay with their tasks, a crash loses no keyword   *)
(* that the engine counts as done.                                         *)

Recorded == RoundsStay /\ LeaseInv /\ RoundInv /\ ProgressInv

\* What ProgressInv says of one task.
Announced(s) == wk[s].done \cup wk[s].unread
ReportedOf(t) == rt[t].worker # 0 => \A k \in Announced(rt[t].worker) : <<t, k, rt[t].round>> \in progress
CleanOf(t) ==
  /\ status[t] = "executing" => Running(t)
  /\ status[t] \in {"absent", "waiting"} => ok[t] = {}
  /\ row[t].status \in {"none", "waiting", "success"} => row[t].round = 0
SafeOf(t) ==
  status[t] \in {"executing", "paused", "error"} => ok[t] \subseteq RestoredOk(t, row[t], progress)
ProgressOf(t) == ReportedOf(t) /\ CleanOf(t) /\ SafeOf(t)

LEMMA ProgressParts ==
  (ProgressInv <=> \A t \in Tasks : ProgressOf(t)) /\ (ProgressInv' <=> \A t \in Tasks : ProgressOf(t)')
BY DEF ProgressInv, ReportsRecorded, RoundlessClean, ProgressRecoverable, ProgressOf, ReportedOf, Announced,
       CleanOf, SafeOf, Running

\* No worker of W announces more than it does now.
NothingNew(W) == \A s \in Workers : W[s].done \cup W[s].unread \subseteq Announced(s)

LEMMA ProgressKept ==
  ASSUME Recorded, NEW t \in Tasks, rt'[t] = rt[t], status'[t] = status[t], ok'[t] = ok[t], row'[t] = row[t],
         KeepsRecords(t), NothingNew(wk')
  PROVE  ProgressOf(t)'
<1>1. ProgressOf(t) /\ TypeOK
  BY ProgressParts DEF Recorded, LeaseInv
<1>2. ReportedOf(t)'
  <2> SUFFICES ASSUME rt[t].worker # 0, NEW k \in Announced(rt[t].worker)'
               PROVE  <<t, k, rt[t].round>> \in progress'
    BY DEF ReportedOf, Announced
  <2>1. rt[t].worker \in Workers /\ rt[t].round \in RoundIds
    BY <1>1, RunningFacts DEF Recorded, Runtimes
  <2>2. k \in Announced(rt[t].worker) /\ k \in Keywords
    BY <1>1, <2>1 DEF NothingNew, Announced, TypeOK, WorkerStates
  <2> QED BY <1>1, <2>1, <2>2 DEF ProgressOf, ReportedOf, KeepsRecords
<1>3. RestoredOk(t, row[t], progress) \subseteq RestoredOk(t, row[t], progress')
  BY <1>1, RestoredGrows DEF TypeOK
<1> QED BY <1>1, <1>2, <1>3 DEF ProgressOf, CleanOf, SafeOf, Running

\* A task whose worker, if it has one, has announced nothing; it is executing
\* with a runtime.
Unreported(t) == rt[t].worker = 0 \/ Announced(rt[t].worker) = {}

LEMMA ProgressBusy ==
  ASSUME NEW t \in Tasks, rt'[t].dev # None, Unreported(t)',
         status'[t] = "executing", row'[t].status = "executing",
         ok'[t] \subseteq RestoredOk(t, row'[t], progress')
  PROVE  ProgressOf(t)'
BY DEF ProgressOf, Unreported, ReportedOf, CleanOf, SafeOf, Running

\* A task that has no runtime.
LEMMA ProgressFree ==
  ASSUME NEW t \in Tasks, rt'[t] = NoRuntime, status'[t] # "executing",
         status'[t] \in {"absent", "waiting"} => ok'[t] = {},
         row'[t].status \in {"none", "waiting", "success"} => row'[t].round = 0,
         status'[t] \in {"paused", "error"} => ok'[t] \subseteq RestoredOk(t, row'[t], progress')
  PROVE  ProgressOf(t)'
BY DEF ProgressOf, ReportedOf, CleanOf, SafeOf, Running, NoRuntime

\* What an executing task has done is in the database under its round.
LEMMA RunningRecorded ==
  ASSUME Recorded, NEW t \in Tasks, status[t] = "executing"
  PROVE  /\ Running(t) /\ row[t].round = rt[t].round /\ rt[t].round # 0 /\ row[t].status = "executing"
         /\ \A k \in ok[t] : <<t, k, rt[t].round>> \in progress
         /\ rt[t].worker # 0 => \A k \in Announced(rt[t].worker) : <<t, k, rt[t].round>> \in progress
<1>1. ProgressOf(t) /\ Running(t)
  BY ProgressParts DEF Recorded, ProgressOf, CleanOf
<1>2. row[t].round = rt[t].round /\ rt[t].round # 0 /\ row[t].status = "executing"
  BY <1>1, RoundOwned DEF Rounded, Recorded, RoundInv, RowNamesRound
<1> QED BY <1>1, <1>2 DEF ProgressOf, SafeOf, ReportedOf, RestoredOk

\* Keywords that are recorded for the round of a row are restored from it.
LEMMA RestoresRecorded ==
  ASSUME NEW t, NEW rw, rw.round # 0, NEW K \in SUBSET Keywords, NEW P, \A k \in K : <<t, k, rw.round>> \in P
  PROVE  K \subseteq RestoredOk(t, rw, P)
BY DEF RestoredOk

LEMMA ProgressInit == Init => ProgressInv
<1> SUFFICES ASSUME Init, NEW t \in Tasks PROVE ProgressOf(t)
  BY ProgressParts
<1> QED BY DEF Init, ProgressOf, ReportedOf, CleanOf, SafeOf, NoRuntime, NoRow

LEMMA ProgressUntouched ==
  ASSUME Recorded, UNCHANGED <<rt, status, ok, row>>, \A t \in Tasks : KeepsRecords(t), NothingNew(wk')
  PROVE  ProgressInv'
BY ProgressKept, ProgressParts

LEMMA OneProgress ==
  ASSUME Recorded, NEW t \in Tasks, ProgressOf(t)', NothingNew(wk'),
         \A u \in Tasks : u # t => /\ rt'[u] = rt[u] /\ status'[u] = status[u] /\ ok'[u] = ok[u]
                                   /\ row'[u] = row[u] /\ KeepsRecords(u)
  PROVE  ProgressInv'
BY ProgressKept, ProgressParts

LEMMA SameWorkers == NothingNew(wk)
BY DEF NothingNew, Announced

LEMMA CancelledNothingNew ==
  ASSUME NEW W \in [Workers -> WorkerStates], NothingNew(W), NEW C PROVE NothingNew(CancelWorkers(W, C))
<1> SUFFICES ASSUME NEW s \in Workers
             PROVE  CancelWorkers(W, C)[s].done = W[s].done /\ CancelWorkers(W, C)[s].unread = W[s].unread
  BY DEF NothingNew
<1> QED BY DEF CancelWorkers, WorkerStates

LEMMA ForgottenNothingNew ==
  ASSUME TypeOK, NEW s \in Workers PROVE NothingNew([wk EXCEPT ![s] = NoWorker])
BY DEF NothingNew, Announced, NoWorker, TypeOK

LEMMA PauseAllProgress ==
  ASSUME Recorded, NEW S \in SUBSET Tasks, \A t \in S : status[t] = "executing", PauseAll(S) PROVE ProgressInv'
<1>0. TypeOK /\ wk \in [Workers -> WorkerStates]
  BY DEF Recorded, LeaseInv, TypeOK
<1>1. ASSUME NEW t \in S PROVE ProgressOf(t)'
  <2>1. /\ rt'[t] = NoRuntime /\ status'[t] = "paused" /\ ok'[t] = ok[t] /\ progress' = progress
        /\ row'[t].status = "paused" /\ row'[t].round = rt[t].round
    BY DEF PauseAll
  <2>2. ok[t] \in SUBSET Keywords
    BY <1>0 DEF TypeOK
  <2>3. ok'[t] \subseteq RestoredOk(t, row'[t], progress')
    BY <2>1, <2>2, RunningRecorded, RestoresRecorded
  <2> QED BY <2>1, <2>3, ProgressFree
<1>2. NothingNew(wk')
  BY <1>0, SameWorkers, CancelledNothingNew DEF PauseAll
<1>3. ASSUME NEW t \in Tasks, t \notin S PROVE ProgressOf(t)'
  <2>1. /\ rt'[t] = rt[t] /\ status'[t] = status[t] /\ row'[t] = row[t] /\ ok'[t] = ok[t]
        /\ KeepsRecords(t)
    BY <1>3, SameProgress DEF PauseAll
  <2> QED BY <1>2, <2>1, ProgressKept
<1> QED BY <1>1, <1>3, ProgressParts

\* The keywords of a task that fails are those it had, or those its worker has
\* announced as well.
LEMMA MarkErrorProgress ==
  ASSUME Recorded, NEW S \in SUBSET Tasks, NEW W \in [Workers -> WorkerStates], NothingNew(W), NEW flag,
         MarkError(S, W, flag), \A t \in Tasks : t \notin S => ok'[t] = ok[t],
         \A t \in S : /\ status[t] = "executing" /\ ok'[t] \in SUBSET Keywords
                      /\ \A k \in ok'[t] : <<t, k, rt[t].round>> \in progress
  PROVE  ProgressInv'
<1>1. ASSUME NEW t \in S PROVE ProgressOf(t)'
  <2>1. /\ rt'[t] = NoRuntime /\ status'[t] = "error" /\ progress' = progress
        /\ row'[t].status = "error" /\ row'[t].round = rt[t].round
    BY DEF MarkError
  <2>2. ok'[t] \subseteq RestoredOk(t, row'[t], progress')
    BY <2>1, RunningRecorded, RestoresRecorded
  <2> QED BY <2>1, <2>2, ProgressFree
<1>2. NothingNew(wk')
  BY CancelledNothingNew DEF MarkError
<1>3. ASSUME NEW t \in Tasks, t \notin S PROVE ProgressOf(t)'
  <2>1. /\ rt'[t] = rt[t] /\ status'[t] = status[t] /\ row'[t] = row[t] /\ ok'[t] = ok[t]
        /\ KeepsRecords(t)
    BY <1>3, SameProgress DEF MarkError
  <2> QED BY <1>2, <2>1, ProgressKept
<1> QED BY <1>1, <1>3, ProgressParts

LEMMA LaunchProgress ==
  ASSUME Recorded, NEW t \in Tasks, NEW d \in Devices, NEW r \in RoundIds, NEW done \in SUBSET Keywords,
         NEW waits \in BOOLEAN, Launch(t, d, r, done, waits, Kept), CleanTypes(Kept), UNCHANGED progress,
         ok'[t] = done, status'[t] = "executing", \A k \in done : <<t, k, r>> \in progress,
         \A u \in Tasks : u # t => ok'[u] = ok[u] /\ status'[u] = status[u]
  PROVE  ProgressInv'
<1>0. TypeOK /\ t \in Tasks /\ d \in Devices /\ r \in RoundIds /\ done \in SUBSET Keywords
      /\ waits \in BOOLEAN /\ CleanTypes(Kept) /\ Launch(t, d, r, done, waits, Kept)
  BY DEF Recorded, LeaseInv
<1>1. Launched(t, d, r)
  BY ONLY <1>0, LaunchFacts
<1>2. LaunchWaits(t, Kept) \/ LaunchRests(t, done, Kept) \/ LaunchWorks(t, d, r, done, Kept)
  BY ONLY <1>0, LaunchFacts
<1>3. /\ rt'[t].dev # None /\ row'[t].status = "executing" /\ row'[t].round = r /\ r # 0
      /\ \A u \in Tasks : u # t => rt'[u] = rt[u] /\ row'[u] = row[u]
  BY <1>1, ConstantsAssumption DEF Launched, ExecutingRow, RoundIds
<1>4. NothingNew(wk') /\ Unreported(t)'
  <2>1. CASE LaunchWaits(t, Kept) \/ LaunchRests(t, done, Kept)
    BY <2>1, SameWorkers DEF LaunchWaits, LaunchRests, Kept, Unreported
  <2>2. CASE LaunchWorks(t, d, r, done, Kept)
    <3>1. wk'[nextWorker].done = {} /\ wk'[nextWorker].unread = {} /\ rt'[t].worker = nextWorker
      BY <2>2 DEF LaunchWorks, NoWorker
    <3>2. \A s \in Workers : s # nextWorker => wk'[s] = wk[s]
      BY <2>2 DEF LaunchWorks, Kept
    <3>3. NothingNew(wk')
      BY <3>1, <3>2 DEF NothingNew, Announced
    <3> QED BY <3>1, <3>3 DEF Unreported, Announced
  <2> QED BY <1>2, <2>1, <2>2
<1>5. ok'[t] \subseteq RestoredOk(t, row'[t], progress')
  BY <1>3, RestoresRecorded
<1>6. ProgressOf(t)'
  BY <1>3, <1>4, <1>5, ProgressBusy
<1> QED BY <1>3, <1>4, <1>6, SameProgress, OneProgress
LEMMA StartProgress == ASSUME Recorded, NEW t \in Tasks, Start(t) PROVE ProgressInv'
<1>0. /\ TypeOK /\ CleanTypes(Kept) /\ status[t] = "waiting" /\ ok[t] = {} /\ rt[t] = NoRuntime
      /\ UNCHANGED progress /\ \A u \in Tasks : KeepsRecords(u)
  BY KeptType, SameProgress, ProgressParts, RunningFacts
     DEF Recorded, LeaseInv, Start, ProgressOf, CleanOf
<1>1. CASE UNCHANGED <<taskVars, rt, wk, row>>
  BY <1>0, <1>1, SameWorkers, ProgressUntouched DEF taskVars
<1>2. ASSUME NEW d \in Devices, CanCreateRound, SetTask(t, "executing", d, ok[t], ok[t] # Keywords),
             Launch(t, d, nextRound, ok[t], FALSE, Kept)
      PROVE  ProgressInv'
  <2>1. nextRound \in RoundIds
    BY <1>0, <1>2, RoundWithinBound DEF TypeOK
  <2>2. /\ status'[t] = "executing" /\ ok'[t] = ok[t]
        /\ \A u \in Tasks : u # t => ok'[u] = ok[u] /\ status'[u] = status[u]
    BY <1>0, <1>2 DEF SetTask, TypeOK
  <2> QED BY <1>0, <1>2, <2>1, <2>2, LaunchProgress
<1>3. PICK d \in Devices :
        \/ UNCHANGED <<taskVars, rt, wk, row>>
        \/ /\ CanCreateRound /\ SetTask(t, "executing", d, ok[t], ok[t] # Keywords)
           /\ Launch(t, d, nextRound, ok[t], FALSE, Kept)
  BY DEF Start, workerVars, Recorded, RoundsStay
<1> QED BY <1>1, <1>2, <1>3

LEMMA ResumeProgress == ASSUME Recorded, NEW t \in Tasks, Resume(t) PROVE ProgressInv'
<1> DEFINE r == IF row[t].round = 0 THEN nextRound ELSE row[t].round
<1>0. /\ TypeOK /\ CleanTypes(Kept) /\ status[t] \in {"paused", "error"} /\ ok[t] \in SUBSET Keywords
      /\ UNCHANGED progress /\ ok[t] \subseteq RestoredOk(t, row[t], progress)
  BY KeptType, ProgressParts DEF Recorded, LeaseInv, TypeOK, Resume, ProgressOf, SafeOf
<1>1. PICK d \in Devices, waits \in BOOLEAN :
        /\ SetTask(t, "executing", d, ok[t], ~waits /\ ok[t] # Keywords)
        /\ row[t].round = 0 => CanCreateRound
        /\ Launch(t, d, r, ok[t], waits, Kept)
  BY DEF Resume, Recorded, RoundsStay
<1>2. /\ status'[t] = "executing" /\ ok'[t] = ok[t]
      /\ \A u \in Tasks : u # t => ok'[u] = ok[u] /\ status'[u] = status[u]
  BY <1>0, <1>1 DEF SetTask, TypeOK
<1>3. r \in RoundIds
  BY <1>0, <1>1, RoundWithinBound DEF TypeOK, StateRows
<1>4. \A k \in ok[t] : <<t, k, r>> \in progress
  BY <1>0 DEF RestoredOk
<1> HIDE DEF r
<1> QED BY <1>0, <1>1, <1>2, <1>3, <1>4, LaunchProgress

LEMMA StopProgress == ASSUME Recorded, NEW t \in Tasks, Stop(t) PROVE ProgressInv'
<1>0. TypeOK /\ wk \in [Workers -> WorkerStates]
  BY DEF Recorded, LeaseInv, TypeOK
<1>1. /\ DropRuntime(t) /\ ClearSynced({t}) /\ status'[t] = "waiting" /\ ok'[t] = {}
      /\ \A u \in Tasks : u # t => ok'[u] = ok[u] /\ status'[u] = status[u]
  BY <1>0 DEF Stop, SetTask, TypeOK
<1>2. /\ rt'[t] = NoRuntime /\ row'[t].round = 0
      /\ \A u \in Tasks : u # t => row'[u] = row[u] /\ rt'[u] = rt[u]
  BY <1>0, <1>1, DropRuntimeFacts DEF NoRow
<1>3. ProgressOf(t)'
  BY <1>1, <1>2, ProgressFree
<1>4. NothingNew(wk')
  BY <1>0, <1>1, SameWorkers, CancelledNothingNew DEF DropRuntime, Cleaned
<1>5. \A u \in Tasks : u # t => KeepsRecords(u)
  BY <1>1, ClearSyncedKeeps
<1> QED BY <1>1, <1>2, <1>3, <1>4, <1>5, OneProgress

\* What a task is restored to: it starts over, or is as far as its row says.
LEMMA RestoredKept ==
  ASSUME NEW rw \in StateRows, rw.status \in {"none", "waiting", "success"} => rw.round = 0,
         NEW done, rw.round = 0 => done = {}
  PROVE  /\ RestoredStatus(rw, done) \notin {"executing", "absent"}
         /\ RestoredStatus(rw, done) = "waiting" => done = {}
BY ConstantsAssumption DEF RestoredStatus, StateRows, Statuses

LEMMA ReloadProgress == ASSUME Recorded, Reload PROVE ProgressInv'
<1>0. TypeOK /\ UNCHANGED <<rt, wk, row, progress>>
  BY DEF Reload, workerVars, Recorded, LeaseInv
<1>1. ASSUME NEW t \in Tasks PROVE ProgressOf(t)'
  <2>0. ProgressOf(t) /\ row[t] \in StateRows
    BY <1>0, ProgressParts DEF Recorded, TypeOK
  <2> DEFINE done == RestoredOk(t, row[t], progress)
  <2>1. CASE Running(t)
    <3>1. status'[t] = status[t] /\ ok'[t] = done /\ status[t] = "executing"
      BY <2>1, RunningFacts DEF Reload, Recorded
    <3> QED BY <1>0, <2>0, <3>1 DEF ProgressOf, ReportedOf, Announced, CleanOf, SafeOf, Running
  <2>2. CASE ~Running(t) /\ status[t] = "absent"
    <3>1. status'[t] = "absent" /\ ok'[t] = {} /\ rt'[t] = NoRuntime
      BY <1>0, <2>2, RunningFacts DEF Reload, Recorded
    <3> QED BY <1>0, <2>0, <3>1, ProgressFree DEF ProgressOf, CleanOf
  <2>3. CASE ~Running(t) /\ status[t] # "absent"
    <3>1. status'[t] = RestoredStatus(row[t], done) /\ ok'[t] = done /\ rt'[t] = NoRuntime
      BY <1>0, <2>3, RunningFacts DEF Reload, Recorded
    <3>2. row[t].round = 0 => done = {}
      BY DEF RestoredOk
    <3> HIDE DEF done
    <3>3. status'[t] \notin {"executing", "absent"} /\ (status'[t] = "waiting" => done = {})
      BY <2>0, <3>1, <3>2, RestoredKept DEF ProgressOf, CleanOf
    <3> QED BY <1>0, <2>0, <3>1, <3>3, ProgressFree DEF ProgressOf, CleanOf, done
  <2> QED BY <2>1, <2>2, <2>3
<1> QED BY <1>1, ProgressParts

LEMMA ReloadTaskProgress == ASSUME Recorded, NEW t \in Tasks, ReloadTask(t) PROVE ProgressInv'
<1>0. TypeOK /\ UNCHANGED <<rt, wk>> /\ ProgressOf(t) /\ row[t] \in StateRows
  BY ProgressParts DEF ReloadTask, workerVars, Recorded, LeaseInv, TypeOK
<1>1. CASE UNCHANGED <<status, ok, row, progress>>
  BY <1>0, <1>1, SameProgress, SameWorkers, ProgressUntouched
<1>2. CASE status[t] = "success" /\ ClearSynced({t}) /\ row' = [row EXCEPT ![t] = NoRow]
           /\ SetTask(t, "waiting", None, {}, FALSE)
  <2>1. rt'[t] = NoRuntime /\ row'[t] = NoRow /\ status'[t] = "waiting" /\ ok'[t] = {}
    BY <1>0, <1>2, RunningFacts DEF Recorded, TypeOK, SetTask
  <2>2. ProgressOf(t)'
    BY <2>1, ProgressFree DEF NoRow
  <2>3. \A u \in Tasks : u # t => /\ ok'[u] = ok[u] /\ row'[u] = row[u] /\ status'[u] = status[u]
                                  /\ KeepsRecords(u)
    BY <1>0, <1>2, ClearSyncedKeeps DEF SetTask, TypeOK
  <2> QED BY <1>0, <2>2, <2>3, SameWorkers, OneProgress
<1>3. CASE /\ status[t] \in {"absent", "waiting"} /\ UNCHANGED <<row, progress>>
           /\ SetTask(t, RestoredStatus(row[t], RestoredOk(t, row[t], progress)), RestoredDev(row[t]),
                      RestoredOk(t, row[t], progress), FALSE)
  <2> DEFINE done == RestoredOk(t, row[t], progress)
  <2>1. rt'[t] = NoRuntime
    BY <1>0, <1>3, RunningFacts DEF Recorded
  <2>2. /\ ok'[t] = done /\ status'[t] = RestoredStatus(row[t], done)
        /\ \A u \in Tasks : u # t => ok'[u] = ok[u] /\ status'[u] = status[u]
    BY <1>0, <1>3 DEF SetTask, TypeOK
  <2>3. row[t].round = 0 => done = {}
    BY DEF RestoredOk
  <2>4. status'[t] \notin {"executing", "absent"} /\ (status'[t] = "waiting" => done = {})
    <3> HIDE DEF done
    <3> QED BY <1>0, <2>2, <2>3, RestoredKept DEF ProgressOf, CleanOf
  <2>5. ProgressOf(t)'
    BY <1>0, <1>3, <2>1, <2>2, <2>4, ProgressFree DEF ProgressOf, CleanOf
  <2> QED BY <1>0, <1>3, <2>2, <2>5, SameProgress, SameWorkers, OneProgress
<1> QED BY <1>1, <1>2, <1>3 DEF ReloadTask

LEMMA ForgetProgress == ASSUME Recorded, NEW S \in SUBSET Tasks, Forget(S) PROVE ProgressInv'
<1>1. ASSUME NEW t \in S PROVE ProgressOf(t)'
  <2>1. rt'[t] = NoRuntime /\ status'[t] = "absent" /\ ok'[t] = {} /\ row'[t] = NoRow
    BY DEF Forget
  <2> QED BY <2>1, ProgressFree DEF NoRow
<1>2. NothingNew(wk')
  BY SameWorkers, CancelledNothingNew DEF Forget, Recorded, LeaseInv, TypeOK
<1>3. ASSUME NEW t \in Tasks, t \notin S PROVE ProgressOf(t)'
  <2>1. /\ rt'[t] = rt[t] /\ status'[t] = status[t] /\ row'[t] = row[t] /\ ok'[t] = ok[t]
        /\ KeepsRecords(t)
    BY <1>3 DEF Forget, KeepsRecords
  <2> QED BY <1>2, <2>1, ProgressKept
<1> QED BY <1>1, <1>3, ProgressParts

LEMMA RestartProgress ==
  ASSUME Recorded, TypeOK', NEW newDay \in BOOLEAN, Restart(newDay) PROVE ProgressInv'
<1>1. ASSUME NEW t \in Tasks PROVE ProgressOf(t)'
  <2> DEFINE done == RestoredOk(t, row'[t], progress')
  <2>0. ProgressOf(t) /\ row[t] \in StateRows /\ row'[t] \in StateRows /\ rt'[t] = NoRuntime
    BY ProgressParts DEF Recorded, LeaseInv, TypeOK, Restart
  <2>1. row'[t].status \in {"none", "waiting", "success"} => row'[t].round = 0
    <3>1. CASE newDay
      BY <3>1 DEF Restart, NoRow
    <3>2. CASE ~newDay
      BY <2>0, <3>2 DEF Restart, ProgressOf, CleanOf, StateRows
    <3> QED BY <3>1, <3>2
  <2>2. row'[t].round = 0 => done = {}
    BY DEF RestoredOk
  <2>3. CASE status[t] = "absent"
    <3>1. status'[t] = "absent" /\ ok'[t] = {}
      BY <2>3 DEF Restart
    <3> QED BY <2>0, <2>1, <3>1, ProgressFree
  <2>4. CASE status[t] # "absent"
    <3>1. status'[t] = RestoredStatus(row'[t], done) /\ ok'[t] = done
      BY <2>4 DEF Restart
    <3>2. status'[t] \notin {"executing", "absent"} /\ (status'[t] = "waiting" => done = {})
      <4> HIDE DEF done
      <4> QED BY <2>0, <2>1, <2>2, <3>1, RestoredKept
    <3> QED BY <2>0, <2>1, <3>1, <3>2, ProgressFree
  <2> QED BY <2>3, <2>4
<1> QED BY <1>1, ProgressParts

LEMMA CommandProgress == ASSUME Recorded, Command PROVE ProgressInv'
<1>0. TypeOK /\ wk \in [Workers -> WorkerStates] /\ NothingNew(wk)
  BY SameWorkers DEF Recorded, LeaseInv, TypeOK
<1>1. ASSUME NEW t \in Tasks, Pause(t) PROVE ProgressInv'
  <2>1. PauseAll({t}) /\ \A u \in {t} : status[u] = "executing"
    BY <1>1 DEF Pause
  <2>2. {t} \in SUBSET Tasks
    OBVIOUS
  <2> QED BY <2>1, <2>2, PauseAllProgress
<1>2. ASSUME NEW S \in SUBSET Tasks, PausePhones(S) PROVE ProgressInv'
  <2>1. PICK P \in SUBSET Tasks : PauseAll(P) /\ \A u \in P : status[u] = "executing"
    BY <1>2 DEF PausePhones
  <2> QED BY <2>1, PauseAllProgress
<1>3. ASSUME NEW d \in Devices, Kick(d) PROVE ProgressInv'
  <2>1. PauseAll({}) \/ \E t \in Tasks : PauseAll({t} \cap {u \in Tasks : status[u] = "executing"})
    BY <1>3 DEF Kick
  <2>2. \E P \in SUBSET Tasks : PauseAll(P) /\ \A u \in P : status[u] = "executing"
    <3>1. CASE PauseAll({})
      BY <3>1
    <3>2. ASSUME NEW t \in Tasks, PauseAll({t} \cap {u \in Tasks : status[u] = "executing"})
          PROVE  \E P \in SUBSET Tasks : PauseAll(P) /\ \A u \in P : status[u] = "executing"
      <4> DEFINE P == {t} \cap {u \in Tasks : status[u] = "executing"}
      <4>1. P \in SUBSET Tasks /\ \A u \in P : status[u] = "executing"
        OBVIOUS
      <4> HIDE DEF P
      <4> QED BY <3>2, <4>1 DEF P
    <3> QED BY <2>1, <3>1, <3>2
  <2> QED BY <2>2, PauseAllProgress
<1>4. ASSUME NEW t \in Tasks, Retry(t) \/ ClearDevice(t) PROVE FALSE
  BY <1>4 DEF Retry, ClearDevice, Recorded, RoundsStay
<1>5. ASSUME NEW online, ReleaseOffline(online) PROVE ProgressInv'
  <2>1. PICK S \in SUBSET Tasks : MarkError(S, wk, FALSE) /\ \A t \in S : status[t] = "executing"
    BY <1>5 DEF ReleaseOffline
  <2>2. ok' = ok /\ \A t \in S : ok'[t] \in SUBSET Keywords /\ \A k \in ok'[t] : <<t, k, rt[t].round>> \in progress
    BY <1>0, <1>5, <2>1, RunningRecorded DEF ReleaseOffline, TypeOK
  <2> QED BY <1>0, <2>1, <2>2, MarkErrorProgress
<1>6. ASSUME NEW d \in Devices, Flag(d) \/ Unflag(d) PROVE ProgressInv'
  BY <1>0, <1>6, SameProgress, ProgressUntouched DEF Flag, Unflag, taskVars, workerVars
<1> QED BY <1>1, <1>2, <1>3, <1>4, <1>5, <1>6, StartProgress, ResumeProgress, StopProgress, ReloadTaskProgress,
           ForgetProgress, ReloadProgress DEF Command

LEMMA WakeupProgress == ASSUME Recorded, NEW w \in wakeups, Wakeup(w[1], w[2]) PROVE ProgressInv'
<1> DEFINE t == w[1]
<1>0. /\ TypeOK /\ t \in Tasks /\ UNCHANGED <<status, ok, progress>> /\ rt[t] \in Runtimes
      /\ \A u \in Tasks : KeepsRecords(u)
  BY SameProgress DEF Wakeup, Recorded, LeaseInv, TypeOK
<1>1. CASE UNCHANGED <<rt, wk, row>>
  BY <1>0, <1>1, SameWorkers, ProgressUntouched
<1>2. CASE /\ Running(t) /\ rt[t].worker = 0 /\ SpawnWorker(t, rt[t], ok[t], wk)
           /\ row' = [row EXCEPT ![t] = [ExecutingRow(dev[t], rt[t].round) EXCEPT !.status = status[t]]]
  <2> HIDE DEF t
  <2>0. status[t] = "executing"
    BY <1>0, <1>2, RunningFacts DEF Recorded
  <2>1. /\ row'[t].status = "executing" /\ row'[t].round = rt[t].round
        /\ \A u \in Tasks : u # t => row'[u] = row[u]
    BY <1>0, <1>2, <2>0 DEF ExecutingRow, TypeOK
  <2>2. rt'[t].dev # None /\ \A u \in Tasks : u # t => rt'[u] = rt[u]
    <3>1. CASE ok[t] = Keywords
      BY <1>0, <1>2, <3>1 DEF SpawnWorker, Running, TypeOK
    <3>2. CASE ok[t] # Keywords
      <4>1. rt' = [rt EXCEPT ![t] = [rt[t] EXCEPT !.worker = nextWorker, !.wake = 0]]
        BY <1>2, <3>2 DEF SpawnWorker
      <4> QED BY <1>0, <1>2, <4>1 DEF TypeOK, Runtimes, Running
    <3> QED BY <3>1, <3>2
  <2>3. NothingNew(wk') /\ Unreported(t)'
    <3>1. CASE ok[t] = Keywords
      <4>1. wk' = wk /\ rt'[t].worker = 0
        BY <1>0, <1>2, <3>1 DEF SpawnWorker, TypeOK
      <4> QED BY <4>1, SameWorkers DEF Unreported
    <3>2. CASE ok[t] # Keywords
      <4> DEFINE v == [NoWorker EXCEPT !.task = t, !.dev = rt[t].dev, !.round = rt[t].round,
                                       !.todo = Keywords \ ok[t], !.phase = "scan"]
      <4>1. wk' = [wk EXCEPT ![nextWorker] = v] /\ nextWorker \in Workers
        BY <1>0, <1>2, <3>2, WorkerWithinBound DEF SpawnWorker, TypeOK
      <4>2. v.done = {} /\ v.unread = {}
        BY DEF NoWorker
      <4> HIDE DEF v
      <4>3. rt' = [rt EXCEPT ![t] = [rt[t] EXCEPT !.worker = nextWorker, !.wake = 0]]
        BY <1>2, <3>2 DEF SpawnWorker
      <4>4. rt'[t].worker = nextWorker
        BY <1>0, <4>3 DEF TypeOK, Runtimes
      <4>5. wk'[nextWorker] = v /\ \A s \in Workers : s # nextWorker => wk'[s] = wk[s]
        BY <1>0, <4>1 DEF TypeOK
      <4>6. NothingNew(wk')
        BY <4>2, <4>5 DEF NothingNew, Announced
      <4> QED BY <4>2, <4>4, <4>5, <4>6 DEF Unreported, Announced
    <3> QED BY <3>1, <3>2
  <2>4. ok'[t] \subseteq RestoredOk(t, row'[t], progress')
    <3>1. ok[t] \in SUBSET Keywords
      BY <1>0 DEF TypeOK
    <3> QED BY <1>0, <2>0, <2>1, <3>1, RunningRecorded, RestoresRecorded
  <2>5. ProgressOf(t)'
    BY <1>0, <2>0, <2>1, <2>2, <2>3, <2>4, ProgressBusy
  <2> QED BY <1>0, <2>1, <2>2, <2>3, <2>5, OneProgress
<1> QED BY <1>1, <1>2 DEF Wakeup, workerVars

\* The worker records a keyword before it announces it.
LEMMA WorkerProgress == ASSUME Recorded, NEW s \in Workers, Worker(s) PROVE ProgressInv'
<1>0. /\ TypeOK /\ UNCHANGED <<rt, status, ok, row>> /\ wk[s] \in WorkerStates
      /\ \A t \in Tasks : KeepsRecords(t)
  BY WorkerRecords DEF Worker, WorkerKeyword, WorkerEnds, WorkerCancelled, taskVars, KeepsRecords,
                       Recorded, LeaseInv, TypeOK
<1>1. ASSUME NEW k \in Keywords, WorkerKeyword(s, k) PROVE ProgressInv'
  <2>1. /\ \A r \in Workers : r # s => wk'[r] = wk[r]
        /\ Announced(s)' \subseteq Announced(s) \cup {k}
    BY <1>0, <1>1 DEF WorkerKeyword, Announced, TypeOK, WorkerStates
  <2>2. <<wk[s].task, k, wk[s].round>> \in progress'
    BY <1>1 DEF WorkerKeyword
  <2>3. ASSUME NEW t \in Tasks PROVE ProgressOf(t)'
    <3>0. ProgressOf(t) /\ row[t] \in StateRows
      BY <1>0, ProgressParts DEF Recorded, TypeOK
    <3>1. ReportedOf(t)'
      <4> SUFFICES ASSUME rt[t].worker # 0, NEW j \in Announced(rt[t].worker)'
                   PROVE  <<t, j, rt[t].round>> \in progress'
        BY <1>0 DEF ReportedOf, Announced
      <4>1. rt[t].worker \in Workers
        BY RunningFacts DEF Recorded, Runtimes
      <4>2. CASE j \in Announced(rt[t].worker)
        BY <1>1, <3>0, <4>2 DEF ProgressOf, ReportedOf, WorkerKeyword
      <4>3. CASE j \notin Announced(rt[t].worker)
        <5>1. rt[t].worker = s /\ j = k
          BY <1>0, <2>1, <4>1, <4>3 DEF Announced
        <5>2. wk[s].task = t /\ wk[s].round = rt[t].round
          BY <5>1 DEF Recorded, LeaseInv, ActiveWorkerReports
        <5> QED BY <2>2, <5>1, <5>2
      <4> QED BY <4>2, <4>3
    <3>2. RestoredOk(t, row[t], progress) \subseteq RestoredOk(t, row[t], progress')
      BY <1>0, <3>0, RestoredGrows
    <3> QED BY <1>0, <3>0, <3>1, <3>2 DEF ProgressOf, CleanOf, SafeOf, Running
  <2> QED BY <2>3, ProgressParts
<1>2. CASE WorkerEnds(s) \/ WorkerCancelled(s)
  <2>1. PICK p : wk' = [wk EXCEPT ![s] = [wk[s] EXCEPT !.phase = p]]
    BY <1>2 DEF WorkerEnds, WorkerCancelled
  <2>2. [wk[s] EXCEPT !.phase = p].done = wk[s].done /\ [wk[s] EXCEPT !.phase = p].unread = wk[s].unread
    BY <1>0 DEF WorkerStates
  <2>3. NothingNew(wk')
    BY <1>0, <2>1, <2>2 DEF NothingNew, Announced, TypeOK
  <2> QED BY <1>0, <2>3, ProgressUntouched
<1> QED BY <1>1, <1>2 DEF Worker

LEMMA HandleKeywordDoneProgress ==
  ASSUME Recorded, NEW s \in Workers, NEW k \in Keywords, HandleKeywordDone(s, k) PROVE ProgressInv'
<1>0. TypeOK /\ UNCHANGED <<rt, status, row, progress>> /\ k \in Announced(s)
  BY DEF HandleKeywordDone, Recorded, LeaseInv, Announced
<1>1. NothingNew(wk')
  <2>1. wk[s] \in WorkerStates /\ wk' = [wk EXCEPT ![s] = [wk[s] EXCEPT !.unread = wk[s].unread \ {k}]]
    BY <1>0 DEF HandleKeywordDone, TypeOK
  <2>2. /\ [wk[s] EXCEPT !.unread = wk[s].unread \ {k}].done = wk[s].done
        /\ [wk[s] EXCEPT !.unread = wk[s].unread \ {k}].unread = wk[s].unread \ {k}
    BY <2>1 DEF WorkerStates
  <2> QED BY <1>0, <2>1, <2>2 DEF NothingNew, Announced, TypeOK
<1>2. ASSUME NEW t \in Tasks PROVE ProgressOf(t)'
  <2>1. CASE ok'[t] = ok[t]
    BY <1>0, <1>1, <2>1, SameProgress, ProgressKept
  <2>2. CASE ok'[t] # ok[t]
    <3>1. rt[t].worker = s /\ s # 0 /\ ok'[t] = ok[t] \cup {k} /\ ok'[t] \in SUBSET Keywords
      BY <1>0, <2>2 DEF HandleKeywordDone, IsActive, TypeOK, Workers
    <3>2. Running(t) /\ status[t] = "executing"
      BY <3>1, RunningFacts DEF Recorded
    <3>3. /\ row[t].round = rt[t].round /\ rt[t].round # 0
          /\ \A j \in ok'[t] : <<t, j, rt[t].round>> \in progress
      BY <1>0, <3>1, <3>2, RunningRecorded
    <3>4. ok'[t] \subseteq RestoredOk(t, row[t], progress)
      BY <3>1, <3>3, RestoresRecorded
    <3>5. ProgressOf(t)
      BY ProgressParts DEF Recorded
    <3>6. ReportedOf(t)'
      BY <1>0, <1>1, <3>1, <3>5 DEF ProgressOf, ReportedOf, NothingNew, Announced
    <3> QED BY <1>0, <3>2, <3>4, <3>5, <3>6 DEF ProgressOf, CleanOf, SafeOf, Running
  <2> QED BY <2>1, <2>2
<1> QED BY <1>2, ProgressParts

LEMMA HandleResultProgress == ASSUME Recorded, NEW s \in Workers, HandleResult(s) PROVE ProgressInv'
<1> DEFINE W == [wk EXCEPT ![s] = NoWorker]
<1>0. /\ LeaseInv /\ TypeOK /\ s # 0 /\ NothingNew(W) /\ W \in [Workers -> WorkerStates]
      /\ UNCHANGED progress /\ \A u \in Tasks : KeepsRecords(u)
  <2>1. LeaseInv /\ TypeOK /\ s # 0 /\ UNCHANGED progress /\ \A u \in Tasks : KeepsRecords(u)
    BY SameProgress DEF Recorded, LeaseInv, HandleResult, Workers
  <2>2. NothingNew(W)
    BY <2>1, ForgottenNothingNew
  <2>3. W \in [Workers -> WorkerStates]
    BY <2>1, NoWorkerType DEF TypeOK
  <2> QED BY <2>1, <2>2, <2>3
<1> HIDE DEF W
<1>1. PICK t \in Tasks : \/ Dropped(s, t) \/ Ends(s, t)
                         \/ \E keep \in SUBSET Keywords : Fails(s, t, keep)
                         \/ \E done \in SUBSET Keywords : Continues(s, t, done)
  BY <1>0, ResultCases
<1>2. ASSUME Counts(s, t)
      PROVE  /\ status[t] = "executing" /\ rt[t].dev # None /\ rt[t].round # 0
             /\ \A k \in ok[t] \cup wk[s].done : <<t, k, rt[t].round>> \in progress
  BY <1>0, <1>2, RunningRecorded DEF Counts, Running, Announced
<1>3. CASE Dropped(s, t)
  BY <1>0, <1>3, ProgressUntouched DEF Dropped, taskVars, W
<1>4. ASSUME NEW keep \in SUBSET Keywords, Fails(s, t, keep) PROVE ProgressInv'
  <2>1. MarkError({t}, W, TRUE) /\ ok' = [ok EXCEPT ![t] = keep] /\ Counts(s, t)
        /\ keep \subseteq ok[t] \cup wk[s].done
    BY <1>4 DEF Fails, W
  <2>2. \A u \in Tasks : u \notin {t} => ok'[u] = ok[u]
    BY <1>0, <2>1 DEF TypeOK
  <2>3. \A u \in {t} : /\ status[u] = "executing" /\ ok'[u] \in SUBSET Keywords
                       /\ \A k \in ok'[u] : <<u, k, rt[u].round>> \in progress
    BY <1>0, <1>2, <2>1 DEF TypeOK
  <2>4. {t} \in SUBSET Tasks
    OBVIOUS
  <2> QED BY <1>0, <2>1, <2>2, <2>3, <2>4, MarkErrorProgress
<1>5. CASE Ends(s, t) /\ Succeed(t)
  <2>1. /\ rt'[t] = NoRuntime /\ status'[t] = "success" /\ row'[t].round = 0
        /\ \A u \in Tasks : u # t => /\ rt'[u] = rt[u] /\ row'[u] = row[u]
                                     /\ ok'[u] = ok[u] /\ status'[u] = status[u]
    BY <1>0, <1>5 DEF Succeed, WithoutRuntime, NoRow, SetTask, TypeOK
  <2>2. ProgressOf(t)'
    BY <2>1, ProgressFree
  <2> QED BY <1>0, <1>5, <2>1, <2>2, OneProgress DEF Ends, W
<1>6. ASSUME NEW Q \in Runtimes, Q.dev = rt[t].dev, Q.worker = 0, Schedule(t, Q, wakeups), Counts(s, t),
             wk' = W, NEW done \in SUBSET Keywords, SetTask(t, status[t], dev[t], done, FALSE),
             NEW r, r # 0, row' = [row EXCEPT ![t] = ExecutingRow(dev[t], r)],
             \A k \in done : <<t, k, r>> \in progress
      PROVE  ProgressInv'
  <2>1. rt' = [rt EXCEPT ![t] = [Q EXCEPT !.wake = nextWakeup]]
    BY <1>6 DEF Schedule
  <2>2. rt'[t].dev # None /\ rt'[t].worker = 0 /\ \A u \in Tasks : u # t => rt'[u] = rt[u]
    BY <1>0, <1>2, <1>6, <2>1 DEF TypeOK, Runtimes
  <2>3. /\ row'[t].status = "executing" /\ row'[t].round = r /\ ok'[t] = done /\ status'[t] = "executing"
        /\ \A u \in Tasks : u # t => row'[u] = row[u] /\ ok'[u] = ok[u] /\ status'[u] = status[u]
    BY <1>0, <1>2, <1>6 DEF ExecutingRow, SetTask, TypeOK
  <2>4. ok'[t] \subseteq RestoredOk(t, row'[t], progress')
    BY <1>0, <1>6, <2>3, RestoresRecorded
  <2>5. ProgressOf(t)'
    BY <2>2, <2>3, <2>4, ProgressBusy DEF Unreported
  <2> QED BY <1>0, <1>6, <2>2, <2>3, <2>5, OneProgress
<1>7. CASE Ends(s, t) /\ NextIntervalRound(t)
  <2> DEFINE Q == [rt[t] EXCEPT !.round = nextRound, !.worker = 0]
  <2>1. nextRound \in RoundIds /\ nextRound # 0 /\ rt[t] \in Runtimes
    BY <1>0, <1>7, RoundWithinBound DEF NextIntervalRound, TypeOK
  <2>2. Q \in Runtimes /\ Q.dev = rt[t].dev /\ Q.worker = 0
    BY <2>1 DEF Runtimes
  <2>3. /\ Schedule(t, Q, wakeups) /\ Counts(s, t) /\ wk' = W
        /\ SetTask(t, status[t], dev[t], {}, FALSE) /\ row' = [row EXCEPT ![t] = ExecutingRow(dev[t], nextRound)]
    BY <1>7 DEF Ends, NextIntervalRound, W
  <2> HIDE DEF Q
  <2>4. {} \in SUBSET Keywords /\ \A k \in {} : <<t, k, nextRound>> \in progress
    OBVIOUS
  <2> QED BY <1>6, <2>1, <2>2, <2>3, <2>4
<1>8. ASSUME NEW done \in SUBSET Keywords, Continues(s, t, done) PROVE ProgressInv'
  <2> DEFINE Q == [rt[t] EXCEPT !.worker = 0]
  <2>1. Q \in Runtimes /\ Q.dev = rt[t].dev /\ Q.worker = 0
    BY <1>0 DEF TypeOK, Runtimes
  <2>2. /\ Schedule(t, Q, wakeups) /\ Counts(s, t) /\ wk' = W /\ done = ok[t] \cup wk[s].done
        /\ SetTask(t, status[t], dev[t], done, FALSE)
        /\ row' = [row EXCEPT ![t] = ExecutingRow(dev[t], rt[t].round)]
    BY <1>8 DEF Continues, Reschedule, W
  <2> HIDE DEF Q
  <2> QED BY <1>2, <1>6, <2>1, <2>2
<1> QED BY <1>1, <1>3, <1>4, <1>5, <1>7, <1>8 DEF Ends

LEMMA ProgressNext == ASSUME Recorded, TypeOK', [Next]_vars PROVE ProgressInv'
<1>1. CASE UNCHANGED vars
  BY <1>1, SameProgress, SameWorkers, ProgressUntouched DEF vars, taskVars, workerVars
<1>2. ASSUME NEW d \in Devices, DeviceUp(d) \/ DeviceDown(d) PROVE ProgressInv'
  BY <1>2, SameProgress, SameWorkers, ProgressUntouched DEF DeviceUp, DeviceDown, taskVars, workerVars
<1> QED BY <1>1, <1>2, CommandProgress, RestartProgress, WakeupProgress, WorkerProgress,
           HandleKeywordDoneProgress, HandleResultProgress DEF Next, Outside, Report

LEMMA RecordedAlways == RoundsStay /\ Spec => []Recorded
<1>1. Recorded /\ [Next]_vars => Recorded'
  <2>1. LeaseInv' => TypeOK'
    BY DEF LeaseInv
  <2> QED BY <2>1, ProgressNext, RoundNext, LeaseInvNext DEF Recorded, Rounded, RoundsStay
<1>2. RoundsStay /\ Init => Recorded
  BY ProgressInit, RoundInit, InitLeaseInv DEF Recorded
<1> QED BY <1>1, <1>2, PTL DEF Spec

\* Where rounds stay with their tasks, the state rows lead to all that the
\* engine and its workers have counted.
THEOREM ProgressAgrees == RoundsStay /\ Spec => []ProgressInv
<1>1. Recorded => ProgressInv
  BY DEF Recorded
<1> QED BY <1>1, RecordedAlways, PTL

\* A crash loses no keyword that the engine counts as done.
THEOREM CrashLosesNothing == RoundsStay /\ Spec => []ProgressRecoverable
<1>1. ProgressInv => ProgressRecoverable
  BY DEF ProgressInv
<1> QED BY <1>1, ProgressAgrees, PTL

\* No round of R is completed that is not.
NoneCompleted(R) == /\ R \in [RoundIds -> RoundRows]
                    /\ \A i \in RoundIds : R[i].st = "completed" => rounds[i].st = "completed"

LEMMA FinishedOtherwise ==
  ASSUME NEW R, NoneCompleted(R), NEW I, NEW s \in {"running", "stopped", "deleted"}
  PROVE  NoneCompleted(FinishRounds(R, I, s))
<1>0. R \in [RoundIds -> RoundRows]
  BY DEF NoneCompleted
<1>1. FinishRounds(R, I, s) \in [RoundIds -> RoundRows]
  BY <1>0, FinishRoundsType DEF RoundRows
<1>2. ASSUME NEW i \in RoundIds, FinishRounds(R, I, s)[i].st = "completed" PROVE rounds[i].st = "completed"
  <2>1. i \notin I
    BY <1>0, <1>2 DEF FinishRounds, RoundRows
  <2>2. FinishRounds(R, I, s)[i] = R[i]
    BY <2>1 DEF FinishRounds
  <2> QED BY <1>2, <2>2 DEF NoneCompleted
<1> QED BY <1>1, <1>2 DEF NoneCompleted

LEMMA CreatedRunning ==
  ASSUME NEW R, NoneCompleted(R), NEW t \in Tasks PROVE NoneCompleted(CreateRound(R, t))
<1>1. CreateRound(R, t) \in [RoundIds -> RoundRows]
  BY CreateRoundType DEF NoneCompleted
<1> QED BY <1>1 DEF NoneCompleted, CreateRound, RoundRows

LEMMA CommandCompletes == ASSUME TypeOK, Command PROVE NoneCompleted(rounds')
<1>0. NoneCompleted(rounds)
  BY DEF NoneCompleted, TypeOK
<1>1. ASSUME NEW S, PauseAll(S) PROVE NoneCompleted(rounds')
  BY <1>0, <1>1, FinishedOtherwise DEF PauseAll
<1>2. ASSUME NEW S, NEW W, NEW flag, MarkError(S, W, flag) PROVE NoneCompleted(rounds')
  BY <1>0, <1>2, FinishedOtherwise DEF MarkError
<1>3. ASSUME NEW t, DropRuntime(t) PROVE NoneCompleted(rounds')
  BY <1>0, <1>3, FinishedOtherwise DEF DropRuntime, Cleaned
<1>4. ASSUME NEW t \in Tasks, Start(t) \/ Resume(t) \/ Retry(t) PROVE NoneCompleted(rounds')
  <2>1. NoneCompleted(Cleaned(t).rounds)
    BY <1>0, FinishedOtherwise DEF Cleaned
  <2>2. \/ UNCHANGED rounds \/ DropRuntime(t)
        \/ \E R \in {rounds, Cleaned(t).rounds} : rounds' = CreateRound(R, t)
        \/ \E r : rounds' = FinishRounds(rounds, {r}, "running")
    BY <1>4 DEF Start, Resume, Retry, ledgerVars
  <2> QED BY <1>0, <1>3, <2>1, <2>2, CreatedRunning, FinishedOtherwise
<1>5. ASSUME NEW t \in Tasks, ClearDevice(t) \/ ReloadTask(t) PROVE NoneCompleted(rounds')
  BY <1>0, <1>5 DEF ClearDevice, ReloadTask, ledgerVars
<1>6. ASSUME NEW d, Flag(d) \/ Unflag(d) PROVE NoneCompleted(rounds')
  BY <1>0, <1>6 DEF Flag, Unflag, ledgerVars
<1>7. Reload => NoneCompleted(rounds')
  BY <1>0 DEF Reload, ledgerVars
<1>8. ASSUME NEW S \in SUBSET Tasks, Forget(S) PROVE NoneCompleted(rounds')
  BY <1>0, <1>8, FinishedOtherwise DEF Forget
<1>9. ASSUME NEW d, Kick(d) PROVE NoneCompleted(rounds')
  BY <1>1, <1>9 DEF Kick
<1> QED BY <1>1, <1>2, <1>3, <1>4, <1>5, <1>6, <1>7, <1>8, <1>9
        DEF Command, Pause, PausePhones, Stop, ReleaseOffline

\* Only the end of a batch completes a round, that of the task's runtime.
LEMMA CompletedByBatch ==
  ASSUME Recorded, [Next]_vars, NEW i \in RoundIds, rounds[i].st # "completed", rounds'[i].st = "completed"
  PROVE  \E s \in Workers, t \in Tasks : Ends(s, t) /\ i = rt[t].round
<1>0. LeaseInv /\ TypeOK /\ NoneCompleted(rounds) /\ ~NoneCompleted(rounds')
  BY DEF Recorded, LeaseInv, TypeOK, NoneCompleted
<1>1. UNCHANGED rounds => NoneCompleted(rounds')
  BY <1>0
<1>2. ASSUME NEW newDay \in BOOLEAN, Restart(newDay) PROVE NoneCompleted(rounds')
  BY <1>0, <1>2, FinishedOtherwise DEF Restart
<1>3. ASSUME NEW s \in Workers, HandleResult(s) PROVE \E t \in Tasks : Ends(s, t) /\ i = rt[t].round
  <2>1. PICK t \in Tasks : \/ Dropped(s, t) \/ Ends(s, t)
                           \/ \E keep \in SUBSET Keywords : Fails(s, t, keep)
                           \/ \E done \in SUBSET Keywords : Continues(s, t, done)
    BY <1>0, <1>3, ResultCases
  <2>2. ~Dropped(s, t) /\ \A done : ~Continues(s, t, done)
    BY <1>0, <1>1 DEF Dropped, Continues, Reschedule
  <2>3. ASSUME NEW keep, Fails(s, t, keep) PROVE FALSE
    <3>1. rounds' = FinishRounds(rounds, {rt[u].round : u \in {t}}, "stopped")
      BY <2>3 DEF Fails, MarkError
    <3> QED BY <1>0, <3>1, FinishedOtherwise
  <2>4. Ends(s, t)
    BY <2>1, <2>2, <2>3
  <2>5. CASE i # rt[t].round
    <3> DEFINE R == FinishRounds(rounds, {rt[t].round}, "completed")
    <3>1. R \in [RoundIds -> RoundRows] /\ R[i] = rounds[i]
      <4>1. rounds \in [RoundIds -> RoundRows] /\ i \notin {rt[t].round}
        BY <1>0, <2>5 DEF TypeOK
      <4>2. R[i] = rounds[i]
        BY <4>1 DEF FinishRounds
      <4>3. R \in [RoundIds -> RoundRows]
        BY <4>1, FinishRoundsType
      <4> QED BY <4>2, <4>3
    <3>2. rounds' = R \/ rounds' = CreateRound(R, t)
      BY <2>4 DEF Ends, Succeed, NextIntervalRound
    <3> HIDE DEF R
    <3>3. CreateRound(R, t)[i].st \in {"running", "stopped", R[i].st}
      BY <3>1 DEF CreateRound, RoundRows
    <3> QED BY <3>1, <3>2, <3>3
  <2> QED BY <2>4, <2>5
<1>4. CASE UNCHANGED vars
  BY <1>0, <1>1, <1>4 DEF vars, ledgerVars
<1>5. CASE \E d \in Devices : DeviceUp(d) \/ DeviceDown(d)
  BY <1>0, <1>1, <1>5 DEF DeviceUp, DeviceDown, ledgerVars
<1>6. CASE \E w \in wakeups : Wakeup(w[1], w[2])
  BY <1>0, <1>1, <1>6 DEF Wakeup
<1>7. ASSUME NEW s \in Workers, Worker(s) \/ \E k \in Keywords : HandleKeywordDone(s, k) PROVE FALSE
  BY <1>0, <1>1, <1>7 DEF Worker, WorkerKeyword, WorkerEnds, WorkerCancelled, HandleKeywordDone, ledgerVars
<1> QED BY <1>0, <1>2, <1>3, <1>4, <1>5, <1>6, <1>7, CommandCompletes DEF Next, Outside, Report

\* A round is completed only when every keyword of its task is recorded for it
\* (complete_task_success, complete_round_with_interval).
THEOREM CompletedRoundsFull == RoundsStay /\ Spec => CompletedRoundFull
<1>1. ASSUME Recorded, [Next]_vars, NEW i \in RoundIds, rounds[i].st # "completed", rounds'[i].st = "completed",
             NEW k \in Keywords
      PROVE  <<rounds[i].task, k, i>> \in progress
  <2>1. PICK s \in Workers, t \in Tasks : Ends(s, t) /\ i = rt[t].round
    BY <1>1, CompletedByBatch
  <2>2. rounds[i].task = t
    BY <1>1, <2>1, RoundOwned DEF Recorded, Rounded, Ends, Counts
  <2>3. k \in ok[t] \cup wk[s].done /\ rt[t].worker = s /\ s # 0 /\ status[t] = "executing"
    BY <2>1 DEF Ends, Counts, Workers
  <2> QED BY <1>1, <2>1, <2>2, <2>3, RunningRecorded DEF Announced
<1>2. Recorded /\ [Next]_vars =>
        [\A i \in RoundIds :
           rounds[i].st # "completed" /\ rounds'[i].st = "completed" =>
             \A k \in Keywords : <<rounds[i].task, k, i>> \in progress]_vars
  BY <1>1
<1> QED BY <1>2, RecordedAlways, PTL DEF Spec, CompletedRoundFull
-----------------------------------------------------------------------------
(* Saved waits.  Where no message rebuilds the tasks, the keyword marks tell  *)
(* a task that waits for its next round.                                   *)

Unrebuilt == TasksStay /\ LeaseInv /\ WaitUnmarked

UnmarkedOf(t) == rt[t].wake # 0 /\ ok[t] = {} => ~mark[t]

LEMMA UnmarkedKept ==
  ASSUME Unrebuilt, NEW t \in Tasks, rt'[t] = rt[t], ok'[t] # {} \/ ok'[t] = ok[t],
         ok'[t] # {} \/ ~mark'[t] \/ mark'[t] = mark[t]
  PROVE  UnmarkedOf(t)'
BY DEF Unrebuilt, WaitUnmarked, UnmarkedOf

LEMMA UnmarkedFree == ASSUME NEW t \in Tasks, rt'[t] = NoRuntime PROVE UnmarkedOf(t)'
BY DEF UnmarkedOf, NoRuntime

LEMMA UnmarkedStep ==
  (WaitUnmarked <=> \A t \in Tasks : UnmarkedOf(t)) /\ (WaitUnmarked' <=> \A t \in Tasks : UnmarkedOf(t)')
BY DEF WaitUnmarked, UnmarkedOf

LEMMA SameMarks == ASSUME Unrebuilt, UNCHANGED <<rt, ok, mark>> PROVE WaitUnmarked'
BY DEF Unrebuilt, WaitUnmarked

LEMMA OneMark ==
  ASSUME Unrebuilt, NEW t \in Tasks, UnmarkedOf(t)',
         \A u \in Tasks : u # t => rt'[u] = rt[u] /\ ok'[u] = ok[u] /\ mark'[u] = mark[u]
  PROVE  WaitUnmarked'
BY UnmarkedKept, UnmarkedStep

LEMMA PauseAllMarks == ASSUME Unrebuilt, NEW S \in SUBSET Tasks, PauseAll(S) PROVE WaitUnmarked'
<1>1. \A t \in S : rt'[t] = NoRuntime
  BY DEF PauseAll
<1>2. \A t \in Tasks : t \notin S => rt'[t] = rt[t] /\ ok'[t] = ok[t] /\ mark'[t] = mark[t]
  BY DEF PauseAll
<1> QED BY <1>1, <1>2, UnmarkedFree, UnmarkedKept, UnmarkedStep

LEMMA MarkErrorMarks ==
  ASSUME Unrebuilt, NEW S \in SUBSET Tasks, NEW W, NEW flag, MarkError(S, W, flag),
         \A t \in Tasks : t \notin S => ok'[t] = ok[t]
  PROVE  WaitUnmarked'
<1>1. \A t \in S : rt'[t] = NoRuntime
  BY DEF MarkError
<1>2. \A t \in Tasks : t \notin S => rt'[t] = rt[t] /\ mark'[t] = mark[t]
  BY DEF MarkError
<1> QED BY <1>1, <1>2, UnmarkedFree, UnmarkedKept, UnmarkedStep

\* A launched task waits for a wakeup only when it resumes a saved wait.
LEMMA LaunchMarks ==
  ASSUME Unrebuilt, NEW t \in Tasks, NEW d \in Devices, NEW r \in RoundIds, NEW done \in SUBSET Keywords,
         NEW waits \in BOOLEAN, NEW c, CleanTypes(c), Launch(t, d, r, done, waits, c), waits => ~mark'[t],
         \A u \in Tasks : u # t => ok'[u] = ok[u] /\ mark'[u] = mark[u]
  PROVE  WaitUnmarked'
<1>0. TypeOK /\ t \in Tasks /\ d \in Devices /\ r \in RoundIds /\ done \in SUBSET Keywords
      /\ waits \in BOOLEAN /\ CleanTypes(c) /\ Launch(t, d, r, done, waits, c)
  BY DEF Unrebuilt, LeaseInv
<1>1. Launched(t, d, r)
  BY ONLY <1>0, LaunchFacts
<1>2. LaunchWaits(t, c) \/ LaunchRests(t, done, c) \/ LaunchWorks(t, d, r, done, c)
  BY ONLY <1>0, LaunchFacts
<1>3. LaunchWaits(t, c) => waits
  BY ONLY <1>0, LaunchFacts
<1>4. UnmarkedOf(t)'
  BY <1>2, <1>3 DEF UnmarkedOf, LaunchRests, LaunchWorks
<1> QED BY <1>1, <1>4, OneMark DEF Launched

LEMMA StartMarks == ASSUME Unrebuilt, NEW t \in Tasks, Start(t) PROVE WaitUnmarked'
<1>0. TypeOK /\ CleanTypes(Kept) /\ rt[t] = NoRuntime /\ ok[t] \in SUBSET Keywords
  BY KeptType, RunningFacts DEF Unrebuilt, LeaseInv, Start, TypeOK
<1>1. CASE UNCHANGED <<taskVars, rt>>
  BY <1>1, SameMarks DEF taskVars
<1>2. \A u \in Tasks : u # t => ok'[u] = ok[u] /\ mark'[u] = mark[u]
  BY <1>0 DEF Start, SetTask, taskVars, TypeOK
<1>3. CASE UNCHANGED rt
  BY <1>0, <1>2, <1>3, UnmarkedFree, OneMark
<1>4. ASSUME NEW d \in Devices, CanCreateRound, Launch(t, d, nextRound, ok[t], FALSE, Kept) PROVE WaitUnmarked'
  <2>1. nextRound \in RoundIds
    BY <1>0, <1>4, RoundWithinBound DEF TypeOK
  <2> QED BY <1>0, <1>2, <1>4, <2>1, LaunchMarks
<1> QED BY <1>1, <1>3, <1>4 DEF Start

LEMMA ResumeMarks == ASSUME Unrebuilt, NEW t \in Tasks, Resume(t) PROVE WaitUnmarked'
<1> DEFINE r == IF row[t].round = 0 THEN nextRound ELSE row[t].round
<1>0. TypeOK /\ CleanTypes(Kept) /\ rt[t] = NoRuntime /\ ok[t] \in SUBSET Keywords
  BY KeptType, RunningFacts DEF Unrebuilt, LeaseInv, Resume, TypeOK
<1>1. PICK d \in Devices, waits \in BOOLEAN :
        /\ SetTask(t, "executing", d, ok[t], ~waits /\ ok[t] # Keywords)
        /\ \/ UNCHANGED rt
           \/ (row[t].round = 0 => CanCreateRound) /\ Launch(t, d, r, ok[t], waits, Kept)
  BY DEF Resume
<1>2. (waits => ~mark'[t]) /\ \A u \in Tasks : u # t => ok'[u] = ok[u] /\ mark'[u] = mark[u]
  BY <1>0, <1>1 DEF SetTask, TypeOK
<1>3. CASE UNCHANGED rt
  BY <1>0, <1>2, <1>3, UnmarkedFree, OneMark
<1>4. CASE (row[t].round = 0 => CanCreateRound) /\ Launch(t, d, r, ok[t], waits, Kept)
  <2>1. r \in RoundIds
    BY <1>0, <1>4, RoundWithinBound DEF TypeOK, StateRows
  <2> HIDE DEF r
  <2> QED BY <1>0, <1>2, <1>4, <2>1, LaunchMarks
<1> QED BY <1>1, <1>3, <1>4

LEMMA DropRuntimeMarks ==
  ASSUME Unrebuilt, NEW t \in Tasks, DropRuntime(t),
         \A u \in Tasks : u # t => ok'[u] = ok[u] /\ mark'[u] = mark[u]
  PROVE  WaitUnmarked'
<1>1. TypeOK
  BY DEF Unrebuilt, LeaseInv
<1> QED BY <1>1, DropRuntimeFacts, UnmarkedFree, OneMark

LEMMA RetryMarks == ASSUME Unrebuilt, NEW t \in Tasks, Retry(t) PROVE WaitUnmarked'
<1>0. TypeOK /\ CleanTypes(Cleaned(t)) /\ {} \in SUBSET Keywords
  BY CleanedType DEF Unrebuilt, LeaseInv
<1>1. \A u \in Tasks : u # t => ok'[u] = ok[u] /\ mark'[u] = mark[u]
  BY <1>0 DEF Retry, SetTask, taskVars, TypeOK
<1>2. CASE DropRuntime(t)
  BY <1>1, <1>2, DropRuntimeMarks
<1>3. ASSUME NEW d \in Devices, CanCreateRound, Launch(t, d, nextRound, {}, FALSE, Cleaned(t))
      PROVE  WaitUnmarked'
  <2>1. nextRound \in RoundIds
    BY <1>0, <1>3, RoundWithinBound DEF TypeOK
  <2> QED BY <1>0, <1>1, <1>3, <2>1, LaunchMarks
<1> QED BY <1>2, <1>3 DEF Retry

LEMMA CommandMarks == ASSUME Unrebuilt, Command PROVE WaitUnmarked'
<1>0. TypeOK
  BY DEF Unrebuilt, LeaseInv
<1>1. ASSUME NEW t \in Tasks, Pause(t) PROVE WaitUnmarked'
  BY <1>1, PauseAllMarks DEF Pause
<1>2. ASSUME NEW S \in SUBSET Tasks, PausePhones(S) PROVE WaitUnmarked'
  <2>1. PICK P \in SUBSET Tasks : PauseAll(P)
    BY <1>2 DEF PausePhones
  <2> QED BY <2>1, PauseAllMarks
<1>3. ASSUME NEW d \in Devices, Kick(d) PROVE WaitUnmarked'
  <2>1. PICK P \in SUBSET Tasks : PauseAll(P)
    BY <1>3 DEF Kick
  <2> QED BY <2>1, PauseAllMarks
<1>4. ASSUME NEW t \in Tasks, Stop(t) PROVE WaitUnmarked'
  <2>1. \A u \in Tasks : u # t => ok'[u] = ok[u] /\ mark'[u] = mark[u]
    BY <1>0, <1>4 DEF Stop, SetTask, TypeOK
  <2> QED BY <1>4, <2>1, DropRuntimeMarks DEF Stop
<1>5. ASSUME NEW S \in SUBSET Tasks, Forget(S) PROVE WaitUnmarked'
  <2>1. /\ \A t \in S : rt'[t] = NoRuntime
        /\ \A t \in Tasks : t \notin S => rt'[t] = rt[t] /\ ok'[t] = ok[t] /\ mark'[t] = mark[t]
    BY <1>0, <1>5 DEF Forget, TypeOK
  <2> QED BY <2>1, UnmarkedFree, UnmarkedKept, UnmarkedStep
<1>6. ASSUME NEW online, ReleaseOffline(online) PROVE WaitUnmarked'
  <2>1. PICK S \in SUBSET Tasks : MarkError(S, wk, FALSE)
    BY <1>6 DEF ReleaseOffline
  <2> QED BY <1>6, <2>1, MarkErrorMarks DEF ReleaseOffline
<1>7. ASSUME NEW t \in Tasks, ClearDevice(t) PROVE WaitUnmarked'
  BY <1>7, SameMarks DEF ClearDevice
<1>8. ASSUME NEW d \in Devices, Flag(d) \/ Unflag(d) PROVE WaitUnmarked'
  BY <1>8, SameMarks DEF Flag, Unflag, taskVars
<1>9. ASSUME Reload \/ \E t \in Tasks : ReloadTask(t) PROVE FALSE
  BY <1>9 DEF Reload, ReloadTask, Unrebuilt, TasksStay
<1> QED BY <1>1, <1>2, <1>3, <1>4, <1>5, <1>6, <1>7, <1>8, <1>9, StartMarks, ResumeMarks, RetryMarks DEF Command

LEMMA WakeupMarks == ASSUME Unrebuilt, NEW w \in wakeups, Wakeup(w[1], w[2]) PROVE WaitUnmarked'
<1> DEFINE t == w[1]
<1>0. TypeOK /\ t \in Tasks /\ UNCHANGED ok /\ rt[t] \in Runtimes
  BY DEF Wakeup, Unrebuilt, LeaseInv, TypeOK
<1>1. CASE UNCHANGED <<mark, rt>>
  BY <1>0, <1>1, SameMarks
<1>2. CASE /\ SpawnWorker(t, rt[t], ok[t], wk)
           /\ mark' = [mark EXCEPT ![t] = TRUE] \/ UNCHANGED mark
  <2> HIDE DEF t
  <2>1. \A u \in Tasks : u # t => mark'[u] = mark[u] /\ rt'[u] = rt[u]
    BY <1>0, <1>2 DEF SpawnWorker, TypeOK
  <2>2. CASE ok[t] = Keywords
    <3>1. rt'[t] = rt[t] /\ ok'[t] # {}
      BY <1>0, <1>2, <2>2, ConstantsAssumption DEF SpawnWorker, TypeOK
    <3> QED BY <1>0, <2>1, <3>1, UnmarkedKept, OneMark
  <2>3. CASE ok[t] # Keywords
    <3>1. rt' = [rt EXCEPT ![t] = [rt[t] EXCEPT !.worker = nextWorker, !.wake = 0]]
      BY <1>2, <2>3 DEF SpawnWorker
    <3>2. rt'[t].wake = 0
      BY <1>0, <3>1 DEF TypeOK, Runtimes
    <3>3. UnmarkedOf(t)'
      BY <3>2 DEF UnmarkedOf
    <3> QED BY <1>0, <2>1, <3>3, OneMark
  <2> QED BY <2>2, <2>3
<1>3. UNCHANGED <<mark, rt>> \/ /\ SpawnWorker(t, rt[t], ok[t], wk)
                                /\ mark' = [mark EXCEPT ![t] = TRUE] \/ UNCHANGED mark
  BY DEF Wakeup
<1> QED BY <1>1, <1>2, <1>3

LEMMA HandleResultMarks == ASSUME Unrebuilt, NEW s \in Workers, HandleResult(s) PROVE WaitUnmarked'
<1>0. LeaseInv /\ TypeOK
  BY DEF Unrebuilt, LeaseInv
<1>1. PICK t \in Tasks : \/ Dropped(s, t) \/ Ends(s, t)
                         \/ \E keep \in SUBSET Keywords : Fails(s, t, keep)
                         \/ \E done \in SUBSET Keywords : Continues(s, t, done)
  BY <1>0, ResultCases
<1>2. CASE Dropped(s, t)
  BY <1>2, SameMarks DEF Dropped, taskVars
<1>3. ASSUME NEW keep, Fails(s, t, keep) PROVE WaitUnmarked'
  <2>1. \A u \in Tasks : u \notin {t} => ok'[u] = ok[u]
    BY <1>0, <1>3 DEF Fails, TypeOK
  <2>2. {t} \in SUBSET Tasks /\ MarkError({t}, [wk EXCEPT ![s] = NoWorker], TRUE)
    BY <1>3 DEF Fails
  <2> QED BY <2>1, <2>2, MarkErrorMarks
<1>4. CASE Ends(s, t) \/ \E done \in SUBSET Keywords : Continues(s, t, done)
  <2>1. /\ ~mark'[t]
        /\ \A u \in Tasks : u # t => rt'[u] = rt[u] /\ ok'[u] = ok[u] /\ mark'[u] = mark[u]
    BY <1>0, <1>4 DEF Ends, Continues, Succeed, NextIntervalRound, Reschedule, SetTask, Schedule,
                      WithoutRuntime, TypeOK
  <2>2. UnmarkedOf(t)'
    BY <2>1 DEF UnmarkedOf
  <2> QED BY <2>1, <2>2, OneMark
<1> QED BY <1>1, <1>2, <1>3, <1>4

LEMMA MarksNext == ASSUME Unrebuilt, [Next]_vars PROVE WaitUnmarked'
<1>1. CASE UNCHANGED vars
  BY <1>1, SameMarks DEF vars, taskVars
<1>2. ASSUME NEW d \in Devices, DeviceUp(d) \/ DeviceDown(d) PROVE WaitUnmarked'
  BY <1>2, SameMarks DEF DeviceUp, DeviceDown, taskVars
<1>3. ASSUME NEW newDay, Restart(newDay) PROVE WaitUnmarked'
  BY <1>3 DEF Restart, WaitUnmarked, NoRuntime
<1>4. ASSUME NEW s \in Workers, Worker(s) PROVE WaitUnmarked'
  BY <1>4, SameMarks DEF Worker, WorkerKeyword, WorkerEnds, WorkerCancelled, taskVars
<1>5. ASSUME NEW s \in Workers, NEW k \in Keywords, HandleKeywordDone(s, k) PROVE WaitUnmarked'
  <2>1. UNCHANGED <<rt, mark>> /\ \A t \in Tasks : ok'[t] # {} \/ ok'[t] = ok[t]
    BY <1>5 DEF HandleKeywordDone, Unrebuilt, LeaseInv, TypeOK
  <2> QED BY <2>1, UnmarkedKept, UnmarkedStep
<1> QED BY <1>1, <1>2, <1>3, <1>4, <1>5, CommandMarks, WakeupMarks, HandleResultMarks
        DEF Next, Outside, Report

\* A pause that finds a task waiting is that of PauseAll, or none: every other
\* step that pauses it would be a restart.
LEMMA PauseSavesWait ==
  ASSUME Unrebuilt, [Next]_vars, NEW t \in IntervalTasks, Running(t), rt[t].wake # 0, ok[t] = {},
         status'[t] = "paused"
  PROVE  row'[t].wait
<1>0. /\ TypeOK /\ t \in Tasks /\ status[t] = "executing" /\ ~mark[t]
      /\ \A u \in Tasks : u = t => status[u] # "paused" /\ status[u] # "waiting" /\ status[u] # "error"
  BY ConstantsAssumption, RunningFacts DEF Unrebuilt, LeaseInv, WaitUnmarked
<1>1. ASSUME NEW S \in SUBSET Tasks, PauseAll(S) PROVE row'[t].wait
  <2>1. t \in S
    BY <1>0, <1>1 DEF PauseAll
  <2> QED BY <1>0, <1>1, <2>1 DEF PauseAll, SavedWait, AllPending
<1>2. CASE Command
  <2>1. ASSUME NEW u \in Tasks, Pause(u) PROVE row'[t].wait
    BY <1>1, <2>1 DEF Pause
  <2>2. ASSUME NEW S \in SUBSET Tasks, PausePhones(S) PROVE row'[t].wait
    <3>1. PICK P \in SUBSET Tasks : PauseAll(P)
      BY <2>2 DEF PausePhones
    <3> QED BY <1>1, <3>1
  <2>3. ASSUME NEW d \in Devices, Kick(d) PROVE row'[t].wait
    <3>1. PICK P \in SUBSET Tasks : PauseAll(P)
      BY <2>3 DEF Kick
    <3> QED BY <1>1, <3>1
  <2>4. ASSUME NEW u \in Tasks, Start(u) \/ Resume(u) \/ Stop(u) \/ Retry(u) \/ ClearDevice(u) PROVE FALSE
    BY <1>0, <2>4 DEF Start, Resume, Stop, Retry, ClearDevice, SetTask, taskVars, TypeOK
  <2>5. ASSUME NEW S \in SUBSET Tasks, Forget(S) PROVE FALSE
    BY <1>0, <2>5 DEF Forget
  <2>6. ASSUME NEW online, ReleaseOffline(online) PROVE FALSE
    BY <1>0, <2>6 DEF ReleaseOffline, MarkError
  <2>7. ASSUME NEW d, Flag(d) \/ Unflag(d) PROVE FALSE
    BY <1>0, <2>7 DEF Flag, Unflag, taskVars
  <2>8. ASSUME Reload \/ \E u \in Tasks : ReloadTask(u) PROVE FALSE
    BY <2>8 DEF Reload, ReloadTask, Unrebuilt, TasksStay
  <2> QED BY <1>2, <2>1, <2>2, <2>3, <2>4, <2>5, <2>6, <2>7, <2>8 DEF Command
<1>3. ASSUME NEW s \in Workers, HandleResult(s) PROVE FALSE
  <2>1. PICK u \in Tasks : \/ Dropped(s, u) \/ Ends(s, u)
                           \/ \E keep \in SUBSET Keywords : Fails(s, u, keep)
                           \/ \E done \in SUBSET Keywords : Continues(s, u, done)
    BY <1>3, ResultCases DEF Unrebuilt
  <2>2. CASE Dropped(s, u)
    BY <1>0, <2>2 DEF Dropped, taskVars
  <2>3. CASE Ends(s, u)
    <3>1. \E st : status' = [status EXCEPT ![u] = st] /\ st \in {"success", status[u]}
      BY <2>3 DEF Ends, Succeed, NextIntervalRound, SetTask
    <3> QED BY <1>0, <3>1 DEF TypeOK
  <2>4. ASSUME NEW keep, Fails(s, u, keep) PROVE FALSE
    <3>1. \A v \in Tasks : status'[v] = (IF v \in {u} THEN "error" ELSE status[v])
      BY <2>4 DEF Fails, MarkError
    <3> QED BY <1>0, <3>1
  <2>5. ASSUME NEW done, Continues(s, u, done) PROVE FALSE
    <3>1. status' = [status EXCEPT ![u] = status[u]]
      BY <2>5 DEF Continues, Reschedule, SetTask
    <3> QED BY <1>0, <3>1 DEF TypeOK
  <2> QED BY <2>1, <2>2, <2>3, <2>4, <2>5
<1>4. ASSUME NEW s \in Workers, Worker(s) \/ \E k \in Keywords : HandleKeywordDone(s, k) PROVE FALSE
  BY <1>0, <1>4 DEF Worker, WorkerKeyword, WorkerEnds, WorkerCancelled, HandleKeywordDone, taskVars
<1>5. ASSUME NEW newDay \in BOOLEAN, Restart(newDay) PROVE FALSE
  <2>1. newDay
    BY <1>5 DEF Restart, Unrebuilt, TasksStay
  <2>2. row'[t].status \in {"none", "waiting"} /\ row'[t].round = 0
    <3>1. row'[t] = IF row[t].status = "none" THEN NoRow ELSE [NoRow EXCEPT !.status = "waiting"]
      BY <1>0, <1>5, <2>1 DEF Restart
    <3> QED BY <3>1 DEF NoRow
  <2>3. RestoredOk(t, row'[t], progress') = {}
    BY <2>2 DEF RestoredOk
  <2>4. status'[t] = RestoredStatus(row'[t], {})
    BY <1>0, <1>5, <2>3 DEF Restart
  <2> QED BY <2>2, <2>4 DEF RestoredStatus
<1>6. ASSUME \/ \E d \in Devices : DeviceUp(d) \/ DeviceDown(d)
             \/ UNCHANGED vars \/ \E w \in wakeups : Wakeup(w[1], w[2])
      PROVE  FALSE
  BY <1>0, <1>6 DEF DeviceUp, DeviceDown, Wakeup, vars, taskVars
<1> QED BY <1>2, <1>3, <1>4, <1>5, <1>6 DEF Next, Outside, Report

\* Where no message rebuilds the tasks, a pause in the wait for the next
\* interval round saves the wait (handle_pause).
THEOREM WaitsSaved == TasksStay /\ Spec => IntervalWaitKept
<1>1. Unrebuilt /\ [Next]_vars => Unrebuilt'
  BY MarksNext, LeaseInvNext DEF Unrebuilt, TasksStay
<1>2. TasksStay /\ Init => Unrebuilt
  <2>1. Init => WaitUnmarked
    BY DEF Init, WaitUnmarked, NoRuntime
  <2> QED BY <2>1, InitLeaseInv DEF Unrebuilt
<1>3. Unrebuilt /\ [Next]_vars =>
        [\A t \in IntervalTasks :
           Running(t) /\ rt[t].worker = 0 /\ rt[t].wake # 0 /\ ok[t] = {} /\ status'[t] = "paused"
             => row'[t].wait]_vars
  BY PauseSavesWait
<1> QED BY <1>1, <1>2, <1>3, PTL DEF Spec, IntervalWaitKept
=============================================================================
