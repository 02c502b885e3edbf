SPECIFICATION Spec
CONSTANTS
  t1 = t1  t2 = t2  d1 = d1  d2 = d2  k1 = k1  k2 = k2
  None = None
  Tasks = {t1}
  Devices = {d1}
  Keywords = {k1, k2}
  IntervalTasks = {}
  Commands = {"start", "pause", "resume", "reload", "stop", "reloadtask", "forget", "restart", "newday", "up"}
  RoundOutcomes = {TRUE}
  EmptyBatches = FALSE
  MaxWorkers = 2
  MaxRounds = 2
  MaxRuns = 2
  MaxWakeups = 1
  HeapSlack = 0
INVARIANTS ProgressInv  RoundOpen ProgressRecoverable LedgerFollowsRuntime
PROPERTY CompletedRoundFull
