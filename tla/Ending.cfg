SPECIFICATION FairSpec
CONSTANTS
  t1 = t1  t2 = t2  d1 = d1  d2 = d2  k1 = k1  k2 = k2
  None = None
  Tasks = {t1, t2}
  Devices = {d1}
  Keywords = {k1, k2}
  IntervalTasks = {}
  Commands = {"start", "offline", "reload", "up", "down"}
  RoundOutcomes = {TRUE, FALSE}
  EmptyBatches = FALSE
  MaxWorkers = 4
  MaxRounds = 2
  MaxRuns = 2
  MaxWakeups = 2
  HeapSlack = 0
CHECK_DEADLOCK FALSE
INVARIANT TypeOK
PROPERTY StartedEnds
