SPECIFICATION Spec
CONSTANTS
  t1 = t1  t2 = t2  d1 = d1  d2 = d2  k1 = k1  k2 = k2
  None = None
  Tasks = {t1}
  Devices = {d1}
  Keywords = {k1, k2}
  IntervalTasks = {t1}
  Commands = {"start", "pause", "resume", "offline", "clear", "up", "down", "flag", "unflag"}
  RoundOutcomes = {TRUE, FALSE}
  EmptyBatches = TRUE
  MaxWorkers = 2
  MaxRounds = 3
  MaxRuns = 5
  MaxWakeups = 4
  HeapSlack = 0
VIEW ButRuns
INVARIANTS HeapInv HeapCoversArmed
PROPERTY IntervalWaitKept
