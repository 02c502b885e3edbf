SPECIFICATION Spec
CONSTANTS
  t1 = t1  t2 = t2  d1 = d1  d2 = d2  k1 = k1  k2 = k2
  None = None
  Tasks = {t1, t2}
  Devices = {d1, d2}
  Keywords = {k1}
  IntervalTasks = {}
  Commands = {"start", "pausephones", "resume", "retry", "kick", "up"}
  RoundOutcomes = {TRUE}
  EmptyBatches = TRUE
  MaxWorkers = 2
  MaxRounds = 2
  MaxRuns = 2
  MaxWakeups = 1
  HeapSlack = 0
VIEW ButRuns
SYMMETRY Symmetry
INVARIANTS  LeaseExclusive  ActiveWorkerReports   RoundInv
PROPERTIES StaleReportsIgnored 
