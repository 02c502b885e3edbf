SPECIFICATION FairSpec
CONSTANTS
  k1 = k1  k2 = k2
  Keywords = {k1}
  Commands = {"start", "retry", "pause", "stop", "restart", "newday", "forget"}
  MaxRounds = 2
  MaxScans = 2
  MaxWorkers = 2
  MaxUploads = 1
  MaxFailures = 1
  MaxCrashes = 1
CHECK_DEADLOCK FALSE
INVARIANT OutboxInv
PROPERTIES PendingUntilDelivered EventuallyUploaded ImplementsOutbox
