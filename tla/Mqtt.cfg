SPECIFICATION FairSpec
CONSTANTS
  Ops = {"connect", "disconnect"}
  MaxCalls = 2
  MaxFailures = 2
CHECK_DEADLOCK FALSE
INVARIANTS ManagerInv WantedLoopRuns
PROPERTIES SupersededExits WantedConnects
