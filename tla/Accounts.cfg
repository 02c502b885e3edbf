SPECIFICATION Spec
CONSTANTS
  p1 = p1  p2 = p2  t1 = t1  t2 = t2
  Phones = {p1, p2}
  Tasks = {t1, t2}
  Owner <- OneEach
  Events = {"sync", "unbind", "ack", "moves", "adds", "drops", "restart", "nameless"}
  MaxCalls = 2
  MaxEvents = 4
CHECK_DEADLOCK FALSE
INVARIANTS TypeOK EngineMatchesDefs DefsAreOwned
