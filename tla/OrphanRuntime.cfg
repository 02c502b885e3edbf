SPECIFICATION Spec
CONSTANTS
  p1 = p1  p2 = p2  t1 = t1  t2 = t2
  Phones = {p1, p2}
  Tasks = {t1, t2}
  Owner <- OneEach
  Events = {"sync", "drops"}
  MaxCalls = 1
  MaxEvents = 3
CHECK_DEADLOCK FALSE
INVARIANT RunsHaveDefs
