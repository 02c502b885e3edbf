SPECIFICATION Spec
CONSTANTS
  p1 = p1  p2 = p2  t1 = t1
  None = None
  Phones = {p1, p2}
  Tasks = {t1}
  Reachable = {p1}
  Connected <- Cables
  MaxFetch = 1
  Commands = {"switch", "remove", "disconnect", "add", "restart", "kick", "flag", "unflag", "newday"}
  MaxPort = 2
  MaxEvents = 1
CHECK_DEADLOCK FALSE
INVARIANTS TypeOK PortsUnique 
