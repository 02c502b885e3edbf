SPECIFICATION Spec
CONSTANTS
  p1 = p1  p2 = p2  t1 = t1
  None = None
  Phones = {p1}
  Tasks = {t1}
  Reachable = {p1}
  Connected <- Everywhere
  MaxFetch = 1
  Commands = {"switch", "remove", "disconnect", "add", "restart", "kick", "flag", "unflag", "newday", "sweep", "reconnect"}
  MaxPort = 1
  MaxEvents = 1
CHECK_DEADLOCK FALSE
PROPERTIES RowKeepsFlagAndPort SwitchEndsInOneRow
