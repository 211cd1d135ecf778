SPECIFICATION FairSpec
CONSTANTS
  None = None
  Servers = {s1, s2}
  Clients = {c1}
  MaxInstances = 2
  Quota = 2
  Size <- MCSize
  Faults = {"dir", "log", "alloc", "garbage"}
PROPERTIES
  ConnectionsAreAccepted
  FirstMessageArrives
CHECK_DEADLOCK FALSE
