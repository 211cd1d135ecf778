SPECIFICATION Spec
CONSTANTS
  None = None
  Servers = {s1, s2}
  Clients = {c1, c2}
  MaxInstances = 3
  Quota = 2
  Size <- MCSize
  Faults = {"dir", "alloc", "garbage"}
SYMMETRY MCSymmetry
INVARIANTS
  EventTellsOfClients
  HandlesAreOwned
  MessagesKeepTheirOrder
CHECK_DEADLOCK FALSE
