SPECIFICATION Spec
CONSTANTS
  p1 = p1
  p2 = p2
  t1 = t1
  t2 = t2
  t3 = t3
  r1 = r1
  None = None
  Absent = "absent"
  Foreign = "foreign"
  Empty = ""
  Processes = {p1, p2}
  Threads = {t1, t2, t3}
  Readers = {r1}
  ProcOf <- MCProcOf
  Apps <- MCApps
  AppOf <- MCAppOf
  Dispositions <- MCDispositions
  Severities <- MCSeverities
  Names <- MCNames
  Stored <- MCStored
  NumTables = 2
  SlotCount = 2
  Requests <- MCRequests
  FaultReport <- MCFaultReport
  Faults = {}
  MaxRecords = 2
INVARIANTS
  NoSelfDeadlock
CHECK_DEADLOCK FALSE
