SPECIFICATION Spec
CONSTANTS
    t1 = t1
    t2 = t2
    A = A
    B = B
    Long = Long
    NoName = NoName
    Threads = {t1, t2}
    Severities = {"error", "debug"}
    LongNames = {Long}
    SlotCount = 2
    Requests <- MCRequests
    Flags <- MCFlags
    Foreign = {"other"}
    MaxWritten = 2
    Garbage = {0, 4, 8}
    MaxOpened = 3
    MaxCrashes = 2
    MaxFailed = 2
INVARIANTS
    FileIsWhatWasWritten
    ReaderTellsWhatWasWritten
    OpensAsAsked
SYMMETRY Symmetric
CHECK_DEADLOCK FALSE
