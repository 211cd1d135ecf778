SPECIFICATION FairSpec
CONSTANTS
    root = root
    child = child
    grandchild = grandchild
    t1 = t1
    Procs <- MCProcs
    Root = root
    Threads <- MCThreads
    Nobody = Nobody
    OSBits = 64
    Bits <- MCBits
    IfeoKey <- MCKeys
    MaxFailed = 1
    MaxEnded = 1
INVARIANTS
    NoDanglingHook
    CleanWhenEnabled
    PropagatesAsTold
    StartsAsAsked
PROPERTY ResumedInTheEnd
CHECK_DEADLOCK FALSE
