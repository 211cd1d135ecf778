SPECIFICATION FairSpec
CONSTANTS
    NUL = NUL
    Paths <- MCPaths
    Prepend <- MCPrepend
    AppendFails = TRUE
    MaxEntries = 5
    MaxLetters = 3
INVARIANTS
    SearchOrderIsKept
    LengthIsMaintained
    FoundIsThere
PROPERTY Terminates
CHECK_DEADLOCK FALSE
