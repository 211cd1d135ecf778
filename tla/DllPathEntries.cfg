SPECIFICATION Spec
CONSTANTS
    NUL = NUL
    Paths <- MCPaths
    Prepend <- MCPrepend
    AppendFails = FALSE
    MaxEntries = 4
    MaxLetters = 1
INVARIANT EntriesArePresent
CHECK_DEADLOCK FALSE
