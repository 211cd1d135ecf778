SPECIFICATION Spec
CONSTANTS
    NUL = NUL
    NotFound = NotFound
    NoMapper = NoMapper
    Unknown = Unknown
    Threads = {1, 2}
    Main = 1
    UpCase <- MCUpCase
    Hash <- MCHash
    Table <- MCTable
    Messages <- MCMessages
    WinVers = {0, 3, 9}
    Strongs = {{}, {"sharedUserData"}}
    Places = {0, 1, 65}
    MaxMappers = 2
    MaxMessages = 1
    MaxFailed = 1
INVARIANTS
    SourceFileIsRight
    ErrorsAreLogged
    VersionsAgree
    ConfigurationHasPrecedence
    LogsHaveTheirPlace
CHECK_DEADLOCK FALSE
