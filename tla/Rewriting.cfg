SPECIFICATION FairSpec
CONSTANTS
    NUL = NUL
    NotFound = NotFound
    Deleted = Deleted
    NoMapper = NoMapper
    Stems <- MCStems
    StemCch <- MCStemCch
    UpCase <- MCUpCase
    Hash <- MCHash
    Values <- MCValues
    Images <- MCImages
    Exe = "exe"
    ImportsOf <- MCImportsOf
    Place <- MCPlace
    Kind <- MCKind
    MaxChanges = 1
    MaxFailed = 1
    MaxValues = 3
INVARIANTS
    MapperIsAMap
    LookupsAreRight
    MapperHoldsRegistry
    ImportsAreMapped
PROPERTY InitializationEnds
CHECK_DEADLOCK FALSE
