SPECIFICATION Spec
CONSTANTS
    Symbol = {"a", "b", "lf"}
    LineFeed = "lf"
    WordSymbol = {"a", "b"}
    Ordinal = {0, 1}
    Jobs <- MCCachedJobs
    Budgets = {1, 2, 3, 7}
    IdLimit = 4
    GenerationModulus = 3
    HashValue = {0, 1, 2}
    StateSetHash <- MCHash
INVARIANTS
    LookupIsExact
    SlotsAreExact
    NoStaleStamp
    UncachedOnlyUnderPressure
    PressureIsReported
PROPERTIES
    NoEviction
    ImplementsScan
CHECK_DEADLOCK FALSE
