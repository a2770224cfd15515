SPECIFICATION FairSpec
CONSTANTS
    Symbol = {"a", "b", "lf"}
    LineFeed = "lf"
    WordSymbol = {"a", "b"}
    Ordinal = {0, 1, 2, 3}
    Jobs <- MCEngineJobs
PROPERTIES
    ImplementsScan
    ImplementsSelection
CHECK_DEADLOCK FALSE
