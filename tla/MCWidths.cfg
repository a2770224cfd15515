SPECIFICATION FrontSpec
CONSTANTS
    Symbol <- MCSymbol
    LineFeed <- MCLineFeed
    WordSymbol = {"a", "b"}
    Ordinal = {0}
    AsciiLimit = 128
    MaxUnit = 65535
    Code <- MCCode
    Fold <- MCFold
    MaxCounted = 10
    MaxNesting = 2
    Ascii <- MCAscii
    MaxPrefix = 2
    Probes <- MCProbes
    Texts <- MCTexts
    Files <- SkippedClasses
    Registrations = {}
INVARIANTS
    ImpossibleMatchesNothing
CHECK_DEADLOCK FALSE
