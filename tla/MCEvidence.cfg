SPECIFICATION EvidenceSpec
CONSTANTS
    Symbol <- MCSymbol
    LineFeed <- MCLineFeed
    WordSymbol = {"a", "b"}
    Ordinal = {0}
    AsciiLimit = 128
    MaxUnit = 65535
    Code <- MCCode
    Fold <- MCFold
    MaxCounted = 10
    MaxNesting = 2
    Ascii <- MCAscii
    MaxPrefix = 2
    Probes <- MCProbes
    Texts <- MCTexts
    Files <- MCFiles
    Registrations <- MCRegistrations
    Commands <- MCCommands
    Expected <- MCExpected
    Deliveries <- MCDeliveries
    Reports = {"ordinary", "specialized"}
    Durations = {0, 1, 2}
    Hash <- MCHash
    PatternOf <- MCPatternOf
    WordBits = 4
    ExclusiveOr <- MCXor
    Requests <- MCRequests
    MaxPoints = 2000000000
    Revision <- MCRevision
    Repositories <- MCRepositories
    Ledgers <- MCLedgers
    Edits <- MCEdits
    Drawings = {"one", "another"}
    MaxEdits = 1
    MaxCrashes = 1
    Campaigns <- MCCampaigns
    Configurations = 2
    OwnCases = 1
    BuildErrors = 2
    Results <- MCResults
    QualitySteps <- MCQualitySteps
    FixtureSets <- MCFixtureSets
    Adapters <- MCAdapters
    Homes <- MCHomes
    OracleTexts = {0, 1}
INVARIANTS
    AcceptsTheGrammar
    RefusalsPointInside
    PredicatesHaveOneForm
    ReportIsSound
    MeasurementIsHonest
    AdmissionIsExact
    PublicationIsSound
    ParityIsExact
    GateIsHonest
CHECK_DEADLOCK FALSE
