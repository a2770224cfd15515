SPECIFICATION GateSpec
CONSTANTS
    QualitySteps <- MCQualitySteps
    FixtureSets <- MCFixtureSets
    Adapters <- MCAdapters
    Homes <- MCHomes
    OracleTexts = {0, 1}
INVARIANTS
    GatePassMeansEvidenceHolds
CHECK_DEADLOCK FALSE
