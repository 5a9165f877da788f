CONSTANTS
    RawRecords <- MCRawRecords
    MaxAnswer = 2
    Scopes <- MCScopes
    BuildOutcomes <- MCBuildOutcomes

SPECIFICATION Spec

INVARIANTS
    TypeOK
    SelectsUniqueRecord

\* lookupRecord returns once; the lookup really ends there.
CHECK_DEADLOCK FALSE
