CONSTANTS
    Texts <- MCTexts
    integerOf <- MCintegerOf
    parseIntOf <- MCparseIntOf
    fileText <- MCfileText
    Processes <- MCProcesses
    release <- MCrelease
    envs <- MCenvs
    MaxSnapshots = 2
    MaxDowns = 1

SPECIFICATION Spec

INVARIANTS
    TypeOK
    SchemaIsOfVersion
    WholeOrEmpty
    FailsOnlyByRace
    ValidatedConfigSuffices
    EmptyIsUnset

PROPERTY
    ClosingStopsJobs
