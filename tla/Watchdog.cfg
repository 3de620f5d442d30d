\* Either job, with a timeout of four intervals.
SPECIFICATION FairSpec
CONSTANTS
    Timeout <- MCTimeout
    Interval <- MCInterval
INVARIANTS
    TypeOK
    SilenceBounded
PROPERTIES
    ExitHasCause
    ValidatorsExitMeansOutdated
    FlagIsReleased
