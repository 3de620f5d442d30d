\* The keys job exits although its db is up to date.
SPECIFICATION Spec
CONSTANTS
    Timeout <- MCTimeout
    Interval <- MCInterval
PROPERTY
    ExitMeansOutdated
