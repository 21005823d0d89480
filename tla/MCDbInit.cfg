\* The values of the code: five attempts, and 60 s in units of 10 s.
SPECIFICATION FairSpec
CONSTANTS
    MAX_RETRIES = 5
    Limit = 6
INVARIANTS
    ReportedComplete
    CutOffOnlyIfHung
    DependenciesFirst
    IndInv
PROPERTIES
    EventuallyInitialised
\* The initialisation is done once.
CHECK_DEADLOCK FALSE
