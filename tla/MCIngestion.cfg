\* Two announcements of every kind of object, with the two retries of main.tf:
\* races, conflicts, crashes, retries.
SPECIFICATION FairSpec
CONSTANTS
    Executions = {e1, e2}
    Keys <- MCKeys
    Files <- MCFiles
    Object <- MCObject
    MaxAttempts = 2
    NoFile = NoFile
    k1 = k1
    k2 = k2
    plain = plain
    nulls = nulls
    twice = twice
    keyless = keyless
    empty = empty
    flat = flat
    misplaced = misplaced
INVARIANTS
    TypeOK
    IngestedIsPresent
    DuplicatesComeFromOneFile
    IndInv
    OneCopyPerRun
    CreationsWithinExecutions
    CountInv
PROPERTIES
    ImplementsStore
    MergesOnlyAdd
    ExecutionsProgress
    EveryExecutionEnds
