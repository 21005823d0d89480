\* Expected to be violated: IdempotentWrite.
SPECIFICATION Spec
CONSTANTS
    Executions = {e1, e2}
    Keys <- MCKeys
    Files <- MCGood
    Object <- MCObjectGood
    MaxAttempts = 2
    NoFile = NoFile
    k1 = k1
    k2 = k2
    plain = plain
    nulls = nulls
    twice = twice
    keyless = keyless
    empty = empty
    flat = flat
    misplaced = misplaced
INVARIANTS
    IdempotentWrite
