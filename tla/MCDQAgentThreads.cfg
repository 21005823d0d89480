\* Two execution ARNs and fair containers; the table does not change.  No
\* symmetry, which TLC cannot combine with liveness.
SPECIFICATION FairSpec
CONSTANTS
    Attempts = {a1, a2}
    Arns = {t1, t2}
    Contents <- MCContents
    NullThresholdNum = 5
    NullThresholdDen = 100
    SubmitAttempts = 3
    PollLimit = 1
    MaxCommits = 0
    NoArn = NoArn
    NoProfile = NoProfile
    NoManifest = NoManifest
    NoEntry = NoEntry
INVARIANTS
    AuditTrailJustified
    AuditInv
    OutcomeTruthful
PROPERTIES
    EveryAttemptEnds
    AttemptsProgress
