\* Expected to be violated: ResumesWhereLeftOff.
SPECIFICATION Spec
CONSTANTS
    Attempts = {a1, a2}
    Arns = {t1}
    Contents <- MCContents
    NullThresholdNum = 5
    NullThresholdDen = 100
    SubmitAttempts = 2
    PollLimit = 1
    MaxCommits = 1
    NoArn = NoArn
    NoProfile = NoProfile
    NoManifest = NoManifest
    NoEntry = NoEntry
PROPERTIES
    ResumesWhereLeftOff
