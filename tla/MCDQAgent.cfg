\* Two attempts at one execution ARN, and one commit of the pipeline: every
\* interleaving, crash and failed call.
SPECIFICATION Spec
CONSTANTS
    Attempts = {a1, a2}
    Arns = {t1}
    Contents <- MCContents
    NullThresholdNum = 5
    NullThresholdDen = 100
    SubmitAttempts = 2
    PollLimit = 1
    MaxCommits = 1
    NoArn = NoArn
    NoProfile = NoProfile
    NoManifest = NoManifest
    NoEntry = NoEntry
SYMMETRY MCSymmetry
INVARIANTS
    TypeOK
    CertifiedOnEvidence
    LabelOfOneAttempt
    OutcomeTruthful
    AuditTrailJustified
    IndInv
PROPERTIES
    ImplementsGate
