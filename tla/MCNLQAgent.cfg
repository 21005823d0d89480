\* Two requests, the threshold of the load balancer, and fair calls except of
\* Athena.
SPECIFICATION FairSpec
CONSTANTS
    Requests = {r1, r2}
    NoRequest = NoRequest
    UnhealthyThreshold = 3
INVARIANTS
    ResponseTruthful
    OnlyValidatedSqlRuns
    IndInv
PROPERTIES
    ImplementsAskService
    EveryRequestEnds
