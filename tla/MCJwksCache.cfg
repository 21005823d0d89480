\* Two threads, two keys, and more instants than the bound on a set's age.
SPECIFICATION Spec
CONSTANTS
    Threads = {t1, t2}
    Keys = {k1, k2}
    NoKid = NoKid
    TTL = 1
    CallTime = 1
    MaxTime = 5
SYMMETRY MCSymmetry
INVARIANTS
    IndInv
PROPERTIES
    WithdrawnKeysExpire
    PublishedKeysAreKnown
    CacheGoesForward
