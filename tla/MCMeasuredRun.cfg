\* Two runs, which may overlap, on one shaper.
SPECIFICATION RunSpec
CONSTANTS
    Leases = {r1, r2}
    Sources = {s1}
    Conns = {c1}
    Articles = {}
    Readers = {r1, r2}
    NoLease = NoLease
    NoSource = NoSource
    NoArticle = NoArticle
    MaxLate = 1
    MaxAcquired = 3
    MaxOpened = 2
    MaxBytes = 1
    MaxRequests = 0
SYMMETRY Symmetry
INVARIANTS
    CreditSound
    LeaseStrandedOnlyByLoss
\* The bounded counters run out and the runs end.
CHECK_DEADLOCK FALSE
