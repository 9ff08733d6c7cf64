\* One run: it ends, its lease is freed, its census adds up.
SPECIFICATION RunFairSpec
CONSTANTS
    Leases = {r1}
    Sources = {s1}
    Conns = {c1}
    Articles = {a1}
    Readers = {r1}
    NoLease = NoLease
    NoSource = NoSource
    NoArticle = NoArticle
    MaxLate = 1
    MaxAcquired = 2
    MaxOpened = 2
    MaxBytes = 1
    MaxRequests = 2
PROPERTIES
    RunsEnd
    BackgroundFrees
\* The bounded counters run out and the run ends.
CHECK_DEADLOCK FALSE
