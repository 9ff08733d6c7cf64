\* Admission, lease, counters and a snapshot reader.
SPECIFICATION Spec
CONSTANTS
    Leases = {l1, l2}
    Sources = {s1, s2}
    Conns = {c1, c2}
    Articles = {a1}
    Readers = {r1}
    NoLease = NoLease
    NoSource = NoSource
    NoArticle = NoArticle
    MaxAcquired = 2
    MaxOpened = 3
    MaxBytes = 2
    MaxRequests = 2
SYMMETRY Symmetry
INVARIANTS
    LeaseCoversConnections
    OneSourcePerLease
    BytesConserved
    BalancedSnapshotIsACut
PROPERTIES
    LeaseHandover
\* The bounded counters run out.
CHECK_DEADLOCK FALSE
