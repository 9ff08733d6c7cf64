\* Two controllers on one NFS container.
SPECIFICATION Spec
CONSTANTS
    c1 = c1
    c2 = c2
    Controllers = {c1, c2}
    Plans <- SmallPlans
    None = None
INVARIANTS
    LeakIsFailure
    StorageExclusive
    ExitTruthful
\* Controllers exit.
CHECK_DEADLOCK FALSE
