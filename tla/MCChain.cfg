\* Two sessions, one log directory, all kinds of stack.
SPECIFICATION Spec
CONSTANTS
    s1 = s1
    s2 = s2
    d1 = d1
    slow = slow
    fast = fast
    Sessions = {s1, s2}
    Dirs = {d1}
    LogDir <- SharedLogDir
    Stacks = {"docker", "raw", "external"}
    Phases <- TwoPlans
    Restore = rest
    NoLink = NoLink
    Nobody = Nobody
INVARIANTS
    LinkInEffect
    NothingLeftRunning
    RestoredOnExit
    ExitTruthful
\* Sessions end.
CHECK_DEADLOCK FALSE
