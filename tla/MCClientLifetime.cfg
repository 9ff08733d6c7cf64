SPECIFICATION Spec
CONSTANTS
    MaxRuns = 2
    Lanes <- AllLanes
INVARIANTS
    NothingLeftBehind
    OwnClient
    RecordedOutcome
PROPERTIES
    RunEnds
