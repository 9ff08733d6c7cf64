\* Two runs, any client, queued or one after the other.
SPECIFICATION Spec
CONSTANTS
    Inputs <- SmallInputs
    JobTimeout = 1
    Slack = 1
    Floor = 1
INVARIANTS
    TerminalBracketed
    ResultAccepted
PROPERTIES
    TimeoutHonest
    Ends
\* The adapter returns.
CHECK_DEADLOCK FALSE
