SPECIFICATION ProxySpec
CONSTANTS
    Sizes = {1, 2}
    Capacity = 2
    Delay = 2
    MaxChunks = 2
    MaxCommands = 1
INVARIANTS
    FloorNotEarly
PROPERTIES
    PumpReturns
    PipeSpec
    ActiveWhileUsed
