\* A byte takes 5/3 units, so every chunk is truncated; the burst clips the chunk.
SPECIFICATION Spec
CONSTANTS
    Callers = {c1, c2}
    Second = 5
    Rate = 3
    BurstBytes = 2
    MaxPacedChunk = 3
    Writes = {1, 3}
    MaxClock = 8
    MaxGrants = 4
SYMMETRY Symmetry
INVARIANTS
    PacedBetween
    RateContract
    BytesPacedUpToTruncation
\* The clock and the reservations are bounded.
CHECK_DEADLOCK FALSE
