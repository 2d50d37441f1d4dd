CONSTANTS
    Cells = {c1, c2}
    NoCell = NoCell
    MaxChunks = 1
CHECK_DEADLOCK FALSE
SPECIFICATION FairSpec
INVARIANTS
    TypeOK
    OneSoundAtATime
    ChunkFinished
PROPERTIES
    SoundStops
