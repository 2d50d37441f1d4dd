CONSTANTS
    Cells = {c1, c2}
    NoCell = NoCell
    MaxChunks = 2
CHECK_DEADLOCK FALSE
SPECIFICATION Spec
INVARIANTS
    VideoStays
