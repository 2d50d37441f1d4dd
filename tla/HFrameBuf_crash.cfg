CONSTANTS
    CacheNum = 3
    FrameLens = {1, 2}
    Policies = {"SQUEEZE"}
    MaxPush = 8
CHECK_DEADLOCK FALSE
SPECIFICATION Spec
INVARIANTS
    SpaceIsLeft
