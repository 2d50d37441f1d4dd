CONSTANTS
    CacheNum = 3
    FrameLens = {1, 2, 3}
    Policies = {"SQUEEZE", "DISCARD"}
    MaxPush = 5
CHECK_DEADLOCK FALSE
SPECIFICATION WndSpec
INVARIANTS
    WndTypeOK
    FramesDisjoint
    FramesIntact
    SizeAccounts
    SpaceIfUniform
    ScreenIsCurrent
PROPERTIES
    ImplementsQueue
    ShownForward
    DrawnInShape
