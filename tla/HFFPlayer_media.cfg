SPECIFICATION FairPlayerSpec
CHECK_DEADLOCK FALSE
INVARIANTS
    PlayerTypeOK
    TaskHasAll
    GoneHoldsNothing
    OnlyHelperLeaks
    PauseSticks
    PauseIsPrompt
    NoCatchUp
    StopLeavesStopped
    FinishUnshared
PROPERTIES
    StopInterrupts
