CONSTANTS
    MediaTypes = {"FILE"}
    loop_playback = {FALSE}
    retry_maxcnt = 2
    retry_interval = 1
    MaxEvents = 2
    MaxTimers = 1
    MaxBoxes = 2
CHECK_DEADLOCK FALSE
SPECIFICATION Spec
INVARIANTS
    NoCrash
