CONSTANTS
    MediaTypes = {"FILE"}
    loop_playback = {FALSE}
    retry_maxcnt = 1
    retry_interval = 1
    MaxEvents = 2
    MaxTimers = 1
    MaxBoxes = 2
CHECK_DEADLOCK FALSE
SPECIFICATION FairSpec
PROPERTIES
    StopEnds
