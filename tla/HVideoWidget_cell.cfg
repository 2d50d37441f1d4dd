CONSTANTS
    MediaTypes = {"FILE", "NETWORK"}
    loop_playback = {TRUE, FALSE}
    retry_maxcnt = 2
    retry_interval = 1
    MaxEvents = 2
    MaxTimers = 1
    MaxBoxes = 2
CHECK_DEADLOCK FALSE
SPECIFICATION FairSpec
INVARIANTS
    TypeOK
    ObjectsPaired
    StatusMatchesPlayer
    ThreadsJoined
    NoLimbo
    ClosedStaysClosed
PROPERTIES
    PlayingStopReturns
