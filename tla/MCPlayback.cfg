SPECIFICATION MCSpec
CONSTANTS
    Adds = {1, 2, 3}
    MaxQueueSize = 2
    None = None
INVARIANTS
    PlayingIsHead
    NoLostWakeup
    RecordedOnce
    SkipIsNotLate
PROPERTIES
    SkipEndsTheTrack
    CancelEndsTheStream
    PlaysLikeAStation
    ServesItsQueue
CHECK_DEADLOCK FALSE
