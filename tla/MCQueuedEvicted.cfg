SPECIFICATION Spec
CONSTANTS
    Adds = {a1, a2, a3}
    Tracks = {t1, t2, t3}
    CacheWindow = 2
PROPERTIES
    QueuedTracksAreNeverEvicted
CHECK_DEADLOCK FALSE
