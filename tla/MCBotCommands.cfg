SPECIFICATION Spec
CONSTANTS
    MaxQueueSize = 3
    MaxTracks = 3
    Clients = {bot}
    Bot = bot
    Rate = 1
    Burst = 2
    MaxIdle = 1
    MaxClock = 2
    NoLimiter = NoLimiter
    Interactions = {i1}
PROPERTIES
    RemovesTheTrackListed
    SaysWhatWasSo
    ForgetsFullBucketsOnly
CHECK_DEADLOCK FALSE
