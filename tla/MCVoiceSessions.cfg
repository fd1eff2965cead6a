SPECIFICATION FairSpec
CONSTANTS
    Plays = {p1, p2, p3}
    Stops = {d1}
    None = None
INVARIANTS
    TypeOK
    NoLeakedVoice
    StuckNeedsASharedConnection
    PlaybackOwnsTheSession
PROPERTIES
    VoiceFollowsServer
CHECK_DEADLOCK FALSE
