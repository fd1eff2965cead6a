SPECIFICATION FairSpec
CONSTANTS
    MaxQueueSize = 3
    MaxTracks = 3
    SilentCalls = 1
    Clicks = 1
INVARIANTS
    PageTypeOK
    PollingStopsWithThePage
PROPERTIES
    RemovesTheTrackShown
    RemovesNoneBefore
    SelfHeals
CHECK_DEADLOCK FALSE
