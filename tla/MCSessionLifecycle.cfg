SPECIFICATION FairSpec
CONSTANTS
    Ids = {i1, i2}
    Creates = {c1, c2}
    Deletes = {d1}
    MaxSessions = 1
    EventBuffer = 1
    None = None
INVARIANTS
    NoSessionOutlivesItsStream
    EverySessionHasAStream
    UndisturbedStreamOwnsItsSession
    OnlyDeletesStopTheDispatcher
PROPERTIES
    WaitingCallIsAnswered
    CancelledStreamEnds
CHECK_DEADLOCK FALSE
