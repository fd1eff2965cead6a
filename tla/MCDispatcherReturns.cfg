SPECIFICATION Spec
CONSTANTS
    Ids = {i1}
    Creates = {c1, c2}
    Deletes = {d1}
    MaxSessions = 1
    EventBuffer = 1
    None = None
INVARIANTS
    DispatcherKeepsRunning
CHECK_DEADLOCK FALSE
