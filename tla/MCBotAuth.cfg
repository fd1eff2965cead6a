SPECIFICATION Spec
CONSTANTS
    Nonces = {n1, n2, n3}
    NonceTTL = 1
    TokenTTL = 1
    Stops = {d1, d2}
    None = None
    MaxTime = 2
SYMMETRY Symmetry
INVARIANTS
    BotRefusedOnlyWhenLate
CHECK_DEADLOCK FALSE
