SPECIFICATION Spec
CONSTANTS
    Nonces = {n1, n2}
    NonceTTL = 0
    TokenTTL = 1
    Stations = {s1}
    Archives = {a1}
    None = None
    MaxTime = 2
SYMMETRY Symmetry
INVARIANTS
    TokensAreBacked
    GoneStaysGone
PROPERTIES
    LoginEndsWithItsToken
CHECK_DEADLOCK FALSE
