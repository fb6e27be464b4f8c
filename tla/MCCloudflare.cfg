SPECIFICATION Spec
CONSTANTS
    Caller = {b1, b2}
    Key = {k1, k2}
    ApiToken = {t1}
    Client = {o1, o2}
    Overlap = FALSE
    Faults = TRUE
    None = None
    Empty = Empty
SYMMETRY CfSymmetry
INVARIANTS
    OneConnection
    TokensOfClient
    StoredReadable
