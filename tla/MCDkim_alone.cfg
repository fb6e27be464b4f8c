SPECIFICATION Spec
CONSTANTS
    Domain = {d1, d2}
    Installed = {d1, d2}
    Caller = {c1}
    KeyPair = {k1, k2, k3, k4}
    Ops <- AllOps
    HostKnown = TRUE
    Overlap = FALSE
    Faults = TRUE
    None = None
    Blank = Blank
    NotFound = NotFound
SYMMETRY DkimSymmetry
INVARIANTS
    TypeOK
    Provisioned
    SignsWithKeyOnDisk
PROPERTIES
    NeverOverwrites
