SPECIFICATION Spec
CONSTANTS
    Client = {c1, c2}
    ann = ann
    eve = eve
    home = home
    away = away
    Domain = {home, away}
    Hostable = {home, away}
    Addr = {ann, eve}
    DomainOf <- MCDomainOf
    Password = {p1, p2}
    ApiKey = {k1, k2, k3}
    Policies = {"members"}
    Ops <- AllOps
    Faults = TRUE
    None = None
    MaxDomainId = 2
    MaxGroupId = 2
    MaxBatch = 2
SYMMETRY ClientSymmetry
CONSTRAINT OneConcern
INVARIANTS
    IndInv
    OneCatchAll
    KeyAuthority
PROPERTIES
    CreateOnlyAdds
    LedgerKept
