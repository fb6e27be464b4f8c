SPECIFICATION FrontSpec
CONSTANTS
    Client = {c1, c2}
    ann = ann
    eve = eve
    home = home
    away = away
    Domain = {home, away}
    Hostable = {home}
    Addr = {ann, eve}
    DomainOf <- MCDomainOf
    Password = {p1}
    ApiKey = {k1}
    Policies = {"members", "owners"}
    Token = {}
    TokenName = {}
    ScopeLists <- MCScopeLists
    Ops <- GroupUpdateOps
    Faults = TRUE
    None = None
    MaxDomainId = 2
    MaxGroupId = 1
    MaxBatch = 1
SYMMETRY ClientSymmetry
PROPERTIES
    OmittedFieldsKept
