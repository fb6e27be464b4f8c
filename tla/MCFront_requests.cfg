SPECIFICATION FrontSpec
CONSTANTS
    Client = {c1, c2}
    ann = ann
    eve = eve
    home = home
    away = away
    Domain = {home, away}
    Hostable = {home, away}
    Addr = {ann, eve}
    DomainOf <- MCDomainOf
    Password = {p1}
    ApiKey = {k1}
    Policies = {"members"}
    Token = {t1}
    TokenName = {n1}
    ScopeLists <- MCScopeLists
    Ops <- AllOps
    Faults = TRUE
    None = None
    MaxDomainId = 2
    MaxGroupId = 1
    MaxBatch = 2
SYMMETRY ClientSymmetry
CONSTRAINT Bounded
INVARIANTS
    FrontTypeOK
    FrontInv
PROPERTIES
    OwnDomainOnly
    ScopesHonoured
    DashboardChangesRecorded
