SPECIFICATION RoutingSpec
CONSTANTS
    Client = {c1}
    ann = ann
    bob = bob
    cid = cid
    annTag = annTag
    eve = eve
    home = home
    away = away
    Domain = {home, away}
    Hostable = {home, away}
    Addr = {ann, bob, cid, annTag, eve}
    DomainOf <- MCDomainOf
    Untag <- MCUntag
    Password = {p1}
    ApiKey = {}
    Policies = {"anyone", "organization", "members", "owners"}
    Ops <- RoutingOps
    Faults = FALSE
    None = None
    MaxDomainId = 2
    MaxGroupId = 2
    MaxBatch = 1
CONSTRAINT FewCombined
INVARIANTS
    TypeOK
    NamespaceDisjoint
    LiveMailboxHasSpool
    PolicyEnforced
    NestedGroupsDeliver
    CatchAllOnlyForUnused
PROPERTIES
    ExternalOnlyIfAllowed
    NoStaleMembership
