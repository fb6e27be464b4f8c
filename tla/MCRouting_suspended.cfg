SPECIFICATION Spec
CONSTANTS
    Client = {c1}
    ann = ann
    bob = bob
    cid = cid
    annTag = annTag
    eve = eve
    home = home
    away = away
    Domain = {home, away}
    Hostable = {home}
    Addr = {ann, bob}
    DomainOf <- MCDomainOf
    Untag <- MCUntag
    Password = {p1}
    ApiKey = {}
    Policies = {"members"}
    Ops <- SuspendOps
    Faults = FALSE
    None = None
    MaxDomainId = 1
    MaxGroupId = 1
    MaxBatch = 1
INVARIANTS
    SuspendedMailRejected
