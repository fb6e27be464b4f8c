SPECIFICATION PubSpec
CONSTANTS
    Applier = {a1, a2}
    Plan <- MCPlan
    Id = {1, 2, 3}
    MaxEdits = 1
    MaxKey = 1
    Lossy = TRUE
    Mail = mail
    Policy = {sts}
    Admin = {web}
    MaxIssue = 3
    StopTime = 60
    Nobody = Nobody
CONSTRAINT Bounded
INVARIANTS
    PubTypeOK
    OneOfOurs
    ReportTruthful
    RenewalServed
    KeepsServing
    HostedWithPolicy
    EnableInTime
PROPERTIES
    Conservative
    ApplyEnds
    EnableEnds
