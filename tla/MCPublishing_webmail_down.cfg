SPECIFICATION PubSpec
CONSTANTS
    Applier = {a1}
    Plan <- MCPlan
    Id = {1}
    MaxEdits = 0
    MaxKey = 0
    Lossy = FALSE
    Mail = mail
    Policy = {sts}
    Admin = {web}
    MaxIssue = 1
    StopTime = 60
    Nobody = Nobody
PROPERTIES
    WebmailComesBack
