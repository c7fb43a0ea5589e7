CONSTANTS
    Clients = {ann}
    AuthLife = 3
    RefreshLife = 4
    SignerChecksExpiry = TRUE
    MaxDelay = 1
    MaxLosses = 2
    MaxFaults = 1
    MaxRefusals = 10
SPECIFICATION FairSpec
PROPERTIES
    Recovers
