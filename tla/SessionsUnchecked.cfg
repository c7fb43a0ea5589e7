CONSTANTS
    Clients = {ann, bob}
    AuthLife = 3
    RefreshLife = 4
    SignerChecksExpiry = FALSE
    MaxDelay = 1
    MaxLosses = 1
    MaxFaults = 1
    MaxRefusals = 10
SPECIFICATION Spec
PROPERTIES
    RefusedForCause
SYMMETRY Symmetry
