CONSTANTS
    Clients = {ann, bob}
    AuthLife = 3
    RefreshLife = 4
    SignerChecksExpiry = TRUE
    MaxDelay = 1
    MaxLosses = 1
    MaxFaults = 1
    MaxRefusals = 10
SPECIFICATION Spec
INVARIANTS
    ConfinedDamage
    FewRefusals
PROPERTIES
    RefusedForCause
SYMMETRY Symmetry
