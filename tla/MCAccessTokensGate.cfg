CONSTANTS
    Replicas = {i1, i2}
    Ids = {a1, a2}
    Keys = {k1, k2, k3}
    Settings <- MCSettings
    Role = "admin"
    AccessTTL = 1
    BlacklistTTL = 2
SPECIFICATION TokensSpec
INVARIANT PasswordGate
