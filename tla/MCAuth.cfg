CONSTANTS
    Clients = {c1}
    Requests = {x1, x2}
    Tokens = {y1, y2, y3}
    NoToken = NoToken
    MaxEpoch = 2
    Replicas = {x1, x2}
    Ids = {a1, a2}
    Keys = {y1, y2, y3}
    Settings <- MCSettings
    Role = "admin"
    AccessTTL = 1
    BlacklistTTL = 1
SPECIFICATION AuthSpec
SYMMETRY AuthSymmetry
INVARIANTS TypeOK NoStranding SurvivorsRaced DoubleUseContended
INVARIANTS LoggedOutStaysOut TokensTravel ClaimExplained
