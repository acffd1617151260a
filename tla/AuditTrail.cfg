SPECIFICATION Spec
CONSTANTS
    w1 = w1
    w2 = w2
    k1 = k1
    k2 = k2
    Writers = {w1, w2}
    NoWriter = NoWriter
    Keys = {k1, k2}
    NoKey = NoKey
    KeyConfigs <- MCOneKey
    BareConfigs = {}
    VerifyOnStartup = TRUE
    RequireHmac = TRUE
    MaxRecords = 3
    MaxIOErrors = 1
    MaxCancels = 0
PROPERTIES
    ImplementsTrail
    CallsEnd
