SPECIFICATION SafetySpec
CONSTANTS
    w1 = w1
    w2 = w2
    k1 = k1
    k2 = k2
    Writers = {w1, w2}
    NoWriter = NoWriter
    Keys = {k1, k2}
    NoKey = NoKey
    KeyConfigs <- MCKeyConfigs
    BareConfigs <- MCUnsigned
    VerifyOnStartup = TRUE
    RequireHmac = FALSE
    MaxRecords = 3
    MaxIOErrors = 1
    MaxCancels = 1
SYMMETRY MCSymmetry
INVARIANTS
    TypeOK
    ChainContiguous
    AckedSurvive
    RestartAccepted
    SigningSticky
