SPECIFICATION Spec
CONSTANTS
    a1 = a1
    a2 = a2
    d1 = d1
    d2 = d2
    r1 = r1
    r2 = r2
    NoJti = NoJti
    NoProof = NoProof
    Requests = {r1, r2}
    Tokens <- MCTokens
    Proofs <- MCProofs
    CacheSize = 1
    DpopMaxAge = 2
    DpopFutureSkew = 1
    MaxTime = 5
SYMMETRY Symmetry
INVARIANTS TypeOK PassesOnce
CHECK_DEADLOCK FALSE
