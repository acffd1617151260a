SPECIFICATION SafetySpec
CONSTANTS
    s1 = s1
    s2 = s2
    r1 = r1
    r2 = r2
    m1 = m1
    m2 = m2
    NoManifest = NoManifest
    NoCtx = NoCtx
    NoSession = NoSession
    Sessions = {s1, s2}
    Requests = {r1, r2}
    Manifests = {}
    ClientMethods = {"tools/call"}
    MaxCalls = 2
    LedgerCap = 1
    HandshakeEnforced = FALSE
    FailOnDrift = FALSE
CHECK_DEADLOCK FALSE
SYMMETRY Symmetric
INVARIANTS CallBudget StatelessLeavesNothing TrackedIsReapable
