SPECIFICATION Spec
CONSTANTS
    s1 = s1
    s2 = s2
    r1 = r1
    r2 = r2
    m1 = m1
    m2 = m2
    NoManifest = NoManifest
    NoCtx = NoCtx
    NoSession = NoSession
    Sessions = {s1}
    Requests = {r1, r2}
    Manifests = {m1, m2}
    ClientMethods = {"notifications/initialized", "ping", "tools/list", "tools/call"}
    MaxCalls = 1
    LedgerCap = 1
    HandshakeEnforced = TRUE
    FailOnDrift = TRUE
INVARIANTS SerialClientSeesOneManifest HandshakeGate
PROPERTIES QuietSessionsEvicted
CHECK_DEADLOCK FALSE
