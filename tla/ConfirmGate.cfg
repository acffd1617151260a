SPECIFICATION Spec
CONSTANTS
    r1 = r1
    r2 = r2
    r3 = r3
    r4 = r4
    r5 = r5
    r6 = r6
    r7 = r7
    r8 = r8
    r9 = r9
    a1 = a1
    a2 = a2
    s1 = s1
    s2 = s2
    s3 = s3
    u1 = u1
    u2 = u2
    u3 = u3
    u4 = u4
    org = org
    tool = tool
    open = open
    t1 = t1
    t2 = t2
    Absent = Absent
    NoEntry = NoEntry
    Threads = {t1, t2}
    Policies <- MCPolicies
    Requests = {r1, r2, r3, r4, r5, r6, r7, r8, r9}
    Caller <- MCCaller
    Call <- MCCall
    DefaultDeny = TRUE
    Ttl = 1
    MaxEntries = 3
    MaxPerOwner = 1
    MaxPerPrincipal = 2
    MaxIssued = 4
    MaxTime = 2
SYMMETRY Symmetry
INVARIANTS TypeOK
PROPERTIES ConfirmsLatestPlan RefusedByLiveOnly
CHECK_DEADLOCK FALSE
