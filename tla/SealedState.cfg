SPECIFICATION Spec
CONSTANTS
    th1 = th1
    th2 = th2
    p1 = p1
    p2 = p2
    p3 = p3
    p4 = p4
    t1 = t1
    Threads = {th1, th2}
    Owners <- MCOwners
    MaxSpent = 4
    MaxPerOwner = 2
    MaxPerTenant = 2
    Floor = 1
    MaxSeals = 5
    Ttls = {1}
    MaxTime = 1
SYMMETRY Symmetry
INVARIANTS TypeOK OpenedOnceWhileFresh
PROPERTIES FullOfLiveOnly
CHECK_DEADLOCK FALSE
