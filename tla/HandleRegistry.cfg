SPECIFICATION Spec
CONSTANTS
    th1 = th1
    th2 = th2
    p1 = p1
    p2 = p2
    t1 = t1
    NoRecord = NoRecord
    Threads = {th1, th2}
    Owners <- MCOwners
    Max = 2
    MaxPerPrincipal = 2
    MaxPerTenant = 1
    Floor = 2
    Ttls = {1}
    MaxHandles = 3
    MaxTime = 1
INVARIANTS TypeOK NotifiedOnce
PROPERTIES RefusalJustified NoEarlyDrop RevocationsNotified
