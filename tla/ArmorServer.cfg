SPECIFICATION Spec
CONSTANTS
    s1 = s1
    s2 = s2
    s3 = s3
    t1 = t1
    t2 = t2
    Sessions = {s1, s2, s3}
    Tasks = {t1, t2}
    NoCtx = NoCtx
    Elsewhere = {s1}
    MaxDepth = 2
    MaxBody = 2
    MaxResponse = 2
    ExchangeTask = t1
    NoExchange = NoExchange
    Workloads <- MCWorkloads
CHECK_DEADLOCK FALSE
INVARIANTS
    TypeOK
    ServesOnlyStarted
    CleanStop
    CallsLeaveNothing
    RunsAsItsCaller
    OneReading
    WellFormedAnswer
PROPERTIES LifespanAnswered
