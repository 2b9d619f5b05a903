SPECIFICATION FairSpec
CONSTANTS
    t1 = t1
    o1 = o1
    o2 = o2
    Tab <- MCTab
    Op <- MCOp
    NoOp = NoOp
    MaxInstances = 3
    MaxLaunchers = 2
    MaxTurns = 3
    MaxFaults = 1
INVARIANTS
    TypeOK
    ContinuesTheLast
    ReportIsTrue
    StopReachesContinuation
PROPERTIES
    BarredStaysBarred
    RowSettles
CHECK_DEADLOCK FALSE
