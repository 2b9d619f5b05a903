SPECIFICATION FairSpec
CONSTANTS
    o1 = o1
    o2 = o2
    Op <- MCOp
    NoOp = NoOp
    MaxInstances = 4
    MaxLaunchers = 2
    MaxSignals = 2
INVARIANTS
    FrontendSurvives
PROPERTIES
    KeepsLifecycle
    FrontendKeptWhileServed
    RequestAnswered
    ServiceReturns
CHECK_DEADLOCK FALSE
