SPECIFICATION FairSpec
CONSTANTS
    u1 = u1
    s1 = s1
    Message <- MCMessage
    Scheduled <- MCScheduled
    MaxAttempts = 1
    NoMessage = NoMessage
    HumanTurn = HumanTurn
    Budget = 1
INVARIANTS
    AnsweredIsDurable
    CompletedIsProven
PROPERTIES
    KeepsContract
    QueueAdvances
    InDoubtSettles
CHECK_DEADLOCK FALSE
