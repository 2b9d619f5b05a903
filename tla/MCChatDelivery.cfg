SPECIFICATION FairSpec
CONSTANTS
    d1 = d1
    f1 = f1
    CallId <- MCCallId
    Followup <- MCFollowup
    Payload = {p1}
    NoPayload = NoPayload
    NoCall = NoCall
    HumanTurn = HumanTurn
    Budget = 4
INVARIANTS
    GivenAtMostOnce
    SafeState
PROPERTIES
    HandoffOnlyWhenClear
    ImplementsContract
    PendingTakenUp
    InterruptedHandoffSettles
CHECK_DEADLOCK FALSE
