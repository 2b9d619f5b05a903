SPECIFICATION FairSpec
CONSTANTS
    d1 = d1
    f1 = f1
    CallId <- MCCallId
    Followup <- MCFollowup
    Payload = {p1}
    NoPayload = NoPayload
    NoCall = NoCall
    Budget = 3
INVARIANTS
    TypeOK
    NeverForgotten
    UncertainIsMirrored
PROPERTIES
    DeliveredIsFinal
    NoPasteAfterDelivered
    PendingTakenUp
    StoppedInFlightSettles
CHECK_DEADLOCK FALSE
