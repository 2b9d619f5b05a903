SPECIFICATION Spec
CONSTANTS
    d1 = d1
    f1 = f1
    CallId <- MCCallId
    Followup <- MCFollowup
    Payload = {p1}
    NoPayload = NoPayload
    NoCall = NoCall
    Budget = 3
INVARIANTS
    ExactlyOneState
CHECK_DEADLOCK FALSE
