SPECIFICATION Spec
CONSTANTS
    e1 = e1
    e2 = e2
    e3 = e3
    e4 = e4
    old1 = old1
    old2 = old2
    Conn = {c1, c2}
    EventId = {e1, e2, e3, e4}
    Legacy = {old1, old2}
    EventOf <- MCEventOf
    MaxTime = 3
    Width = 3
INVARIANTS ValidExactlyInOrder QueriesAnswerNewest LeaseTrailComplete
CHECK_DEADLOCK FALSE
