CONSTANTS
    Callers = {c1, c2, c3}
    Timed = {c1, c2}
    None = none
    Acceptors = {a1, a2}
    Peers = {p1, p2}
    Nobody = nobody
CHECK_DEADLOCK FALSE
SPECIFICATION MCSpec
INVARIANTS
    UntimedCallFailsOnlyByAStaleDeadline
    StrandedOnlyByCancel
PROPERTIES
    OutOfStepOnlyAfterTimeout
    TimedCallsReturn
    AcceptsEnd
