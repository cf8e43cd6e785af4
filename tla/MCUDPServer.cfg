CONSTANTS
    third = r3
    Callers = {r1, r2, r3}
    Dedup = TRUE
    Stoppers = {s1}
    client = client
    AddrOf <- MCAddrOf
    IdOf <- MCIdOf
    Ttl = 1
    MaxTime = 2
CHECK_DEADLOCK FALSE
SPECIFICATION MCSpec
INVARIANTS
    DuplicatesGetTheSameReply
    ShutdownLeavesAtMostOne
    CountedRequestsGoOn
PROPERTIES
    RequestsFinish
    ShutdownFinishes
