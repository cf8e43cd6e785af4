CONSTANTS
    k1 = k1
    k2 = k2
    a = a
    b = b
    other = other
    Conns <- MCConns
    Callers <- MCCallers
    Script <- MCScript
    AddrOf <- MCAddrOf
    IdOf <- MCIdOf
    Dedup = TRUE
    Stoppers = {s1}
    Ttl = 1
    MaxTime = 2
CHECK_DEADLOCK FALSE
SPECIFICATION MCSpec
INVARIANTS
    AnswersAreOfTheLatestRun
    WaitsOnlyOnSilence
PROPERTIES
    ConnectionsEnd
    ShutdownFinishes
