CONSTANTS
    i1 = i1
    a1 = a1
    a2 = a2
    Auths = {a1, a2}
    c1 = c1
    c2 = c2
    d1 = d1
    d2 = d2
    d3 = d3
    d4 = d4
    client = client
    NoOne = NoOne
    Callers = {d1, d2, d3, d4}
    Users = {c1, c2}
    Ids = {i1}
    Seed <- MCSeed
    Attempts = 2
    Timed = {c1, c2}
    CallOf <- MCCallOf
    AttemptOf <- MCAttemptOf
    AddrOf <- MCAddrOf
    IdOf <- MCIdOf
    Dedup = TRUE
    Stoppers = {}
    Ttl = 1
    MaxTime = 2
CHECK_DEADLOCK FALSE
SYMMETRY MCSymmetry
SPECIFICATION MCSpec
INVARIANT
    AcceptedMeansServedOncePerWindow
    RejectionsHaveAReason
PROPERTY
    ImplementsClient
