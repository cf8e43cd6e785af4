CONSTANTS
    c1 = c1
    c2 = c2
    c3 = c3
    i1 = i1
    i2 = i2
    Users = {c1, c2}
    Timed = {c1}
    Ids = {i1, i2}
    Seed <- MCSeed
    None = None
    a1 = a1
    a2 = a2
    Auths = {a1}
    Attempts = 1
CHECK_DEADLOCK FALSE
SPECIFICATION FairClientSpec
PROPERTY
    DeadlineBoundsRead
