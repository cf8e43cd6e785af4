CONSTANTS
    Same = {r1, r2}
    other = other
    client = client
    Callers <- MCCallers
    AddrOf <- MCAddrOf
    IdOf <- MCIdOf
    Ttl = 1
    MaxTime = 3
CHECK_DEADLOCK FALSE
SPECIFICATION FairSpec
PROPERTY WaitersAreReleased
