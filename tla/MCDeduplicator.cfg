CONSTANTS
    Same = {r1, r2, r3}
    other = other
    client = client
    Callers <- MCCallers
    AddrOf <- MCAddrOf
    IdOf <- MCIdOf
    Ttl = 1
    MaxTime = 3
CHECK_DEADLOCK FALSE
SYMMETRY MCSymmetry
SPECIFICATION Spec
INVARIANTS
    WindowsExclusive
    HitIsOfItsWindow
    TornOnlyAfterSlowHandler
    NoDoubleClose
