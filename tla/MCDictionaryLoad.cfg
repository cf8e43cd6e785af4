CONSTANTS
    f1 = f1
    f2 = f2
    f3 = f3
    a = a
    b = b
    acme = acme
    Types = {1, 2}
    Names = {a, b}
    NoName = NoName
    Kinds = {"string", "integer", "ipaddr", "ipv6addr", "octets", "vsa", "extended", "raw"}
    Files = {f1, f2, f3}
    Lines <- MCLines
    Disks <- MCDisks
    Calls <- MCCalls
    Missing = Missing
    NoVendor = NoVendor
    Built <- MCBuilt
    MaxCalls = 1
CHECK_DEADLOCK FALSE
SPECIFICATION LoadSpec
INVARIANTS
    IndexesAgree
    ParsesWhatFilesSay
    HoldsWhatTheDictSays
