CONSTANTS
    MaxLength = 74
    EmptySecret = ""
    Secrets <- MCSecrets
    i1 = i1
    i2 = i2
    Identifiers = {i1, i2}
    Codes <- MCCodes
    Passwords <- MCPasswords
    Given <- MCGiven
    GivenLists <- MCGivenLists
    Replied <- MCReplied
    CoADefault = TRUE
    MaxCalls = 2
    ExtTypes = {26, 241, 242}
    ExtendedTypes = {1, 2}
    Sizes = {0, 251, 252, 253, 254, 502, 503}
    MaxGiven = 2
    Blocks <- MCBlocks
    Digest <- MCDigest
    Xor <- MCXor
    Keys = {1, 2}
    Seeds = {0, 1}
    Lengths = {0, 1, 15, 16, 17, 128, 129, 239, 240}
    Contents <- MCContents
    Tags = {0, 1, 31, 32}
    FirstOctets = {0, 1, 31, 32, 255}
    SaltOctets = {128, 255}
    VendorSizes = {0, 1, 247, 248, 253, 254}
    AttrTypes = {25, 26}
    Declared = {0, 1, 2, 3, 249, 255}
    Width = 5
    Attempts <- MCAttempts
    Durations <- MCDurations
    Jitters <- MCJitters
    Timeouts <- MCTimeouts
    DefaultPolicy <- MCDefaultPolicy
    Types = {1, 2}
    Names = {"a", "b"}
    NoName = "no name"
    Kinds = {"string", "integer", "ipaddr", "ipv6addr", "vsa", "extended"}
    Values <- MCValues
    MaxRegistrations = 2
SYMMETRY MCSymmetry
CHECK_DEADLOCK FALSE
SPECIFICATION MCSpec
INVARIANTS
    WhatIsSentIsRead
    HandlerSeesTheRequest
    DigestedRequestIsIntact
    AcceptedReplyIsGenuine
    RejectedForAReason
    ReassemblesWhatWasSplit
    RevealsWhatWasHidden
    UnwrapsWhatWasWrapped
    BackoffDoubles
PROPERTY
    DecodesWhatItNamed
