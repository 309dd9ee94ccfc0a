CONSTANTS
    Shoppers = {s1, s2, s3, s4}
    Admins = {a1}
    local = local
    abroad = abroad
    Spellings = {local, abroad}
    Canonical <- MCCanonical
    Limit = 2
    Window = 3
    Second = 2
    Pool = 2
    MaxTime = 5
    None = None
SPECIFICATION LimitSpec
INVARIANT AtMostLimit
CHECK_DEADLOCK FALSE
