CONSTANTS
    Orders = {1, 2}
    Transfers = {t1, t2}
    Deliveries = {d1, d2}
    Amounts = {1, 2}
    Traffic <- MCTraffic
    Shoppers = {1, 2, 3, 4}
    Admins = {a1}
    local = local
    abroad = abroad
    Spellings = {local, abroad}
    Canonical <- MCCanonical
    Limit = 2
    Window = 3
    Second = 2
    Pool = 2
    MaxTime = 5
    Plants = {p1, p2}
    Prices = {0, 1, 4}
    MaxQty = 2
    MaxLines = 2
    MaxStock = 2
    FreeShippingAbove = 8
    ShippingFee = 2
    MaxTotalAmount = 13
    Unit = 2
    MAX_TOOL_ROUNDS = 3
    MAX_STREAM_TOOL_ROUNDS = 2
    MaxCalls = 2
    ListLimit = 2
    Texts <- MCTexts
    Shelf <- MCShelf
    Queries <- MCQueries
    None = None
SPECIFICATION SpecAll
INVARIANTS
    TypesOK
    PaidOnce
    PaidExactly
    AckedIsRecorded
    BoundedOvershoot
    RetryAfterIsTight
    ChargedForWhatLeaves
    QuoteHonoured
    GuardExact
    NeverSilent
    ExactNameFirst
PROPERTIES
    RecordedOnce
    ImplementsLedger
CHECK_DEADLOCK FALSE
