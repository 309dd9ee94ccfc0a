CONSTANTS
    Plants = {p1, p2}
    Prices = {0, 1, 4}
    MaxQty = 2
    MaxLines = 2
    MaxStock = 2
    FreeShippingAbove = 8
    ShippingFee = 2
    MaxTotalAmount = 13
    Unit = 2
    None = None
SPECIFICATION PricingSpec
INVARIANT ThresholdPaysFee
CHECK_DEADLOCK FALSE
