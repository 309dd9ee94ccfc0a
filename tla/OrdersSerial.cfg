CONSTANTS
    Plants = {1, 2}
    c1 = c1
    c2 = c2
    c3 = c3
    Checkouts = {c1, c2}
    Staff = {s1}
    Phones = {p1}
    Targets = {"confirmed", "completed", "cancelled"}
    MaxQty = 1
    MaxStock = 1
    MaxDay = 1
    None = None
SPECIFICATION Spec
SYMMETRY CheckoutSymmetry
INVARIANTS
    TypeOK
    Conservation
    GapFreeNumbers
    NumberStaysFree
    OneCustomerPerPhone
PROPERTIES
    PipelineForward
    ImplementsOrderBook
