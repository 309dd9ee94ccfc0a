CONSTANTS
    Plants = {1, 2}
    c1 = c1
    c2 = c2
    c3 = c3
    Checkouts = {c1, c2}
    Staff = {s1, s2}
    Phones = {p1}
    Targets = {"confirmed", "cancelled"}
    MaxQty = 1
    MaxStock = 1
    MaxDay = 0
    None = None
SPECIFICATION Spec
SYMMETRY Symmetry
INVARIANTS
    NoOversell
    LockedRowsCurrent
    NoDeadlock
