\* One part runs at a time, so the parts share model values, and one symmetry does
\* for all: Clerks are Requests, Renamers are Browsers.
CONSTANTS
    Admins = {a1, a2}
    Emails = {e1, e2}
    Passwords = {u}
    Browsers = {b1, b2}
    Requests = {r1, r2}
    AccessLife = 1
    RefreshLife = 2
    Limit = 1
    Window = 2
    MaxCalls = 5
    MaxEdits = 3
    MaxTime = 2
    p1 = p1
    p2 = p2
    Price <- MCPrice
    Plants = {p1, p2}
    Fee = 1
    MonthStarts = {0, 1}
    TicksPerDay = 2
    LOW_STOCK_THRESHOLD = 1
    ListLimit = 2
    Clerks = {r1, r2}
    MaxEvents = 2
    MaxQty = 1
    MaxStock = 2
    OverviewStart = 1
    OverviewTime = 2
    Ids = {1, 2, 3}
    PageSize = 1
    Editors = {d1}
    InboxTime = 1
    Reviewers = {v1}
    Reviewed = {g1}
    Slugs = {s1, s2}
    Moderators = {m1}
    Renamers = {b1, b2}
    Fillers = {f1}
    MaxRenames = 2
    MaxModerations = 2
    MaxFailures = 1
    None = None
SPECIFICATION SpecAll
SYMMETRY Symmetry
INVARIANTS
    TypesOK
    SomeoneActive
    SessionsEnd
    GuessesBounded
    LaterFiguresCover
    PagingSkipsNothing
    PagesShowDecisions
CHECK_DEADLOCK FALSE
