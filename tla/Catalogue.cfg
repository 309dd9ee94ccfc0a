CONSTANTS
    Plants = {p1, p2}
    Categories = {c1}
    Images = {i1}
    Slugs = {x, y, z}
    Requests = {r1, r2}
    MaxEdits = 3
    None = None
    p = p
    f1 = f1
    f2 = f2
    f3 = f3
    f4 = f4
    Hash = Hash
    Keys = {"care", "name", "text", "body"}
    TopK = 2
    Indexed = {p}
    Writers = {r1, r2}
    Docs = {1, 2}
    Ids <- MCIds
    Snapshots <- MCSnapshots
    MaxWrites = 2
    MaxScripts = 1
    MaxFailures = 1
SPECIFICATION SpecAll
SYMMETRY Symmetry
INVARIANTS
    ChangesAnnounced
    MirrorExact
    FaqsOfOneSnapshot
    FaqAnswerFull
PROPERTIES
    UrlsStay
    ReindexRepairs
CHECK_DEADLOCK FALSE
