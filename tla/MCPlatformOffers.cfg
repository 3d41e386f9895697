CONSTANTS
    c1 = c1
    None = None
    Cards = {c1}
    Grace = 1
    ReadOnly = 1
    PlanDays = 1
    Renewal = 2
    Period = 2
    MaxRows = 2
    MaxUnits = 2
    MaxEvents = 2
    MaxNow = 3
    Stops = {0, 7, 15, 18, 21, 24, 29, 30, 31, 36, 41}
    Twins = {"products", "colors", "roles"}
    BranchIds = {a, b}
    CashIds = {k1}
    CallIds = {x, y}
    NoCall = NoCall
    NoLimit = NoLimit
    MaxLimit = 2
    Modules = {base, a, b}
    BaseModules = {base}
    Plans = {p1, p2}
    MaxUpdates = 3
    Methods = {m1}
    Enough = 1
    MaxReady = 1
    Garments = {g1, g2}
    OfferPrice <- MCPrice
    OfferDeals <- MCDeals
    MaxSales = 2
    MaxClock = 5
    Preparers = {q1, q2}
    Batchers = {q1}
    Reviewers = {v1}
    MaxAsked = 3

SPECIFICATION OffersSpec

SYMMETRY Symmetry

CHECK_DEADLOCK FALSE

INVARIANT NothingPiledUp
