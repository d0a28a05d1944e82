SPECIFICATION ChargesSpec

CONSTANTS
    starter = starter
    growth = growth
    quoted = quoted
    deal = deal
    p1 = p1
    p2 = p2
    p3 = p3
    p4 = p4
    ag = ag
    c1 = c1
    c2 = c2
    None = None
    Codes = {starter, growth, quoted, deal}
    PlanIds = {p1, p2, p3, p4}
    Orgs = {ag, c1, c2}
    Users = {u1, u2, u3}
    Operators = {u1, u2}
    Requests = {r1, r2}
    Seeded <- MCSeeded
    Dashboard <- MCDashboard
    Mapping <- MCMapping
    Drafts <- MCDrafts
    Patches <- MCPatches
    AgencyOf <- MCAgencyOf
    AccountTier <- MCAccountTier
    Sold <- MCSold
    Mixes <- MCMixes
    Registration <- MCRegistration
    Chosen = {None, 27, 29, 40}
    MandateAmounts = {885, 1001}
    Holders = {ag, c1}
    MaxDays = 2
    MaxHeld = 3
    MaxEdits = 2
    MaxInvoices = 1
    SellerState = 29
    TaxRateBps = 1800
    Instants = {1, 2, 3}
    Copies = 2
    PageSizes = {1, 2}
    MaxThread = 3
    Nothing = None
    DayLength = 3
    PodOffsets <- MCPodOffsets
    BillingOffset = 1
    DaysPerMonth = 2
    Beginnings = {67, 85}
    Spans = {0, 2, 4}
    MAX_DAYS = 3
    Names = {welcome}
    Numbers = {n1, n2}
    MaxRows = 2
    MaxTime = 5

SYMMETRY Sym


INVARIANTS ChargedAsPublished   HistoryKept  NothingSkipped 
CHECK_DEADLOCK FALSE
