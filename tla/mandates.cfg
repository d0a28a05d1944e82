SPECIFICATION MandatesSpec
CONSTANTS
    starter = starter
    growth = growth
    Plans = {starter, growth}
    Price <- TwoPrices
    None = None
    Mandates = {m1}
    Handlers = {h1, h2}
    Failures = "yes"
    Spans = "yes"
    MaxEvents = 1
    MaxClock = 1
    o1 = o1
    o2 = o2
    c1 = c1
    c2 = c2
    Orgs = {o1, o2}
    Clients = {c1, c2}
    Nobody = Nobody
    Workers = {w1}
    IncludedClients = 2
    MaxMandates = 2
    MaxPeriods = 2
    MaxNews = 1
    MaxFaults = 1
SYMMETRY Interchangeable
INVARIANTS NoFreeMonth  
CHECK_DEADLOCK FALSE
