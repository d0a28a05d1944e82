SPECIFICATION AgencySpec
CONSTANTS
    o1 = o1
    o2 = o2
    c1 = c1
    c2 = c2
    Orgs = {o1}
    Clients = {c1, c2}
    Nobody = Nobody
    Workers = {w1}
    IncludedClients = 2
    MaxMandates = 2
    MaxPeriods = 2
    MaxNews = 1
    MaxFaults = 0
SYMMETRY Interchangeable
INVARIANTS EntitledWithinQuantity
CHECK_DEADLOCK FALSE
