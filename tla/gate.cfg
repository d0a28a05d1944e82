SPECIFICATION Spec
CONSTANTS
    agency = agency
    client = client
    k1 = k1
    w1 = w1
    w2 = w2
    Orgs = {agency, client}
    None = None
    Keys = {k1}
    OrgOf <- MCOrgOf
    Agencies = {agency}
    Workers = {w1, w2}
    MaxKeys = 1
    PerMinute = 1
    Ttl = 1
    MaxChanges = 2
    MaxClock = 2
    MaxFaults = 1
SYMMETRY Interchangeable
INVARIANTS RevokedStaysOut ChangesAreSeen SentWithinRate
CHECK_DEADLOCK FALSE
