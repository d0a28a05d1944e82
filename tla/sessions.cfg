SPECIFICATION Spec
CONSTANTS
    p1 = p1
    p2 = p2
    agency = agency
    client = client
    created = created
    Requests = {p1, p2}
    Mixes <- Together
    Orgs = {agency, client, created}
    Home = {agency}
    New = created
    Managed <- ManagedBy
    None = None
    MaxToken = 4
    MaxKid = 2
    MaxStarts = 5
    MaxFaults = 1
SYMMETRY Interchangeable
INVARIANTS  SignedOutStaysOut
PROPERTIES RotationSeenAtOnce WritersKeepOthers
CHECK_DEADLOCK FALSE
