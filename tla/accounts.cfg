SPECIFICATION Spec

CONSTANTS
    u1 = u1
    u2 = u2
    o1 = o1
    o2 = o2
    None = None
    Users = {u1, u2}
    Orgs = {o1, o2}
    Staff <- MCStaff
    Numbers = {n1}
    Templates = {t1}
    Requests = {p1, p2}
    Mixes <- MCMixes
    MaxStarts = 4
    MaxVersion = 3
    MaxFaults = 1

SYMMETRY Sym


INVARIANTS CacheFollows 
PROPERTIES SharedSurvives
CHECK_DEADLOCK FALSE
