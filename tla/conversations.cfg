SPECIFICATION Spec
CONSTANTS
    o1 = o1
    o2 = o2
    r1 = r1
    r2 = r2
    s1 = s1
    w1 = w1
    w2 = w2
    Orgs = {o1, o2}
    Replies = {r1, r2}
    Sends = {s1}
    Workers = {w1, w2}
    None = None
    Window = 1
    MaxEvents = 2
    MaxEdits = 1
    MaxClock = 2
    MaxFaults = 1
SYMMETRY Interchangeable
INVARIANTS NoReplyIsLost WindowIsTheCustomers OptOutStops
PROPERTIES BackOnlyWhenOvertaken
CHECK_DEADLOCK FALSE
