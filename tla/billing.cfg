SPECIFICATION CalmSpec
CONSTANTS
    starter = starter
    growth = growth
    Plans = {starter, growth}
    Price <- TwoPrices
    None = None
    Mandates = {m1, m2}
    Handlers = {h1}
    Failures = "no"
    Spans = "no"
    MaxEvents = 2
    MaxClock = 1
INVARIANT TierIsAgreed
PROPERTIES  ChargeIsSeen
CHECK_DEADLOCK FALSE
