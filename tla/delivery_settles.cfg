SPECIFICATION FairSpec
CONSTANTS
    e1 = e1
    Deliveries = {d1, d2}
    Endpoints = {e1}
    EndpointOf <- OneEndpoint
    Sweepers = {s1}
    Operators = {}
    NoRow = NoRow
    MaxRetries = 1
    Backoff <- MCBackoff
    Lease = 2
    SweepBatch = 1
    MaxFailures = 2
    SweepSpan = 1
    Retention = 2
    CronGap = 1
    Horizon = 1
    CrashesEnd = 2
    MaxClock = 12
PROPERTIES EventuallySettled
CHECK_DEADLOCK FALSE
