SPECIFICATION Spec
CONSTANTS
    e1 = e1
    Deliveries = {d1}
    Endpoints = {e1}
    EndpointOf <- OneEndpoint
    Sweepers = {s1, s2}
    Operators = {o1}
    NoRow = NoRow
    MaxRetries = 1
    Backoff <- MCBackoff
    Lease = 2
    SweepBatch = 2
    MaxFailures = 2
    SweepSpan = 1
    Retention = 2
    CronGap = 6
    Horizon = 4
    CrashesEnd = 5
    MaxClock = 6
SYMMETRY SweeperSymmetry
INVARIANTS TypeOK ExclusiveClaim SentWasAccepted  QueuedIsScheduled
PROPERTIES OutcomeIsFinal
CHECK_DEADLOCK FALSE
