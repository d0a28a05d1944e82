SPECIFICATION Spec
CONSTANTS
    u1 = u1
    box = box
    w1 = w1
    w2 = w2
    Users = {u1, box}
    Mailbox = box
    Workers = {w1, w2}
    MaxMessages = 2
    MaxRetries = 1
    Backoff <- MCBackoff
    Lease = 2
    SweepSpan = 1
    MaxFaults = 1
    MaxChanges = 1
SYMMETRY WorkerSymmetry
INVARIANTS StoppedMeansStopped SecondCopyNeedsACrash FailedIsScheduled
CHECK_DEADLOCK FALSE
