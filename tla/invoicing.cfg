SPECIFICATION FairSpec
CONSTANTS
    e1 = e1
    e2 = e2
    e3 = e3
    e4 = e4
    p1 = p1
    p2 = p2
    p3 = p3
    Events = {e1, e2, e3, e4}
    Charged = {e1, e3, e4}
    Payments = {p1, p2, p3}
    PaymentOf <- MCPaymentOf
    PaidAt <- MCPaidAt
    Undeliverable = {}
    Workers = {w1, w2}
    Nil = Nil
    Limit = 1
    MaxFaults = 1
INVARIANT OverageBilledOnce
PROPERTIES BooksAreKept EventuallyMailed
CHECK_DEADLOCK FALSE
