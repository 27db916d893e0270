SPECIFICATION FairSpec
CONSTANTS
    y1 = y1  y2 = y2
    d1 = d1  d2 = d2
    w1 = w1  w2 = w2
    c1 = c1
    Payments = {y1, y2}
    Deliveries = {d1}
    Polls = {w1, w2}
    Cancels = {c1}
    About <- MCAbout
    Period <- MCPeriod
    Trial = 1
    Month = 2
    Year = 3
    Faults = {"crash", "lost_reply"}
    MaxTime = 1
CHECK_DEADLOCK FALSE
INVARIANTS
    TypeOK
    ServiceNeedsPayment
    FailedMeansUnpaid
    TimeIsBought
PROPERTIES
    PaidPaymentsComplete
    ImplementsSale
