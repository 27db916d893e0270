SPECIFICATION Spec
CONSTANTS
    y1 = y1  y2 = y2
    d1 = d1  d2 = d2
    w1 = w1  w2 = w2
    c1 = c1
    Payments = {y1, y2}
    Deliveries = {d1, d2}
    Polls = {}
    Cancels = {}
    About <- MCAbout
    Period <- MCMonthly
    Trial = 1
    Month = 2
    Year = 3
    Faults = {}
    MaxTime = 1
CHECK_DEADLOCK FALSE
INVARIANTS
    OnePeriodPerPayment
