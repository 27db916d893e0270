SPECIFICATION FairSpec
CONSTANTS
    s1 = s1  s2 = s2
    d1 = d1  d2 = d2
    p1 = p1  p2 = p2  p3 = p3
    c1 = c1
    tv = tv
    k1 = k1  k2 = k2
    Sessions = {s1, s2}
    Deliveries = {d1, d2}
    Codeless = {d1}
    Polls = {p1, p2, p3}
    Closers = {c1}
    About <- MCAboutTwo
    Codes = {k1}
    Devices = {tv}
    Duration = 1
    Speed = 0
    Faults = {"crash"}
    MaxCrashes = 1
    MaxTime = 0
    NoCode = NoCode
CHECK_DEADLOCK FALSE
INVARIANTS
    AccessNeedsPayment
PROPERTIES
    PaidSalesEnd
