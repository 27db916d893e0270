SPECIFICATION Spec
CONSTANTS
    s1 = s1  s2 = s2
    d1 = d1  d2 = d2
    p1 = p1  p2 = p2  p3 = p3
    c1 = c1
    tv = tv
    k1 = k1  k2 = k2
    Sessions = {s1}
    Deliveries = {d1, d2}
    Codeless = {}
    Polls = {p1, p2}
    Closers = {c1}
    About <- MCAboutOne
    Codes = {k1, k2}
    Devices = {tv}
    Duration = 1
    Speed = 0
    Faults = {"crash", "lost_reply"}
    MaxCrashes = 1
    MaxTime = 2
    NoCode = NoCode
SYMMETRY MCSymmetry
CHECK_DEADLOCK FALSE
INVARIANTS
    TypeOK
    AccessNeedsPayment
    FailedMeansUnpaid
    AccessNeverStacks
    ServedRowsHaveCodes
PROPERTIES
    ImplementsSale
