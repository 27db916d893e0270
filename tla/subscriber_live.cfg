SPECIFICATION FairSpec
CONSTANTS
    r1 = r1  r2 = r2
    Requests = {r1, r2}
    MaxRequests = 2
    Validity = 1
    Extension = 1
    Skew = 0
    Faults = {"crash"}
    MaxFaults = 1
    MaxTime = 1
    MaxExpiry = 2
    NotLoaded = NotLoaded
CHECK_DEADLOCK FALSE
PROPERTIES
    EveryRequestReturns
    ExpiredSessionsEnd
