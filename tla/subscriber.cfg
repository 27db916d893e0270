SPECIFICATION Spec
CONSTANTS
    r1 = r1  r2 = r2
    Requests = {r1, r2}
    MaxRequests = 3
    Validity = 1
    Extension = 1
    Skew = 1
    Faults = {"public_write"}
    MaxFaults = 1
    MaxTime = 0
    MaxExpiry = 2
    NotLoaded = NotLoaded
CHECK_DEADLOCK FALSE
SYMMETRY Symmetry
INVARIANTS
    TypeOK
    QuietTablesInStep
    NoCircularWait
PROPERTIES
    UserNeverVanishes
