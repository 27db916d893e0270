SPECIFICATION Spec
CONSTANTS
    e1 = e1  e2 = e2
    r1 = r1  r2 = r2
    q1 = q1  q2 = q2
    home = home  bank = bank  branch = branch
    Entries = {e1, e2}
    Runs = {r1, r2}
    Requests = {q1}
    Gross <- MCGross
    MinimumPayout = 1000
    Frequency = 1
    Destinations = {home, bank}
    FirstDestination = home
    CriticalFields <- MCCritical
    Faults = {"crash", "lost_reply"}
    MaxDay = 0
    NoOne = NoOne
CHECK_DEADLOCK FALSE
INVARIANTS
    TypeOK
    SettledRowsBelongToPayouts
    NoDoublePayout
    PaidWithinShare
    DifferencesAreOverlaps
    PendingBalanceIsUnsettledAmount
PROPERTIES
    SettlementIsFinal
    ImplementsAccount
