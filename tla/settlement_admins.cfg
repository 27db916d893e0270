SPECIFICATION FairSpec
CONSTANTS
    e1 = e1  e2 = e2
    r1 = r1  r2 = r2
    q1 = q1  q2 = q2
    home = home  bank = bank  branch = branch
    Entries = {e2}
    Runs = {r1}
    Requests = {q1, q2}
    Gross <- MCGross
    MinimumPayout = 1000
    Frequency = 1
    Destinations = {home, bank, branch}
    FirstDestination = home
    CriticalFields <- MCCritical
    Faults = {"crash", "lost_reply"}
    MaxDay = 1
    NoOne = NoOne
CHECK_DEADLOCK FALSE
INVARIANTS
    PayoutsGoToVerifiedAccounts
PROPERTIES
    TransactionsEnd
