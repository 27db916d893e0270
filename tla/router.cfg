SPECIFICATION Spec
CONSTANTS
    t1 = t1  t2 = t2
    h1 = h1  h2 = h2
    Tenants <- MCTenants
    Ids <- MCIds
    Routers <- MCRouters
    Names = {"core", "edge"}
    Addresses <- MCAddresses
    Requests = {h1, h2}
    MaxRequests = 3
    Faults = {"crash", "disk"}
    MaxFaults = 1
    NoRouter = NoRouter
    Anonymous = Anonymous
INVARIANTS
    TypeOK
    OwnAddressPushed
    AddressesApart
    OneActiveCertificate
CHECK_DEADLOCK FALSE
SYMMETRY Symmetry
