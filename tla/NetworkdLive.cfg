SPECIFICATION FairSpec
CONSTANTS
    Clients = {c1, c2}
    Networks = {n1}
    Leases = {l1}
    NoClient = NoClient
    NoNetwork = NoNetwork
    NoLease = NoLease
    MaxCommandFailures = 2
    MaxFaults = 1
    MaxQueryFails = 2
    MaxChanges = 2
PROPERTIES LeaseReturns LeaseRemoved
CHECK_DEADLOCK FALSE
