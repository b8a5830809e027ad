SPECIFICATION Spec
CONSTANTS
    Clients = {c1, c2}
    Networks = {n1}
    Leases = {l1}
    NoClient = NoClient
    NoNetwork = NoNetwork
    NoLease = NoLease
    MaxCommandFailures = 3
    MaxFaults = 1
    MaxQueryFails = 0
    MaxChanges = 3
PROPERTY RecoversOwnFailure
CHECK_DEADLOCK FALSE
