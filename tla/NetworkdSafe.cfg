SPECIFICATION Spec
CONSTANTS
    Clients = {c1, c2}
    Networks = {n1, n2}
    Leases = {l1, l2}
    NoClient = NoClient
    NoNetwork = NoNetwork
    NoLease = NoLease
    MaxCommandFailures = 3
    MaxFaults = 2
    MaxQueryFails = 4
    MaxChanges = 2
INVARIANTS NetworkRecorded SettledClean OneClient
PROPERTIES NoEventDropped
CHECK_DEADLOCK FALSE
SYMMETRY Symmetry
