SPECIFICATION Spec
CONSTANTS
    Profiles = {"home", "guest"}
    Settings = {"quiet"}
    MaxFaults = 1
    MaxSyncFail = 1
    MaxCorrupt = 0
INVARIANT DurableCommit
CHECK_DEADLOCK FALSE
