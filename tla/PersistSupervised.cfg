SPECIFICATION FairSpec
CONSTANTS
    Profiles = {"home"}
    Settings = {"quiet"}
    MaxFaults = 1
    MaxSyncFail = 0
    MaxCorrupt = 0
PROPERTY ServeRecovers
CHECK_DEADLOCK FALSE
