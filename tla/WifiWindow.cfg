SPECIFICATION FairSpec
CONSTANTS
    Profiles = {"home", "guest"}
    NoProfile = "no profile"
    Seed = "home"
    MaxWindows = 2
    MaxFaults = 2
INVARIANTS AppliedIsStation SavedWasAssociated NoOrphans SocketClear
PROPERTIES StationKept WindowCloses
CHECK_DEADLOCK FALSE
