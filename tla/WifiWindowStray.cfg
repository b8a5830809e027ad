SPECIFICATION Spec
CONSTANTS
    Profiles = {"home"}
    NoProfile = "no profile"
    Seed = "no profile"
    MaxWindows = 2
    MaxFaults = 0
INVARIANT OneSupplicant
CHECK_DEADLOCK FALSE
