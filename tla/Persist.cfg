SPECIFICATION FairSpec
CONSTANTS
    Profiles = {"home", "guest"}
    Settings = {"quiet", "loud"}
    MaxFaults = 2
    MaxSyncFail = 1
    MaxCorrupt = 1
INVARIANTS AckedSurvives NeverTorn
PROPERTIES CorruptKept SeedNeverOverrides SettingsRetained SettingReachesDisk
CHECK_DEADLOCK FALSE
