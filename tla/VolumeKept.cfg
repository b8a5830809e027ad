SPECIFICATION FairSpec
CONSTANTS
    Settings = {100}
    Steps = {5}
    DuckNames = {"prompt"}
    DefaultVolume = 40
    PowerOnGain = 255
    DeltaLimit = 100
    MaxChanges = 0
    MaxVolumeFaults = 0
    MaxResets = 1
PROPERTY KeepsLevel
CHECK_DEADLOCK FALSE
