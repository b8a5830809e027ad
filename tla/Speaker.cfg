SPECIFICATION SpeakerSpec
CONSTANTS
    Levels = {l1}
    PowerOnLevel = l0
    MaxReceiveRetries = 2
    MaxUnrelated = 1
    MaxCalls = 2
    MaxFaults = 2
    MaxEvents = 2
    Settings = {100}
    Steps = {5}
    DuckNames = {"prompt", "alert"}
    DefaultVolume = 40
    PowerOnGain = 255
    DeltaLimit = 8
    MaxChanges = 2
    MaxVolumeFaults = 1
    MaxResets = 1
    MaxOutputCalls = 2
    MaxBusFaults = 1
    MaxStops = 2
    MaxPresses = 1
    MaxMicFaults = 2
    MaxReports = 1
    MaxLightFaults = 1
    Clients = {c1}
    QueuePeriods = 1
    SourcePeriods = 1
    MaxPeriods = 3
    MaxDspRestarts = 1
    MaxMuteWrites = 1
    MaxCaptureFaults = 1
INVARIANTS RestsAtLevel LosesOnlyExcess RegisterAgrees AmpOnlyOverDac LightTruth StreamsWhole
PROPERTIES KeepsPromise MutedBeforeService InvocationsAnswered LevelArrives MuteArrives FeedbackEnds CaptureFollows
CHECK_DEADLOCK FALSE
