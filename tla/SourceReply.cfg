SPECIFICATION Spec
CONSTANTS
    Sources = {"bluetooth", "line"}
    Seed = {"bluetooth", "line"}
    MaxInvocations = 2
    MaxLost = 0
PROPERTIES RepliesDelivered
CHECK_DEADLOCK FALSE
