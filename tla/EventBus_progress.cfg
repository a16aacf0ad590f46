SPECIFICATION FairSpec
CONSTANTS
    MaxEvents = 4
    Kinds = {"goto", "speak", "level", "emergency"}
    LevelOf <- MCLevelOf
    Subscribers = {1, 2}
    Wants <- RelayWants
    Takes <- QuickTakes
    Emits <- RelayEmits
    HighMax = 1
    NormalMax = 2
    LowMax = 1
    FastPath = 2
    Stall = 3
    Timeout = 5
    Depth = 3
    Stops = TRUE
CHECK_DEADLOCK FALSE
PROPERTIES EventEnds PublishEnds StopEnds
