SPECIFICATION Spec
CONSTANTS
    MaxEvents = 5
    Kinds = {"emergency", "goto", "speak", "level"}
    LevelOf <- MCLevelOf
    Subscribers = {1, 2, 3}
    Wants <- QuickWants
    Takes <- SlowTakes
    Emits <- QuickEmits
    HighMax = 1
    NormalMax = 1
    LowMax = 1
    FastPath = 2
    Stall = 3
    Timeout = 5
    Depth = 3
    Stops = FALSE
CHECK_DEADLOCK FALSE
INVARIANTS CriticalSoon OrderKept
PROPERTIES DeliverySpec
