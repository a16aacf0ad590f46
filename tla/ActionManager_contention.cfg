SPECIFICATION ContentionSpec
CONSTANTS
    MaxActions = 3
    Resources = {"motion"}
    NoResource = "none"
    PreemptTargets = {"motion"}
    PreemptAcks = {"motion"}
    CancelAcks = {"none"}
    Priorities = {"HIGH", "CRITICAL"}
    Callers = {"handler"}
    RecentMaxLen = 1
    MaxTimers = 1
    MaxParked = 1
CHECK_DEADLOCK FALSE
PROPERTIES LeaseSpec
