SPECIFICATION Spec
CONSTANTS
    MaxActions = 2
    Resources = {"motion"}
    NoResource = "none"
    PreemptTargets = {"motion"}
    PreemptAcks = {"motion"}
    CancelAcks = {"none"}
    Priorities = {"NORMAL", "CRITICAL"}
    Callers = {"task"}
    RecentMaxLen = 1
    MaxTimers = 1
    MaxParked = 1
CHECK_DEADLOCK FALSE
INVARIANTS StartedOwnsLock BlockerCallsWaiter
PROPERTIES NoRevival
