SPECIFICATION FairSpec
CONSTANTS
    Daemons = {"d1", "d2"}
    Service = "d1"
    Modules = 1
    MaxFaults = 2
    Clients = {"c1"}
    MaxRequests = 2
CHECK_DEADLOCK FALSE
INVARIANTS OwnOutcome
PROPERTIES StopHonoured StaleSocketHarmless Answered
