SPECIFICATION Spec
CONSTANTS
    MaxEvents = 7
    MaxStarts = 2
    MaxPerFile = 2
    FlushSize = 1
    MaxFailures = 2
    Scenarios = {{"goto", "check"}, {"speak", "alarm"}, {"listen", "alarm"}, {"candidate", "alarm"}, {"position", "person"}, {"policy"}}
INVARIANTS StateSettles LoggedOnce AlarmOnRecord FilesBounded CandidateKept UtterancesAgree
CHECK_DEADLOCK FALSE
