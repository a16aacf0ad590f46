SPECIFICATION FairSpec
CONSTANTS
    Speakers = {"reply"}
    WakeProcess = "wake"
    StaleTicks = 2
    MaxPlays = 2
    FollowupTicks = 1
    IntervalTicks = 1
    MaxTurns = 2
INVARIANTS LocalTurnsBounded
PROPERTIES EndsSpec MarkerKept SkipEnds ReplyOpensWindow
