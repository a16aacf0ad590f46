SPECIFICATION FairSpec
CONSTANTS
    MaxActions = 2
    MaxAlarms = 1
    MaxCancels = 1
    Kinds = {"motion.goto", "motion.position", "hearing.listen", "remind.schedule", "watch", "sense"}
PROPERTIES CalledOffIsSilent PreemptedRests PreemptionAnswered
CHECK_DEADLOCK FALSE
