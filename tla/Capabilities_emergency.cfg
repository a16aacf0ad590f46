SPECIFICATION FairSpec
CONSTANTS
    MaxActions = 2
    MaxAlarms = 1
    MaxCancels = 0
    Kinds = {"motion.goto"}
PROPERTIES EmergencyStopsMotion
CHECK_DEADLOCK FALSE
