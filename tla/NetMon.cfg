CONSTANTS
    MaxChanges = 3
    MayCrash = TRUE
SPECIFICATION FairSpec
INVARIANTS AcceptedIsPending
PROPERTIES AcceptedIsHeard MonitorStops
CHECK_DEADLOCK FALSE
