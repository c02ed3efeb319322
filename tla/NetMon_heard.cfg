CONSTANTS
    MaxChanges = 3
    MayCrash = FALSE
SPECIFICATION FairSpec
PROPERTIES ChangeIsHeard
CHECK_DEADLOCK FALSE
