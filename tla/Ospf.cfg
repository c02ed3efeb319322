CONSTANTS
    Ids = {e1, e2}
    NoId = NoId
    Loopbacks = {e2}
    MayFail = TRUE
    MaxChanges = 1
SPECIFICATION FairSpec
INVARIANTS AppliedUnlessStale HelloRunsUnlessLoopback RacesOnlyIfIdle
PROPERTIES DroppedIsDown FollowedUnlessStale InstanceStopsUnlessStuck
CHECK_DEADLOCK FALSE
