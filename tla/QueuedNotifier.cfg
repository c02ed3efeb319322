CONSTANTS
    Listeners = {l1, l2}
    Publishers = {p1, p2}
    NoQueue = NoQueue
    MaxNotify = 2
SPECIFICATION FairSpec
INVARIANTS OneOwner NothingMissed
PROPERTIES NotifyReturns EveryChangeDelivered
CHECK_DEADLOCK FALSE
