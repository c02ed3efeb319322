CONSTANTS
    Listeners = {l1, l2}
    Publishers = {p1}
    Values = {v0, v1}
    InitialVal = v0
    Chans = {c1, c2, c3}
    NoChan = NoChan
    MaxSeq = 2
SPECIFICATION FairSpec
INVARIANTS OneState NotifyNeverBlocks NoLostWakeup
PROPERTIES EveryListenerNotified BroadcastSpec
CHECK_DEADLOCK FALSE
