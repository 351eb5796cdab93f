SPECIFICATION FairSpec
CONSTANTS
    t1 = t1
    t2 = t2
    NoTrip = NoTrip
    Trip = {t1, t2}
    MaxWriter = 1
    MaxStream = 2
    MaxFetch = 2
    MaxSilent = 1
INVARIANTS IInv FannedOutOnce
PROPERTIES DroppedStreamUnsubscribed DeltaRefreshes
CHECK_DEADLOCK FALSE
