CONSTANTS
    p1 = p1
    p2 = p2
    Proc <- TwoProcs
    Skew <- SameClock
    BucketLen = 2
    Lease = 2
    MinBeat = 1
    MaxDelay = 1
    MaxClock = 4
    MaxInFlight = 1
    Plan = {"x1"}
    Member = {"u1"}
    Sender = {"r1"}
    Hours = {1}
    MaxTime = 1
    MaxFails = 0
    MaxChanges = 0
    Feed = {"f1"}
    Page = {"a1"}
    Caller = {"c1"}
    Scheduler = {}
    Barred = {}
    Tag = {"g1"}
    MaxTroubles = 0
    MaxByHand = 0
    Followed = {}
SPECIFICATION MCSpec
INVARIANT NoOverlap
CHECK_DEADLOCK FALSE
