CONSTANTS
    p1 = p1
    p2 = p2
    Proc <- TwoProcs
    Skew <- AheadByOne
    BucketLen = 2
    Lease = 2
    MinBeat = 1
    MaxDelay = 1
    MaxClock = 3
    MaxInFlight = 1
    Plan = {"x1", "x2"}
    Member = {"u1"}
    Sender = {"r1", "r2"}
    Hours = {1}
    MaxTime = 1
    MaxFails = 1
    MaxChanges = 1
    Feed = {"f1", "f2"}
    Page = {"a1", "a2"}
    Caller = {"c1", "c2"}
    Scheduler = {"c1"}
    Barred = {"a2"}
    Tag = {"g1"}
    MaxTroubles = 2
    MaxByHand = 2
    Followed = {"f1"}
SPECIFICATION MCSpec
INVARIANTS StartedOncePerBucket MembersAreTold
PROPERTIES RowsOfOthersStay AbandonedRunIsFailed NearIsTold ErrorRecovers
CHECK_DEADLOCK FALSE
