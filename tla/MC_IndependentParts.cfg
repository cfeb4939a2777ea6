CONSTANTS
    p1 = p1
    p2 = p2
    Proc <- TwoProcs
    Skew <- AheadByOne
    BucketLen = 3
    Lease = 6
    MinBeat = 1
    MaxDelay = 1
    MaxClock = 7
    MaxInFlight = 2
    Feed = {"f1", "f2"}
    Page = {"a1", "a2"}
    Caller = {"c1", "c2"}
    Scheduler = {"c1"}
    Barred = {"a2"}
    Tag = {"g1"}
    MaxTroubles = 2
    MaxByHand = 2
    Followed = {"f1"}
    Target = {"t1", "t2", "t3"}
    Runner = {"n1", "n2"}
    MaxRead = 2
    MaxFails = 1
    MaxEdits = 2
    AuthKey = {"k1", "k2"}
    ApiKey = {"k3"}
    LimitOf <- SmallLimits
    WindowOf <- ShortWindows
    MaxBuckets = 2
    MaxTime = 3
    MaxAsked = 3
    Org = {"o1", "o2"}
    Batch = 2
    Reaction = {"LIKE", "REASON"}
    MaxCalls = 5
    FirstOrg = "o1"
SPECIFICATION MCSpec
INVARIANTS HolderKeepsRow FeedsAreExact RecommendedOnce LimitsHold DeckIsExact ShownIsServers
PROPERTY ImplementsExclusiveJob
CHECK_DEADLOCK FALSE
