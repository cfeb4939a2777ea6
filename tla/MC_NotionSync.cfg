SPECIFICATION MCSpec
CONSTANTS
    Proc = {p1, p2}
    Page = {1, 2}
    Text = {t1, t2}
    Archived = t1
    Removed = Removed
    Blank = Blank
    Body = {b1, b2}
    Hand = Hand
    Date = {1, 2}
    Tolerance = 1
    None = 0
    MaxAsked = 3
    MaxEdits = 2
    MaxPlans = 2
    EditsCrossing = 1
SYMMETRY RequestsAreAlike
CHECK_DEADLOCK FALSE
INVARIANTS SynchronisedAgrees NoPageLost
PROPERTIES ConflictFollowsRule StateMovesForward
