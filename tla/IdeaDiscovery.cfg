SPECIFICATION Spec
CONSTANTS
    User = {u1, u2}
    Candidate = {c1}
    Rejection = {"DISLIKE"}
    Proc = {p1, p2}
    BatchSize = 1
    Attempts = 2
    MaxDate = 4
INVARIANTS ProfileIsLearned AnnouncedIsStored LikedIsSaved
PROPERTY ReactionsStand
