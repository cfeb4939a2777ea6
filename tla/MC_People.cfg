SPECIFICATION MCSpec
CONSTANTS
    User = {u1, u2}
    Founder = u1
    Invitee = {u2}
    Role = {ADMIN, EDITOR}
    ADMIN = ADMIN
    Proc = {p1, p2}
    MaxToken = 3
    Address = {"a1"}
    Id = {"i1", "i2"}
    Word = {"w1", "w2"}
    Base = {"b"}
    Tries = 2
    MaxSalt = 3
    MaxGone = 1
    Roles = {"ADMIN", "READER"}
    MaxChanges = 3
SYMMETRY RequestsAreAlike
INVARIANTS JoinsAsInvited TokenAdmitsOnce AccountsAreWhole
PROPERTIES ClosedStaysClosed TeamKeepsAdmin ChangesFromChecked OnboardingIsKept
