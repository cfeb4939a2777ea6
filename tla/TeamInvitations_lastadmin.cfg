SPECIFICATION Spec
CONSTANTS
    User = {u1, u2}
    Founder = u1
    Invitee = {u2}
    Role = {ADMIN, EDITOR}
    ADMIN = ADMIN
    Proc = {p1}
    MaxToken = 1
INVARIANT LastAdminProtected
