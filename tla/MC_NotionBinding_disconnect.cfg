SPECIFICATION MCSpec
CONSTANTS
    Managed = {d1, d2}
    Own = {o1}
    Entity = {e1}
    Proc = {p1, p2}
    None = None
INVARIANT NothingWithoutCredential
