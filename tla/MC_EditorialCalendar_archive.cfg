SPECIFICATION MCSpec
CONSTANTS
    Content = {c1}
    Plan = {x1}
    Proc = {p1}
    Wanted = {"READY", "PUBLISHED", "ARCHIVED"}
PROPERTY OnlyAdminArchives
