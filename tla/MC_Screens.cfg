SPECIFICATION AllSpec
CONSTANTS
    Content = {c1, c2}
    Plan = {x1, x2}
    Proc = {p1, p2}
    Wanted = {"READY", "PUBLISHED", "ARCHIVED"}
    PlansShown = {"x1", "x2"}
    Slots = {"july", "august"}
    Queries = {{"july"}, {"august"}}
    FirstSlot = "july"
    IdeasShown = {"x1", "x2"}
    IdeaKeys = {"k1", "k2"}
    IdeasPerPage = 1
    Orgs = {"o1", "o2"}
    Mappings = {"m1"}
    ContentsListed = {"c1", "c2"}
    Kinds = {"draft", "ready"}
    Filters = {{"draft", "ready"}, {"draft"}}
    EveryKind = {"draft", "ready"}
    ContentsPerPage = 1
    LibraryTexts = {"t1", "t2"}
    LibraryLabels = {"l1", "l2"}
    Resources = {"r1", "r2"}
    Feeds = {"f1"}
    JoinedOrgs = {"o1", "o2"}
    GivenRoles = {"ADMIN", "EDITOR", "READER"}
    EditorTexts = {"t1", "t2"}
    EditorStatuses = {"DRAFT", "READY", "SCHEDULED"}
    SourceIdeas = {"i1", "i2"}
    DraftFormats = {"f1", "f2"}
    Notes = {"n1", "n2"}
    Recos = {"r1"}
    Rules = {"reminder"}
    Myself = "me"
    OtherMembers = {"m1"}
    Invited = {"a1"}
    Names = {"n1", "n2"}
    SettingValues = {"v1", "v2"}
    FewRows = TRUE
    MaxAsked = 3
    MaxTroubles = 1
SYMMETRY RequestsAreAlike
INVARIANTS TypeOK PublishedHasDate AloneScheduledHasPlan ScreensAreExact ScreensWaitForCalls
PROPERTY AloneSchedulingMarksContent WritesAreGuarded
