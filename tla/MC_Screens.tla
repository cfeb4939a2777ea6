----------------------------- MODULE MC_Screens -----------------------------
(***************************************************************************)
(* The editorial calendar (MC_EditorialCalendar), and the screens of the   *)
(* web application, each with its API (three of them in EditingScreens):   *)
(* three things done by the member or by another, one call refused or      *)
(* broken.  They share no state but the variables that ScreenCalls         *)
(* declares, so a behaviour is about one part, chosen at the start, and    *)
(* the others stay as they are.                                            *)
(***************************************************************************)
EXTENDS MC_EditorialCalendar, EditingScreens

CONSTANTS
    PlansShown, Slots, Queries, FirstSlot,
    IdeasShown, IdeaKeys, IdeasPerPage,
    Orgs, Mappings,
    ContentsListed, Kinds, Filters, EveryKind, ContentsPerPage,
    Resources, Feeds,
    JoinedOrgs, GivenRoles,
    SourceIdeas, DraftFormats,
    Notes, Recos, Rules,
    Myself, OtherMembers, Invited,
    Names,
    FewRows         \* the screens find some of the rows only, where there are many

\* The rows are those of the seed of the run when FewRows holds, and any otherwise.
\* The names of what is not there are nobody's.
ASSUME ScreensAssumption ==
    /\ FewRows \in BOOLEAN /\ MaxAsked \in Nat /\ MaxTroubles \in Nat
    /\ IdeasPerPage \in Nat \ {0} /\ ContentsPerPage \in Nat \ {0}
    /\ "none" \notin PlansShown \cup Mappings \cup JoinedOrgs \cup SourceIdeas \cup DraftFormats
    /\ "-" \notin Names \cup SettingValues

all == <<part, vars, crossing, screen>>

Calendar == INSTANCE CalendarScreen WITH
    Plan <- PlansShown, Slot <- Slots, Query <- Queries, Today <- FirstSlot

Ideas == INSTANCE IdeasScreen WITH Idea <- IdeasShown, Key <- IdeaKeys, PageSize <- IdeasPerPage

Notion == INSTANCE NotionPanel WITH Org <- Orgs, Mapping <- Mappings

Library == INSTANCE LibraryList WITH
    Content <- ContentsListed, Kind <- Kinds, Filter <- Filters, NoFilter <- EveryKind,
    PageSize <- ContentsPerPage

Curation == INSTANCE CurationScreen WITH Resource <- Resources, Feed <- Feeds

Onboarding == INSTANCE OnboardingScreen WITH Org <- JoinedOrgs, Role <- GivenRoles

Generator == INSTANCE GeneratorScreen WITH Idea <- SourceIdeas, Format <- DraftFormats

Automations == INSTANCE AutomationPages WITH Note <- Notes, Reco <- Recos, Rule <- Rules

Members == INSTANCE MembersPage WITH Me <- Myself, Other <- OtherMembers, Address <- Invited

Account == INSTANCE ProfileScreen WITH Name <- Names

-----------------------------------------------------------------------------

NoScreen ==
    view = <<>> /\ call = <<>> /\ server = <<>> /\ past = <<>> /\ asked = 0 /\ troubles = 0

\* Some of the rows a screen may find, where there are many.
FewPlans == server["x1"] = "july" /\ server["x2"] \in {"none", "august"}

FewIdeas == \E r \in server : r.id = "x1" /\ r.key = "k1"

FewBindings == ~server["o2"].connected /\ view.org = "o1"

FewResources == server.rows = {[id |-> "r1", status |-> "NEW"]}

\* An idea that recommends a format and has a category, another with neither.
FewSources ==
    /\ server.source["i1"] = [recommended |-> "f2", category |-> TRUE]
    /\ server.source["i2"] = [recommended |-> "none", category |-> FALSE]
    /\ server.ideas = {"i1", "i2"}

FewNotes == server.notes = {"n1"} /\ server.open # {} /\ server.active = {} /\ server.inApp

FewMembers == server.roles["m1"] # "READER"

ScreenInit ==
    \/ part = "calendar" /\ Calendar!Init /\ (FewRows => FewPlans)
    \/ part = "saved ideas" /\ Ideas!Init /\ (FewRows => FewIdeas)
    \/ part = "notion" /\ Notion!Init /\ (FewRows => FewBindings)
    \/ part = "library" /\ Library!Init
    \/ part = "curation" /\ Curation!Init /\ (FewRows => FewResources)
    \/ part = "onboarding" /\ Onboarding!Init
    \/ part = "generator" /\ Generator!Init /\ (FewRows => FewSources)
    \/ part = "automations" /\ Automations!Init /\ (FewRows => FewNotes)
    \/ part = "members" /\ Members!Init /\ (FewRows => FewMembers)
    \/ part = "account" /\ Account!Init
    \/ EditingInit

AllInit ==
    /\ Init
    /\ \/ part = "plans" /\ crossing \in BOOLEAN /\ NoScreen
       \/ crossing = FALSE /\ ScreenInit

PlansNext == part = "plans" /\ MCNext /\ UNCHANGED <<part, crossing, screen>>

On(name) == part = name /\ UNCHANGED <<part, vars, crossing>>

CalendarNext == On("calendar") /\ Calendar!Next
SavedIdeasNext == On("saved ideas") /\ Ideas!Next
NotionNext == On("notion") /\ Notion!Next
LibraryNext == On("library") /\ Library!Next
CurationNext == On("curation") /\ Curation!Next
OnboardingNext == On("onboarding") /\ Onboarding!Next
GeneratorNext == On("generator") /\ Generator!Next
AutomationsNext == On("automations") /\ Automations!Next
MembersNext == On("members") /\ Members!Next
AccountNext == On("account") /\ Account!Next
EditsNext == EditingNext /\ UNCHANGED <<vars, crossing>>

\* With nothing under way, or gone, a screen may stop: the member does nothing more.
IsGone ==
    \/ part \in {"generator", "account"} /\ view.gone
    \/ part = "onboarding" /\ view.status = "gone"

Stops == part # "plans" /\ (call = <<>> \/ IsGone) /\ UNCHANGED all

AllNext ==
    \/ PlansNext \/ CalendarNext \/ SavedIdeasNext \/ NotionNext \/ LibraryNext \/ CurationNext
    \/ OnboardingNext \/ GeneratorNext \/ AutomationsNext \/ MembersNext \/ AccountNext
    \/ EditsNext \/ Stops

AllSpec == AllInit /\ [][AllNext]_all

-----------------------------------------------------------------------------

\* What a screen shows at rest is what the API holds, unless a reading failed or
\* crossed a change in one of the ways that each module names.
ScreensAreExact ==
    CASE part = "calendar"    -> Calendar!TypeOK /\ Calendar!ShowsThePlans /\ Calendar!EditsAPlan
      [] part = "saved ideas" -> Ideas!TypeOK /\ Ideas!ShowsTheIdeas
      [] part = "notion"      -> Notion!TypeOK /\ Notion!ShowsTheBinding
      [] part = "library"     -> Library!TypeOK /\ Library!ShowsThePage
      [] part = "content"     -> InLibrary!TypeOK /\ InLibrary!ShowsTheContent
      [] part = "curation"    -> Curation!TypeOK /\ Curation!ShowsTheCuration
      [] part = "onboarding"  -> Onboarding!TypeOK /\ Onboarding!ShowsTheOnboarding
      [] part = "editor"      -> Editor!TypeOK /\ Editor!ShowsTheContent
      [] part = "generator"   -> Generator!TypeOK /\ Generator!SavesTheDraft
      [] part = "automations" -> Automations!TypeOK /\ Automations!ShowsTheAutomations
      [] part = "members"     -> Members!TypeOK /\ Members!ShowsTheTeam
      [] part = "account"     -> Account!TypeOK /\ Account!ShowsTheProfile
      [] part = "settings"    -> Settings!TypeOK /\ Settings!ShowsTheSettings
      [] OTHER                -> TRUE

\* A screen waits only for a call under way, unless one threw: no button stays
\* disabled, and none is enabled too early.
ScreensWaitForCalls ==
    CASE part = "calendar"    -> Calendar!WaitsForCall
      [] part = "saved ideas" -> Ideas!WaitsForCall
      [] part = "notion"      -> Notion!WaitsForCall
      [] part = "library"     -> Library!WaitsForCall
      [] part = "curation"    -> Curation!WaitsForCall
      [] part = "onboarding"  -> Onboarding!WaitsForCall
      [] part = "generator"   -> Generator!WaitsForCall
      [] part = "automations" -> Automations!WaitsForCall
      [] part = "members"     -> Members!WaitsForCall
      [] part = "account"     -> Account!WaitsForCall
      [] OTHER                -> EditsWaitForCalls
=============================================================================
