--------------------------- MODULE EditingScreens ---------------------------
(***************************************************************************)
(* The screens where a member edits what is stored: a content of the       *)
(* library, a content in the editor, and the forms of an organization's    *)
(* settings, each with its API.  They share no state but the variables     *)
(* that ScreenCalls declares, so a behaviour is about one of them.         *)
(* MC_Screens runs them beside the other screens.                          *)
(***************************************************************************)
CONSTANTS
    LibraryTexts, LibraryLabels,    \* of ContentScreen
    EditorTexts, EditorStatuses,    \* of EditorScreen
    SettingValues,                  \* of SettingsForms
    MaxAsked, MaxTroubles

VARIABLES part, view, call, server, past, asked, troubles

screen == <<view, call, server, past, asked, troubles>>

InLibrary == INSTANCE ContentScreen WITH Text <- LibraryTexts, Label <- LibraryLabels

Editor == INSTANCE EditorScreen WITH Text <- EditorTexts, Status <- EditorStatuses

Settings == INSTANCE SettingsForms WITH Value <- SettingValues

EditingInit ==
    \/ part = "content" /\ InLibrary!Init
    \/ part = "editor" /\ Editor!Init
    \/ part = "settings" /\ Settings!Init

ContentNext == part = "content" /\ InLibrary!Next
EditorNext == part = "editor" /\ Editor!Next
SettingsNext == part = "settings" /\ Settings!Next

EditingNext == (ContentNext \/ EditorNext \/ SettingsNext) /\ UNCHANGED part

EditingSpec == EditingInit /\ [][EditingNext]_<<part, screen>>

-----------------------------------------------------------------------------

\* Each of these screens waits only for a call under way, unless one threw: no
\* button stays disabled, and none is enabled too early.
EditsWaitForCalls ==
    /\ part = "content" => InLibrary!WaitsForCall
    /\ part = "editor" => Editor!WaitsForCall
    /\ part = "settings" => Settings!WaitsForCall

\* What a screen writes is what the member saw and may write: the library dates what
\* it archives, and lets no editor archive or change an archive (content), the page
\* exported is the content on screen (editor), and a row is replaced by a member who
\* has read it (settings).
WritesAreGuarded ==
    [][/\ part = "content"    => InLibrary!EditorsLeaveArchives /\ InLibrary!ArchivesAreDated'
       /\ part = "editor"     => Editor!ExportsWhatIsShown'
       /\ part = "settings"   => Settings!ReplacesWhatWasRead']_screen
=============================================================================
