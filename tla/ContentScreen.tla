---------------------------- MODULE ContentScreen ----------------------------
(***************************************************************************)
(* A content of the library on screen (apps/web, library/[contentId]), and *)
(* the handlers of the API that change it (apps/api, library): a request   *)
(* finds the content, then writes it by its id, then reads it again.       *)
(* Only an administrator archives, or changes what is archived.  The       *)
(* content is written elsewhere too: by the library for another member,    *)
(* and, without a look at the archive or its date, by the content editor,  *)
(* the plans and the pull from Notion.                                     *)
(*                                                                         *)
(* The texts of a content are one value, and its category a tag like the   *)
(* others: it is one of the labels that the screen creates.                *)
(***************************************************************************)
EXTENDS ScreenCalls

CONSTANTS Text, Label

\* Whether the status is ARCHIVED, and whether archivedAt is set.
ContentRow == [archived : BOOLEAN, dated : BOOLEAN, text : Text, labels : SUBSET Label]

Form == [archived : BOOLEAN, text : Text, labels : SUBSET Label]

Shown(c) == [archived |-> c.archived, text |-> c.text, labels |-> c.labels]

\* there: the content has been read.
View == [there : BOOLEAN, archived : BOOLEAN, form : Form, labels : SUBSET Label,
         loading : BOOLEAN, saving : BOOLEAN]

\* edited: the form was changed since it was filled.  stale: the content was
\* changed elsewhere, or an answer was lost.  stuck: an answer never came.
\* apart: the status was last moved elsewhere than by the library, or by a request
\* of the library under which the content was archived or restored.
Past == [edited : BOOLEAN, stale : BOOLEAN, stuck : BOOLEAN, apart : BOOLEAN]

TypeOK ==
    /\ view \in View /\ past \in Past
    /\ server \in [content : ContentRow, labels : SUBSET Label, admin : BOOLEAN]
    /\ asked \in Nat /\ troubles \in Nat

Load == Call("load", <<>>)

Init ==
    /\ \E t \in Text, labels \in SUBSET Label, archived \in BOOLEAN, dated \in BOOLEAN,
          admin \in BOOLEAN :
        /\ server = [content |-> [archived |-> archived, dated |-> dated, text |-> t,
                                  labels |-> {}],
                     labels |-> labels, admin |-> admin]
        /\ past = [edited |-> FALSE, stale |-> FALSE, stuck |-> FALSE,
                   apart |-> dated # archived]
        /\ view = [there |-> FALSE, archived |-> FALSE, labels |-> {}, loading |-> TRUE,
                   saving |-> FALSE, form |-> [archived |-> FALSE, text |-> t, labels |-> {}]]
    /\ call = <<Load>>
    /\ asked = 0 /\ troubles = 0

-----------------------------------------------------------------------------
(* The API.                                                                *)

Writes == {"update", "archive", "restore"}

At(i, step) == call[i].state = "sent" /\ call[i].answer = step

Moves(i, step) == call' = [call EXCEPT ![i].answer = step]

\* findContentOrThrow and assertMinimumRole, with what the request remembers of
\* the content.
FindContent(i) ==
    /\ call[i].op \in Writes /\ At(i, <<>>)
    /\ LET c == server.content
           needsAdmin == \/ call[i].op # "update"
                         \/ call[i].arg.archived
                         \/ c.archived
       IN  IF needsAdmin /\ ~server.admin THEN NotFound(i)
           ELSE Moves(i, <<c>>) /\ UNCHANGED <<view, server, past, asked, troubles>>

\* Mutant: the date of the archive stays when the content leaves it.
Dated_Kept(c, found, archived) == c.dated \/ archived

\* buildUpdateData: archivedAt follows the status, from the content that was found.
Dated(c, found, archived) == IF archived = found.dated THEN c.dated ELSE archived

Updated(c, found, form) ==
    [archived |-> form.archived, dated |-> Dated(c, found, form.archived), text |-> form.text,
     labels |-> form.labels]

\* The content was archived, restored or dated since the request found it.
Crosses(c, found) == c.archived # found.archived \/ c.dated # found.dated

\* update, by id.
WriteContent(i) ==
    /\ call[i].op \in Writes /\ Len(call[i].answer) = 1
    /\ call[i].state = "sent"
    /\ LET c     == server.content
           found == call[i].answer[1]
       IN  /\ server' = [server EXCEPT !.content =
                CASE call[i].op = "update"  -> Updated(c, found, call[i].arg)
                  [] call[i].op = "archive" -> [c EXCEPT !.archived = TRUE, !.dated = TRUE]
                  [] call[i].op = "restore" -> [c EXCEPT !.archived = FALSE, !.dated = FALSE]]
           /\ past' = [past EXCEPT !.apart = call[i].op = "update" /\ Crosses(c, found)]
    /\ Moves(i, <<"written", "written">>)
    /\ UNCHANGED <<view, asked, troubles>>

\* getContent
GetContent(i) ==
    /\ \/ call[i].op = "load" /\ At(i, <<>>)
       \/ call[i].op \in Writes /\ At(i, <<"written", "written">>)
    /\ Serves(i, <<server.content, server.labels>>) /\ UNCHANGED server

\* createTag, getOrCreateCategory: a name that exists is returned.
CreateLabel(i) ==
    /\ call[i].op = "create" /\ At(i, <<>>)
    /\ server' = [server EXCEPT !.labels = @ \cup {call[i].arg}]
    /\ Serves(i, <<call[i].arg>>)

Serve(i) == FindContent(i) \/ WriteContent(i) \/ GetContent(i) \/ CreateLabel(i)

\* The library writes the content for another member, with its date.
WrittenInLibrary ==
    \E archived \in BOOLEAN, text \in Text :
        /\ server' = [server EXCEPT !.content.archived = archived, !.content.dated = archived,
                                    !.content.text = text]
        /\ past' = [past EXCEPT !.stale = TRUE, !.apart = FALSE]

\* The content editor, a plan or the pull from Notion writes it, whoever asks and
\* whether it is archived or not: archivedAt is left as it is.
WrittenWithoutDate ==
    \E archived \in BOOLEAN, text \in Text :
        /\ server' = [server EXCEPT !.content.archived = archived, !.content.text = text]
        /\ past' = [past EXCEPT !.stale = TRUE,
                                !.apart = @ \/ archived # server.content.archived]

ChangedElsewhere ==
    /\ asked < MaxAsked /\ asked' = asked + 1
    /\ WrittenInLibrary \/ WrittenWithoutDate
    /\ UNCHANGED <<view, call, troubles>>

-----------------------------------------------------------------------------
(* What the member does.                                                   *)

\* The fields are open while a change is under way.
FormIsOpen == view.there /\ ~view.loading

Edits(form) ==
    /\ Asks /\ FormIsOpen /\ form # view.form
    /\ view' = [view EXCEPT !.form = form]
    /\ past' = [past EXCEPT !.edited = TRUE]
    /\ UNCHANGED call

EditText == \E t \in Text : Edits([view.form EXCEPT !.text = t])

ChooseStatus == Edits([view.form EXCEPT !.archived = ~@])

ToggleTag ==
    \E x \in view.labels :
        Edits([view.form EXCEPT !.labels = IF x \in @ THEN @ \ {x} ELSE @ \cup {x}])

\* One flag for every button.
Changes(op, arg) ==
    /\ Asks /\ FormIsOpen /\ ~view.saving
    /\ view' = [view EXCEPT !.saving = TRUE]
    /\ call' = Append(call, Call(op, arg))
    /\ UNCHANGED past

HandleSubmit == Changes("update", view.form)

HandleArchive == ~view.archived /\ Changes("archive", <<>>)

HandleRestore == view.archived /\ Changes("restore", <<>>)

HandleCreate == \E x \in Label : Changes("create", x)

-----------------------------------------------------------------------------
(* What the answers do.                                                    *)

\* What was typed while the answer was on its way is lost.
HydrateState(v, answer) ==
    [v EXCEPT !.there = TRUE, !.archived = answer[1].archived, !.form = Shown(answer[1]),
              !.labels = answer[2]]

Throws(i) ==
    /\ call[i].state = "thrown" /\ call' = Rest(i)
    /\ past' = [past EXCEPT !.stale = TRUE, !.stuck = TRUE]
    /\ UNCHANGED view

\* The error is told, the form is left as it is; the content may have been written
\* when the request failed while reading it again.
IsRefused(i) ==
    /\ call[i].state = "error" /\ call' = Rest(i)
    /\ view' = [view EXCEPT !.loading = IF call[i].op = "load" THEN FALSE ELSE @,
                            !.saving = IF call[i].op = "load" THEN @ ELSE FALSE]
    /\ past' = [past EXCEPT !.stale = @ \/ Len(call[i].answer) = 2]

LoadAnswer(i) ==
    /\ Takes(i, "load")
    /\ \/ /\ call[i].state = "ok" /\ call' = Rest(i)
          /\ view' = [HydrateState(view, call[i].answer) EXCEPT !.loading = FALSE]
          /\ UNCHANGED past
       \/ IsRefused(i)
       \/ Throws(i)

WriteAnswer(i) ==
    /\ call[i].op \in Writes /\ Takes(i, call[i].op)
    /\ \/ /\ call[i].state = "ok" /\ call' = Rest(i)
          /\ view' = [HydrateState(view, call[i].answer) EXCEPT !.saving = FALSE]
          /\ past' = [past EXCEPT !.edited = FALSE]
       \/ IsRefused(i)
       \/ Throws(i)

\* The new label is selected, and the form is kept.
CreateAnswer(i) ==
    /\ Takes(i, "create")
    /\ \/ /\ call[i].state = "ok" /\ call' = Rest(i)
          /\ view' = [view EXCEPT !.labels = @ \cup ItemsOf(call[i].answer), !.saving = FALSE,
                                  !.form.labels = @ \cup ItemsOf(call[i].answer)]
          /\ past' = [past EXCEPT !.edited = TRUE]
       \/ IsRefused(i)
       \/ Throws(i)

Member ==
    \/ EditText \/ ChooseStatus \/ ToggleTag
    \/ HandleSubmit \/ HandleArchive \/ HandleRestore \/ HandleCreate

Answer(i) == LoadAnswer(i) \/ WriteAnswer(i) \/ CreateAnswer(i)

Next ==
    \/ Member \/ ChangedElsewhere
    \/ \E i \in DOMAIN call : Serve(i) \/ Refuses(i) \/ Breaks(i) \/ Answer(i)

Spec == Init /\ [][Next]_screenVars

-----------------------------------------------------------------------------

\* At rest the content on screen is the one stored, unless it was changed
\* elsewhere or an answer was lost; the form is that content unless it was edited
\* since it was filled, and never offers a label that does not exist.
ShowsTheContent ==
    /\ view.labels \subseteq server.labels
    /\ call = <<>> /\ ~past.stale /\ view.there =>
        /\ view.archived = server.content.archived
        /\ view.labels = server.labels
        /\ ~past.edited => view.form = Shown(server.content)

\* The screen waits only for a call under way, unless one threw.
WaitsForCall ==
    ~past.stuck =>
        /\ view.loading <=> UnderLive({"load"})
        /\ view.saving <=> UnderLive(Writes \cup {"create"})

\* Whatever the others have left, a write of the library sets archivedAt exactly
\* when it archives, and this stays until the status is moved elsewhere, unless the
\* content was archived or restored between the two steps of the request.
ArchivesAreDated == ~past.apart => (server.content.dated <=> server.content.archived)

\* Through the library an editor neither changes what is archived nor archives, with
\* the same exception.
EditorsLeaveArchives ==
    ~server.admin /\ ~past'.apart /\ (\E i \in DOMAIN call : WriteContent(i))
        => ~server.content.archived /\ ~server'.content.archived
=============================================================================
