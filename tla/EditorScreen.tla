---------------------------- MODULE EditorScreen ----------------------------
(***************************************************************************)
(* A content in the editor (apps/web, contents/content-detail): its form,  *)
(* its export to Notion, and the note that the member gives it, with the   *)
(* handlers of the API (apps/api, contents): an update finds the content,  *)
(* looks for duplicates, then writes the fields it was given by the id.    *)
(* The export is one step here that reads and one that writes the page;    *)
(* NotionSync has its details.  Elsewhere a plan of the calendar, or the   *)
(* library, changes the status.                                            *)
(***************************************************************************)
EXTENDS ScreenCalls

CONSTANTS
    Text,           \* the title and the body, as one
    Status          \* some of CONTENT_ITEM_STATUSES

None == "none"      \* no topic, nothing under way

\* A topic or none; one is enough to lose it.
Topic == {None, "topic"}

ContentRow == [text : Text, topic : Topic, status : Status]

\* toSaveStatus: the form knows four statuses.
ToSaveStatus(s) == IF s \in {"REVIEW", "READY", "ARCHIVED"} THEN s ELSE "DRAFT"

FormOf(c) == [c EXCEPT !.status = ToSaveStatus(@)]

\* there: the content has been read; busy: the action under way beside the saving.
View == [there : BOOLEAN, content : ContentRow, form : ContentRow, loading : BOOLEAN,
         saving : BOOLEAN, busy : {None, "export", "quality"}]

\* crossed: a saving was asked for during an export.
Past == [edited : BOOLEAN, stale : BOOLEAN, stuck : BOOLEAN, crossed : BOOLEAN]

TypeOK ==
    /\ view \in View /\ past \in Past
    /\ server.content \in ContentRow /\ server.page \subseteq ContentRow /\ server.noted \in BOOLEAN
    /\ asked \in Nat /\ troubles \in Nat

Init ==
    /\ \E c \in ContentRow :
        /\ server = [content |-> c, page |-> {}, noted |-> FALSE]
        /\ view = [there |-> FALSE, content |-> c, form |-> c, loading |-> TRUE,
                   saving |-> FALSE, busy |-> None]
    /\ call = <<Call("load", <<>>)>>
    /\ past = [edited |-> FALSE, stale |-> FALSE, stuck |-> FALSE, crossed |-> FALSE]
    /\ asked = 0 /\ troubles = 0

-----------------------------------------------------------------------------
(* The API.                                                                *)

At(i, op, steps) ==
    call[i].op = op /\ call[i].state = "sent" /\ Len(call[i].answer) = steps

\* Every request finds the content first; getContent and evaluateContent are done.
FindContent(i) ==
    \/ /\ At(i, "load", 0) /\ Serves(i, <<server.content>>) /\ UNCHANGED server
    \/ /\ At(i, "quality", 0) /\ Serves(i, <<server.content>>)
       /\ server' = [server EXCEPT !.noted = TRUE]
    \/ /\ At(i, "update", 0) \/ At(i, "export", 0)
       /\ call' = [call EXCEPT ![i].answer = <<server.content>>]
       /\ UNCHANGED <<view, server, past, asked, troubles>>

\* buildContentUpdateData: a topic that is not given stays.
Updated(c, form) == [form EXCEPT !.topic = IF @ = None THEN c.topic ELSE @]

UpdateContent(i) ==
    /\ At(i, "update", 1)
    /\ LET c == Updated(server.content, call[i].arg)
       IN  server' = [server EXCEPT !.content = c] /\ Serves(i, <<c>>)

\* The page receives what the request had found.
ExportContent(i) ==
    /\ At(i, "export", 1)
    /\ server' = [server EXCEPT !.page = {call[i].answer[1]}]
    /\ Serves(i, call[i].answer)

Serve(i) == FindContent(i) \/ UpdateContent(i) \/ ExportContent(i)

ChangedElsewhere ==
    /\ asked < MaxAsked /\ asked' = asked + 1
    /\ \E s \in Status \ {server.content.status} : server' = [server EXCEPT !.content.status = s]
    /\ past' = [past EXCEPT !.stale = TRUE]
    /\ UNCHANGED <<view, call, troubles>>

-----------------------------------------------------------------------------
(* What the member does.                                                   *)

IsOpen == view.there /\ ~view.loading

\* The fields are open while anything is under way.
Edit ==
    /\ Asks /\ IsOpen
    /\ \E t \in Text, x \in Topic, s \in {ToSaveStatus(u) : u \in Status} :
        LET form == [text |-> t, topic |-> x, status |-> s]
        IN  form # view.form /\ view' = [view EXCEPT !.form = form]
    /\ past' = [past EXCEPT !.edited = TRUE]
    /\ UNCHANGED call

HasUnsavedChanges == view.form # FormOf(view.content)

HandleSubmit ==
    /\ Asks /\ IsOpen /\ ~view.saving
    /\ view' = [view EXCEPT !.saving = TRUE]
    /\ call' = Append(call, Call("update", view.form))
    /\ past' = [past EXCEPT !.crossed = @ \/ view.busy = "export"]

CanExport == view.busy = None /\ ~HasUnsavedChanges /\ ~view.saving

HandleNotionExport ==
    /\ Asks /\ IsOpen /\ CanExport
    /\ view' = [view EXCEPT !.busy = "export"]
    /\ call' = Append(call, Call("export", view.content))
    /\ UNCHANGED past

HandleQuality ==
    /\ Asks /\ IsOpen /\ view.busy = None
    /\ view' = [view EXCEPT !.busy = "quality"]
    /\ call' = Append(call, Call("quality", <<>>))
    /\ UNCHANGED past

-----------------------------------------------------------------------------
(* What the answers do.                                                    *)

\* What was typed while the answer was on its way is lost.
HydrateForm(v, c) == [v EXCEPT !.there = TRUE, !.content = c, !.form = FormOf(c)]

\* The flag of the call is reset, whatever is answered; nothing catches what throws.
\* Mutant: an export frees the button of the saving, not its own.
Done_Busy(v, op) ==
    CASE op = "load"              -> [v EXCEPT !.loading = FALSE]
      [] op \in {"update", "export"} -> [v EXCEPT !.saving = FALSE]
      [] OTHER                    -> [v EXCEPT !.busy = None]

Done(v, op) ==
    CASE op = "load"   -> [v EXCEPT !.loading = FALSE]
      [] op = "update" -> [v EXCEPT !.saving = FALSE]
      [] OTHER         -> [v EXCEPT !.busy = None]

Answer(i) ==
    LET op == call[i].op
    IN  /\ Takes(i, op) /\ call' = Rest(i)
        /\ \/ /\ call[i].state = "ok" /\ op \in {"load", "update"}
              /\ view' = HydrateForm(Done(view, op), call[i].answer[1])
              /\ past' = [past EXCEPT !.edited = FALSE]
           \/ /\ call[i].state = "error" \/ (call[i].state = "ok" /\ op \in {"export", "quality"})
              /\ view' = Done(view, op) /\ UNCHANGED past
           \/ /\ call[i].state = "thrown"
              /\ past' = [past EXCEPT !.stale = TRUE, !.stuck = TRUE]
              /\ UNCHANGED view

Member == Edit \/ HandleSubmit \/ HandleNotionExport \/ HandleQuality

Next ==
    \/ Member \/ ChangedElsewhere
    \/ \E i \in DOMAIN call : Serve(i) \/ Refuses(i) \/ Breaks(i) \/ Answer(i)

Spec == Init /\ [][Next]_screenVars

-----------------------------------------------------------------------------

\* At rest the content in the editor is the one stored, unless it was changed
\* elsewhere or an answer was lost, and so is the form unless it was edited.
ShowsTheContent ==
    call = <<>> /\ ~past.stale /\ view.there =>
        /\ view.content = server.content
        /\ ~past.edited => ~HasUnsavedChanges

\* The screen waits only for a call under way, unless one threw.
WaitsForCall ==
    ~past.stuck =>
        /\ view.loading <=> Under({"load"})
        /\ view.saving <=> Under({"update"})
        /\ view.busy # None <=> Under({"export", "quality"})

\* The page in Notion receives the content that was on screen when the member
\* asked for the export, unless the member saved during the export, the content
\* was changed elsewhere or an answer was lost.
ExportsWhatIsShown ==
    \A i \in DOMAIN call :
        call[i].op = "export" /\ Len(call[i].answer) = 1 /\ ~past.stale /\ ~past.crossed =>
            call[i].answer[1] = call[i].arg
=============================================================================
