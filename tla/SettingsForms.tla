---------------------------- MODULE SettingsForms ----------------------------
(***************************************************************************)
(* The two forms of an organization's settings (apps/web): its editorial   *)
(* context, with the summary that generations receive, and the voice of    *)
(* its brand.  Each is read once, and its fields keep their own text.      *)
(* The API (apps/api, editorial-contexts and ai-settings) writes a row by  *)
(* the organization, whether there is one or not; the onboarding or        *)
(* another member writes it too.                                           *)
(***************************************************************************)
EXTENDS ScreenCalls

CONSTANT Value      \* what a row may say

NoValue == "-"

Row == Value \cup {NoValue}

\* The two forms are alike but for the role and the summary: only the context may
\* be written by an editor and has a summary, and only the voice has a value before
\* it is written.
View == [form : {"context", "voice"}, role : {"-", "ADMIN", "EDITOR", "READER"}, there : BOOLEAN,
         typed : Row, known : Row, summary : Row, loading : BOOLEAN, saving : BOOLEAN]

\* failed: the reading of the row failed.  stale: the row was written elsewhere, or
\* an answer was lost.  blind: a row was replaced that had not been read.
Past == [edited : BOOLEAN, failed : BOOLEAN, stale : BOOLEAN, stuck : BOOLEAN, blind : BOOLEAN]

TypeOK ==
    /\ view \in View /\ past \in Past
    /\ server \in [row : Row, role : {"ADMIN", "EDITOR", "READER"}]
    /\ asked \in Nat /\ troubles \in Nat

\* loadContext waits for three answers at once; each may fail.
Init ==
    /\ \E row \in Row, role \in {"ADMIN", "EDITOR", "READER"}, form \in {"context", "voice"} :
        /\ server = [row |-> row, role |-> role]
        /\ view = [form |-> form, role |-> "-", there |-> FALSE, typed |-> NoValue,
                   known |-> NoValue, summary |-> NoValue, loading |-> TRUE, saving |-> FALSE]
        /\ call = IF form = "context"
                  THEN <<Call("role", <<>>), Call("row", <<>>), Call("summary", <<>>)>>
                  ELSE <<Call("row", <<>>)>>
    /\ past = [edited |-> FALSE, failed |-> FALSE, stale |-> FALSE, stuck |-> FALSE,
               blind |-> FALSE]
    /\ asked = 0 /\ troubles = 0

-----------------------------------------------------------------------------
(* The API.                                                                *)

GetContext(i) == call[i].op = "row" /\ Serves(i, server.row) /\ UNCHANGED server

GetSummary(i) == call[i].op \in {"summary", "again"} /\ Serves(i, server.row) /\ UNCHANGED server

GetRole(i) == call[i].op = "role" /\ Serves(i, server.role) /\ UNCHANGED server

\* upsert, by the organization; seen: the row that the form was made with.
Writes(i) ==
    /\ server' = [server EXCEPT !.row = call[i].arg.value]
    /\ call' = [call EXCEPT ![i].state = "ok", ![i].answer = call[i].arg.value]
    /\ past' = [past EXCEPT !.blind = @ \/ server.row # call[i].arg.seen]
    /\ UNCHANGED <<view, asked, troubles>>

UpsertContext(i) ==
    /\ call[i].op = "save" /\ view.form = "context"
    /\ IF server.role # "READER" THEN Writes(i) ELSE NotFound(i)

UpdateSettings(i) ==
    /\ call[i].op = "save" /\ view.form = "voice"
    /\ IF server.role = "ADMIN" THEN Writes(i) ELSE NotFound(i)

Serve(i) ==
    /\ call[i].state = "sent"
    /\ GetContext(i) \/ GetSummary(i) \/ GetRole(i) \/ UpsertContext(i) \/ UpdateSettings(i)

WrittenElsewhere ==
    /\ asked < MaxAsked /\ asked' = asked + 1
    /\ \E v \in Value \ {server.row} : server' = [server EXCEPT !.row = v]
    /\ past' = [past EXCEPT !.stale = TRUE]
    /\ UNCHANGED <<view, call, troubles>>

-----------------------------------------------------------------------------
(* What the member does.                                                   *)

\* The voice is not shown before it was read; the context is, empty if need be.
IsOpen == ~view.loading /\ (view.form = "context" \/ view.there)

CanEdit == view.form = "voice" \/ view.role \in {"ADMIN", "EDITOR"}

TypeValue ==
    /\ Asks /\ IsOpen /\ CanEdit
    /\ \E v \in Value \ {view.typed} : view' = [view EXCEPT !.typed = v]
    /\ past' = [past EXCEPT !.edited = TRUE]
    /\ UNCHANGED call

Saves ==
    /\ Asks /\ IsOpen /\ ~view.saving
    /\ view' = [view EXCEPT !.saving = TRUE]
    /\ call' = Append(call, Call("save", [value |-> view.typed, seen |-> view.known]))
    /\ past' = [past EXCEPT !.edited = FALSE]

\* The fields of the context are required.
HandleContextSubmit == view.form = "context" /\ CanEdit /\ view.typed # NoValue /\ Saves

HandleVoiceSubmit == view.form = "voice" /\ Saves

-----------------------------------------------------------------------------
(* What the answers do.                                                    *)

\* The fields are made with what was read.
Made(v, row) == [v EXCEPT !.there = TRUE, !.known = row, !.typed = row]

Arrived == \A i \in DOMAIN call : call[i].state # "sent"

Ok(op) == \E i \in DOMAIN call : call[i].op = op /\ call[i].state = "ok"

Of(op) == call[CHOOSE i \in DOMAIN call : call[i].op = op].answer

Thrown == \E i \in DOMAIN call : call[i].state = "thrown"

\* Promise.all: one that throws is enough for nothing to be shown.
LoadContext ==
    /\ view.form = "context" /\ view.loading /\ Under({"row"})
    /\ \/ /\ Arrived /\ ~Thrown
          /\ LET named == IF Ok("role") THEN [view EXCEPT !.role = Of("role")] ELSE view
                 made  == IF Ok("row") THEN Made(named, Of("row")) ELSE named
                 summed == IF Ok("summary") THEN [made EXCEPT !.summary = Of("summary")] ELSE made
             IN  view' = [summed EXCEPT !.loading = FALSE]
          /\ past' = [past EXCEPT !.failed = ~Ok("row"), !.stale = @ \/ ~Ok("summary")]
       \/ Thrown /\ past' = [past EXCEPT !.stuck = TRUE] /\ UNCHANGED view
    /\ call' = <<>>
    /\ UNCHANGED <<server, asked, troubles>>

LoadVoice(i) ==
    /\ view.form = "voice" /\ Takes(i, "row") /\ call' = Rest(i)
    /\ \/ /\ call[i].state = "ok"
          /\ view' = [Made(view, call[i].answer) EXCEPT !.loading = FALSE] /\ UNCHANGED past
       \/ call[i].state = "error" /\ view' = [view EXCEPT !.loading = FALSE] /\ UNCHANGED past
       \/ call[i].state = "thrown" /\ past' = [past EXCEPT !.stuck = TRUE] /\ UNCHANGED view

\* The fields keep what is typed.  The summary of the context is read again.
SaveAnswer(i) ==
    /\ Takes(i, "save")
    /\ \/ /\ call[i].state = "ok"
          /\ view' = [view EXCEPT !.there = TRUE, !.known = call[i].answer, !.saving = FALSE]
          /\ call' = IF view.form = "context" THEN Append(Rest(i), Call("again", <<>>)) ELSE Rest(i)
          /\ UNCHANGED past
       \/ /\ call[i].state = "error" /\ call' = Rest(i)
          /\ view' = [view EXCEPT !.saving = FALSE]
          /\ past' = [past EXCEPT !.edited = TRUE]
       \/ /\ call[i].state = "thrown" /\ call' = Rest(i)
          /\ past' = [past EXCEPT !.stale = TRUE, !.stuck = TRUE] /\ UNCHANGED view

\* A summary that does not come is left out, and a later one may come before.
SummaryAnswer(i) ==
    /\ Takes(i, "again") /\ call' = Rest(i)
    /\ IF call[i].state = "ok" THEN view' = [view EXCEPT !.summary = call[i].answer]
       ELSE UNCHANGED view
    /\ past' = [past EXCEPT !.stale = @ \/ call[i].state # "ok" \/ Len(call) > 1]

Next ==
    \/ TypeValue \/ HandleContextSubmit \/ HandleVoiceSubmit \/ WrittenElsewhere \/ LoadContext
    \/ \E i \in DOMAIN call :
        \/ Serve(i) \/ Refuses(i) \/ Breaks(i) \/ LoadVoice(i)
        \/ SaveAnswer(i) \/ SummaryAnswer(i)

Spec == Init /\ [][Next]_screenVars

-----------------------------------------------------------------------------

\* At rest the fields say what the row says unless they were edited since it was
\* read or saved, and the summary is that of the row, unless the row was written
\* elsewhere, a reading crossed a saving or an answer was lost.
ShowsTheSettings ==
    call = <<>> /\ ~past.stale /\ ~past.stuck /\ view.there =>
        /\ view.known = server.row
        /\ ~past.edited => view.typed = server.row
        /\ view.form = "context" => view.summary = server.row

\* A row is replaced only by a member who has read it, unless it was written
\* elsewhere since, its reading failed or an answer was lost.
ReplacesWhatWasRead == past.blind => past.stale \/ past.failed

\* The form waits only for a call under way, unless one threw.
WaitsForCall ==
    ~past.stuck =>
        /\ view.loading <=> Under({"row"})
        /\ view.saving <=> Under({"save"})
=============================================================================
