----------------------------- MODULE IdeasScreen -----------------------------
(***************************************************************************)
(* The page of ideas (apps/web, ideas): suggestions of the AI, which are   *)
(* kept nowhere, and the ideas saved, in pages.  Several ideas may be      *)
(* saved, used or archived at the same time, and another member may        *)
(* archive one (apps/api, saveIdea and updateIdeaStatus).                  *)
(***************************************************************************)
EXTENDS ScreenCalls, FiniteSets

CONSTANTS
    Idea,       \* rows that may be created
    Key,        \* what suggestions say: the title, the angle
    PageSize

\* A row, as it is stored and as it was sent.
Row == [id : Idea, key : Key, status : {"SAVED", "USED", "ARCHIVED"}, at : Nat]

\* saving, updating: the keys and the ids whose buttons are disabled.
View == [saved : Seq(Row), suggested : SUBSET Key, page : Nat \ {0}, loading : BOOLEAN,
         generating : BOOLEAN, saving : SUBSET Key, updating : SUBSET Idea]

\* stale: what is listed may not be what the API holds.  stuck: an answer never
\* came.
Past == [stale : BOOLEAN, stuck : BOOLEAN]

TypeOK ==
    /\ view \in View /\ past \in Past
    /\ server \subseteq Row
    /\ asked \in Nat /\ troubles \in Nat

Opened == [saved |-> <<>>, suggested |-> {}, page |-> 1, loading |-> TRUE, generating |-> FALSE,
           saving |-> {}, updating |-> {}]

Load == Call("load", <<>>)

Init ==
    /\ \E old \in SUBSET Idea, k \in Key :
        server = {[id |-> x, key |-> k, status |-> "SAVED", at |-> 0] : x \in old}
    /\ view = Opened /\ call = <<Load>>
    /\ past = [stale |-> FALSE, stuck |-> FALSE]
    /\ asked = 0 /\ troubles = 0

-----------------------------------------------------------------------------
(* The API.                                                                *)

Kept == {r \in server : r.status # "ARCHIVED"}

Put(row) == {r \in server : r.id # row.id} \cup {row}

Newest ==
    CHOOSE s \in [1..Cardinality(Kept) -> Kept] :
        ItemsOf(s) = Kept /\ \A j, k \in DOMAIN s : j < k => s[j].at >= s[k].at

ListIdeas(i) ==
    /\ call[i].op = "load"
    /\ Serves(i, Newest) /\ UNCHANGED server

GenerateIdeas(i) ==
    /\ call[i].op = "generate"
    /\ \E new \in SUBSET Key \ {{}} : Serves(i, new)
    /\ UNCHANGED server

\* The same idea may be saved twice: a duplicate is only reported.
SaveIdea(i) ==
    /\ call[i].op = "save"
    /\ \E x \in Idea :
        LET row == [id |-> x, key |-> call[i].arg, status |-> "SAVED", at |-> Cardinality(server)]
        IN  (\A r \in server : r.id # x) /\ server' = Put(row) /\ Serves(i, row)

\* The bound Idea.
NoIdeaLeft(i) ==
    call[i].op = "save" /\ (\A x \in Idea : \E r \in server : r.id = x) /\ NotFound(i)

\* findFirst, of an idea that is not archived.
FindIdea(i) ==
    /\ call[i].op = "update" /\ call[i].answer = <<>>
    /\ IF \E r \in Kept : r.id = call[i].arg.idea
       THEN /\ call' = [call EXCEPT ![i].answer = <<"found">>]
            /\ UNCHANGED <<view, server, past, asked, troubles>>
       ELSE NotFound(i)

\* update, by id: it also brings back an idea archived since it was found.
UpdateIdeaStatus(i) ==
    /\ call[i].op = "update" /\ call[i].answer # <<>>
    /\ \E r \in server :
        LET row == [r EXCEPT !.status = call[i].arg.status]
        IN  r.id = call[i].arg.idea /\ server' = Put(row) /\ Serves(i, row)

Serve(i) ==
    /\ call[i].state = "sent"
    /\ ListIdeas(i) \/ GenerateIdeas(i) \/ SaveIdea(i) \/ NoIdeaLeft(i) \/ FindIdea(i) \/ UpdateIdeaStatus(i)

\* Another member archives an idea.
ArchivedElsewhere ==
    /\ asked < MaxAsked /\ asked' = asked + 1
    /\ \E r \in Kept : server' = Put([r EXCEPT !.status = "ARCHIVED"])
    /\ past' = [past EXCEPT !.stale = TRUE]
    /\ UNCHANGED <<view, call, troubles>>

-----------------------------------------------------------------------------
(* What the member does.                                                   *)

LastPage(n) == IF n = 0 THEN 1 ELSE (n + PageSize - 1) \div PageSize

\* clampSavedIdeasPage, in the effect that follows a change of the list.
Clamped(v) == [v EXCEPT !.page = IF @ > LastPage(Len(v.saved)) THEN LastPage(Len(v.saved)) ELSE @]

\* paginateSavedIdeas, of a list that is hidden while it is read.
OnPage ==
    IF view.loading THEN {}
    ELSE {view.saved[j] : j \in {n \in DOMAIN view.saved : LastPage(n) = view.page}}

TurnPage ==
    /\ Asks /\ ~view.loading
    /\ \E n \in {view.page - 1, view.page + 1} :
        n \in 1..LastPage(Len(view.saved)) /\ view' = [view EXCEPT !.page = n]
    /\ UNCHANGED <<call, past>>

\* Another page of the application, and back.
Reopen ==
    /\ Asks
    /\ view' = Opened
    /\ call' = Append(Forgotten, Load)
    /\ past' = [stale |-> Under({"save", "update"}), stuck |-> FALSE]

HandleGenerate ==
    /\ Asks /\ ~view.generating
    /\ view' = [view EXCEPT !.generating = TRUE]
    /\ call' = Append(call, Call("generate", <<>>))
    /\ UNCHANGED past

SavedKeys == {r.key : r \in ItemsOf(view.saved)}

\* A suggestion among the ideas saved, or being saved, is not saved again.
HandleSave ==
    /\ Asks
    /\ \E k \in view.suggested \ (SavedKeys \cup view.saving) :
        /\ view' = [view EXCEPT !.saving = @ \cup {k}]
        /\ call' = Append(call, Call("save", k))
    /\ past' = [past EXCEPT !.stale = @ \/ UnderLive({"load"})]

HandleDismissGenerated ==
    /\ Asks
    /\ \E k \in view.suggested : view' = [view EXCEPT !.suggested = @ \ {k}]
    /\ UNCHANGED <<call, past>>

Updates(x, status) ==
    /\ Asks /\ x \notin view.updating
    /\ view' = [view EXCEPT !.updating = @ \cup {x}]
    /\ call' = Append(call, Call("update", [idea |-> x, status |-> status]))
    /\ UNCHANGED past

HandleArchive == \E r \in OnPage : Updates(r.id, "ARCHIVED")

HandleMarkUsed == \E r \in OnPage : r.status # "USED" /\ Updates(r.id, "USED")

-----------------------------------------------------------------------------
(* What the answers do.  A call that throws leaves its flag as it is.      *)

Throws(i) ==
    /\ call[i].state = "thrown" /\ call' = Rest(i)
    /\ past' = [stale |-> TRUE, stuck |-> TRUE]
    /\ UNCHANGED view

LoadAnswer(i) ==
    /\ Takes(i, "load")
    /\ \/ /\ call[i].state = "ok" /\ call' = Rest(i)
          /\ view' = Clamped([view EXCEPT !.saved = call[i].answer, !.loading = FALSE])
          /\ UNCHANGED past
       \/ /\ call[i].state = "error" /\ call' = Rest(i)
          /\ view' = [view EXCEPT !.loading = FALSE]
          /\ past' = [past EXCEPT !.stale = TRUE]
       \/ Throws(i)

GenerateAnswer(i) ==
    /\ Takes(i, "generate")
    /\ \/ /\ call[i].state # "thrown" /\ call' = Rest(i)
          /\ view' = [view EXCEPT !.generating = FALSE,
                                  !.suggested = IF call[i].state = "ok" THEN call[i].answer ELSE @]
          /\ UNCHANGED past
       \/ Throws(i)

Saved(v, row) == [v EXCEPT !.saved = <<row>> \o @, !.page = 1]

SaveAnswer(i) ==
    /\ Takes(i, "save")
    /\ \/ /\ call[i].state # "thrown" /\ call' = Rest(i)
          /\ LET v == [view EXCEPT !.saving = @ \ {call[i].arg}]
             IN  view' = IF call[i].state = "ok" THEN Saved(v, call[i].answer) ELSE v
          /\ UNCHANGED past
       \/ Throws(i)

\* An archived idea leaves the list; one that was used is replaced.
Updated(v, row) ==
    LET others == SelectSeq(v.saved, LAMBDA r : r.id # row.id)
        put    == [j \in DOMAIN v.saved |-> IF v.saved[j].id = row.id THEN row ELSE v.saved[j]]
    IN  Clamped([v EXCEPT !.saved = IF row.status = "ARCHIVED" THEN others ELSE put])

UpdateAnswer(i) ==
    /\ Takes(i, "update")
    /\ \/ /\ call[i].state # "thrown" /\ call' = Rest(i)
          /\ LET v == [view EXCEPT !.updating = @ \ {call[i].arg.idea}]
             IN  view' = IF call[i].state = "ok" THEN Updated(v, call[i].answer) ELSE v
          /\ UNCHANGED past
       \/ Throws(i)

Member ==
    \/ TurnPage \/ Reopen \/ HandleGenerate \/ HandleSave \/ HandleDismissGenerated
    \/ HandleArchive \/ HandleMarkUsed

Answer(i) == LoadAnswer(i) \/ GenerateAnswer(i) \/ SaveAnswer(i) \/ UpdateAnswer(i)

Next ==
    \/ Member \/ ArchivedElsewhere
    \/ \E i \in DOMAIN call : Serve(i) \/ Refuses(i) \/ Breaks(i) \/ Drops(i) \/ Answer(i)

Spec == Init /\ [][Next]_screenVars

-----------------------------------------------------------------------------

\* At rest the ideas on screen are those that are kept, each once and with its
\* status, unless a reading failed or crossed a change of the list, or another
\* member archived an idea; and the page shown is one of the list.
ShowsTheIdeas ==
    /\ call = <<>> /\ ~past.stale =>
        ItemsOf(view.saved) = Kept /\ Len(view.saved) = Cardinality(Kept)
    /\ view.page <= LastPage(Len(view.saved))

\* A button waits only for its own call, unless one threw.
WaitsForCall ==
    ~past.stuck =>
        LET under(op) == {call[i].arg : i \in {j \in DOMAIN call : call[j].live /\ call[j].op = op}}
        IN  /\ view.loading <=> under("load") # {}
            /\ view.generating <=> under("generate") # {}
            /\ view.saving = under("save")
            /\ view.updating = {a.idea : a \in under("update")}
=============================================================================
