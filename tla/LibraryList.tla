----------------------------- MODULE LibraryList -----------------------------
(***************************************************************************)
(* The library on screen (apps/web, library), and the list that the API    *)
(* gives it (apps/api, library): a page of the contents that match the     *)
(* filters, the last updated first.  The filters of the form are applied   *)
(* when it is submitted.  Other members create and change contents.        *)
(***************************************************************************)
EXTENDS ScreenCalls, FiniteSets

CONSTANTS
    Content,
    Kind,       \* what filters look at: status, format, tag, category, dates
    Filter,     \* sets of kinds
    NoFilter,
    PageSize

Row == [id : Content, kind : Kind]

Answers == [rows : Seq(Row), page : Nat \ {0}, pages : Nat \ {0}]

\* same: the draft is the very object that was applied, so that applying it again
\* changes nothing.  there: a list has been read.
View == [draft : Filter, same : BOOLEAN, filter : Filter, page : Nat \ {0}, there : BOOLEAN,
         library : Answers, loading : BOOLEAN, failed : BOOLEAN]

\* read: the filters and the page that the list was asked for.  stale: contents
\* have changed since.  stuck: an answer never came.
Past == [read : [filter : Filter, page : Nat \ {0}], stale : BOOLEAN, stuck : BOOLEAN]

TypeOK ==
    /\ view \in View /\ past \in Past
    /\ server \in Seq(Row)
    /\ asked \in Nat /\ troubles \in Nat

Criteria(v) == [filter |-> v.filter, page |-> v.page]

Load(v) == Call("load", Criteria(v))

Opened == [draft |-> NoFilter, same |-> TRUE, filter |-> NoFilter, page |-> 1, there |-> FALSE,
           library |-> [rows |-> <<>>, page |-> 1, pages |-> 1], loading |-> TRUE, failed |-> FALSE]

\* server: the contents, the last updated first.
Init ==
    /\ \E kind \in [Content -> Kind] :
        LET order == CHOOSE s \in [1..Cardinality(Content) -> Content] : ItemsOf(s) = Content
        IN  server = [n \in DOMAIN order |-> [id |-> order[n], kind |-> kind[order[n]]]]
    /\ view = Opened /\ call = <<Load(Opened)>>
    /\ past = [read |-> Criteria(Opened), stale |-> FALSE, stuck |-> FALSE]
    /\ asked = 0 /\ troubles = 0

-----------------------------------------------------------------------------
(* The API.  The rows and their count are two statements.                  *)

\* buildLibraryWhere
Matching(filter) == SelectSeq(server, LAMBDA r : r.kind \in filter)

Pages(n) == IF n = 0 THEN 1 ELSE (n + PageSize - 1) \div PageSize

PageOf(arg) ==
    LET found == Matching(arg.filter)
        first == (arg.page - 1) * PageSize
    IN  SubSeq(found, first + 1, IF first + PageSize > Len(found) THEN Len(found) ELSE first + PageSize)

FindMany(i) ==
    /\ call[i].op = "load" /\ call[i].answer = <<>>
    /\ call' = [call EXCEPT ![i].answer = <<PageOf(call[i].arg)>>]
    /\ UNCHANGED <<view, server, past, asked, troubles>>

Count(i) ==
    /\ call[i].op = "load" /\ call[i].answer # <<>>
    /\ Serves(i, [rows |-> call[i].answer[1], page |-> call[i].arg.page,
                  pages |-> Pages(Len(Matching(call[i].arg.filter)))])
    /\ UNCHANGED server

Serve(i) == call[i].state = "sent" /\ (FindMany(i) \/ Count(i))

\* An update puts the content first.
ChangedElsewhere ==
    /\ asked < MaxAsked /\ asked' = asked + 1
    /\ \E i \in DOMAIN server, k \in Kind :
        server' = <<[server[i] EXCEPT !.kind = k]>> \o WithoutAt(server, i)
    /\ past' = [past EXCEPT !.stale = TRUE]
    /\ UNCHANGED <<view, call, troubles>>

-----------------------------------------------------------------------------
(* What the member does.                                                   *)

\* The effect reads again when the filters or the page have changed.
Applies(v, anew) ==
    IF anew \/ v.page # view.page
    THEN /\ view' = [v EXCEPT !.loading = TRUE]
         /\ call' = Append(Forgets({"load"}), Load(v))
         /\ past' = [past EXCEPT !.stale = FALSE, !.read = Criteria(v), !.stuck = FALSE]
    ELSE view' = v /\ UNCHANGED <<call, past>>

EditFilter ==
    /\ Asks
    /\ \E f \in Filter : view' = [view EXCEPT !.draft = f, !.same = FALSE]
    /\ UNCHANGED <<call, past>>

HandleSubmit ==
    Asks /\ Applies([view EXCEPT !.filter = view.draft, !.same = TRUE, !.page = 1], ~view.same)

\* The empty filters are one object, but those of an edited draft may be equal to
\* it and be another.
HandleReset ==
    /\ Asks
    /\ \E other \in BOOLEAN :
        /\ view.filter # NoFilter => other
        /\ Applies([view EXCEPT !.draft = NoFilter, !.same = TRUE, !.filter = NoFilter, !.page = 1],
                   other)

\* renderResults: the pages are turned from the list, which is hidden while it is
\* read, after a failure, and when it is empty.
Listed == IF view.loading \/ view.failed \/ ~view.there THEN <<>> ELSE view.library.rows

TurnPage ==
    /\ Asks /\ Listed # <<>>
    /\ \E n \in {view.page - 1, view.page + 1} :
        n \in 1..view.library.pages /\ Applies([view EXCEPT !.page = n], FALSE)

-----------------------------------------------------------------------------
(* What the answers do.                                                    *)

LoadAnswer(i) ==
    /\ Takes(i, "load") /\ call' = Rest(i)
    /\ \/ /\ call[i].state = "ok"
          /\ view' = [view EXCEPT !.there = TRUE, !.library = call[i].answer,
                                  !.failed = FALSE, !.loading = FALSE]
          /\ UNCHANGED past
       \/ /\ call[i].state = "error"
          /\ view' = [view EXCEPT !.failed = TRUE, !.loading = FALSE]
          /\ UNCHANGED past
       \/ /\ call[i].state = "thrown"
          /\ past' = [past EXCEPT !.stuck = TRUE]
          /\ UNCHANGED view

Member == EditFilter \/ HandleSubmit \/ HandleReset \/ TurnPage

Next ==
    \/ Member \/ ChangedElsewhere
    \/ \E i \in DOMAIN call :
        Serve(i) \/ Refuses(i) \/ Breaks(i) \/ Drops(i) \/ LoadAnswer(i)

Spec == Init /\ [][Next]_screenVars

-----------------------------------------------------------------------------

\* The contents that are listed were read for the filters and the page on
\* screen, and are exactly those of the library when nobody has changed one
\* since.
ShowsThePage ==
    Listed # <<>> \/ (call = <<>> /\ view.there /\ ~view.failed /\ ~view.loading) =>
        /\ past.read = Criteria(view) /\ view.library.page = view.page
        /\ \A r \in ItemsOf(Listed) : r.kind \in view.filter
        /\ ~past.stale =>
            /\ view.library.rows = PageOf(past.read)
            /\ view.library.pages = Pages(Len(Matching(view.filter)))

\* The screen waits only for a reading under way, unless one threw.
WaitsForCall == ~past.stuck => (view.loading <=> UnderLive({"load"}))
=============================================================================
