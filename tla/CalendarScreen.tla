--------------------------- MODULE CalendarScreen ---------------------------
(***************************************************************************)
(* The editorial calendar on screen (apps/web, calendar).  It shows the    *)
(* plans of a month and of the filters, and has one form, for a new plan   *)
(* or for the one being edited.  After a change it reads the plans again,  *)
(* for the month that was shown when the change was asked.                 *)
(*                                                                         *)
(* Where a plan is in time, and its status, is its slot; a month with      *)
(* filters is a set of slots.                                              *)
(***************************************************************************)
EXTENDS ScreenCalls, FiniteSets

CONSTANTS
    Plan,
    Slot,
    Query,      \* the months with their filters: sets of slots
    Today       \* the slot of an empty form

None == "none"

\* there: the plans have been read once.
View == [query : Query, there : BOOLEAN, shown : SUBSET (Plan \X Slot),
         editing : Plan \cup {None}, form : Slot, loading : BOOLEAN, saving : BOOLEAN]

\* stale: what is shown may not be what the API holds.  picked: so may the plan
\* being edited.  stuck: an answer never came.
Past == [stale : BOOLEAN, picked : BOOLEAN, stuck : BOOLEAN]

TypeOK ==
    /\ view \in View /\ past \in Past
    /\ server \in [Plan -> Slot \cup {None}]
    /\ asked \in Nat /\ troubles \in Nat

Opened(q) ==
    [query |-> q, there |-> FALSE, shown |-> {}, editing |-> None, form |-> Today,
     loading |-> TRUE, saving |-> FALSE]

Load(q) == Call("load", [query |-> q])

Init ==
    /\ server \in [Plan -> Slot \cup {None}]
    /\ \E q \in Query : view = Opened(q) /\ call = <<Load(q)>>
    /\ past = [stale |-> FALSE, picked |-> FALSE, stuck |-> FALSE]
    /\ asked = 0 /\ troubles = 0

-----------------------------------------------------------------------------
(* The API.                                                                *)

Rows(q) == {<<x, server[x]>> : x \in {y \in Plan : server[y] \in q}}

ServeList(i) ==
    /\ call[i].op \in {"load", "reload"}
    /\ Serves(i, Rows(call[i].arg.query)) /\ UNCHANGED server

\* createPlan, or updatePlan of a plan that is there.
ServeSave(i) ==
    /\ call[i].op = "save"
    /\ LET x == call[i].arg.plan
           s == call[i].arg.slot
       IN  \/ /\ x = None
              /\ \E y \in Plan : server[y] = None /\ server' = [server EXCEPT ![y] = s]
              /\ Serves(i, <<>>)
           \/ /\ x # None /\ server[x] # None
              /\ server' = [server EXCEPT ![x] = s]
              /\ Serves(i, <<>>)
           \/ x # None /\ server[x] = None /\ NotFound(i)
           \/ x = None /\ (\A y \in Plan : server[y] # None) /\ NotFound(i)  \* the bound Plan

ServeDelete(i) ==
    /\ call[i].op = "delete"
    /\ LET x == call[i].arg.plan
       IN  IF server[x] = None THEN NotFound(i)
           ELSE server' = [server EXCEPT ![x] = None] /\ Serves(i, <<>>)

Serve(i) == call[i].state = "sent" /\ (ServeList(i) \/ ServeSave(i) \/ ServeDelete(i))

-----------------------------------------------------------------------------
(* What the member does.                                                   *)

Mutations == {"save", "delete", "reload"}

\* The effect runs again: what the former one asked for is forgotten.
ChangeQuery ==
    /\ Asks
    /\ \E q \in Query \ {view.query} :
        /\ view' = [view EXCEPT !.query = q, !.loading = TRUE]
        /\ call' = Append(Forgets({"load"}), Load(q))
    /\ past' = [past EXCEPT !.stale = Under(Mutations)]

\* Another page, and back.
Reopen ==
    /\ Asks
    /\ view' = Opened(view.query)
    /\ call' = Append(Forgotten, Load(view.query))
    /\ past' = [stale |-> Under(Mutations), picked |-> FALSE, stuck |-> FALSE]

\* The list and the month are hidden while plans are read (the month leaves out
\* the plans of other months, which the list shows).
Listed == IF view.loading \/ ~view.there THEN {} ELSE view.shown

\* The form stays, and its fields are never disabled.
FormIsOpen == view.there

\* No button of a plan is disabled by a change under way but its deletion.
SelectPlan ==
    /\ Asks
    /\ \E row \in Listed :
        /\ view' = [view EXCEPT !.editing = row[1], !.form = row[2]]
        /\ past' = [past EXCEPT !.picked = past.stale \/ Under(Mutations)]
    /\ UNCHANGED call

PlanDay ==
    /\ Asks /\ FormIsOpen /\ ~view.loading
    /\ \E s \in Slot : view' = [view EXCEPT !.editing = None, !.form = s]
    /\ past' = [past EXCEPT !.picked = FALSE]
    /\ UNCHANGED call

Type ==
    /\ Asks /\ FormIsOpen
    /\ \E s \in Slot \ {view.form} : view' = [view EXCEPT !.form = s]
    /\ UNCHANGED <<call, past>>

Emptied(v) == [v EXCEPT !.editing = None, !.form = Today]

ResetForm ==
    /\ Asks /\ FormIsOpen
    /\ view' = Emptied(view)
    /\ past' = [past EXCEPT !.picked = FALSE]
    /\ UNCHANGED call

MayChange == FormIsOpen /\ ~view.saving

\* What the closure of a change remembers: the query and the plan being edited.
Changes(op, x) ==
    /\ Asks /\ MayChange
    /\ view' = [view EXCEPT !.saving = TRUE]
    /\ call' = Append(call, Call(op, [plan |-> x, slot |-> view.form, query |-> view.query,
                                      editing |-> view.editing]))
    /\ past' = [past EXCEPT !.stale = @ \/ UnderLive({"load"})]

HandleSubmit == Changes("save", view.editing)

\* From the list, or from the form of the plan being edited.
HandleDelete ==
    \E x \in Plan :
        /\ x = view.editing \/ \E row \in Listed : row[1] = x
        /\ Changes("delete", x)

-----------------------------------------------------------------------------
(* What the answers do.                                                    *)

LoadAnswer(i) ==
    /\ Takes(i, "load")
    /\ call' = Rest(i)
    /\ \/ /\ call[i].state = "ok"
          /\ view' = [view EXCEPT !.there = TRUE, !.shown = call[i].answer, !.loading = FALSE]
          /\ UNCHANGED past
       \/ /\ call[i].state = "error"
          /\ view' = [view EXCEPT !.loading = FALSE]
          /\ past' = [past EXCEPT !.stale = TRUE]
       \/ /\ call[i].state = "thrown"
          /\ past' = [past EXCEPT !.stale = TRUE, !.stuck = TRUE]
          /\ UNCHANGED view

\* The reading again, for the query that the closure remembers.
ThenReads(i) == Append(Rest(i), Call("reload", [query |-> call[i].arg.query]))

\* A call that throws leaves the screen saving.
Throws(i) ==
    /\ call[i].state = "thrown" /\ call' = Rest(i)
    /\ past' = [past EXCEPT !.stale = TRUE, !.stuck = TRUE, !.picked = TRUE]
    /\ UNCHANGED view

IsRefused(i) ==
    /\ call[i].state = "error" /\ call' = Rest(i)
    /\ view' = [view EXCEPT !.saving = FALSE]
    /\ UNCHANGED past

SaveAnswer(i) ==
    /\ Takes(i, "save")
    /\ \/ /\ call[i].state = "ok" /\ call' = ThenReads(i)
          /\ view' = Emptied(view)
          /\ past' = [past EXCEPT !.picked = FALSE]
       \/ IsRefused(i)
       \/ Throws(i)

DeleteAnswer(i) ==
    /\ Takes(i, "delete")
    /\ \/ /\ call[i].state = "ok" /\ call' = ThenReads(i)
          /\ IF call[i].arg.editing = call[i].arg.plan
             THEN view' = Emptied(view) /\ past' = [past EXCEPT !.picked = FALSE]
             ELSE UNCHANGED <<view, past>>
       \/ IsRefused(i)
       \/ Throws(i)

\* No isMounted here: the answer is shown whatever the query has become.
ReloadAnswer(i) ==
    /\ Takes(i, "reload")
    /\ \/ /\ call[i].state = "ok" /\ call' = Rest(i)
          /\ view' = [view EXCEPT !.shown = call[i].answer, !.saving = FALSE]
          /\ past' = [past EXCEPT !.stale = @ \/ call[i].arg.query # view.query]
       \/ /\ call[i].state = "error" /\ call' = Rest(i)
          /\ view' = [view EXCEPT !.saving = FALSE]
          /\ past' = [past EXCEPT !.stale = TRUE]
       \/ Throws(i)

Member ==
    \/ ChangeQuery \/ Reopen \/ SelectPlan \/ PlanDay \/ Type \/ ResetForm
    \/ HandleSubmit \/ HandleDelete

Answer(i) == LoadAnswer(i) \/ SaveAnswer(i) \/ DeleteAnswer(i) \/ ReloadAnswer(i)

Next ==
    \/ Member
    \/ \E i \in DOMAIN call : Serve(i) \/ Refuses(i) \/ Breaks(i) \/ Drops(i) \/ Answer(i)

Spec == Init /\ [][Next]_screenVars

-----------------------------------------------------------------------------

\* At rest the plans on screen are those the API holds for the month and the
\* filters on screen, unless since they were last changed a reading has failed,
\* or crossed a change (reloadCalendar reads the month of its closure).
ShowsThePlans ==
    call = <<>> /\ ~past.stale => view.there /\ view.shown = Rows(view.query)

\* The plan that the form would update exists, unless it was chosen from a list
\* that was stale or while it was being deleted.
EditsAPlan == view.editing # None /\ call = <<>> /\ ~past.picked => server[view.editing] # None

\* The screen waits only for a call under way, unless one threw.
WaitsForCall ==
    ~past.stuck =>
        /\ view.loading => UnderLive({"load"})
        /\ view.saving <=> UnderLive(Mutations)
=============================================================================
