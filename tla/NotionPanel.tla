----------------------------- MODULE NotionPanel -----------------------------
(***************************************************************************)
(* The settings of the Notion integration on screen (apps/web,             *)
(* integrations): one operation at a time, after which the integration is  *)
(* read again.  The panel outlives a change of organization: each reading  *)
(* remembers its generation, and is ignored when it is no longer the       *)
(* current one.                                                            *)
(*                                                                         *)
(* The fields of the mapping are one value, and the two lists that a       *)
(* configuration chooses from (sources and pages) are one call.            *)
(***************************************************************************)
EXTENDS ScreenCalls

CONSTANTS
    Org,
    Mapping     \* what a source can be bound with

None == "none"

\* What the API tells of an integration.
Integration == [connected : BOOLEAN, mapping : Mapping \cup {None}, ready : BOOLEAN]

Disconnected == [connected |-> FALSE, mapping |-> None, ready |-> FALSE]

Operation == {"connect", "disconnect", "provision", "mapping", "health", "repair", "sync"}

\* there: the integration has been read.  listed: so have the lists.  form: the
\* fields, None when they hold their defaults.
View == [org : Org, there : BOOLEAN, integration : Integration, listed : BOOLEAN,
         form : Mapping \cup {None}, busy : Operation \cup {None},
         asksToProvision : BOOLEAN, asksToRepair : BOOLEAN]

\* from: the organization whose integration is shown.  stale: what is shown may
\* not be what the API holds.  edited: the form was changed since it was read.
\* unlisted: a list was refused.  crossed: a disconnection was answered after a
\* change of organization.  returned: the organization came back on screen while
\* an operation on it was under way.
Past == [from : Org \cup {None}, stale : BOOLEAN, edited : BOOLEAN, unlisted : BOOLEAN,
         crossed : BOOLEAN, returned : BOOLEAN]

TypeOK ==
    /\ view \in View /\ past \in Past
    /\ server \in [Org -> Integration]
    /\ asked \in Nat /\ troubles \in Nat

Opened(o) ==
    [org |-> o, there |-> FALSE, integration |-> Disconnected, listed |-> FALSE, form |-> None,
     busy |-> None, asksToProvision |-> FALSE, asksToRepair |-> FALSE]

Unread(o) ==
    [from |-> None, stale |-> FALSE, edited |-> FALSE, unlisted |-> FALSE, crossed |-> FALSE,
     returned |-> \E i \in DOMAIN call : call[i].op \in Operation /\ call[i].arg.org = o]

\* after: the operation that waits for this reading.
Load(o, after) == Call("load", [org |-> o, after |-> after])

Init ==
    /\ server \in [Org -> {i \in Integration :
                            (i.mapping # None => i.connected) /\ (i.ready => i.mapping # None)}]
    /\ \E o \in Org : view = Opened(o) /\ call = <<Load(o, None)>> /\ past = Unread(o)
    /\ asked = 0 /\ troubles = 0

-----------------------------------------------------------------------------
(* The API.  A refused token makes the connection one to renew.            *)

Becomes(o, i) == server' = [server EXCEPT ![o] = i]

ServeReading(i) ==
    /\ \/ call[i].op = "load" /\ Serves(i, server[call[i].arg.org])
       \/ call[i].op = "lists" /\ IF server[call[i].arg.org].connected THEN Serves(i, <<>>)
                                  ELSE NotFound(i)
    /\ UNCHANGED server

ServeOperation(i) ==
    /\ call[i].op \in Operation
    /\ LET o   == call[i].arg.org
           now == server[o]
       IN  \/ call[i].op = "connect" /\ UNCHANGED server
           \/ call[i].op = "disconnect" /\ Becomes(o, Disconnected)
           \/ /\ call[i].op = "provision" /\ now.connected
              /\ \E m \in Mapping : Becomes(o, [now EXCEPT !.mapping = m, !.ready = TRUE])
           \/ /\ call[i].op = "mapping" /\ now.connected
              /\ Becomes(o, [now EXCEPT !.mapping = call[i].arg.form, !.ready = TRUE])
           \/ /\ call[i].op = "health" /\ now.mapping # None
              /\ \E ready \in BOOLEAN : Becomes(o, [now EXCEPT !.ready = ready])
           \/ /\ call[i].op = "repair" /\ now.mapping # None
              /\ Becomes(o, [now EXCEPT !.ready = TRUE])
           \/ /\ call[i].op = "sync" /\ now.mapping # None
              /\ \E on \in BOOLEAN : Becomes(o, [now EXCEPT !.connected = @ /\ on])
    /\ Serves(i, <<>>)

\* There is no connection, or no mapping, any more.
Conflicts(i) ==
    LET now == server[call[i].arg.org]
    IN  /\ \/ call[i].op \in {"provision", "mapping"} /\ ~now.connected
           \/ call[i].op \in {"health", "repair", "sync"} /\ now.mapping = None
        /\ NotFound(i)

Serve(i) == call[i].state = "sent" /\ (ServeReading(i) \/ ServeOperation(i) \/ Conflicts(i))

-----------------------------------------------------------------------------
(* What the member does: an administrator, who may configure and           *)
(* synchronise.                                                            *)

\* The effect of the organization: everything is reset, and the generation is a
\* new one.
SwitchOrganization ==
    /\ Asks
    /\ \E o \in Org \ {view.org} :
        view' = Opened(o) /\ call' = Append(Forgotten, Load(o, None)) /\ past' = Unread(o)

Configures == view.there /\ view.integration.connected

Edit ==
    /\ Asks /\ Configures
    /\ \E m \in Mapping \ {view.form} : view' = [view EXCEPT !.form = m]
    /\ past' = [past EXCEPT !.edited = TRUE]
    /\ UNCHANGED call

\* Every button waits for the operation under way.
Runs(op) ==
    /\ Asks /\ view.there /\ view.busy = None
    /\ view' = [view EXCEPT !.busy = op]
    /\ call' = Append(call, Call(op, [org |-> view.org, form |-> view.form]))
    /\ UNCHANGED past

HandleConnect == ~view.integration.connected /\ Runs("connect")

HandleDisconnect == Configures /\ Runs("disconnect")

OpenProvision ==
    /\ Asks /\ Configures /\ view.busy = None /\ view.listed
    /\ view' = [view EXCEPT !.asksToProvision = TRUE]
    /\ UNCHANGED <<call, past>>

HandleProvision == view.asksToProvision /\ Runs("provision")

\* The source of the form must be one of the list.
HandleSaveMapping == Configures /\ view.form # None /\ view.listed /\ Runs("mapping")

HandleHealthCheck == view.integration.mapping # None /\ Runs("health")

OpenRepair ==
    /\ Asks /\ view.busy = None /\ view.integration.mapping # None /\ ~view.integration.ready
    /\ view' = [view EXCEPT !.asksToRepair = TRUE]
    /\ UNCHANGED <<call, past>>

HandleRepair == view.asksToRepair /\ Runs("repair")

HandleSync == view.integration.ready /\ Runs("sync")

Cancel ==
    /\ Asks /\ (view.asksToProvision \/ view.asksToRepair)
    /\ view' = [view EXCEPT !.asksToProvision = FALSE, !.asksToRepair = FALSE]
    /\ UNCHANGED <<call, past>>

-----------------------------------------------------------------------------
(* What the answers do.                                                    *)

\* The lists are read when the connection appears; when it goes, the former
\* reading is forgotten.
ThenLists(i, was, is) ==
    LET kept == IF was # is THEN [j \in DOMAIN call |->
                    IF call[j].op = "lists" THEN [call[j] EXCEPT !.live = FALSE] ELSE call[j]]
                ELSE call
        rest == WithoutAt(kept, i)
    IN  IF is /\ ~was THEN Append(rest, Call("lists", [org |-> view.org])) ELSE rest

\* Nothing but the operation that waits is released when the reading fails.
LoadAnswer(i) ==
    /\ Takes(i, "load")
    /\ LET v   == IF call[i].arg.after = None THEN view ELSE [view EXCEPT !.busy = None]
           was == view.there /\ view.integration.connected
           new == call[i].answer
       IN  \/ /\ call[i].state = "ok"
              /\ view' = [v EXCEPT !.there = TRUE, !.integration = new, !.form = new.mapping]
              /\ call' = ThenLists(i, was, new.connected)
              /\ past' = [past EXCEPT !.from = call[i].arg.org, !.stale = past.returned, !.edited = FALSE]
           \/ /\ call[i].state # "ok"
              /\ view' = v /\ call' = Rest(i)
              /\ past' = [past EXCEPT !.stale = TRUE]

ListsAnswer(i) ==
    /\ Takes(i, "lists") /\ call' = Rest(i)
    /\ IF call[i].state = "ok"
       THEN view' = [view EXCEPT !.listed = TRUE] /\ UNCHANGED past
       ELSE past' = [past EXCEPT !.unlisted = TRUE] /\ UNCHANGED view

\* To Notion whatever is on screen, and back with or without a connection: what
\* was under way is abandoned with the page.
ConnectAnswer(i) ==
    /\ call[i].op = "connect" /\ call[i].state = "ok"
    /\ LET o == call[i].arg.org
       IN  /\ \E accepted \in BOOLEAN :
                Becomes(o, [server[o] EXCEPT !.connected = @ \/ accepted])
           /\ view' = Opened(o) /\ past' = Unread(o) /\ call' = <<Load(o, None)>>
    /\ UNCHANGED <<asked, troubles>>

ThenReads(i) == Append(Rest(i), Load(call[i].arg.org, call[i].op))

Done(v, op) ==
    CASE op = "disconnect" -> [v EXCEPT !.listed = FALSE, !.form = None]
      [] op = "provision"  -> [v EXCEPT !.asksToProvision = FALSE]
      [] op = "repair"     -> [v EXCEPT !.asksToRepair = FALSE]
      [] OTHER             -> v

\* The integration is read again after an operation, and after a health check or
\* a synchronisation even when it failed.
OperationAnswer(i) ==
    /\ call[i].op \in Operation /\ Takes(i, call[i].op)
    /\ LET op == call[i].op
       IN  \/ /\ call[i].state = "ok" /\ op # "connect"
              /\ view' = Done(view, op) /\ call' = ThenReads(i)
              /\ UNCHANGED past
           \/ /\ call[i].state # "ok" /\ op \in {"health", "sync"}
              /\ call' = ThenReads(i)
              /\ UNCHANGED <<view, past>>
           \/ /\ call[i].state # "ok" /\ op \notin {"health", "sync"}
              /\ view' = [view EXCEPT !.busy = None] /\ call' = Rest(i)
              /\ past' = [past EXCEPT !.stale = @ \/ call[i].state = "thrown"]

\* The answer to an operation of the former organization: what a success does is
\* not guarded by the generation, only the reading that follows is ignored.
LateAnswer(i) ==
    /\ call[i].op \in Operation /\ ~call[i].live /\ call[i].state # "sent"
    /\ ~(call[i].op = "connect" /\ call[i].state = "ok")
    /\ call' = Rest(i)
    /\ IF call[i].state = "ok"
       THEN /\ view' = Done(view, call[i].op)
            /\ past' = [past EXCEPT !.crossed = @ \/ call[i].op = "disconnect"]
       ELSE UNCHANGED <<view, past>>
    /\ UNCHANGED <<server, asked, troubles>>

Member ==
    \/ SwitchOrganization \/ Edit \/ HandleConnect \/ HandleDisconnect \/ OpenProvision
    \/ HandleProvision \/ HandleSaveMapping \/ HandleHealthCheck \/ OpenRepair \/ HandleRepair
    \/ HandleSync \/ Cancel

Answer(i) ==
    \/ LoadAnswer(i) \/ ListsAnswer(i) \/ ConnectAnswer(i) \/ OperationAnswer(i)
    \/ LateAnswer(i)
    \/ call[i].op \notin Operation /\ Drops(i)

Next ==
    \/ Member
    \/ \E i \in DOMAIN call : Serve(i) \/ Refuses(i) \/ Breaks(i) \/ Answer(i)

Spec == Init /\ [][Next]_screenVars

-----------------------------------------------------------------------------

\* What is shown is of the organization on screen.  At rest it is what the API
\* holds, unless the last reading failed, an operation broke or the organization came
\* back during an operation on it; the form holds
\* the mapping unless it was edited, and there is a source to choose when there
\* is a connection, unless a disconnection of the former organization came late.
ShowsTheBinding ==
    LET now == view.integration
    IN  /\ view.there => past.from = view.org
        /\ call = <<>> /\ ~past.stale =>
            /\ view.there /\ now = server[view.org]
            /\ ~past.edited /\ ~past.crossed => view.form = now.mapping
            /\ now.connected /\ ~past.crossed /\ ~past.unlisted => view.listed

\* One operation at a time on an organization, and the panel waits for nothing
\* else: whatever becomes of its calls, an operation ends.
WaitsForCall ==
    LET waits(i) == CASE call[i].op = "load" -> call[i].arg.after
                      [] call[i].op = "lists" -> None
                      [] OTHER -> call[i].op
        own == {i \in DOMAIN call : call[i].live /\ waits(i) # None}
    IN  IF view.busy = None THEN own = {} ELSE \E i \in own : own = {i} /\ waits(i) = view.busy
=============================================================================
