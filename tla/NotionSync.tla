----------------------------- MODULE NotionSync -----------------------------
(***************************************************************************)
(* The synchronisation of one content, or of one curated resource, with    *)
(* its page in Notion (apps/api/src/integrations).  Contents share nothing *)
(* but the order in which a synchronisation takes them, so one is enough.  *)
(*                                                                         *)
(* A process is one request: an export, or the part of a synchronisation   *)
(* that is about this item.  It reads the item first, and compares, pushes *)
(* or pulls later, in a transaction that holds an advisory lock.  Members  *)
(* edit the item and people edit the page all the while.  A transaction    *)
(* that lasts too long is rolled back and loses its lock, but the request  *)
(* goes on calling Notion until it next needs the database.                *)
(***************************************************************************)
EXTENDS Integers, FiniteSets

CONSTANTS
    Proc,       \* requests
    Page,       \* pages that Notion may create for this item
    Text,       \* what the title and the status say
    Archived,   \* one of them, of which the status is ARCHIVED
    Removed,    \* another, of which the status is DELETED, that only contents have
    Blank,      \* no title, and a status that nobody knows: only in Notion
    Body,       \* bodies of a content; what else a resource has
    Hand,       \* a paragraph written in Notion
    Date,       \* publication dates
    Tolerance,  \* 500 ms
    None,
    MaxAsked,   \* bound of the model on requests
    MaxEdits,   \* bound of the model on edits, of the item and of the page
    MaxPlans    \* bound of the model on the plans of a content

VARIABLES
    kind,       \* CONTENT or RESOURCE
    item,       \* the row of the item, and those of its publication plans
    page,       \* the pages, in Notion
    state,      \* the sync state: which page, and what was synchronised
    req,        \* the requests under way
    now,        \* the clock
    asked,      \* how many requests there have been
    edits,      \* how many edits there have been
    clean,      \* history: requests that push and whose page nobody else has written
    behind,     \* history: a page may lack what its content has, see SynchronisedAgrees
    lost        \* history: pages whose creation was rolled back here

vars == <<kind, item, page, state, req, now, asked, edits, clean, behind, lost>>

ASSUME SyncAssumption ==
    /\ Archived \in Text
    /\ Removed \notin Text /\ Blank \notin Text /\ Removed # Blank
    /\ Body # {} /\ Hand \notin Body
    /\ Date \subseteq Nat \ {0}
    /\ None \notin Page
    /\ Tolerance \in Nat /\ MaxAsked \in Nat /\ MaxEdits \in Nat /\ MaxPlans \in Nat

PlanRow == [date : Date, at : Nat]

NoPlan == [date |-> 0, at |-> 0]

\* at: updated_at, which a trigger sets.  Columns that neither side shows
\* are part of body.
Item == [text : Text \cup {Removed}, body : Body, at : Nat, plans : SUBSET PlanRow]

\* date: 0 when there is none.  body: the paragraphs.  edited: last_edited_time,
\* 0 before the page exists.
Remote == [text : Text \cup {Blank, Removed}, date : Date \cup {0},
           body : SUBSET (Body \cup {Hand}), edited : Nat]

NoRemote == [text |-> Blank, date |-> 0, body |-> {}, edited |-> 0]

Hashed == [text : Text \cup {Removed}, body : Body, at : Nat, first : PlanRow \cup {NoPlan}]

State == [page : Page, hash : Hashed, edited : Nat]

NoState == [page |-> None]

\* The plan by publicationDate, the only one that is read.
First(i) ==
    IF i.plans = {} THEN NoPlan
    ELSE CHOOSE r \in i.plans :
            \A o \in i.plans : r.date < o.date \/ (r.date = o.date /\ r.at <= o.at)

\* hashLocalEntity: of everything that was read.
Hash(i) == [text |-> i.text, body |-> i.body, at |-> i.at, first |-> First(i)]

Rule == {"LOCAL_WINS", "NOTION_WINS", "NEWEST_WINS"}

\* rule: what settles a conflict; an export settles none.  snap: the item as
\* it was read first.  seen: the state read under the lock.  got: the page as
\* it was retrieved.  open: the transaction is still there.
Request == [stage : {"idle", "listed", "retrieve", "write", "clear", "append",
                     "reread", "save", "pull"},
            rule : Rule \cup {"EXPORT"}, snap : Item, began : Nat, open : BOOLEAN,
            seen : State \cup {NoState}, page : Page \cup {None}, got : Remote]

SomeItem == [text |-> Archived, body |-> CHOOSE b \in Body : TRUE, at |-> 0, plans |-> {}]

Idle == [stage |-> "idle", rule |-> "EXPORT", snap |-> SomeItem, began |-> 0, open |-> FALSE,
         seen |-> NoState, page |-> None, got |-> NoRemote]

TypeOK ==
    /\ kind \in {"CONTENT", "RESOURCE"}
    /\ item \in Item
    /\ page \in [Page -> Remote]
    /\ state \in State \cup {NoState}
    /\ req \in [Proc -> Request]
    /\ now \in Nat
    /\ asked \in Nat
    /\ edits \in Nat
    /\ clean \in SUBSET Proc
    /\ behind \in BOOLEAN
    /\ lost \in SUBSET Page

Init ==
    /\ kind \in {"CONTENT", "RESOURCE"}
    /\ item \in [text : Text, body : Body, at : {0}, plans : {{}}]
    /\ page = [g \in Page |-> NoRemote]
    /\ state = NoState
    /\ req = [p \in Proc |-> Idle]
    /\ now = 0
    /\ asked = 0
    /\ edits = 0
    /\ clean = {}
    /\ behind = FALSE
    /\ lost = {}

-----------------------------------------------------------------------------

Made(g) == page[g].edited # 0

\* The request has begun to write the page.
Writing(p) == req[p].stage \in {"clear", "append", "reread", "save"}

Inside(p) == Writing(p) \/ req[p].stage \in {"retrieve", "write", "pull"}

Holds(p) == Inside(p) /\ req[p].open

\* Mutant of Alive: a request does not notice that its transaction is over.
Alive_Always(p) == TRUE

\* The database refuses the statements of a transaction that it has ended.
Alive(p) == req[p].open

Goes(p, stage) == req' = [req EXCEPT ![p].stage = stage]

Ends(p) == req' = [req EXCEPT ![p] = Idle]

bounds == <<asked, edits>>

history == <<clean, behind, lost>>

\* What a call changes in Notion, and its date.
Writes(g, remote) ==
    /\ page' = [page EXCEPT ![g] = [remote EXCEPT !.edited = now + 1]]
    /\ now' = now + 1

-----------------------------------------------------------------------------
(* A request.                                                              *)

\* listAllContents and findContent leave deleted contents out, and
\* listAllResources archived resources.
Listed(rule) ==
    IF kind = "CONTENT" THEN item.text # Removed
    ELSE rule = "EXPORT" \/ item.text # Archived

\* exportContent, exportResource, syncNotion: the connection and its rule,
\* and the item, are read.
Ask(p) ==
    /\ req[p].stage = "idle"
    /\ asked < MaxAsked
    /\ \E rule \in Rule \cup {"EXPORT"} :
        /\ Listed(rule)
        /\ req' = [req EXCEPT ![p] =
                     [Idle EXCEPT !.stage = "listed", !.rule = rule, !.snap = item]]
    /\ asked' = asked + 1
    /\ UNCHANGED <<kind, item, page, state, now, edits, history>>

\* Mutant of Unlocked: there is no lock.
Unlocked_Never == TRUE

Unlocked == \A q \in Proc : ~Holds(q)

\* withEntityLock: a transaction, whose start will date what it updates, the
\* advisory lock, and the state under it.
LockEntity(p) ==
    /\ req[p].stage = "listed"
    /\ Unlocked
    /\ now' = now + 1
    /\ req' = [req EXCEPT ![p].stage = IF req[p].rule = "EXPORT" \/ state = NoState
                                         THEN "write" ELSE "retrieve",
                          ![p].began = now + 1, ![p].open = TRUE,
                          ![p].seen = state, ![p].page = state.page]
    /\ UNCHANGED <<kind, item, page, state, bounds, history>>

LocalChanged(p) == Hash(req[p].snap) # req[p].seen.hash

RemoteChanged(p, remote) == remote.edited > req[p].seen.edited + Tolerance

ShouldLocalWin(p, remote) ==
    \/ req[p].rule = "LOCAL_WINS"
    \/ req[p].rule = "NEWEST_WINS" /\ req[p].snap.at >= remote.edited

\* Mutant of KeepsLocal: what has changed here always wins.
KeepsLocal_Always(p, remote) == ~RemoteChanged(p, remote) \/ LocalChanged(p)

KeepsLocal(p, remote) ==
    ~RemoteChanged(p, remote) \/ (LocalChanged(p) /\ ShouldLocalWin(p, remote))

\* reconcileContent, reconcileResource: retrievePage, and the decision.
Reconcile(p) ==
    /\ req[p].stage = "retrieve"
    /\ LET remote == page[req[p].page] IN
        \/ /\ KeepsLocal(p, remote)
           /\ LocalChanged(p)
           /\ req' = [req EXCEPT ![p].stage = "write", ![p].got = remote]
        \/ /\ KeepsLocal(p, remote)
           /\ ~LocalChanged(p)
           /\ Ends(p)
        \/ /\ ~KeepsLocal(p, remote)
           /\ req' = [req EXCEPT ![p].stage = "pull", ![p].got = remote]
    /\ UNCHANGED <<kind, item, page, state, now, bounds, history>>

-----------------------------------------------------------------------------
(* pushContentLocked, pushResourceLocked.                                  *)

\* buildNotionProperties
Shown(p, remote) ==
    [remote EXCEPT !.text = req[p].snap.text, !.date = First(req[p].snap).date]

\* A content goes on with its body; a resource saves what the call answers.
AfterProperties == IF kind = "CONTENT" THEN "clear" ELSE "save"

UpdatePage(p) ==
    /\ req[p].stage = "write"
    /\ req[p].page # None
    /\ Writes(req[p].page, Shown(p, page[req[p].page]))
    /\ req' = [req EXCEPT ![p].stage = AfterProperties, ![p].got.edited = now + 1]
    /\ clean' = {p}
    /\ behind' = (behind \/ ~req[p].open)
    /\ UNCHANGED <<kind, item, state, bounds, lost>>

\* A first state is written at once, in the transaction: without it, the
\* request ends here.
CreatePage(p) ==
    /\ req[p].stage = "write"
    /\ req[p].page = None
    /\ \E g \in Page :
        /\ ~Made(g)
        /\ Writes(g, Shown(p, NoRemote))
        /\ IF Alive(p)
             THEN /\ req' = [req EXCEPT ![p].stage = AfterProperties, ![p].page = g,
                                        ![p].got.edited = now + 1]
                  /\ UNCHANGED lost
             ELSE /\ Ends(p)
                  /\ lost' = lost \cup {g}
    /\ clean' = {p}
    /\ UNCHANGED <<kind, item, state, bounds, behind>>

\* replacePageBody: the blocks there are, one by one, then the new ones.
ClearBody(p) ==
    /\ req[p].stage = "clear"
    /\ LET remote == page[req[p].page] IN
        IF remote.body = {} THEN UNCHANGED <<page, now>>
        ELSE Writes(req[p].page, [remote EXCEPT !.body = {}])
    /\ Goes(p, "append")
    /\ clean' = clean \cap {p}
    /\ behind' = (behind \/ ~req[p].open)
    /\ UNCHANGED <<kind, item, state, bounds, lost>>

AppendBody(p) ==
    /\ req[p].stage = "append"
    /\ LET remote == page[req[p].page] IN
        Writes(req[p].page, [remote EXCEPT !.body = @ \cup {req[p].snap.body}])
    /\ Goes(p, "reread")
    /\ clean' = clean \cap {p}
    /\ behind' = (behind \/ ~req[p].open)
    /\ UNCHANGED <<kind, item, state, bounds, lost>>

\* retrievePage, for the date that the body gave to the page.
RetrievePushed(p) ==
    /\ req[p].stage = "reread"
    /\ req' = [req EXCEPT ![p].stage = "save", ![p].got.edited = page[req[p].page].edited]
    /\ UNCHANGED <<kind, item, page, state, now, bounds, history>>

\* Mutant of Pushed: the hash of the item as it is by now.
Pushed_Current(p) == Hash(item)

\* What a push remembers: the item as it was read, not as it is by now.
Pushed(p) == Hash(req[p].snap)

\* saveSyncState and the commit.
SaveSyncState(p) ==
    /\ req[p].stage = "save"
    /\ Alive(p)
    /\ state' = [page |-> req[p].page, hash |-> Pushed(p), edited |-> req[p].got.edited]
    /\ behind' = (p \notin clean)
    /\ clean' = clean \ {p}
    /\ Ends(p)
    /\ UNCHANGED <<kind, item, page, now, bounds, lost>>

-----------------------------------------------------------------------------
(* applyRemoteContent, applyRemoteResource.                                *)

\* The first plan takes the date of the page, or is created or deleted.
PulledPlans(p) ==
    LET remote == req[p].got
        others == item.plans \ {First(item)}
    IN  IF kind = "RESOURCE" THEN item.plans
        ELSE IF remote.date = 0 THEN others
        ELSE others \cup {[date |-> remote.date, at |-> req[p].began]}

\* A title and a status that cannot be read leave those of the row.
Readable(text) == text \in Text \/ (kind = "CONTENT" /\ text = Removed)

Pulled(p) ==
    [text |-> IF Readable(req[p].got.text) THEN req[p].got.text ELSE item.text,
     body |-> item.body, at |-> req[p].began, plans |-> PulledPlans(p)]

\* A content that is now DELETED is not found again, and the pull fails.
ApplyRemote(p) ==
    /\ req[p].stage = "pull"
    /\ Alive(p)
    /\ kind = "CONTENT" => Pulled(p).text # Removed
    /\ item' = Pulled(p)
    /\ state' = [page |-> req[p].page, hash |-> Hash(Pulled(p)), edited |-> req[p].got.edited]
    /\ behind' = (behind \/ item.body # state.hash.body \/ Cardinality(item.plans) > 1)
    /\ Ends(p)
    /\ UNCHANGED <<kind, page, now, bounds, clean, lost>>

-----------------------------------------------------------------------------
(* What goes wrong, and who else writes.                                   *)

\* Sixty seconds: the transaction is rolled back, the request goes on.
Expire(p) ==
    /\ Holds(p)
    /\ req' = [req EXCEPT ![p].open = FALSE]
    /\ UNCHANGED <<kind, item, page, state, now, bounds, history>>

\* Notion refuses or does not answer, the transaction is no longer there, or
\* the server stops: the request ends, and its transaction with it.
Fails(p) ==
    /\ req[p].stage # "idle"
    /\ Ends(p)
    /\ behind' = (behind \/ Writing(p))
    /\ lost' = IF Writing(p) /\ req[p].seen = NoState THEN lost \cup {req[p].page} ELSE lost
    /\ UNCHANGED <<kind, item, page, state, now, bounds, clean>>

\* The editor, the library, the curation.
EditItem ==
    /\ edits < MaxEdits
    /\ item.text # Removed
    /\ \E t \in Text \cup {Removed}, b \in Body :
        /\ Readable(t)
        /\ t # item.text \/ b # item.body
        /\ item' = [item EXCEPT !.text = t, !.body = b, !.at = now + 1]
    /\ now' = now + 1
    /\ edits' = edits + 1
    /\ UNCHANGED <<kind, page, state, req, asked, history>>

\* The calendar: a plan is created, moved or deleted, and the row of the
\* content updated with it or not.
ChangePlan ==
    /\ kind = "CONTENT"
    /\ edits < MaxEdits
    /\ item.text # Removed
    /\ \E r \in item.plans \cup {NoPlan}, d \in Date \cup {0}, touched \in BOOLEAN :
        /\ r # NoPlan \/ d # 0
        /\ r = NoPlan => Cardinality(item.plans) < MaxPlans
        /\ item' = [item EXCEPT !.plans = (@ \ {r}) \cup [date : {d} \ {0}, at : {now + 1}],
                                !.at = IF touched THEN now + 1 ELSE @]
    /\ now' = now + 1
    /\ edits' = edits + 1
    /\ UNCHANGED <<kind, page, state, req, asked, history>>

\* Someone edits the page: its properties, or its body.  Soon after another
\* edit, or later.
EditInNotion ==
    /\ edits < MaxEdits
    /\ \E g \in Page, wait \in {1, 1 + Tolerance} :
        /\ Made(g)
        /\ \/ /\ \/ \E t \in (Text \cup {Blank, Removed}) \ {page[g].text} :
                        page' = [page EXCEPT ![g].text = t, ![g].edited = now + wait]
                 \/ \E d \in (Date \cup {0}) \ {page[g].date} :
                        page' = [page EXCEPT ![g].date = d, ![g].edited = now + wait]
              /\ clean' = {p \in clean : req[p].stage = "save"}
           \/ /\ Hand \notin page[g].body
              /\ page' = [page EXCEPT ![g].body = @ \cup {Hand}, ![g].edited = now + wait]
              /\ UNCHANGED clean
        /\ now' = now + wait
    /\ edits' = edits + 1
    /\ UNCHANGED <<kind, item, state, req, asked, behind, lost>>

Handle(p) ==
    \/ Ask(p) \/ LockEntity(p) \/ Reconcile(p)
    \/ UpdatePage(p) \/ CreatePage(p) \/ ClearBody(p) \/ AppendBody(p)
    \/ RetrievePushed(p) \/ SaveSyncState(p) \/ ApplyRemote(p)
    \/ Expire(p) \/ Fails(p)

Next == (\E p \in Proc : Handle(p)) \/ EditItem \/ ChangePlan \/ EditInNotion

Spec == Init /\ [][Next]_vars

-----------------------------------------------------------------------------

\* A synchronisation that started now would find nothing to do, and nobody is
\* writing the page.
TakenForSynchronised ==
    /\ state # NoState
    /\ Hash(item) = state.hash
    /\ page[state.page].edited = state.edited
    /\ \A p \in Proc : ~Writing(p)

PropertiesAgree ==
    LET remote == page[state.page] IN
        /\ remote.text = item.text \/ ~Readable(remote.text)
        /\ kind = "CONTENT" => remote.date = First(item).date

BodiesAgree ==
    LET remote == page[state.page] IN
        kind = "CONTENT" => Hand \in remote.body \/ remote.body = {item.body}

\* What a synchronisation would leave alone agrees with its page (reconcileContent,
\* reconcileResource): a resource always; a content unless, after the last
\* complete push, a push stopped half-way or went on without its transaction,
\* or a pull took over a body that was never pushed or a content with several
\* plans.  A push is complete when nobody else has changed what it writes.
SynchronisedAgrees ==
    TakenForSynchronised /\ (kind = "CONTENT" => ~behind) => PropertiesAgree /\ BodiesAgree

OverwritesAsRuled(p) ==
    req[p].rule # "EXPORT" /\ req[p].seen # NoState /\ req[p].open =>
        /\ req[p].stage = "pull" /\ state' # state =>
              \/ Hash(item) = state.hash \/ item # req[p].snap
              \/ ~ShouldLocalWin(p, req[p].got)
        /\ req[p].stage = "write" /\ page' # page =>
              LET remote == page[req[p].page] IN
              \/ remote.edited <= state.edited + Tolerance \/ remote # req[p].got
              \/ ShouldLocalWin(p, remote)

\* A synchronisation overwrites what it has not synchronised as its rule says,
\* or what was changed after it had looked (shouldLocalWin).
ConflictFollowsRule == [][\A p \in Proc : OverwritesAsRuled(p)]_vars

\* A page in Notion is the one of the state, or it is being pushed, or its
\* creation was rolled back here: requests that cross create one page, not two
\* (withEntityLock).
NoPageLost ==
    \A g \in Page : Made(g) =>
        \/ state # NoState /\ state.page = g
        \/ g \in lost
        \/ \E p \in Proc : Writing(p) /\ req[p].page = g

\* The state keeps its page, and never goes back to an earlier version of it,
\* whatever crosses and whatever expires (withEntityLock, saveSyncState).
StateMovesForward ==
    [][state # NoState => state' # NoState /\ state'.page = state.page
                          /\ state'.edited >= state.edited]_vars
=============================================================================
