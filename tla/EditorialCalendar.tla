------------------------- MODULE EditorialCalendar -------------------------
(***************************************************************************)
(* Contents and their publication plans (apps/api/src/publication-plans,   *)
(* library, contents).  A plan that is scheduled, published or cancelled   *)
(* moves the status of its content along; the library and the content      *)
(* editor change the same status directly.                                 *)
(*                                                                         *)
(* A process is one request.  It reads first, outside any transaction, and *)
(* writes later by id, so what it read may be stale.  The changes of a     *)
(* plan are a transaction at the isolation level READ COMMITTED, the       *)
(* default of the database: each of its statements sees what is committed  *)
(* when it runs and the transaction's own writes; a row that another       *)
(* transaction has written is locked until that one ends.                  *)
(***************************************************************************)
EXTENDS Integers

CONSTANTS
    Content,    \* contents of an organization
    Plan,       \* ids of publication plans, used once
    Proc,       \* requests
    Wanted      \* bound of the model on the statuses the library is asked for

VARIABLES
    content,    \* the rows of the contents, as committed
    plan,       \* the rows of the plans, as committed
    req,        \* the requests under way
    draft,      \* the plan row a transaction has written
    patch       \* the content rows a transaction has written

vars == <<content, plan, req, draft, patch>>

SaveStatus == {"DRAFT", "REVIEW", "READY", "ARCHIVED"}

ItemStatus == SaveStatus \cup {"SCHEDULED", "PUBLISHED", "DELETED"}

PlanStatus == {"SCHEDULED", "PUBLISHED", "CANCELLED"}

ASSUME CalendarAssumption == Content # {} /\ Plan # {} /\ Wanted \subseteq ItemStatus

\* published, archived: the dates publishedAt and archivedAt are set.
Item == [status : ItemStatus \cup {"NONE"}, published : BOOLEAN, archived : BOOLEAN]

NoItem == [status |-> "NONE", published |-> FALSE, archived |-> FALSE]

\* NONE: not created yet.  GONE: deleted.
PlanRow == [status : PlanStatus \cup {"NONE", "GONE"}, of : Content]

SomeContent == CHOOSE c \in Content : TRUE

NoPlan == [status |-> "NONE", of |-> SomeContent]

Exists(row) == row.status \notin {"NONE", "GONE"}

\* from: the content of the plan when it was read.  to: the content that the
\* request is about.  moves, sets: the request gives a content, a status.
\* seen: the content as the library read it.  admin: the caller's role; a
\* request about a plan does not depend on it and is an editor's.
Request == [op : {"create", "update", "delete", "library", "editor", "archive", "restore"},
            stage : {"idle", "content", "plan", "sync", "relax", "status", "ready",
                     "commit", "write"},
            admin : BOOLEAN, x : Plan, from : Content, to : Content, target : Content,
            moves : BOOLEAN, sets : BOOLEAN, wants : PlanStatus \cup ItemStatus,
            seen : Item]

SomePlan == CHOOSE x \in Plan : TRUE

Idle == [op |-> "create", stage |-> "idle", admin |-> FALSE, x |-> SomePlan,
         from |-> SomeContent, to |-> SomeContent, target |-> SomeContent,
         moves |-> FALSE, sets |-> FALSE, wants |-> "DRAFT", seen |-> NoItem]

TypeOK ==
    /\ content \in [Content -> Item]
    /\ plan \in [Plan -> PlanRow]
    /\ req \in [Proc -> Request]
    /\ draft \in [Proc -> PlanRow]
    /\ patch \in [Proc -> [Content -> Item]]

Init ==
    /\ content = [c \in Content |-> NoItem]
    /\ plan = [x \in Plan |-> NoPlan]
    /\ req = [p \in Proc |-> Idle]
    /\ draft = [p \in Proc |-> NoPlan]
    /\ patch = [p \in Proc |-> [c \in Content |-> NoItem]]

-----------------------------------------------------------------------------

InTransaction(p) == req[p].stage \in {"sync", "relax", "status", "ready", "commit"}

PlanIsFree(p, x) == \A q \in Proc \ {p} : InTransaction(q) => req[q].x # x

ContentIsFree(p, c) == \A q \in Proc \ {p} : patch[q][c] = NoItem

\* What a statement of p sees: its own writes, and what is committed.
SeesPlan(p, x) == IF InTransaction(p) /\ req[p].x = x THEN draft[p] ELSE plan[x]

SeesItem(p, c) == IF patch[p][c] # NoItem THEN patch[p][c] ELSE content[c]

Goes(p, stage) == req' = [req EXCEPT ![p].stage = stage]

Relaxes(p, c) == req' = [req EXCEPT ![p].stage = "relax", ![p].target = c]

\* The request ends: its transaction is over, committed or not.
Ends(p) ==
    /\ req' = [req EXCEPT ![p] = Idle]
    /\ draft' = [draft EXCEPT ![p] = NoPlan]
    /\ patch' = [patch EXCEPT ![p] = [c \in Content |-> NoItem]]

\* A check refuses the request, a row is missing, the database breaks a
\* deadlock, or the server stops: the transaction is rolled back.
Fails(p) ==
    /\ req[p].stage # "idle"
    /\ Ends(p)
    /\ UNCHANGED <<content, plan>>

-----------------------------------------------------------------------------
(* Publication plans.                                                      *)

\* createPlan: a date, a content and a status arrive, for a new plan.
CreatePlan(p) ==
    /\ req[p].stage = "idle"
    /\ \E x \in Plan, c \in Content, s \in PlanStatus :
        /\ plan[x] = NoPlan
        /\ \A q \in Proc : req[q].stage # "idle" => req[q].x # x
        /\ req' = [req EXCEPT ![p] =
                     [Idle EXCEPT !.op = "create", !.stage = "content", !.x = x, !.from = c,
                                  !.to = c, !.moves = TRUE, !.sets = TRUE, !.wants = s]]
    /\ UNCHANGED <<content, plan, draft, patch>>

\* updatePlan: the plan is read; what the request does not give is taken
\* from the row as it is now.
ReadPlanToUpdate(p) ==
    /\ req[p].stage = "idle"
    /\ \E x \in Plan, moves \in BOOLEAN, sets \in BOOLEAN, c \in Content, s \in PlanStatus :
        /\ Exists(plan[x])
        /\ moves \/ c = plan[x].of
        /\ sets \/ s = plan[x].status
        /\ req' = [req EXCEPT ![p] =
                     [Idle EXCEPT !.op = "update", !.stage = IF moves THEN "content" ELSE "plan",
                                  !.x = x, !.from = plan[x].of, !.to = c,
                                  !.moves = moves, !.sets = sets, !.wants = s]]
    /\ UNCHANGED <<content, plan, draft, patch>>

ReadPlanToDelete(p) ==
    /\ req[p].stage = "idle"
    /\ \E x \in Plan :
        /\ Exists(plan[x])
        /\ req' = [req EXCEPT ![p] =
                     [Idle EXCEPT !.op = "delete", !.stage = "plan", !.x = x,
                                  !.from = plan[x].of, !.to = plan[x].of]]
    /\ UNCHANGED <<content, plan, draft, patch>>

\* findContentOptionOrThrow
CheckContent(p) ==
    /\ req[p].stage = "content"
    /\ content[req[p].to].status \notin {"NONE", "ARCHIVED", "DELETED"}
    /\ Goes(p, "plan")
    /\ UNCHANGED <<content, plan, draft, patch>>

\* The columns that the request gives, over the row as it is now.
Updated(r) ==
    [status |-> IF r.sets THEN r.wants ELSE plan[r.x].status,
     of |-> IF r.moves THEN r.to ELSE plan[r.x].of]

Row(r) == IF r.op = "delete" THEN [plan[r.x] EXCEPT !.status = "GONE"] ELSE Updated(r)

\* The first statement of the transaction.
WritePlan(p) ==
    /\ req[p].stage = "plan"
    /\ PlanIsFree(p, req[p].x)
    /\ req[p].op # "create" => Exists(plan[req[p].x])
    /\ draft' = [draft EXCEPT ![p] = Row(req[p])]
    /\ IF req[p].op = "delete" THEN Relaxes(p, req[p].from) ELSE Goes(p, "sync")
    /\ UNCHANGED <<content, plan, patch>>

\* Mutant of Moved: the content that a plan leaves is forgotten.
Moved_Never(r) == FALSE

Moved(r) == r.op = "update" /\ r.from # r.to

\* Once the content that the request is about is done: the content left.
Continues(p) == IF Moved(req[p]) THEN Relaxes(p, req[p].from) ELSE Goes(p, "commit")

\* Mutant of Synced: the content the plan had before is the one that follows.
Synced_From(r) == r.from

Synced(r) == r.to

Follow(i, s) == IF s = "PUBLISHED" THEN [i EXCEPT !.status = s, !.published = TRUE]
                ELSE [i EXCEPT !.status = s]

\* syncContentStatusForPlan
SyncContent(p) ==
    LET c == Synced(req[p]) IN
    /\ req[p].stage = "sync"
    /\ req[p].wants # "CANCELLED"
    /\ ContentIsFree(p, c)
    /\ patch' = [patch EXCEPT ![p][c] = Follow(SeesItem(p, c), req[p].wants)]
    /\ Continues(p)
    /\ UNCHANGED <<content, plan, draft>>

\* Mutant of SyncCancelled: a cancelled plan's status is copied as well.
SyncCancelled_Copied(p) ==
    /\ req[p].stage = "sync"
    /\ req[p].wants = "CANCELLED"
    /\ patch' = [patch EXCEPT ![p][Synced(req[p])] = Follow(SeesItem(p, Synced(req[p])), "CANCELLED")]
    /\ Continues(p)
    /\ UNCHANGED <<content, plan, draft>>

SyncCancelled(p) ==
    /\ req[p].stage = "sync"
    /\ req[p].wants = "CANCELLED"
    /\ Relaxes(p, Synced(req[p]))
    /\ UNCHANGED <<content, plan, draft, patch>>

Relaxed(p) == IF req[p].target # req[p].from THEN Continues(p) ELSE Goes(p, "commit")

\* relaxScheduledContentIfUnused, its three statements.
RelaxUnlessPlanned(p) ==
    /\ req[p].stage = "relax"
    /\ IF \E x \in Plan : /\ SeesPlan(p, x).of = req[p].target
                          /\ SeesPlan(p, x).status \in {"SCHEDULED", "PUBLISHED"}
       THEN Relaxed(p)
       ELSE Goes(p, "status")
    /\ UNCHANGED <<content, plan, draft, patch>>

RelaxIfScheduled(p) ==
    /\ req[p].stage = "status"
    /\ IF SeesItem(p, req[p].target).status = "SCHEDULED" THEN Goes(p, "ready") ELSE Relaxed(p)
    /\ UNCHANGED <<content, plan, draft, patch>>

RelaxToReady(p) ==
    LET c == req[p].target IN
    /\ req[p].stage = "ready"
    /\ ContentIsFree(p, c)
    /\ patch' = [patch EXCEPT ![p][c] = [SeesItem(p, c) EXCEPT !.status = "READY"]]
    /\ Relaxed(p)
    /\ UNCHANGED <<content, plan, draft>>

Commit(p) ==
    /\ req[p].stage = "commit"
    /\ plan' = [plan EXCEPT ![req[p].x] = draft[p]]
    /\ content' = [c \in Content |-> SeesItem(p, c)]
    /\ Ends(p)

-----------------------------------------------------------------------------
(* The library and the content editor.                                     *)

\* saveContent: one insert.
SaveContent(c) ==
    /\ content[c] = NoItem
    /\ \E s \in SaveStatus \cap Wanted : content' = [content EXCEPT ![c] = Follow(NoItem, s)]
    /\ UNCHANGED <<plan, req, draft, patch>>

Reads(p, op, admin, c, s) ==
    req' = [req EXCEPT ![p] = [Idle EXCEPT !.op = op, !.stage = "write", !.admin = admin,
                                           !.to = c, !.wants = s, !.seen = content[c]]]

\* The content exists and is not deleted.  The library lets only
\* administrators archive a content or touch an archived one; archive and
\* restore are for administrators; the content editor is for editors.
ReadContent(p) ==
    /\ req[p].stage = "idle"
    /\ \E c \in Content, admin \in BOOLEAN :
        /\ content[c].status \notin {"NONE", "DELETED"}
        /\ \/ \E s \in Wanted :
                /\ s = "ARCHIVED" \/ content[c].status = "ARCHIVED" => admin
                /\ Reads(p, "library", admin, c, s)
           \/ \E s \in SaveStatus \cap Wanted : Reads(p, "editor", admin, c, s)
           \/ admin /\ Reads(p, "archive", admin, c, "ARCHIVED")
           \/ admin /\ Reads(p, "restore", admin, c, "DRAFT")
    /\ UNCHANGED <<content, plan, draft, patch>>

\* Mutant of DatedPublication: the date is set when there is one already.
DatedPublication_Swapped(seen, s) == s = "PUBLISHED" /\ seen.published

\* buildUpdateData: publishedAt is set when the row read had none.
DatedPublication(seen, s) == s = "PUBLISHED" /\ ~seen.published

\* archivedAt: set or reset as compared with the row read; set by archive,
\* reset by restore, left alone by the content editor.
Archived(r, i) ==
    IF r.op = "editor" THEN i.archived
    ELSE IF r.op \in {"archive", "restore"} THEN r.op = "archive"
    ELSE IF r.wants = "ARCHIVED" THEN TRUE
    ELSE IF r.seen.archived THEN FALSE
    ELSE i.archived

Edited(r, i) ==
    [status |-> r.wants,
     published |-> i.published \/ (r.op = "library" /\ DatedPublication(r.seen, r.wants)),
     archived |-> Archived(r, i)]

WriteContent(p) ==
    LET c == req[p].to IN
    /\ req[p].stage = "write"
    /\ ContentIsFree(p, c)
    /\ content' = [content EXCEPT ![c] = Edited(req[p], @)]
    /\ Ends(p)
    /\ UNCHANGED plan

Handle(p) ==
    \/ Fails(p)
    \/ CreatePlan(p)
    \/ ReadPlanToUpdate(p)
    \/ ReadPlanToDelete(p)
    \/ CheckContent(p)
    \/ WritePlan(p)
    \/ SyncContent(p)
    \/ SyncCancelled(p)
    \/ RelaxUnlessPlanned(p)
    \/ RelaxIfScheduled(p)
    \/ RelaxToReady(p)
    \/ Commit(p)
    \/ ReadContent(p)
    \/ WriteContent(p)

Next ==
    \/ \E p \in Proc : Handle(p)
    \/ \E c \in Content : SaveContent(c)

Spec == Init /\ [][Next]_vars

-----------------------------------------------------------------------------

\* A published content has its publication date, although the library sets
\* the date from a row it read before, while plans publish the same content.
\* (A pull from Notion publishes without a date; it is in NotionSync.)
PublishedHasDate == \A c \in Content : content[c].status = "PUBLISHED" => content[c].published

PlansOf(c) == {x \in Plan : plan[x].of = c /\ plan[x].status \in {"SCHEDULED", "PUBLISHED"}}

\* A content shown as scheduled has a plan.  Requests that cross can break
\* it; so can an editor who sets the status by hand.
ScheduledHasPlan == \A c \in Content : content[c].status = "SCHEDULED" => PlansOf(c) # {}

\* A step: the content that a plan is scheduled for, or moved to, becomes
\* scheduled in the same transaction.
SchedulingMarksContent ==
    \A x \in Plan :
        plan'[x] # plan[x] /\ plan'[x].status = "SCHEDULED"
            => content'[plan'[x].of].status = "SCHEDULED"

\* docs/specs/20-features-v1/01-bibliotheque-contenus.md:57, "Un administrateur
\* peut archiver ou restaurer": a content enters or leaves the archive by a
\* request of an administrator.
OnlyAdminArchives ==
    [][\A c \in Content :
         content[c] # NoItem
           => \/ (content[c].status = "ARCHIVED") = (content'[c].status = "ARCHIVED")
              \/ \E p \in Proc : req[p].admin /\ req'[p] = Idle]_vars
=============================================================================
