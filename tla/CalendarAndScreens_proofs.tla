--------------------- MODULE CalendarAndScreens_proofs ----------------------
(***************************************************************************)
(* Proofs about the editorial calendar (EditorialCalendar) and about the   *)
(* screens where contents and settings are edited (EditingScreens), which  *)
(* MC_Screens runs together.  They share no state.                         *)
(***************************************************************************)
EXTENDS MC_EditorialCalendar, EditingScreens, SequenceTheorems, FiniteSetTheorems, TLAPS

-----------------------------------------------------------------------------
(***************************************************************************)
(* Proofs about EditorialCalendar, for any number of contents, plans and   *)
(* concurrent requests: types, and that a published content has its date;  *)
(* with one request at a time, that a scheduled content has a plan.        *)
(*                                                                         *)
(* The library decides from a row it read earlier whether to set the date. *)
(* That is safe because a date, once committed, never goes away: a         *)
(* transaction starts from the committed row (PatchKeepsDate), nobody else *)
(* writes a row it has locked (OneWriter), so what the library has seen    *)
(* still holds (SeenDateStays).                                            *)
(*                                                                         *)
(* With one request at a time (OnlyActive) the rows are those that the     *)
(* request has read (ReadFits) and its transaction has changed (TxFits),   *)
(* and a content that a transaction may leave SCHEDULED without a plan is  *)
(* the one it is about to relax (Loose).                                   *)
(***************************************************************************)

Dated(i) == i.status = "PUBLISHED" => i.published

OneWriter ==
    \A p, q \in Proc, c \in Content :
        patch[p][c] # NoItem /\ patch[q][c] # NoItem => p = q

PatchKeepsDate ==
    \A p \in Proc, c \in Content : patch[p][c] # NoItem =>
        /\ Dated(patch[p][c])
        /\ content[c].published => patch[p][c].published

SeenDateStays ==
    \A p \in Proc : req[p].stage = "write" /\ req[p].seen.published
                        => content[req[p].to].published

\* A request about to write a plan was given, or has read, a plan's status.
AskedOfPlan ==
    \A p \in Proc : req[p].stage \in {"content", "plan"} /\ req[p].op # "delete"
                        => req[p].wants \in PlanStatus

\* Only the library can ask for PUBLISHED.
AskedOfContent ==
    \A p \in Proc : req[p].stage = "write" =>
        /\ req[p].wants \in ItemStatus
        /\ req[p].op # "library" => req[p].wants # "PUBLISHED"

DateInv ==
    /\ TypeOK
    /\ AskedOfPlan
    /\ AskedOfContent
    /\ OneWriter
    /\ PatchKeepsDate
    /\ SeenDateStays
    /\ PublishedHasDate

-----------------------------------------------------------------------------
(* Types.                                                                  *)

LEMMA Witnesses ==
  /\ SomeContent \in Content
  /\ SomePlan \in Plan
  /\ NoItem \in Item
  /\ NoPlan \in PlanRow
  /\ Idle \in Request
  /\ [c \in Content |-> NoItem] \in [Content -> Item]
<1>1. SomeContent \in Content /\ SomePlan \in Plan
  BY CalendarAssumption DEF SomeContent, SomePlan
<1>2. NoItem \in Item /\ NoPlan \in PlanRow
  BY <1>1 DEF NoItem, Item, NoPlan, PlanRow
<1>3. Idle \in Request
  BY <1>1, <1>2 DEF Idle, Request, SaveStatus, ItemStatus
<1> QED BY <1>1, <1>2, <1>3

LEMMA InitDates == Init => DateInv
<1> SUFFICES ASSUME Init PROVE DateInv
  OBVIOUS
<1>1. TypeOK
  BY Witnesses DEF Init, TypeOK
<1>2. /\ AskedOfPlan /\ AskedOfContent /\ OneWriter /\ PatchKeepsDate
      /\ SeenDateStays /\ PublishedHasDate
  BY DEF Init, AskedOfPlan, AskedOfContent, OneWriter, PatchKeepsDate, SeenDateStays, PublishedHasDate, NoItem, Idle
<1> QED BY <1>1, <1>2 DEF DateInv

Stage == {"idle", "content", "plan", "sync", "relax", "status", "ready", "commit", "write"}

\* What a step may do to the request it serves.
LEMMA RequestTypes ==
  ASSUME TypeOK, NEW p \in Proc
  PROVE  /\ \A s \in Stage : Goes(p, s) => req' \in [Proc -> Request]
         /\ \A c \in Content : Relaxes(p, c) => req' \in [Proc -> Request]
         /\ Continues(p) => req' \in [Proc -> Request]
         /\ Relaxed(p) => req' \in [Proc -> Request]
         /\ Ends(p) => /\ req' \in [Proc -> Request]
                       /\ draft' \in [Proc -> PlanRow]
                       /\ patch' \in [Proc -> [Content -> Item]]
<1>0. req[p] \in Request
  BY DEF TypeOK
<1>1. ASSUME NEW s \in Stage, Goes(p, s) PROVE req' \in [Proc -> Request]
  <2>1. [req[p] EXCEPT !.stage = s] \in Request
    BY <1>0 DEF Request, Stage
  <2> QED BY <1>1, <2>1 DEF Goes, TypeOK
<1>2. ASSUME NEW c \in Content, Relaxes(p, c) PROVE req' \in [Proc -> Request]
  <2>1. [req[p] EXCEPT !.stage = "relax", !.target = c] \in Request
    BY <1>0 DEF Request
  <2> QED BY <1>2, <2>1 DEF Relaxes, TypeOK
<1>3. req[p].from \in Content
  BY <1>0 DEF Request
<1>4. Continues(p) => req' \in [Proc -> Request]
  BY <1>1, <1>2, <1>3 DEF Continues, Stage
<1>5. Relaxed(p) => req' \in [Proc -> Request]
  BY <1>1, <1>4 DEF Relaxed, Stage
<1>6. Ends(p) => /\ req' \in [Proc -> Request]
                 /\ draft' \in [Proc -> PlanRow]
                 /\ patch' \in [Proc -> [Content -> Item]]
  BY Witnesses DEF Ends, TypeOK
<1> QED BY <1>1, <1>2, <1>4, <1>5, <1>6

LEMMA SeenTypes ==
  ASSUME TypeOK, NEW p \in Proc
  PROVE  /\ \A c \in Content : SeesItem(p, c) \in Item
         /\ \A x \in Plan : SeesPlan(p, x) \in PlanRow
  BY DEF TypeOK, SeesItem, SeesPlan

LEMMA RowTypes ==
  ASSUME TypeOK, AskedOfPlan, NEW p \in Proc, req[p].stage = "plan"
  PROVE  Row(req[p]) \in PlanRow
<1>1. req[p] \in Request /\ plan[req[p].x] \in PlanRow
  BY DEF TypeOK, Request
<1>2. CASE req[p].op = "delete"
  BY <1>1, <1>2 DEF Row, PlanRow
<1>3. CASE req[p].op # "delete"
  <2>1. Updated(req[p]).of \in Content
    BY <1>1 DEF Updated, PlanRow, Request
  <2>2. Updated(req[p]).status \in PlanStatus \cup {"NONE", "GONE"}
    BY <1>1, <1>3 DEF Updated, PlanRow, AskedOfPlan
  <2> QED BY <1>3, <2>1, <2>2 DEF Row, Updated, PlanRow
<1> QED BY <1>2, <1>3

-----------------------------------------------------------------------------
(* The steps.                                                              *)

\* The steps of a request that write nothing, or only a plan row.
Looks(p) ==
    \/ CreatePlan(p)
    \/ ReadPlanToUpdate(p)
    \/ ReadPlanToDelete(p)
    \/ CheckContent(p)
    \/ WritePlan(p)
    \/ SyncCancelled(p)
    \/ RelaxUnlessPlanned(p)
    \/ RelaxIfScheduled(p)

Asked(r) == r.stage \in {"content", "plan"} /\ r.op # "delete" => r.wants \in PlanStatus

LEMMA LooksRequest ==
  ASSUME DateInv, NEW p \in Proc, Looks(p)
  PROVE  /\ req' \in [Proc -> Request]
         /\ \A q \in Proc : q # p => req'[q] = req[q]
         /\ req'[p].stage # "write"
         /\ Asked(req'[p])
<1> USE DEF DateInv
<1>0. req[p] \in Request
  BY DEF TypeOK
<1>1. CASE CreatePlan(p)
  <2>1. PICK x \in Plan, c \in Content, s \in PlanStatus :
          req' = [req EXCEPT ![p] =
                    [Idle EXCEPT !.op = "create", !.stage = "content", !.x = x, !.from = c,
                                 !.to = c, !.moves = TRUE, !.sets = TRUE, !.wants = s]]
    BY <1>1 DEF CreatePlan
  <2> DEFINE r == [Idle EXCEPT !.op = "create", !.stage = "content", !.x = x, !.from = c,
                               !.to = c, !.moves = TRUE, !.sets = TRUE, !.wants = s]
  <2>2. r \in Request /\ r.stage = "content" /\ r.wants = s
    BY Witnesses DEF Request, Idle
  <2> HIDE DEF r
  <2> QED BY <2>1, <2>2 DEF TypeOK, Asked, r
<1>2. CASE ReadPlanToUpdate(p)
  <2>1. PICK x \in Plan, moves \in BOOLEAN, sets \in BOOLEAN, c \in Content, s \in PlanStatus :
          /\ Exists(plan[x])
          /\ moves \/ c = plan[x].of
          /\ sets \/ s = plan[x].status
          /\ req' = [req EXCEPT ![p] =
                     [Idle EXCEPT !.op = "update", !.stage = IF moves THEN "content" ELSE "plan",
                                  !.x = x, !.from = plan[x].of, !.to = c,
                                  !.moves = moves, !.sets = sets, !.wants = s]]
    BY <1>2, Zenon DEF ReadPlanToUpdate
  <2> DEFINE r == [Idle EXCEPT !.op = "update",
                               !.stage = IF moves THEN "content" ELSE "plan",
                               !.x = x, !.from = plan[x].of, !.to = c,
                               !.moves = moves, !.sets = sets, !.wants = s]
  <2>2. plan[x].of \in Content
    BY DEF TypeOK, PlanRow
  <2>3. r \in Request /\ r.stage # "write" /\ r.wants = s
    BY <2>2, Witnesses DEF Request, Idle
  <2> HIDE DEF r
  <2> QED BY <2>1, <2>3 DEF TypeOK, Asked, r
<1>3. CASE ReadPlanToDelete(p)
  <2>1. PICK x \in Plan :
          req' = [req EXCEPT ![p] =
                    [Idle EXCEPT !.op = "delete", !.stage = "plan", !.x = x,
                                 !.from = plan[x].of, !.to = plan[x].of]]
    BY <1>3 DEF ReadPlanToDelete
  <2> DEFINE r == [Idle EXCEPT !.op = "delete", !.stage = "plan", !.x = x,
                               !.from = plan[x].of, !.to = plan[x].of]
  <2>2. plan[x].of \in Content
    BY DEF TypeOK, PlanRow
  <2>3. r \in Request /\ r.stage = "plan" /\ r.op = "delete"
    BY <2>2, Witnesses DEF Request, Idle
  <2> HIDE DEF r
  <2> QED BY <2>1, <2>3 DEF TypeOK, Asked, r
<1>4. CASE CheckContent(p)
  <2>1. Goes(p, "plan") /\ req[p].stage = "content"
    BY <1>4 DEF CheckContent
  <2>2. req'[p].stage = "plan" /\ req'[p].op = req[p].op /\ req'[p].wants = req[p].wants
    BY <1>0, <2>1 DEF Goes, TypeOK, Request
  <2>3. \A q \in Proc : q # p => req'[q] = req[q]
    BY <2>1 DEF Goes, TypeOK
  <2> QED BY <2>1, <2>2, <2>3, RequestTypes DEF Stage, Asked, AskedOfPlan
<1>5. CASE WritePlan(p) \/ SyncCancelled(p) \/ RelaxUnlessPlanned(p) \/ RelaxIfScheduled(p)
  <2>0. req[p].from \in Content /\ Synced(req[p]) \in Content
    BY <1>0 DEF Request, Synced
  <2>1. \/ \E s \in {"sync", "status", "ready", "commit"} : Goes(p, s)
        \/ \E c \in Content : Relaxes(p, c)
    BY <1>5, <2>0 DEF WritePlan, SyncCancelled, RelaxUnlessPlanned, RelaxIfScheduled, Relaxed,
       Continues
  <2>2. req' \in [Proc -> Request]
    BY <2>1, RequestTypes DEF Stage
  <2>3. /\ \A q \in Proc : q # p => req'[q] = req[q]
        /\ req'[p].stage \in {"sync", "status", "ready", "commit", "relax"}
    BY <1>0, <2>1 DEF Goes, Relaxes, TypeOK, Request
  <2> QED BY <2>2, <2>3 DEF Asked
<1> QED BY <1>1, <1>2, <1>3, <1>4, <1>5 DEF Looks

LEMMA LooksStep ==
  ASSUME DateInv, NEW p \in Proc, Looks(p)
  PROVE  DateInv'
<1> USE DEF DateInv
<1>1. UNCHANGED <<content, patch>>
  BY DEF Looks, CreatePlan, ReadPlanToUpdate, ReadPlanToDelete, CheckContent, WritePlan,
     SyncCancelled, RelaxUnlessPlanned, RelaxIfScheduled
<1>2. TypeOK'
  <2>1. UNCHANGED plan
    BY DEF Looks, CreatePlan, ReadPlanToUpdate, ReadPlanToDelete, CheckContent, WritePlan,
       SyncCancelled, RelaxUnlessPlanned, RelaxIfScheduled
  <2>2. draft' \in [Proc -> PlanRow]
    <3>1. CASE WritePlan(p)
      BY <3>1, RowTypes DEF WritePlan, TypeOK
    <3>2. CASE ~WritePlan(p)
      BY <3>2 DEF Looks, CreatePlan, ReadPlanToUpdate, ReadPlanToDelete, CheckContent,
         SyncCancelled, RelaxUnlessPlanned, RelaxIfScheduled, TypeOK
    <3> QED BY <3>1, <3>2
  <2> QED BY <1>1, <2>1, <2>2, LooksRequest DEF TypeOK
<1>3. AskedOfPlan' /\ AskedOfContent'
  BY LooksRequest DEF AskedOfPlan, AskedOfContent, Asked
<1>4. SeenDateStays'
  BY <1>1, LooksRequest DEF SeenDateStays
<1>5. OneWriter' /\ PatchKeepsDate' /\ PublishedHasDate'
  BY <1>1 DEF OneWriter, PatchKeepsDate, PublishedHasDate
<1> QED BY <1>2, <1>3, <1>4, <1>5

\* A transaction writes a row of a content.
LEMMA PatchStep ==
  ASSUME DateInv, NEW p \in Proc, SyncContent(p) \/ RelaxToReady(p)
  PROVE  DateInv'
<1> USE DEF DateInv
<1>0. req[p] \in Request /\ UNCHANGED <<content, plan, draft>>
  BY DEF TypeOK, SyncContent, RelaxToReady
<1>1. PICK c \in Content, i \in Item :
        /\ ContentIsFree(p, c)
        /\ i # NoItem
        /\ Dated(i)
        /\ SeesItem(p, c).published => i.published
        /\ patch' = [patch EXCEPT ![p][c] = i]
  <2>1. \A c \in Content : SeesItem(p, c) \in Item
    BY SeenTypes
  <2>2. CASE SyncContent(p)
    <3> DEFINE c == Synced(req[p])  i == Follow(SeesItem(p, c), req[p].wants)
    <3>1. c \in Content
      BY <1>0 DEF Synced, Request
    <3>2. req[p].wants \in ItemStatus
      BY <1>0, <2>2 DEF SyncContent, Request, PlanStatus, ItemStatus
    <3>3. i \in Item /\ i.status = req[p].wants
      BY <2>1, <3>1, <3>2 DEF Follow, Item
    <3>4. Dated(i) /\ (SeesItem(p, c).published => i.published)
      BY <2>1, <3>1, <3>2 DEF Follow, Item, Dated
    <3>5. i # NoItem
      BY <3>2, <3>3 DEF NoItem, ItemStatus, SaveStatus
    <3> QED BY <2>2, <3>1, <3>3, <3>4, <3>5 DEF SyncContent
  <2>3. CASE RelaxToReady(p)
    <3> DEFINE c == req[p].target  i == [SeesItem(p, c) EXCEPT !.status = "READY"]
    <3>1. c \in Content
      BY <1>0 DEF Request
    <3>2. /\ i \in Item /\ i.status = "READY" /\ i # NoItem
          /\ i.published = SeesItem(p, c).published
      BY <2>1, <3>1 DEF Item, ItemStatus, SaveStatus, NoItem
    <3> QED BY <2>3, <3>1, <3>2 DEF RelaxToReady, Dated
  <2> QED BY <2>2, <2>3
<1>2. /\ patch' \in [Proc -> [Content -> Item]]
      /\ \A q \in Proc, d \in Content :
            patch'[q][d] = IF q = p /\ d = c THEN i ELSE patch[q][d]
  BY <1>1 DEF TypeOK
<1>3. /\ req' \in [Proc -> Request]
      /\ \A q \in Proc : q # p => req'[q] = req[q]
      /\ req'[p].stage \in {"relax", "commit"}
  <2>1. Goes(p, "commit") \/ Relaxes(p, req[p].from)
    BY DEF SyncContent, RelaxToReady, Continues, Relaxed
  <2>2. req[p].from \in Content
    BY <1>0 DEF Request
  <2>3. req' \in [Proc -> Request]
    BY <2>1, <2>2, RequestTypes DEF Stage
  <2> QED BY <1>0, <2>1, <2>3 DEF Goes, Relaxes, TypeOK, Request
<1>4. TypeOK'
  BY <1>0, <1>2, <1>3 DEF TypeOK
<1>5. AskedOfPlan' /\ AskedOfContent' /\ SeenDateStays'
  BY <1>0, <1>3 DEF AskedOfPlan, AskedOfContent, SeenDateStays
<1>6. OneWriter'
  BY <1>1, <1>2 DEF OneWriter, ContentIsFree
<1>7. PatchKeepsDate'
  <2>1. content[c].published => i.published
    BY <1>1 DEF SeesItem, PatchKeepsDate
  <2> QED BY <1>0, <1>1, <1>2, <2>1 DEF PatchKeepsDate
<1>8. PublishedHasDate'
  BY <1>0 DEF PublishedHasDate
<1> QED BY <1>4, <1>5, <1>6, <1>7, <1>8

\* The end of a transaction, and a write of the library, as seen by the rest.
LEMMA EndsStep ==
  ASSUME DateInv, NEW p \in Proc, Ends(p),
         content' \in [Content -> Item], plan' \in [Plan -> PlanRow],
         \A c \in Content : content[c].published => content'[c].published,
         \A c \in Content : Dated(content'[c]),
         \A q \in Proc, c \in Content :
            q # p /\ patch[q][c] # NoItem => content'[c] = content[c]
  PROVE  DateInv'
<1> USE DEF DateInv
<1>1. /\ \A q \in Proc : req'[q] = IF q = p THEN Idle ELSE req[q]
      /\ \A q \in Proc, c \in Content :
            patch'[q][c] = IF q = p THEN NoItem ELSE patch[q][c]
  BY DEF Ends, TypeOK
<1>2. TypeOK'
  BY RequestTypes DEF TypeOK
<1>3. AskedOfPlan' /\ AskedOfContent'
  BY <1>1 DEF AskedOfPlan, AskedOfContent, Idle
<1>4. SeenDateStays'
  <2>1. \A q \in Proc : req[q].to \in Content
    BY DEF TypeOK, Request
  <2> QED BY <1>1, <2>1 DEF SeenDateStays, Idle
<1>5. OneWriter' /\ PatchKeepsDate'
  BY <1>1 DEF OneWriter, PatchKeepsDate
<1>6. PublishedHasDate'
  BY DEF PublishedHasDate, Dated
<1> QED BY <1>2, <1>3, <1>4, <1>5, <1>6

LEMMA FailsStep ==
  ASSUME DateInv, NEW p \in Proc, Fails(p)
  PROVE  DateInv'
<1>1. \A c \in Content : Dated(content[c])
  BY DEF DateInv, PublishedHasDate, Dated
<1> QED BY <1>1, EndsStep DEF Fails, DateInv, TypeOK

LEMMA CommitStep ==
  ASSUME DateInv, NEW p \in Proc, Commit(p)
  PROVE  DateInv'
<1> USE DEF DateInv
<1>1. Ends(p) /\ \A c \in Content : content'[c] = SeesItem(p, c)
  BY DEF Commit
<1>2. content' \in [Content -> Item] /\ plan' \in [Plan -> PlanRow]
  BY SeenTypes DEF Commit, TypeOK
<1>3. \A c \in Content : /\ content[c].published => content'[c].published
                         /\ Dated(content'[c])
  BY <1>1 DEF SeesItem, PatchKeepsDate, PublishedHasDate, Dated
<1>4. \A q \in Proc, c \in Content :
         q # p /\ patch[q][c] # NoItem => content'[c] = content[c]
  BY <1>1 DEF SeesItem, OneWriter
<1> QED BY <1>1, <1>2, <1>3, <1>4, EndsStep

LEMMA WriteStep ==
  ASSUME DateInv, NEW p \in Proc, WriteContent(p)
  PROVE  DateInv'
<1> USE DEF DateInv
<1> DEFINE c == req[p].to  r == req[p]  i == Edited(r, content[c])
<1>0. r \in Request /\ c \in Content /\ content[c] \in Item
  BY DEF TypeOK, Request
<1>1. /\ Ends(p) /\ UNCHANGED plan /\ ContentIsFree(p, c) /\ r.stage = "write"
      /\ content' = [content EXCEPT ![c] = Edited(r, @)]
  BY DEF WriteContent
<1>2. r.wants \in ItemStatus /\ (r.op # "library" => r.wants # "PUBLISHED")
  BY <1>1 DEF AskedOfContent
<1>3. i.status = r.wants /\ (content[c].published => i.published)
  BY DEF Edited
<1>4. i \in Item
  <2>1. Archived(r, content[c]) \in BOOLEAN
    BY <1>0 DEF Archived, Item
  <2>2. (content[c].published \/ (r.op = "library" /\ DatedPublication(r.seen, r.wants)))
           \in BOOLEAN
    BY <1>0, Zenon DEF Item
  <2> QED BY <1>2, <2>1, <2>2 DEF Edited, Item
<1>5. Dated(i)
  <2>1. r.seen.published => content[c].published
    BY <1>1 DEF SeenDateStays
  <2> QED BY <1>2, <2>1 DEF Dated, Edited, DatedPublication
<1>6. \A d \in Content : content'[d] = IF d = c THEN i ELSE content[d]
  BY <1>0, <1>1 DEF TypeOK
<1> HIDE DEF i
<1>7. content' \in [Content -> Item]
  BY <1>0, <1>1, <1>4 DEF TypeOK, i
<1>8. \A d \in Content : /\ content[d].published => content'[d].published
                         /\ Dated(content'[d])
  BY <1>3, <1>5, <1>6 DEF PublishedHasDate, Dated
<1>9. \A q \in Proc, d \in Content :
         q # p /\ patch[q][d] # NoItem => content'[d] = content[d]
  BY <1>1, <1>6 DEF ContentIsFree
<1>10. plan' \in [Plan -> PlanRow]
  BY <1>1 DEF TypeOK
<1> QED BY <1>1, <1>7, <1>8, <1>9, <1>10, EndsStep

\* What a request of the library or the editor notes when it reads.
LEMMA ReadRequest ==
  ASSUME DateInv, NEW p \in Proc, ReadContent(p)
  PROVE  \E r \in Request :
            /\ req' = [req EXCEPT ![p] = r]
            /\ r.stage = "write"
            /\ r.wants \in ItemStatus
            /\ r.op # "library" => r.wants # "PUBLISHED"
            /\ r.seen = content[r.to]
<1> USE DEF DateInv
<1>1. PICK op \in {"library", "editor", "archive", "restore"}, admin \in BOOLEAN,
           c \in Content, s \in ItemStatus :
        /\ Reads(p, op, admin, c, s)
        /\ op # "library" => s # "PUBLISHED"
  BY CalendarAssumption DEF ReadContent, SaveStatus, ItemStatus
<1> DEFINE r == [Idle EXCEPT !.op = op, !.stage = "write", !.admin = admin,
                             !.to = c, !.wants = s, !.seen = content[c]]
<1>2. content[c] \in Item
  BY DEF TypeOK
<1>3. /\ r \in Request /\ r.stage = "write" /\ r.wants = s /\ r.op = op
      /\ r.to = c /\ r.seen = content[c]
  BY <1>2, Witnesses DEF Request, Idle
<1>4. req' = [req EXCEPT ![p] = r]
  BY <1>1 DEF Reads
<1> HIDE DEF r
<1> QED BY <1>1, <1>3, <1>4

LEMMA ReadStep ==
  ASSUME DateInv, NEW p \in Proc, ReadContent(p)
  PROVE  DateInv'
<1> USE DEF DateInv
<1>1. PICK r \in Request :
        /\ req' = [req EXCEPT ![p] = r]
        /\ r.stage = "write"
        /\ r.wants \in ItemStatus
        /\ r.op # "library" => r.wants # "PUBLISHED"
        /\ r.seen = content[r.to]
  BY ReadRequest
<1>2. UNCHANGED <<content, plan, draft, patch>>
  BY DEF ReadContent
<1>3. \A q \in Proc : req'[q] = IF q = p THEN r ELSE req[q]
  BY <1>1 DEF TypeOK
<1>4. TypeOK'
  BY <1>1, <1>2 DEF TypeOK
<1>5. AskedOfPlan' /\ AskedOfContent'
  BY <1>1, <1>3 DEF AskedOfPlan, AskedOfContent
<1>6. SeenDateStays'
  BY <1>1, <1>2, <1>3 DEF SeenDateStays
<1>7. OneWriter' /\ PatchKeepsDate' /\ PublishedHasDate'
  BY <1>2 DEF OneWriter, PatchKeepsDate, PublishedHasDate
<1> QED BY <1>4, <1>5, <1>6, <1>7

LEMMA SaveStep ==
  ASSUME DateInv, NEW c \in Content, SaveContent(c)
  PROVE  DateInv'
<1> USE DEF DateInv
<1>1. PICK s \in SaveStatus : content' = [content EXCEPT ![c] = Follow(NoItem, s)]
  BY DEF SaveContent
<1>2. /\ UNCHANGED <<plan, req, draft, patch>>
      /\ content[c] = NoItem
  BY DEF SaveContent
<1> DEFINE i == Follow(NoItem, s)
<1>3. i \in Item /\ Dated(i) /\ ~i.published
  BY Witnesses DEF Follow, NoItem, Item, Dated, SaveStatus, ItemStatus
<1>4. \A d \in Content : content'[d] = IF d = c THEN i ELSE content[d]
  BY <1>1 DEF TypeOK
<1>5. \A d \in Content : content[d].published => content'[d].published
  BY <1>2, <1>4 DEF NoItem
<1> HIDE DEF i
<1>6. TypeOK'
  BY <1>1, <1>2, <1>3 DEF TypeOK, i
<1>7. AskedOfPlan' /\ AskedOfContent' /\ OneWriter'
  BY <1>2 DEF AskedOfPlan, AskedOfContent, OneWriter
<1>8. SeenDateStays'
  <2>1. \A q \in Proc : req[q].to \in Content
    BY DEF TypeOK, Request
  <2> QED BY <1>2, <1>5, <2>1 DEF SeenDateStays
<1>9. PatchKeepsDate'
  BY <1>2, <1>3, <1>4 DEF PatchKeepsDate
<1>10. PublishedHasDate'
  BY <1>3, <1>4 DEF PublishedHasDate, Dated
<1> QED BY <1>6, <1>7, <1>8, <1>9, <1>10

LEMMA NextKeepsDates == DateInv /\ [Next]_vars => DateInv'
<1>1. ASSUME DateInv, UNCHANGED vars PROVE DateInv'
  BY <1>1 DEF vars, DateInv, TypeOK, AskedOfPlan, AskedOfContent, OneWriter, PatchKeepsDate,
     SeenDateStays, PublishedHasDate
<1>2. ASSUME DateInv, NEW p \in Proc, Handle(p) PROVE DateInv'
  BY <1>2, LooksStep, PatchStep, FailsStep, CommitStep, ReadStep, WriteStep DEF Handle, Looks
<1> QED BY <1>1, <1>2, SaveStep DEF Next

-----------------------------------------------------------------------------

\* Every row keeps its type, a status of a plan never reaches a content
\* where a content has no such status, for any interleaving of requests.
THEOREM TypesKept == Spec => []TypeOK
<1>1. DateInv => TypeOK
  BY DEF DateInv
<1> QED BY <1>1, InitDates, NextKeepsDates, PTL DEF Spec

\* A published content has its publication date, for any number of
\* requests that publish, plan, cancel and edit it concurrently.
THEOREM PublishedDated == Spec => []PublishedHasDate
<1>1. DateInv => PublishedHasDate
  BY DEF DateInv
<1> QED BY <1>1, InitDates, NextKeepsDates, PTL DEF Spec

-----------------------------------------------------------------------------
(* One request at a time.  What the request has read of a plan is what is  *)
(* committed (ReadFits); once its transaction has written the plan, only   *)
(* the content that the plan leaves can be scheduled without one, and is   *)
(* relaxed before the commit (TxFits).                                     *)

\* As the transaction of p sees it: content c has a plan; it is scheduled
\* without one, though nobody sets that status by hand.
Planned(p, c) ==
    \E x \in Plan : SeesPlan(p, x).of = c /\ SeesPlan(p, x).status \in {"SCHEDULED", "PUBLISHED"}

Loose(p, c) ==
    "SCHEDULED" \notin Wanted /\ SeesItem(p, c).status = "SCHEDULED" /\ ~Planned(p, c)

ReadFits(p) ==
    req[p].stage \in {"content", "plan"} =>
        /\ req[p].op \in {"create", "update", "delete"}
        /\ req[p].op = "create" => plan[req[p].x] = NoPlan /\ req[p].moves /\ req[p].sets
        /\ req[p].op # "create" => plan[req[p].x].of = req[p].from
        /\ req[p].op # "update" => req[p].to = req[p].from
        /\ req[p].op # "delete" => req[p].wants \in PlanStatus
        /\ req[p].op = "update" => /\ req[p].moves \/ req[p].to = req[p].from
                                   /\ req[p].sets \/ req[p].wants = plan[req[p].x].status

TxFits(p) ==
    InTransaction(p) =>
        /\ req[p].op \in {"create", "update", "delete"}
        /\ req[p].op = "delete" =>
             /\ draft[p].status = "GONE" /\ req[p].stage # "sync"
             /\ req[p].stage # "commit" => req[p].target = req[p].from
        /\ req[p].op # "delete" =>
             /\ draft[p] = [status |-> req[p].wants, of |-> req[p].to]
             /\ req[p].wants \in PlanStatus
             /\ req[p].stage # "sync" /\ req[p].wants # "CANCELLED" =>
                  /\ SeesItem(p, req[p].to).status = req[p].wants
                  /\ req[p].stage # "commit" => req[p].target # req[p].to
        /\ req[p].op = "create" => req[p].to = req[p].from
        /\ req[p].stage \in {"relax", "status", "ready"} =>
             req[p].target = req[p].from \/ Moved(req[p])
        /\ \A c \in Content : Loose(p, c) => c = req[p].from /\ req[p].stage # "commit"

QuietFits(p) ==
    /\ ~InTransaction(p) => \A c \in Content : patch[p][c] = NoItem
    /\ "SCHEDULED" \notin Wanted /\ req[p].stage = "write" => req[p].wants # "SCHEDULED"

Fits(p) == ReadFits(p) /\ TxFits(p) /\ QuietFits(p)

\* A content shown as scheduled has a plan, where nobody sets that status by hand.
PlansOnly == "SCHEDULED" \notin Wanted => ScheduledHasPlan

OnlyActive(p) == \A q \in Proc : Active(q) => q = p

AloneInv ==
    /\ DateInv
    /\ ~crossing => /\ \A p, q \in Proc : Active(p) /\ Active(q) => p = q
                    /\ \A p \in Proc : Fits(p)
                    /\ PlansOnly

\* A step of the only active request has to keep its own part.
LEMMA OthersFit ==
  ASSUME AloneInv, ~crossing, NEW p \in Proc, OnlyActive(p), DateInv', crossing' = crossing,
         \A q \in Proc : q # p => req'[q] = req[q] /\ patch'[q] = patch[q],
         Fits(p)', PlansOnly'
  PROVE  AloneInv'
<1>1. ASSUME NEW q \in Proc, q # p
      PROVE  Fits(q)' /\ ~Active(q)'
  <2>1. req'[q] = req[q] /\ patch'[q] = patch[q] /\ req[q].stage = "idle" /\ Fits(q)
    BY <1>1 DEF OnlyActive, Active, AloneInv
  <2> QED BY <2>1 DEF Fits, ReadFits, TxFits, QuietFits, InTransaction, Active
<1> QED BY <1>1 DEF AloneInv

\* What stays of a request that goes on.
SameAsked(p) ==
    /\ req'[p].op = req[p].op /\ req'[p].x = req[p].x
    /\ req'[p].from = req[p].from /\ req'[p].to = req[p].to
    /\ req'[p].moves = req[p].moves /\ req'[p].sets = req[p].sets
    /\ req'[p].wants = req[p].wants

LEMMA RequestGoes ==
  ASSUME TypeOK, NEW p \in Proc
  PROVE  /\ \A s \in Stage : Goes(p, s) =>
              /\ SameAsked(p) /\ req'[p].stage = s /\ req'[p].target = req[p].target
              /\ \A q \in Proc : q # p => req'[q] = req[q]
         /\ \A c \in Content : Relaxes(p, c) =>
              /\ SameAsked(p) /\ req'[p].stage = "relax" /\ req'[p].target = c
              /\ \A q \in Proc : q # p => req'[q] = req[q]
<1>0. req[p] \in Request
  BY DEF TypeOK
<1>1. ASSUME NEW s \in Stage, Goes(p, s)
      PROVE  /\ SameAsked(p) /\ req'[p].stage = s /\ req'[p].target = req[p].target
             /\ \A q \in Proc : q # p => req'[q] = req[q]
  BY <1>0, <1>1 DEF Goes, TypeOK, Request, SameAsked
<1>2. ASSUME NEW c \in Content, Relaxes(p, c)
      PROVE  /\ SameAsked(p) /\ req'[p].stage = "relax" /\ req'[p].target = c
             /\ \A q \in Proc : q # p => req'[q] = req[q]
  BY <1>0, <1>2 DEF Relaxes, TypeOK, Request, SameAsked
<1> QED BY <1>1, <1>2

\* After the content that the request is about: on to the content left, if
\* there is one, else to the commit.
LEMMA ContinuesIs ==
  ASSUME TypeOK, NEW p \in Proc, Continues(p)
  PROVE  /\ SameAsked(p) /\ \A q \in Proc : q # p => req'[q] = req[q]
         /\ \/ Moved(req[p]) /\ req'[p].stage = "relax" /\ req'[p].target = req[p].from
            \/ ~Moved(req[p]) /\ req'[p].stage = "commit"
<1>1. req[p].from \in Content
  BY DEF TypeOK, Request
<1> QED BY <1>1, RequestGoes DEF Continues, Stage

LEMMA RelaxedIs ==
  ASSUME TypeOK, NEW p \in Proc, Relaxed(p), req[p].target = req[p].from \/ Moved(req[p])
  PROVE  /\ SameAsked(p) /\ \A q \in Proc : q # p => req'[q] = req[q]
         /\ \/ /\ req[p].target # req[p].from /\ Moved(req[p])
               /\ req'[p].stage = "relax" /\ req'[p].target = req[p].from
            \/ req[p].target = req[p].from /\ req'[p].stage = "commit"
<1>1. CASE req[p].target # req[p].from
  BY <1>1, ContinuesIs DEF Relaxed
<1>2. CASE req[p].target = req[p].from
  BY <1>2, RequestGoes DEF Relaxed, Stage
<1> QED BY <1>1, <1>2

\* A step of a transaction that writes nothing sees what it saw.
LEMMA ViewStays ==
  ASSUME NEW p \in Proc, InTransaction(p), InTransaction(p)', SameAsked(p),
         UNCHANGED <<content, plan, draft, patch>>
  PROVE  \A c \in Content : /\ SeesItem(p, c)' = SeesItem(p, c)
                            /\ Planned(p, c)' <=> Planned(p, c)
                            /\ Loose(p, c)' <=> Loose(p, c)
<1>1. \A x \in Plan : SeesPlan(p, x)' = SeesPlan(p, x)
  BY DEF SeesPlan, SameAsked
<1>2. \A c \in Content : SeesItem(p, c)' = SeesItem(p, c)
  BY DEF SeesItem
<1> QED BY <1>1, <1>2 DEF Planned, Loose

\* The content that follows a plan, and that the plan is written for, has it.
LEMMA DraftIsPlan ==
  ASSUME TypeOK, NEW p \in Proc, TxFits(p), InTransaction(p), req[p].op # "delete",
         req[p].wants # "CANCELLED"
  PROVE  Planned(p, req[p].to)
<1>1. draft[p].of = req[p].to /\ draft[p].status \in {"SCHEDULED", "PUBLISHED"}
  BY DEF TxFits, PlanStatus
<1>2. req[p].x \in Plan /\ SeesPlan(p, req[p].x) = draft[p]
  BY DEF TypeOK, Request, SeesPlan
<1> QED BY <1>1, <1>2 DEF Planned

-----------------------------------------------------------------------------

LEMMA StartFits ==
  ASSUME AloneInv, ~crossing, NEW p \in Proc, OnlyActive(p),
         CreatePlan(p) \/ ReadPlanToUpdate(p) \/ ReadPlanToDelete(p)
  PROVE  Fits(p)' /\ UNCHANGED <<content, plan, draft, patch>>
<1>0. /\ TypeOK /\ \A c \in Content : patch[p][c] = NoItem
      /\ UNCHANGED <<content, plan, draft, patch>>
  BY DEF AloneInv, DateInv, Fits, QuietFits, InTransaction, CreatePlan, ReadPlanToUpdate,
     ReadPlanToDelete
<1> SUFFICES ReadFits(p)' /\ req'[p].stage \in {"content", "plan"}
  BY <1>0 DEF Fits, TxFits, QuietFits, InTransaction
<1>1. CASE CreatePlan(p)
  <2>1. PICK x \in Plan, c \in Content, s \in PlanStatus :
          /\ plan[x] = NoPlan
          /\ req' = [req EXCEPT ![p] =
                    [Idle EXCEPT !.op = "create", !.stage = "content", !.x = x, !.from = c,
                                 !.to = c, !.moves = TRUE, !.sets = TRUE, !.wants = s]]
    BY <1>1 DEF CreatePlan
  <2> DEFINE r == [Idle EXCEPT !.op = "create", !.stage = "content", !.x = x, !.from = c,
                               !.to = c, !.moves = TRUE, !.sets = TRUE, !.wants = s]
  <2>2. /\ r.op = "create" /\ r.stage = "content" /\ r.wants = s /\ r.x = x /\ r.from = c
        /\ r.to = c /\ r.moves /\ r.sets
    BY DEF Idle
  <2>3. req'[p] = r
    BY <1>0, <2>1 DEF TypeOK
  <2> HIDE DEF r
  <2> QED BY <1>0, <2>1, <2>2, <2>3 DEF ReadFits
<1>2. CASE ReadPlanToUpdate(p)
  <2>1. PICK x \in Plan, moves \in BOOLEAN, sets \in BOOLEAN, c \in Content, s \in PlanStatus :
          /\ Exists(plan[x])
          /\ moves \/ c = plan[x].of
          /\ sets \/ s = plan[x].status
          /\ req' = [req EXCEPT ![p] =
                     [Idle EXCEPT !.op = "update", !.stage = IF moves THEN "content" ELSE "plan",
                                  !.x = x, !.from = plan[x].of, !.to = c,
                                  !.moves = moves, !.sets = sets, !.wants = s]]
    BY <1>2, Zenon DEF ReadPlanToUpdate
  <2> DEFINE r == [Idle EXCEPT !.op = "update",
                               !.stage = IF moves THEN "content" ELSE "plan",
                               !.x = x, !.from = plan[x].of, !.to = c,
                               !.moves = moves, !.sets = sets, !.wants = s]
  <2>2. /\ r.op = "update" /\ r.stage \in {"content", "plan"} /\ r.wants = s /\ r.x = x
        /\ r.from = plan[x].of /\ r.to = c /\ r.moves = moves /\ r.sets = sets
    BY DEF Idle
  <2>3. req'[p] = r
    BY <1>0, <2>1 DEF TypeOK
  <2> HIDE DEF r
  <2> QED BY <1>0, <2>1, <2>2, <2>3 DEF ReadFits
<1>3. CASE ReadPlanToDelete(p)
  <2>1. PICK x \in Plan :
          req' = [req EXCEPT ![p] =
                    [Idle EXCEPT !.op = "delete", !.stage = "plan", !.x = x,
                                 !.from = plan[x].of, !.to = plan[x].of]]
    BY <1>3 DEF ReadPlanToDelete
  <2> DEFINE r == [Idle EXCEPT !.op = "delete", !.stage = "plan", !.x = x,
                               !.from = plan[x].of, !.to = plan[x].of]
  <2>2. /\ r.op = "delete" /\ r.stage = "plan" /\ r.x = x
        /\ r.from = plan[x].of /\ r.to = plan[x].of
    BY DEF Idle
  <2>3. req'[p] = r
    BY <1>0, <2>1 DEF TypeOK
  <2> HIDE DEF r
  <2> QED BY <1>0, <2>1, <2>2, <2>3 DEF ReadFits
<1> QED BY <1>0, <1>1, <1>2, <1>3

LEMMA CheckFits ==
  ASSUME AloneInv, ~crossing, NEW p \in Proc, CheckContent(p)
  PROVE  Fits(p)'
<1>1. /\ Fits(p) /\ req[p].stage = "content" /\ UNCHANGED <<content, plan, draft, patch>>
      /\ SameAsked(p) /\ req'[p].stage = "plan"
  BY RequestGoes DEF AloneInv, DateInv, CheckContent, Stage
<1> QED BY <1>1 DEF Fits, ReadFits, TxFits, QuietFits, InTransaction, SameAsked

\* The plan written is the one asked for; whoever loses a plan by it is the
\* content it leaves.
LEMMA WritePlanFits ==
  ASSUME AloneInv, ~crossing, NEW p \in Proc, WritePlan(p)
  PROVE  Fits(p)'
<1> DEFINE r == req[p]
<1>0. /\ TypeOK /\ ReadFits(p) /\ r \in Request /\ r.x \in Plan /\ r.from \in Content
      /\ r.stage = "plan" /\ UNCHANGED <<content, plan, patch>>
      /\ \A c \in Content : patch[p][c] = NoItem
      /\ plan[r.x] \in PlanRow
  BY DEF AloneInv, DateInv, Fits, QuietFits, InTransaction, WritePlan, TypeOK, Request
<1>1. /\ SameAsked(p)
      /\ IF r.op = "delete" THEN req'[p].stage = "relax" /\ req'[p].target = r.from
                            ELSE req'[p].stage = "sync"
  BY <1>0, RequestGoes DEF WritePlan, Stage
<1>2. draft'[p] = Row(r)
  BY <1>0 DEF WritePlan, TypeOK
<1>3. r.op = "delete" => draft'[p].status = "GONE" /\ draft'[p].of = r.from
  BY <1>0, <1>2 DEF Row, ReadFits, PlanRow
<1>4. r.op # "delete" => draft'[p] = [status |-> r.wants, of |-> r.to]
  BY <1>0, <1>2 DEF Row, Updated, ReadFits
<1>5. \A c \in Content : SeesItem(p, c)' = content[c]
  BY <1>0 DEF SeesItem
<1>6. \A x \in Plan : SeesPlan(p, x)' = IF x = r.x THEN draft'[p] ELSE plan[x]
  BY <1>0, <1>1 DEF SeesPlan, InTransaction, SameAsked
<1>7. ASSUME NEW c \in Content, Loose(p, c)'
      PROVE  c = r.from
  <2>1. content[c].status = "SCHEDULED" /\ "SCHEDULED" \notin Wanted
    BY <1>5, <1>7 DEF Loose
  <2>2. PICK x \in Plan : plan[x].of = c /\ plan[x].status \in {"SCHEDULED", "PUBLISHED"}
    BY <2>1 DEF AloneInv, PlansOnly, ScheduledHasPlan, PlansOf
  <2>3. CASE x = r.x
    <3>1. r.op # "create"
      BY <1>0, <2>2, <2>3 DEF ReadFits, NoPlan
    <3> QED BY <1>0, <2>2, <2>3, <3>1 DEF ReadFits
  <2>4. CASE x # r.x
    <3>1. SeesPlan(p, x)' = plan[x]
      BY <1>6, <2>4
    <3>2. Planned(p, c)'
      BY <2>2, <3>1 DEF Planned
    <3> QED BY <1>7, <3>2 DEF Loose
  <2> QED BY <2>3, <2>4
<1> QED BY <1>0, <1>1, <1>3, <1>4, <1>7
        DEF Fits, ReadFits, TxFits, QuietFits, InTransaction, SameAsked

\* The content that the plan is for takes its status; it has that plan.
LEMMA SyncFits ==
  ASSUME AloneInv, ~crossing, NEW p \in Proc, SyncContent(p)
  PROVE  Fits(p)'
<1> DEFINE r == req[p]  i == Follow(SeesItem(p, r.to), r.wants)
<1>0. /\ TypeOK /\ TxFits(p) /\ InTransaction(p) /\ r.stage = "sync" /\ r.op # "delete"
      /\ r.wants # "CANCELLED" /\ r.to \in Content /\ r.wants \in PlanStatus
      /\ UNCHANGED <<content, plan, draft>>
  BY DEF AloneInv, DateInv, Fits, TxFits, InTransaction, SyncContent, TypeOK, Request
<1>1. /\ SameAsked(p)
      /\ \/ Moved(r) /\ req'[p].stage = "relax" /\ req'[p].target = r.from
         \/ ~Moved(r) /\ req'[p].stage = "commit"
  BY <1>0, ContinuesIs DEF SyncContent
<1>2. i.status = r.wants
  <2>1. SeesItem(p, r.to) \in Item
    BY <1>0, SeenTypes
  <2> QED BY <2>1 DEF Follow, Item
<1>3. \A c \in Content : patch'[p][c] = IF c = r.to THEN i ELSE patch[p][c]
  BY <1>0 DEF SyncContent, Synced, TypeOK
<1>4. i # NoItem
  BY <1>0, <1>2 DEF NoItem, PlanStatus
<1> HIDE DEF i
<1>5. \A c \in Content : SeesItem(p, c)' = IF c = r.to THEN i ELSE SeesItem(p, c)
  BY <1>0, <1>3, <1>4 DEF SeesItem
<1>6. \A c \in Content : Planned(p, c)' <=> Planned(p, c)
  <2>1. \A x \in Plan : SeesPlan(p, x)' = SeesPlan(p, x)
    BY <1>0, <1>1 DEF SeesPlan, InTransaction, SameAsked
  <2> QED BY <2>1 DEF Planned
<1>7. Planned(p, r.to)
  BY <1>0, DraftIsPlan
<1>8. ASSUME NEW c \in Content, Loose(p, c)'
      PROVE  c = r.from /\ Moved(r)
  <2>1. c # r.to /\ Loose(p, c)
    BY <1>5, <1>6, <1>7, <1>8 DEF Loose
  <2>2. c = r.from
    BY <1>0, <2>1 DEF TxFits
  <2> QED BY <1>0, <2>1, <2>2 DEF TxFits, Moved
<1>9. SeesItem(p, req[p].to)' = i
  BY <1>0, <1>1, <1>5 DEF SameAsked
<1> QED BY <1>0, <1>1, <1>2, <1>8, <1>9 DEF Fits, ReadFits, TxFits, QuietFits, InTransaction,
        SameAsked, Moved

\* The steps of a transaction that only decide.
LEMMA DecideFits ==
  ASSUME AloneInv, ~crossing, NEW p \in Proc,
         SyncCancelled(p) \/ RelaxUnlessPlanned(p) \/ RelaxIfScheduled(p)
  PROVE  Fits(p)'
<1> DEFINE r == req[p]
<1>0. /\ TypeOK /\ TxFits(p) /\ InTransaction(p) /\ r \in Request
      /\ UNCHANGED <<content, plan, draft, patch>>
      /\ r.to \in Content /\ r.target \in Content
  BY DEF AloneInv, DateInv, Fits, InTransaction, SyncCancelled, RelaxUnlessPlanned,
     RelaxIfScheduled, TypeOK, Request
<1>1. CASE SyncCancelled(p)
  <2>1. SameAsked(p) /\ req'[p].stage = "relax" /\ req'[p].target = r.to /\ r.wants = "CANCELLED"
        /\ r.stage = "sync"
    BY <1>0, <1>1, RequestGoes DEF SyncCancelled, Synced
  <2>2. r.op # "delete" /\ (r.to = r.from \/ Moved(r))
    BY <1>0, <2>1 DEF TxFits, Moved
  <2>3. \A c \in Content : Loose(p, c)' <=> Loose(p, c)
    BY <1>0, <2>1, ViewStays DEF InTransaction
  <2> QED BY <1>0, <2>1, <2>2, <2>3 DEF Fits, ReadFits, TxFits, QuietFits, InTransaction,
          SameAsked, Moved
<1>2. ASSUME r.stage \in {"relax", "status"}, Relaxed(p), ~Loose(p, r.target)
      PROVE  Fits(p)'
  <2>1. /\ SameAsked(p)
        /\ \/ /\ r.target # r.from /\ Moved(r)
              /\ req'[p].stage = "relax" /\ req'[p].target = r.from
           \/ r.target = r.from /\ req'[p].stage = "commit"
    BY <1>0, <1>2, RelaxedIs DEF TxFits
  <2>2. \A c \in Content : /\ Loose(p, c)' <=> Loose(p, c)
                           /\ SeesItem(p, c)' = SeesItem(p, c)
    BY <1>0, <2>1, ViewStays DEF InTransaction
  <2>3. \A c \in Content : Loose(p, c)' => c = r.from /\ req'[p].stage # "commit"
    BY <1>0, <1>2, <2>1, <2>2 DEF TxFits
  <2>4. SeesItem(p, req[p].to)' = SeesItem(p, r.to)
    BY <1>0, <2>1, <2>2 DEF SameAsked
  <2> QED BY <1>0, <1>2, <2>1, <2>3, <2>4 DEF Fits, ReadFits, TxFits, QuietFits, InTransaction,
          SameAsked, Moved
<1>3. ASSUME r.stage \in {"relax", "status"}, NEW s \in {"status", "ready"}, Goes(p, s)
      PROVE  Fits(p)'
  <2>1. SameAsked(p) /\ req'[p].stage = s /\ req'[p].target = r.target
    BY <1>0, <1>3, RequestGoes DEF Stage
  <2>2. \A c \in Content : /\ Loose(p, c)' <=> Loose(p, c)
                           /\ SeesItem(p, c)' = SeesItem(p, c)
    BY <1>0, <2>1, ViewStays DEF InTransaction
  <2>3. SeesItem(p, req[p].to)' = SeesItem(p, r.to)
    BY <1>0, <2>1, <2>2 DEF SameAsked
  <2> QED BY <1>0, <1>3, <2>1, <2>2, <2>3 DEF Fits, ReadFits, TxFits, QuietFits, InTransaction,
          SameAsked, Moved
<1>4. CASE RelaxUnlessPlanned(p)
  <2>1. CASE Planned(p, r.target)
    BY <1>2, <1>4, <2>1 DEF RelaxUnlessPlanned, Planned, Loose
  <2>2. CASE ~Planned(p, r.target)
    BY <1>3, <1>4, <2>2 DEF RelaxUnlessPlanned, Planned
  <2> QED BY <2>1, <2>2
<1>5. CASE RelaxIfScheduled(p)
  <2>1. CASE SeesItem(p, r.target).status = "SCHEDULED"
    BY <1>3, <1>5, <2>1 DEF RelaxIfScheduled
  <2>2. CASE SeesItem(p, r.target).status # "SCHEDULED"
    BY <1>2, <1>5, <2>2 DEF RelaxIfScheduled, Loose
  <2> QED BY <2>1, <2>2
<1> QED BY <1>1, <1>4, <1>5

\* The content left is no longer scheduled.
LEMMA RelaxFits ==
  ASSUME AloneInv, ~crossing, NEW p \in Proc, RelaxToReady(p)
  PROVE  Fits(p)'
<1> DEFINE r == req[p]  i == [SeesItem(p, r.target) EXCEPT !.status = "READY"]
<1>0. /\ TypeOK /\ TxFits(p) /\ InTransaction(p) /\ r \in Request /\ r.stage = "ready"
      /\ UNCHANGED <<content, plan, draft>>
      /\ r.to \in Content /\ r.target \in Content
  BY DEF AloneInv, DateInv, Fits, InTransaction, RelaxToReady, TypeOK, Request
<1>1. /\ SameAsked(p)
      /\ \/ /\ r.target # r.from /\ Moved(r)
            /\ req'[p].stage = "relax" /\ req'[p].target = r.from
         \/ r.target = r.from /\ req'[p].stage = "commit"
  BY <1>0, RelaxedIs DEF RelaxToReady, TxFits
<1>2. i.status = "READY" /\ i # NoItem
  <2>1. SeesItem(p, r.target) \in Item
    BY <1>0, SeenTypes
  <2> QED BY <2>1 DEF Item, NoItem
<1>3. \A c \in Content : patch'[p][c] = IF c = r.target THEN i ELSE patch[p][c]
  BY <1>0 DEF RelaxToReady, TypeOK
<1> HIDE DEF i
<1>4. \A c \in Content : SeesItem(p, c)' = IF c = r.target THEN i ELSE SeesItem(p, c)
  BY <1>0, <1>2, <1>3 DEF SeesItem
<1>5. \A c \in Content : Planned(p, c)' <=> Planned(p, c)
  <2>1. \A x \in Plan : SeesPlan(p, x)' = SeesPlan(p, x)
    BY <1>0, <1>1 DEF SeesPlan, InTransaction, SameAsked
  <2> QED BY <2>1 DEF Planned
<1>6. \A c \in Content : Loose(p, c)' => c # r.target /\ Loose(p, c)
  BY <1>2, <1>4, <1>5 DEF Loose
<1>7. \A c \in Content : Loose(p, c)' => c = r.from /\ req'[p].stage # "commit"
  BY <1>0, <1>1, <1>6 DEF TxFits
<1>8. r.to # r.target => SeesItem(p, req[p].to)' = SeesItem(p, r.to)
  BY <1>0, <1>1, <1>4 DEF SameAsked
<1> QED BY <1>0, <1>1, <1>7, <1>8 DEF Fits, ReadFits, TxFits, QuietFits, InTransaction,
        SameAsked, Moved

\* A request that has ended fits.
LEMMA EndFits ==
  ASSUME TypeOK, NEW p \in Proc, Ends(p)
  PROVE  Fits(p)' /\ \A q \in Proc : q # p => req'[q] = req[q] /\ patch'[q] = patch[q]
<1>1. req'[p] = Idle /\ \A c \in Content : patch'[p][c] = NoItem
  BY DEF Ends, TypeOK
<1>2. \A q \in Proc : q # p => req'[q] = req[q] /\ patch'[q] = patch[q]
  BY DEF Ends, TypeOK
<1> QED BY <1>1, <1>2 DEF Fits, ReadFits, TxFits, QuietFits, InTransaction, Idle

\* What is committed is what the transaction saw: nothing loose, and the
\* content of a plan scheduled is scheduled.
LEMMA CommitFits ==
  ASSUME AloneInv, ~crossing, NEW p \in Proc, Commit(p)
  PROVE  PlansOnly' /\ SchedulingMarksContent
<1> DEFINE r == req[p]
<1>0. /\ TypeOK /\ TxFits(p) /\ InTransaction(p) /\ r \in Request /\ r.stage = "commit"
      /\ r.x \in Plan /\ r.to \in Content
  BY DEF AloneInv, DateInv, Fits, InTransaction, Commit, TypeOK, Request
<1>1. \A x \in Plan : plan'[x] = SeesPlan(p, x)
  BY <1>0 DEF Commit, TypeOK, SeesPlan
<1>2. \A c \in Content : content'[c] = SeesItem(p, c)
  BY DEF Commit
<1>3. PlansOnly'
  <2> SUFFICES ASSUME "SCHEDULED" \notin Wanted, NEW c \in Content,
                      content'[c].status = "SCHEDULED"
               PROVE  PlansOf(c)' # {}
    BY DEF PlansOnly, ScheduledHasPlan
  <2>1. Planned(p, c)
    BY <1>0, <1>2 DEF TxFits, Loose
  <2>2. PICK x \in Plan : plan'[x].of = c /\ plan'[x].status \in {"SCHEDULED", "PUBLISHED"}
    BY <1>1, <2>1 DEF Planned
  <2> QED BY <2>2 DEF PlansOf
<1>4. SchedulingMarksContent
  <2> SUFFICES ASSUME NEW x \in Plan, plan'[x] # plan[x], plan'[x].status = "SCHEDULED"
               PROVE  content'[plan'[x].of].status = "SCHEDULED"
    BY DEF SchedulingMarksContent
  <2>1. x = r.x /\ plan'[x] = draft[p]
    BY <1>0 DEF Commit, TypeOK
  <2>2. r.op # "delete"
    BY <1>0, <2>1 DEF TxFits
  <2>3. r.wants = "SCHEDULED" /\ plan'[x].of = r.to
    BY <1>0, <2>1, <2>2 DEF TxFits
  <2>4. SeesItem(p, r.to).status = "SCHEDULED"
    BY <1>0, <2>2, <2>3 DEF TxFits
  <2> QED BY <1>0, <1>2, <2>3, <2>4
<1> QED BY <1>3, <1>4

LEMMA AloneHandleStep ==
  ASSUME AloneInv, ~crossing, crossing' = crossing, DateInv',
         NEW p \in Proc, OnlyActive(p), Handle(p)
  PROVE  AloneInv' /\ SchedulingMarksContent
<1>0. TypeOK /\ PlansOnly /\ Fits(p)
  BY DEF AloneInv, DateInv
<1>1. ASSUME Fits(p)', UNCHANGED <<content, plan>>,
             \A q \in Proc : q # p => req'[q] = req[q] /\ patch'[q] = patch[q]
      PROVE  AloneInv' /\ SchedulingMarksContent
  <2>1. PlansOnly' /\ SchedulingMarksContent
    BY <1>0, <1>1 DEF PlansOnly, ScheduledHasPlan, PlansOf, SchedulingMarksContent
  <2> QED BY <1>1, <2>1, OthersFit
<1>2. CASE CreatePlan(p) \/ ReadPlanToUpdate(p) \/ ReadPlanToDelete(p)
  <2>1. Fits(p)' /\ UNCHANGED <<content, plan, draft, patch>>
    BY <1>2, StartFits
  <2>2. Looks(p)
    BY <1>2 DEF Looks
  <2> QED BY <1>1, <2>1, <2>2, LooksRequest DEF AloneInv
<1>3. CASE CheckContent(p) \/ WritePlan(p) \/ SyncCancelled(p) \/ RelaxUnlessPlanned(p)
           \/ RelaxIfScheduled(p)
  <2>1. Fits(p)'
    BY <1>3, CheckFits, WritePlanFits, DecideFits
  <2>2. UNCHANGED <<content, plan, patch>>
    BY <1>3 DEF CheckContent, WritePlan, SyncCancelled, RelaxUnlessPlanned, RelaxIfScheduled
  <2>3. Looks(p)
    BY <1>3 DEF Looks
  <2> QED BY <1>1, <2>1, <2>2, <2>3, LooksRequest DEF AloneInv
<1>4. CASE SyncContent(p) \/ RelaxToReady(p)
  <2>1. Fits(p)' /\ UNCHANGED <<content, plan>>
    BY <1>4, SyncFits, RelaxFits DEF SyncContent, RelaxToReady
  <2>2. \A q \in Proc : q # p => patch'[q] = patch[q]
    BY <1>0, <1>4 DEF SyncContent, RelaxToReady, TypeOK
  <2>3. \A q \in Proc : q # p => req'[q] = req[q]
    BY <1>0, <1>4 DEF SyncContent, RelaxToReady, Continues, Relaxed, Goes, Relaxes, TypeOK
  <2> QED BY <1>1, <2>1, <2>2, <2>3
<1>5. CASE Fails(p)
  BY <1>0, <1>1, <1>5, EndFits DEF Fails
<1>6. CASE Commit(p)
  <2>1. Fits(p)' /\ \A q \in Proc : q # p => req'[q] = req[q] /\ patch'[q] = patch[q]
    BY <1>0, <1>6, EndFits DEF Commit
  <2> QED BY <1>6, <2>1, CommitFits, OthersFit
<1>7. CASE ReadContent(p)
  <2>1. PICK op \in {"library", "editor", "archive", "restore"}, admin \in BOOLEAN,
             c \in Content, s \in ItemStatus :
          Reads(p, op, admin, c, s) /\ ("SCHEDULED" \notin Wanted => s # "SCHEDULED")
    BY <1>7, CalendarAssumption DEF ReadContent, SaveStatus, ItemStatus
  <2> DEFINE r == [Idle EXCEPT !.op = op, !.stage = "write", !.admin = admin,
                               !.to = c, !.wants = s, !.seen = content[c]]
  <2>2. r.stage = "write" /\ r.wants = s
    BY DEF Idle
  <2>3. \A q \in Proc : req'[q] = IF q = p THEN r ELSE req[q]
    BY <1>0, <2>1 DEF Reads, TypeOK
  <2> HIDE DEF r
  <2>4. req[p].stage = "idle" /\ UNCHANGED <<content, plan, draft, patch>>
    BY <1>7 DEF ReadContent
  <2>5. Fits(p)'
    BY <1>0, <2>1, <2>2, <2>3, <2>4 DEF Fits, ReadFits, TxFits, QuietFits, InTransaction
  <2> QED BY <1>1, <2>3, <2>4, <2>5
<1>8. CASE WriteContent(p)
  <2>1. Fits(p)' /\ \A q \in Proc : q # p => req'[q] = req[q] /\ patch'[q] = patch[q]
    BY <1>0, <1>8, EndFits DEF WriteContent
  <2>2. ("SCHEDULED" \notin Wanted => req[p].wants # "SCHEDULED") /\ UNCHANGED plan
    BY <1>0, <1>8 DEF WriteContent, Fits, QuietFits
  <2>3. ASSUME "SCHEDULED" \notin Wanted
        PROVE  \A c \in Content : content'[c].status = "SCHEDULED" => content'[c] = content[c]
    BY <2>3, <1>0, <1>8, <2>2 DEF WriteContent, TypeOK, Edited
  <2>4. PlansOnly' /\ SchedulingMarksContent
    BY <1>0, <2>2, <2>3 DEF PlansOnly, ScheduledHasPlan, PlansOf, SchedulingMarksContent
  <2> QED BY <2>1, <2>4, OthersFit
<1> QED BY <1>2, <1>3, <1>4, <1>5, <1>6, <1>7, <1>8 DEF Handle

\* A content created in between is not scheduled, and nobody had seen it.
LEMMA AloneSaveStep ==
  ASSUME AloneInv, ~crossing, crossing' = crossing, DateInv', NEW c \in Content, SaveContent(c)
  PROVE  AloneInv' /\ SchedulingMarksContent
<1>1. /\ TypeOK /\ UNCHANGED <<plan, req, draft, patch>> /\ content[c] = NoItem
      /\ content'[c].status # "SCHEDULED"
      /\ \A d \in Content : d # c => content'[d] = content[d]
  <2>1. PICK s \in SaveStatus : content' = [content EXCEPT ![c] = Follow(NoItem, s)]
    BY DEF SaveContent
  <2>2. Follow(NoItem, s).status # "SCHEDULED"
    BY DEF Follow, NoItem, SaveStatus
  <2>3. TypeOK
    BY DEF AloneInv, DateInv
  <2> QED BY <2>1, <2>2, <2>3 DEF SaveContent, TypeOK
<1>2. PlansOnly' /\ SchedulingMarksContent
  BY <1>1 DEF AloneInv, PlansOnly, ScheduledHasPlan, PlansOf, SchedulingMarksContent
<1>3. ASSUME NEW p \in Proc
      PROVE  Fits(p)'
  <2>1. Fits(p) /\ req[p] \in Request
    BY <1>1 DEF AloneInv, TypeOK
  <2>2. ASSUME NEW d \in Content
        PROVE  \/ SeesItem(p, d)' = SeesItem(p, d)
               \/ d = c /\ SeesItem(p, d) = NoItem /\ SeesItem(p, d)'.status # "SCHEDULED"
    <3>1. SeesItem(p, d)' = IF patch[p][d] # NoItem THEN patch[p][d] ELSE content'[d]
      BY <1>1 DEF SeesItem
    <3>2. SeesItem(p, d) = IF patch[p][d] # NoItem THEN patch[p][d] ELSE content[d]
      BY DEF SeesItem
    <3>3. CASE d # c
      BY <1>1, <3>1, <3>2, <3>3
    <3>4. CASE d = c
      BY <1>1, <3>1, <3>2, <3>4
    <3> QED BY <3>3, <3>4
  <2>3. \A d \in Content : Planned(p, d)' <=> Planned(p, d)
    BY <1>1 DEF Planned, SeesPlan, InTransaction
  <2>4. \A d \in Content : Loose(p, d)' => Loose(p, d)
    BY <2>2, <2>3 DEF Loose
  <2>5. ASSUME SeesItem(p, req[p].to).status \in PlanStatus
        PROVE  SeesItem(p, req[p].to)' = SeesItem(p, req[p].to)
    <3>1. req[p].to \in Content /\ SeesItem(p, req[p].to) # NoItem
      BY <2>1, <2>5 DEF Request, NoItem, PlanStatus
    <3>2. SeesItem(p, req[p].to)' = (IF patch[p][req[p].to] # NoItem THEN patch[p][req[p].to]
                                     ELSE content'[req[p].to])
      BY <1>1 DEF SeesItem
    <3> QED BY <1>1, <3>1, <3>2 DEF SeesItem
  <2>6. TxFits(p)'
    BY <1>1, <2>1, <2>4, <2>5 DEF Fits, TxFits, InTransaction, Moved
  <2>7. ReadFits(p)' /\ QuietFits(p)'
    BY <1>1, <2>1 DEF Fits, ReadFits, QuietFits, InTransaction
  <2> QED BY <2>6, <2>7 DEF Fits
<1> QED BY <1>1, <1>2, <1>3 DEF AloneInv, Active

LEMMA AloneStart == Init => AloneInv
<1> SUFFICES ASSUME Init PROVE AloneInv
  OBVIOUS
<1>1. DateInv
  BY InitDates
<1>2. \A p \in Proc : Fits(p) /\ ~Active(p)
  BY DEF Init, Fits, ReadFits, TxFits, QuietFits, InTransaction, Active, Idle
<1>3. PlansOnly
  BY DEF Init, PlansOnly, ScheduledHasPlan, NoItem
<1> QED BY <1>1, <1>2, <1>3 DEF AloneInv

LEMMA AloneStep ==
  ASSUME AloneInv, [MCNext /\ UNCHANGED crossing]_<<vars, crossing>>
  PROVE  AloneInv' /\ [~crossing => SchedulingMarksContent]_vars
<1>1. [Next]_vars /\ crossing' = crossing
  <2>1. SomeContent \in Content
    BY Witnesses
  <2> QED BY <2>1 DEF MCNext, AloneNext, CrossingNext, Next, vars
<1>2. DateInv'
  BY <1>1, NextKeepsDates DEF AloneInv
<1>3. CASE crossing
  BY <1>1, <1>2, <1>3 DEF AloneInv
<1>4. CASE ~crossing /\ UNCHANGED vars
  <2>1. UNCHANGED <<content, plan, req, draft, patch>>
    BY <1>4 DEF vars
  <2>2. \A p \in Proc : Fits(p)'
    BY <1>4, <2>1 DEF AloneInv, Fits, ReadFits, TxFits, QuietFits, InTransaction, Loose, Planned,
       SeesItem, SeesPlan, Moved
  <2>3. PlansOnly'
    BY <1>4, <2>1 DEF AloneInv, PlansOnly, ScheduledHasPlan, PlansOf
  <2>4. \A p \in Proc : Active(p)' <=> Active(p)
    BY <2>1 DEF Active
  <2> QED BY <1>1, <1>2, <1>4, <2>2, <2>3, <2>4 DEF AloneInv
<1>5. CASE ~crossing /\ AloneNext
  <2>1. ASSUME NEW p \in Proc, OnlyActive(p), Handle(p)
        PROVE  AloneInv' /\ SchedulingMarksContent
    BY <1>1, <1>2, <1>5, <2>1, AloneHandleStep
  <2> QED BY <1>1, <1>2, <1>5, <2>1, AloneSaveStep DEF AloneNext, OnlyActive
<1> QED BY <1>3, <1>4, <1>5 DEF MCNext

\* With one request at a time, and nobody setting a status to SCHEDULED by hand,
\* a content that is shown as scheduled has a plan: the content that a plan
\* leaves, by a move, a cancellation or a deletion, is relaxed in the same
\* transaction.
THEOREM ScheduledIsPlanned ==
  ASSUME "SCHEDULED" \notin Wanted
  PROVE  MCSpec => []AloneScheduledHasPlan
<1>1. AloneInv => AloneScheduledHasPlan
  BY DEF AloneInv, PlansOnly, AloneScheduledHasPlan
<1>2. AloneInv /\ [MCNext /\ UNCHANGED crossing]_<<vars, crossing>> => AloneInv'
  BY AloneStep
<1> QED BY <1>1, <1>2, AloneStart, PTL DEF MCSpec

\* With one request at a time, whatever statuses are set by hand, the content of a
\* plan that is scheduled, or moved while it is, becomes scheduled with it.
THEOREM SchedulingIsMarked == MCSpec => AloneSchedulingMarksContent
<1>1. AloneInv /\ [MCNext /\ UNCHANGED crossing]_<<vars, crossing>> =>
        AloneInv' /\ [~crossing => SchedulingMarksContent]_vars
  BY AloneStep
<1> QED BY <1>1, AloneStart, PTL DEF MCSpec, AloneSchedulingMarksContent

-----------------------------------------------------------------------------
(***************************************************************************)
(* Proofs about EditingScreens, for any texts, labels, statuses and        *)
(* values, and any number of calls.                                        *)
(*                                                                         *)
(* A screen makes a call of a kind only when none of that kind is under    *)
(* way: each invariant says which calls the flags of the screen stand for, *)
(* so that what one of them was told, or was made with, is still so when   *)
(* its answer comes.  ContentInv: a status that the library was the last   *)
(* to move has its date, and an editor's request that is about to write    *)
(* has found no archive.  EditorInv: the screen shows the stored content   *)
(* unless an update is under way, and an export goes without one.          *)
(* SettingsInv: a form that is open shows the row, and a saving was made   *)
(* with it.                                                                *)
(***************************************************************************)
-----------------------------------------------------------------------------
(* Calls under way: what the screens do to the sequence of their calls.    *)

CallFields == {"op", "arg", "state", "answer", "live"}

IsCalls(s) ==
    /\ s \in Seq({s[i] : i \in 1..Len(s)})
    /\ \A i \in 1..Len(s) : DOMAIN s[i] = CallFields /\ s[i].live \in BOOLEAN

\* The i-th call has got an answer, or something else happened to it.
Progress(s, t, i) ==
    /\ IsCalls(t) /\ Len(t) = Len(s)
    /\ \A j \in 1..Len(s) : j # i => t[j] = s[j]
    /\ t[i].op = s[i].op /\ t[i].arg = s[i].arg /\ t[i].live = s[i].live

\* The i-th call is over.
Over(s, t, i) ==
    /\ IsCalls(t) /\ Len(t) = Len(s) - 1
    /\ \A j \in 1..Len(t) : t[j] = IF j < i THEN s[j] ELSE s[j + 1]

\* A call is made.
Made(s, t, c) ==
    /\ IsCalls(t) /\ Len(t) = Len(s) + 1
    /\ \A j \in 1..Len(s) : t[j] = s[j]
    /\ t[Len(s) + 1] = c

\* The i-th call becomes e.
Becomes(s, t, i, e) ==
    /\ t = [s EXCEPT ![i] = e]
    /\ DOMAIN e = CallFields /\ e.op = s[i].op /\ e.arg = s[i].arg /\ e.live = s[i].live

\* An answer.
Served(s, t, i, x, a) == t = [s EXCEPT ![i].state = x, ![i].answer = a]

\* A refusal, or a connection that breaks.
Marked(s, t, i, x) == t = [s EXCEPT ![i].state = x]

\* A statement of the request.
Stepped(s, t, i, a) == t = [s EXCEPT ![i].answer = a]

Less(s, i) == SubSeq(s, 1, i - 1) \o SubSeq(s, i + 1, Len(s))

LEMMA CallsAreSeq ==
  ASSUME NEW s, IsCalls(s)
  PROVE  Len(s) \in Nat /\ DOMAIN s = 1..Len(s)
<1> DEFINE S == {s[i] : i \in 1..Len(s)}
<1>1. s \in Seq(S)
  BY DEF IsCalls
<1> QED BY <1>1, LenProperties

\* A sequence is a sequence of its own elements.
LEMMA OwnElements ==
  ASSUME NEW S, NEW s \in Seq(S)
  PROVE  s \in Seq({s[i] : i \in 1..Len(s)})
<1>1. Len(s) \in Nat /\ s \in [1..Len(s) -> S]
  BY LenProperties
<1>2. s \in [1..Len(s) -> {s[i] : i \in 1..Len(s)}]
  BY <1>1
<1> QED BY <1>1, <1>2, SeqDef

LEMMA CallOver ==
  ASSUME NEW s, IsCalls(s), NEW i \in 1..Len(s)
  PROVE  Over(s, Less(s, i), i)
<1> DEFINE S == {s[k] : k \in 1..Len(s)}
           a == SubSeq(s, 1, i - 1)
           b == SubSeq(s, i + 1, Len(s))
           t == Less(s, i)
<1>0. s \in Seq(S) /\ Len(s) \in Nat /\ i \in Int /\ \A j \in 1..Len(s) : s[j] \in S
  BY CallsAreSeq DEF IsCalls
<1> HIDE DEF S
<1>1. a \in Seq(S) /\ Len(a) = i - 1 /\ \A j \in 1..(i - 1) : a[j] = s[j]
  <2>1. /\ SubSeq(s, 1, i - 1) \in Seq(S)
        /\ Len(SubSeq(s, 1, i - 1)) = IF 1 <= i - 1 THEN i - 1 - 1 + 1 ELSE 0
        /\ \A j \in 1..(i - 1) - 1 + 1 : SubSeq(s, 1, i - 1)[j] = s[1 + j - 1]
    BY <1>0, SubSeqProperties
  <2> QED BY <1>0, <2>1
<1>2. b \in Seq(S) /\ Len(b) = Len(s) - i /\ \A j \in 1..(Len(s) - i) : b[j] = s[i + j]
  <2>1. /\ SubSeq(s, i + 1, Len(s)) \in Seq(S)
        /\ Len(SubSeq(s, i + 1, Len(s))) = IF i + 1 <= Len(s) THEN Len(s) - (i + 1) + 1 ELSE 0
        /\ \A j \in 1..Len(s) - (i + 1) + 1 : SubSeq(s, i + 1, Len(s))[j] = s[(i + 1) + j - 1]
    BY <1>0, SubSeqProperties
  <2> QED BY <1>0, <2>1
<1> HIDE DEF a, b
<1>3. /\ a \o b \in Seq(S) /\ Len(a \o b) = Len(a) + Len(b)
      /\ \A j \in 1..Len(a) + Len(b) : (a \o b)[j] = IF j <= Len(a) THEN a[j] ELSE b[j - Len(a)]
  BY <1>1, <1>2, ConcatProperties
<1>4. t = a \o b
  BY DEF Less, a, b
<1> HIDE DEF t
<1>5. t \in Seq(S) /\ Len(t) = Len(s) - 1
  BY <1>0, <1>1, <1>2, <1>3, <1>4
<1>6. ASSUME NEW j \in 1..Len(t)
      PROVE  t[j] = IF j < i THEN s[j] ELSE s[j + 1]
  <2>0. j \in 1..(Len(s) - 1)
    BY <1>5
  <2>1. CASE j < i
    BY <1>0, <1>1, <1>2, <1>3, <1>4, <2>0, <2>1
  <2>2. CASE j >= i
    <3>1. t[j] = b[j - (i - 1)]
      BY <1>0, <1>1, <1>2, <1>3, <1>4, <2>0, <2>2
    <3>2. j - (i - 1) \in 1..(Len(s) - i) /\ i + (j - (i - 1)) = j + 1
      BY <1>0, <2>0, <2>2
    <3>3. b[j - (i - 1)] = s[j + 1]
      BY <1>2, <3>2
    <3>4. ~(j < i)
      BY <1>0, <2>2
    <3>5. t[j] = s[j + 1]
      BY <3>1, <3>3
    <3> QED BY <3>4, <3>5
  <2>3. j < i \/ j >= i
    BY <1>0
  <2> QED BY <2>1, <2>2, <2>3, Zenon
<1>7. t \in Seq({t[j] : j \in 1..Len(t)})
  BY <1>5, OwnElements
<1>8. ASSUME NEW j \in 1..Len(t)
      PROVE  DOMAIN t[j] = CallFields /\ t[j].live \in BOOLEAN
  <2>1. PICK k \in 1..Len(s) : t[j] = s[k]
    <3>1. (IF j < i THEN j ELSE j + 1) \in 1..Len(s)
      BY <1>0, <1>5
    <3> QED BY <1>6, <3>1
  <2> QED BY <2>1 DEF IsCalls
<1>9. IsCalls(t)
  BY <1>7, <1>8 DEF IsCalls
<1>10. Over(s, t, i)
  BY <1>5, <1>6, <1>9 DEF Over
<1> QED BY <1>10 DEF t

LEMMA CallMade ==
  ASSUME NEW s, IsCalls(s), NEW c, DOMAIN c = CallFields, c.live \in BOOLEAN
  PROVE  Made(s, Append(s, c), c)
<1> DEFINE S == {s[k] : k \in 1..Len(s)} \cup {c}
           t == Append(s, c)
<1>1. s \in Seq(S) /\ Len(s) \in Nat /\ c \in S
  <2>1. s \in [1..Len(s) -> S] /\ Len(s) \in Nat
    <3> DEFINE E == {s[k] : k \in 1..Len(s)}
    <3>1. s \in Seq(E)
      BY DEF IsCalls
    <3>2. s \in [1..Len(s) -> E] /\ Len(s) \in Nat
      BY <3>1, LenProperties
    <3> QED BY <3>2
  <2> QED BY <2>1, SeqDef
<1> HIDE DEF S
<1>2. /\ t \in Seq(S) /\ Len(t) = Len(s) + 1
      /\ \A j \in 1..Len(s) : t[j] = s[j]
      /\ t[Len(s) + 1] = c
  BY <1>1, AppendProperties
<1> HIDE DEF t
<1>3. t \in Seq({t[j] : j \in 1..Len(t)})
  BY <1>2, OwnElements
<1>4. ASSUME NEW j \in 1..Len(t)
      PROVE  DOMAIN t[j] = CallFields /\ t[j].live \in BOOLEAN
  <2>1. CASE j \in 1..Len(s)
    BY <1>2, <2>1 DEF IsCalls
  <2>2. CASE j = Len(s) + 1
    BY <1>2, <2>2
  <2> QED BY <1>1, <1>2, <2>1, <2>2
<1>5. IsCalls(t)
  BY <1>3, <1>4 DEF IsCalls
<1> QED BY <1>2, <1>5 DEF Made, t

LEMMA CallChanged ==
  ASSUME NEW s, IsCalls(s), NEW i \in 1..Len(s), NEW e, NEW t, Becomes(s, t, i, e)
  PROVE  Progress(s, t, i) /\ t[i] = e
<1>1. Len(s) \in Nat /\ DOMAIN s = 1..Len(s)
  BY CallsAreSeq
<1>2. DOMAIN t = 1..Len(s) /\ t[i] = e /\ \A j \in 1..Len(s) : j # i => t[j] = s[j]
  BY <1>1 DEF Becomes
<1>3. t \in [1..Len(s) -> {t[j] : j \in 1..Len(s)}]
  BY <1>2 DEF Becomes
<1>4. t \in Seq({t[j] : j \in 1..Len(s)})
  BY <1>1, <1>3, SeqDef
<1>5. Len(t) = Len(s)
  <2> DEFINE T == {t[j] : j \in 1..Len(s)}
  <2>1. t \in Seq(T)
    BY <1>4
  <2>2. Len(t) \in Nat /\ DOMAIN t = 1..Len(t)
    BY <2>1, LenProperties
  <2> QED BY <1>1, <1>2, <2>2
<1>6. IsCalls(t)
  BY <1>2, <1>4, <1>5 DEF IsCalls, Becomes
<1> QED BY <1>2, <1>5, <1>6 DEF Progress, Becomes

LEMMA IsServed ==
  ASSUME NEW s, NEW t, IsCalls(s), NEW i \in 1..Len(s), NEW x, NEW a,
         Served(s, t, i, x, a)
  PROVE  Progress(s, t, i) /\ t[i].state = x /\ t[i].answer = a
<1> DEFINE e == [s[i] EXCEPT !.state = x, !.answer = a]
<1>1. DOMAIN s[i] = CallFields /\ DOMAIN s = 1..Len(s)
  BY CallsAreSeq DEF IsCalls
<1>2. /\ DOMAIN e = CallFields /\ e.op = s[i].op /\ e.arg = s[i].arg /\ e.live = s[i].live
      /\ e.state = x /\ e.answer = a
  BY <1>1 DEF CallFields
<1>3. t = [s EXCEPT ![i] = e]
  BY <1>1 DEF Served
<1> HIDE DEF e
<1>4. Becomes(s, t, i, e)
  BY <1>2, <1>3 DEF Becomes
<1>5. Progress(s, t, i) /\ t[i] = e
  BY <1>4, CallChanged
<1> QED BY <1>2, <1>5

LEMMA IsMarked ==
  ASSUME NEW s, NEW t, IsCalls(s), NEW i \in 1..Len(s), NEW x,
         Marked(s, t, i, x)
  PROVE  Progress(s, t, i) /\ t[i].state = x /\ t[i].answer = s[i].answer
<1> DEFINE e == [s[i] EXCEPT !.state = x]
<1>1. DOMAIN s[i] = CallFields /\ DOMAIN s = 1..Len(s)
  BY CallsAreSeq DEF IsCalls
<1>2. /\ DOMAIN e = CallFields /\ e.op = s[i].op /\ e.arg = s[i].arg /\ e.live = s[i].live
      /\ e.state = x /\ e.answer = s[i].answer
  BY <1>1 DEF CallFields
<1>3. t = [s EXCEPT ![i] = e]
  BY <1>1 DEF Marked
<1> HIDE DEF e
<1>4. Becomes(s, t, i, e)
  BY <1>2, <1>3 DEF Becomes
<1>5. Progress(s, t, i) /\ t[i] = e
  BY <1>4, CallChanged
<1> QED BY <1>2, <1>5

LEMMA IsStepped ==
  ASSUME NEW s, NEW t, IsCalls(s), NEW i \in 1..Len(s), NEW a,
         Stepped(s, t, i, a)
  PROVE  Progress(s, t, i) /\ t[i].state = s[i].state /\ t[i].answer = a
<1> DEFINE e == [s[i] EXCEPT !.answer = a]
<1>1. DOMAIN s[i] = CallFields /\ DOMAIN s = 1..Len(s)
  BY CallsAreSeq DEF IsCalls
<1>2. /\ DOMAIN e = CallFields /\ e.op = s[i].op /\ e.arg = s[i].arg /\ e.live = s[i].live
      /\ e.state = s[i].state /\ e.answer = a
  BY <1>1 DEF CallFields
<1>3. t = [s EXCEPT ![i] = e]
  BY <1>1 DEF Stepped
<1> HIDE DEF e
<1>4. Becomes(s, t, i, e)
  BY <1>2, <1>3 DEF Becomes
<1>5. Progress(s, t, i) /\ t[i] = e
  BY <1>4, CallChanged
<1> QED BY <1>2, <1>5

LEMMA OneCall ==
  ASSUME NEW c, DOMAIN c = CallFields, c.live \in BOOLEAN
  PROVE  IsCalls(<<c>>) /\ Len(<<c>>) = 1 /\ <<c>>[1] = c
<1> DEFINE t == <<c>>
<1>1. t \in Seq({c}) /\ Len(t) = 1 /\ t[1] = c
  OBVIOUS
<1>2. {t[j] : j \in 1..Len(t)} = {c}
  BY <1>1
<1> HIDE DEF t
<1>3. \A j \in 1..Len(t) : t[j] = c
  BY <1>1
<1> QED BY <1>1, <1>2, <1>3 DEF IsCalls, t

LEMMA NoCall == IsCalls(<<>>) /\ Len(<<>>) = 0
<1>1. Len(<<>>) = 0 /\ <<>> \in Seq({<<>>[i] : i \in 1..Len(<<>>)})
  OBVIOUS
<1> QED BY <1>1 DEF IsCalls

LEMMA ThreeCalls ==
  ASSUME NEW a, NEW b, NEW c, \A e \in {a, b, c} : DOMAIN e = CallFields /\ e.live \in BOOLEAN
  PROVE  /\ IsCalls(<<a, b, c>>) /\ Len(<<a, b, c>>) = 3
         /\ <<a, b, c>>[1] = a /\ <<a, b, c>>[2] = b /\ <<a, b, c>>[3] = c
<1> DEFINE t == <<a, b, c>>
<1>1. t \in Seq({a, b, c}) /\ Len(t) = 3 /\ t[1] = a /\ t[2] = b /\ t[3] = c
  OBVIOUS
<1> HIDE DEF t
<1>2. t \in Seq({t[j] : j \in 1..Len(t)})
  BY <1>1, OwnElements
<1>3. \A j \in 1..Len(t) : t[j] \in {a, b, c}
  BY <1>1
<1>4. IsCalls(t)
  BY <1>2, <1>3 DEF IsCalls
<1> QED BY <1>1, <1>4 DEF t

-----------------------------------------------------------------------------
(* Calls that are waited for.                                              *)

Waits(s, ops) == \E i \in 1..Len(s) : s[i].op \in ops /\ s[i].live

\* At most one of them.
OneWaits(s, ops) ==
    \A i, j \in 1..Len(s) :
        s[i].op \in ops /\ s[i].live /\ s[j].op \in ops /\ s[j].live => i = j

AllLive(s) == \A i \in 1..Len(s) : s[i].live

\* What op writes may have been written without the screen knowing.
Written(s, op) ==
    \E i \in 1..Len(s) : s[i].op = op /\ s[i].state \in {"ok", "thrown"}

LEMMA WaitsOn ==
  ASSUME NEW s, IsCalls(s), NEW t, NEW i \in 1..Len(s), Progress(s, t, i), NEW ops
  PROVE  /\ Waits(t, ops) <=> Waits(s, ops)
         /\ OneWaits(s, ops) => OneWaits(t, ops)
         /\ AllLive(s) => AllLive(t)
<1>1. Len(t) = Len(s) /\ \A j \in 1..Len(s) : t[j].op = s[j].op /\ t[j].live = s[j].live
  BY DEF Progress
<1> QED BY <1>1 DEF Waits, OneWaits, AllLive

LEMMA WaitsOver ==
  ASSUME NEW s, IsCalls(s), NEW t, NEW i \in 1..Len(s), Over(s, t, i), NEW ops
  PROVE  /\ Waits(t, ops) => Waits(s, ops)
         /\ ~(s[i].op \in ops /\ s[i].live) => (Waits(t, ops) <=> Waits(s, ops))
         /\ OneWaits(s, ops) => OneWaits(t, ops)
         /\ OneWaits(s, ops) /\ s[i].op \in ops /\ s[i].live => ~Waits(t, ops)
         /\ AllLive(s) => AllLive(t)
<1> DEFINE place(j) == IF j < i THEN j ELSE j + 1
<1>0. Len(s) \in Nat /\ Len(t) = Len(s) - 1 /\ i \in Int
  BY CallsAreSeq DEF Over
<1>1. \A j \in 1..Len(t) : place(j) \in 1..Len(s) /\ place(j) # i /\ t[j] = s[place(j)]
  BY <1>0 DEF Over
<1>2. \A j, k \in 1..Len(t) : place(j) = place(k) => j = k
  BY <1>0
<1>3. \A k \in 1..Len(s) : k # i => \E j \in 1..Len(t) : place(j) = k
  <2> SUFFICES ASSUME NEW k \in 1..Len(s), k # i PROVE \E j \in 1..Len(t) : place(j) = k
    OBVIOUS
  <2>1. CASE k < i
    <3>1. k \in 1..Len(t) /\ place(k) = k
      BY <1>0, <2>1
    <3> QED BY <3>1
  <2>2. CASE k > i
    <3>1. k - 1 \in 1..Len(t) /\ place(k - 1) = k
      BY <1>0, <2>2
    <3> QED BY <3>1
  <2> QED BY <1>0, <2>1, <2>2
<1> HIDE DEF place
<1>4. Waits(t, ops) => Waits(s, ops)
  BY <1>1 DEF Waits
<1>5. ~(s[i].op \in ops /\ s[i].live) /\ Waits(s, ops) => Waits(t, ops)
  BY <1>1, <1>3 DEF Waits
<1>6. OneWaits(s, ops) => OneWaits(t, ops)
  BY <1>1, <1>2 DEF OneWaits
<1>7. OneWaits(s, ops) /\ s[i].op \in ops /\ s[i].live => ~Waits(t, ops)
  BY <1>1 DEF OneWaits, Waits
<1>8. AllLive(s) => AllLive(t)
  BY <1>1 DEF AllLive
<1> QED BY <1>4, <1>5, <1>6, <1>7, <1>8

LEMMA WaitsMore ==
  ASSUME NEW s, IsCalls(s), NEW t, NEW c, Made(s, t, c), NEW ops
  PROVE  /\ Waits(t, ops) <=> Waits(s, ops) \/ (c.op \in ops /\ c.live)
         /\ OneWaits(s, ops) /\ ~(Waits(s, ops) /\ c.op \in ops /\ c.live) => OneWaits(t, ops)
         /\ AllLive(s) /\ c.live => AllLive(t)
<1>1. /\ Len(s) \in Nat /\ Len(t) = Len(s) + 1
      /\ \A j \in 1..Len(t) : j \in 1..Len(s) \/ j = Len(s) + 1
      /\ \A j \in 1..Len(s) : j \in 1..Len(t) /\ t[j] = s[j]
      /\ Len(s) + 1 \in 1..Len(t) /\ t[Len(s) + 1] = c
  BY CallsAreSeq DEF Made
<1> QED BY <1>1 DEF Waits, OneWaits, AllLive

\* The calls after one is over are the others.
\* The calls of t are those of s, but the i-th.
Others(s, t, i) ==
    /\ \A j \in 1..Len(t) : \E k \in 1..Len(s) : k # i /\ t[j] = s[k]
    /\ \A k \in 1..Len(s) : k # i => \E j \in 1..Len(t) : t[j] = s[k]

LEMMA OthersStay ==
  ASSUME NEW s, IsCalls(s), NEW t, NEW i \in 1..Len(s), Over(s, t, i)
  PROVE  Others(s, t, i)
<1> DEFINE place(j) == IF j < i THEN j ELSE j + 1
<1>0. Len(s) \in Nat /\ Len(t) = Len(s) - 1 /\ i \in Int
  BY CallsAreSeq DEF Over
<1>1. \A j \in 1..Len(t) : place(j) \in 1..Len(s) /\ place(j) # i /\ t[j] = s[place(j)]
  BY <1>0 DEF Over
<1>2. ASSUME NEW k \in 1..Len(s), k # i
      PROVE  \E j \in 1..Len(t) : t[j] = s[k]
  <2>1. CASE k < i
    <3>1. k \in 1..Len(t) /\ place(k) = k
      BY <1>0, <2>1
    <3> QED BY <1>1, <3>1
  <2>2. CASE k > i
    <3>1. k - 1 \in 1..Len(t) /\ place(k - 1) = k
      BY <1>0, <2>2
    <3> QED BY <1>1, <3>1
  <2> QED BY <1>0, <1>2, <2>1, <2>2
<1> HIDE DEF place
<1> QED BY <1>1, <1>2 DEF Others

\* The calls after one is made are the former ones and that one.
LEMMA AndOneMore ==
  ASSUME NEW s, IsCalls(s), NEW t, NEW c, Made(s, t, c)
  PROVE  /\ \A j \in 1..Len(t) : (j \in 1..Len(s) /\ t[j] = s[j]) \/ t[j] = c
         /\ \A j \in 1..Len(s) : j \in 1..Len(t) /\ t[j] = s[j]
<1>1. /\ Len(s) \in Nat /\ Len(t) = Len(s) + 1
      /\ \A j \in 1..Len(t) : j \in 1..Len(s) \/ j = Len(s) + 1
      /\ \A j \in 1..Len(s) : j \in 1..Len(t) /\ t[j] = s[j]
      /\ t[Len(s) + 1] = c
  BY CallsAreSeq DEF Made
<1> QED BY <1>1

-----------------------------------------------------------------------------
(* A content of the library (ContentScreen).                               *)

ContentChanges == {"update", "archive", "restore", "create"}

ContentOps == {"load"} \cup ContentChanges

\* The screen v, with the history p and the calls c, waits for what it should.
ContentFits(v, p, c) ==
    /\ IsCalls(c) /\ AllLive(c)
    /\ DOMAIN v = {"there", "archived", "form", "labels", "loading", "saving"}
    /\ DOMAIN p = {"edited", "stale", "stuck", "apart"}
    /\ \A i \in 1..Len(c) : c[i].op \in ContentOps
    /\ OneWaits(c, {"load"}) /\ OneWaits(c, ContentChanges)
    /\ Waits(c, {"load"}) => v.loading
    /\ Waits(c, ContentChanges) => v.saving
    /\ ~p.stuck => (v.loading => Waits(c, {"load"})) /\ (v.saving => Waits(c, ContentChanges))

ContentRow(s) ==
    /\ DOMAIN s = {"content", "labels", "admin"}
    /\ DOMAIN s.content = {"archived", "dated", "text", "labels"}
    /\ s.content.archived \in BOOLEAN /\ s.content.dated \in BOOLEAN

\* A request that is about to write has found the content: an editor has found no
\* archive, and makes none.
FoundContent(e, s) ==
    /\ e.op = "update" => e.arg.archived \in BOOLEAN
    /\ e.op # "create" /\ e.state = "ok" => e.answer[1].archived \in BOOLEAN
    /\ e.op \in InLibrary!Writes /\ e.state = "sent" /\ Len(e.answer) = 1 =>
        /\ e.answer[1].dated \in BOOLEAN /\ e.answer[1].archived \in BOOLEAN
        /\ ~s.admin => e.op = "update" /\ ~e.arg.archived /\ ~e.answer[1].archived

Dates(s, p) == ~p.apart => (s.content.dated <=> s.content.archived)

FormFits(v) == DOMAIN v.form = {"archived", "text", "labels"} /\ v.form.archived \in BOOLEAN

ContentInv ==
    /\ ContentFits(view, past, call)
    /\ ContentRow(server) /\ Dates(server, past) /\ FormFits(view)
    /\ \A i \in 1..Len(call) : FoundContent(call[i], server)

LEMMA ContentStarts ==
  ASSUME InLibrary!Init
  PROVE  ContentInv
<1> DEFINE c == InLibrary!Load
<1>1. DOMAIN c = CallFields /\ c.live \in BOOLEAN /\ c.op = "load" /\ c.live /\ c.state = "sent"
  BY DEF InLibrary!Load, InLibrary!Call, CallFields
<1>2. call = <<c>>
  BY DEF InLibrary!Init
<1> HIDE DEF c
<1>3. IsCalls(call) /\ Len(call) = 1 /\ call[1] = c
  BY <1>1, <1>2, OneCall
<1>4. /\ DOMAIN view = {"there", "archived", "form", "labels", "loading", "saving"}
      /\ view.loading = TRUE /\ view.saving = FALSE
      /\ DOMAIN past = {"edited", "stale", "stuck", "apart"}
      /\ ContentRow(server) /\ Dates(server, past) /\ FormFits(view)
  <2>1. PICK t \in LibraryTexts, labels \in SUBSET LibraryLabels, archived \in BOOLEAN,
             dated \in BOOLEAN, admin \in BOOLEAN :
          /\ server = [content |-> [archived |-> archived, dated |-> dated, text |-> t,
                                    labels |-> {}],
                       labels |-> labels, admin |-> admin]
          /\ past = [edited |-> FALSE, stale |-> FALSE, stuck |-> FALSE,
                     apart |-> dated # archived]
          /\ view = [there |-> FALSE, archived |-> FALSE, labels |-> {}, loading |-> TRUE,
                     saving |-> FALSE, form |-> [archived |-> FALSE, text |-> t, labels |-> {}]]
    BY DEF InLibrary!Init
  <2> QED BY <2>1 DEF ContentRow, FormFits, Dates
<1>5. ContentFits(view, past, call)
  BY <1>1, <1>3, <1>4 DEF ContentFits, OneWaits, Waits, AllLive, ContentOps, ContentChanges
<1>6. \A i \in 1..Len(call) : FoundContent(call[i], server)
  BY <1>1, <1>3 DEF FoundContent, InLibrary!Writes
<1> QED BY <1>4, <1>5, <1>6 DEF ContentInv, Dates

\* A call that goes on changes nothing of what the screen waits for.
LEMMA ContentFitsOn ==
  ASSUME ContentFits(view, past, call), NEW i \in 1..Len(call), Progress(call, call', i),
         NEW p, DOMAIN p = DOMAIN past, p.stuck = past.stuck
  PROVE  ContentFits(view, p, call')
<1>1. \A ops : /\ Waits(call', ops) <=> Waits(call, ops)
               /\ OneWaits(call, ops) => OneWaits(call', ops)
               /\ AllLive(call) => AllLive(call')
  BY WaitsOn DEF ContentFits
<1>2. \A j \in 1..Len(call') : call'[j].op \in ContentOps
  BY DEF Progress, ContentFits
<1> QED BY <1>1, <1>2 DEF ContentFits, Progress

LEMMA ContentGoesOn ==
  ASSUME IsCalls(call), NEW i \in 1..Len(call),
         InLibrary!Refuses(i) \/ InLibrary!Breaks(i) \/ InLibrary!NotFound(i)
  PROVE  /\ Progress(call, call', i) /\ call'[i].state \in {"error", "thrown"}
         /\ UNCHANGED <<view, server, past>>
<1>1. UNCHANGED <<view, server, past>>
  BY DEF InLibrary!Refuses, InLibrary!Breaks, InLibrary!NotFound
<1>2. PICK x \in {"error", "thrown"} : Marked(call, call', i, x)
  BY DEF Marked, InLibrary!Refuses, InLibrary!Breaks, InLibrary!NotFound
<1> QED BY <1>1, <1>2, IsMarked

LEMMA ContentServes ==
  ASSUME IsCalls(call), NEW i \in 1..Len(call), NEW a, InLibrary!Serves(i, a)
  PROVE  /\ Progress(call, call', i) /\ call'[i].state = "ok" /\ call'[i].answer = a
         /\ UNCHANGED <<view, past>>
<1>1. Served(call, call', i, "ok", a) /\ UNCHANGED <<view, past>>
  BY DEF Served, InLibrary!Serves
<1> QED BY <1>1, IsServed

LEMMA ContentMoves ==
  ASSUME IsCalls(call), NEW i \in 1..Len(call), NEW a, InLibrary!Moves(i, a)
  PROVE  Progress(call, call', i) /\ call'[i].state = call[i].state /\ call'[i].answer = a
<1>1. Stepped(call, call', i, a)
  BY DEF Stepped, InLibrary!Moves
<1> QED BY <1>1, IsStepped

\* Other requests know what they knew.
LEMMA ContentKnown ==
  ASSUME ContentInv, ContentFits(view', past', call'), ContentRow(server)', Dates(server, past)',
         NEW i \in 1..Len(call), Progress(call, call', i),
         FormFits(view'), server'.admin = server.admin,
         FoundContent(call'[i], server')
  PROVE  ContentInv'
<1>1. ASSUME NEW j \in 1..Len(call'), j # i PROVE FoundContent(call'[j], server')
  <2>1. call'[j] = call[j] /\ j \in 1..Len(call)
    BY <1>1 DEF Progress
  <2> QED BY <2>1 DEF ContentInv, FoundContent
<1> QED BY <1>1 DEF ContentInv

LEMMA ContentServe ==
  ASSUME ContentInv, NEW i \in 1..Len(call),
         InLibrary!Serve(i) \/ InLibrary!Refuses(i) \/ InLibrary!Breaks(i)
  PROVE  ContentInv'
<1>0. IsCalls(call)
  BY DEF ContentInv, ContentFits
<1>1. ASSUME InLibrary!Refuses(i) \/ InLibrary!Breaks(i) \/ InLibrary!NotFound(i)
      PROVE  ContentInv'
  <2>1. /\ Progress(call, call', i) /\ call'[i].state \notin {"sent", "ok"}
        /\ UNCHANGED <<view, server, past>>
    BY <1>0, <1>1, ContentGoesOn
  <2>2. ContentFits(view', past', call')
    BY <2>1, ContentFitsOn DEF ContentInv
  <2>3. FoundContent(call'[i], server')
    BY <2>1 DEF FoundContent, Progress, ContentInv
  <2>4. ContentInv'
    BY <2>1, <2>2, <2>3, ContentKnown DEF ContentInv, Dates, ContentRow, FormFits
  <2> QED BY <2>4
<1>2. CASE InLibrary!FindContent(i)
  <2> DEFINE c == server.content
  <2>1. CASE InLibrary!NotFound(i)
    BY <1>1, <2>1
  <2>2. CASE ~InLibrary!NotFound(i)
    <3>1. /\ InLibrary!Moves(i, <<c>>) /\ UNCHANGED <<view, server, past>>
          /\ call[i].state = "sent"
          /\ ~server.admin => call[i].op = "update" /\ ~call[i].arg.archived /\ ~c.archived
      BY <1>2, <2>2 DEF InLibrary!FindContent, InLibrary!At
    <3>2. /\ Progress(call, call', i) /\ call'[i].answer[1] = c
          /\ call'[i].state = "sent"
      BY <1>0, <3>1, ContentMoves
    <3>3. ContentFits(view', past', call')
      BY <3>1, <3>2, ContentFitsOn DEF ContentInv
    <3>4. FoundContent(call'[i], server')
      BY <3>1, <3>2 DEF FoundContent, ContentInv, Dates, Progress, ContentRow
    <3>5. ContentInv'
      BY <3>1, <3>2, <3>3, <3>4, ContentKnown DEF ContentInv, Dates, ContentRow, FormFits
    <3> QED BY <3>5
  <2> QED BY <2>1, <2>2
<1>3. CASE InLibrary!WriteContent(i)
  <2> DEFINE c == server.content
             found == call[i].answer[1]
  <2>1. /\ call[i].op \in InLibrary!Writes /\ call[i].state = "sent" /\ Len(call[i].answer) = 1
        /\ UNCHANGED view
        /\ past' = [past EXCEPT !.apart = call[i].op = "update" /\ InLibrary!Crosses(c, found)]
        /\ InLibrary!Moves(i, <<"written", "written">>)
    BY <1>3 DEF InLibrary!WriteContent
  <2>2. Progress(call, call', i) /\ Len(call'[i].answer) = 2 /\ call'[i].state = "sent"
    <3>1. /\ Progress(call, call', i) /\ call'[i].answer = <<"written", "written">>
          /\ call'[i].state = "sent"
      BY <1>0, <2>1, ContentMoves
    <3> QED BY <3>1
  <2>3. /\ DOMAIN past' = DOMAIN past /\ past'.stuck = past.stuck
        /\ ~past'.apart /\ call[i].op = "update" => c.dated = found.dated
    BY <2>1 DEF ContentInv, ContentFits, InLibrary!Crosses
  <2>4. ContentFits(view', past', call')
    BY <2>1, <2>2, <2>3, ContentFitsOn DEF ContentInv
  <2>5. FoundContent(call'[i], server')
    BY <2>2 DEF FoundContent, Progress, ContentInv
  <2>6. FoundContent(call[i], server)
    BY DEF ContentInv
  <2>7. ContentRow(server) /\ Dates(server, past)
    BY DEF ContentInv
  <2>8. /\ ContentRow(server') /\ Dates(server', past') /\ server'.admin = server.admin
       
    <3>1. CASE call[i].op = "update"
      <4> DEFINE form == call[i].arg
                 new == InLibrary!Updated(c, found, form)
      <4>1. server' = [server EXCEPT !.content = new]
        BY <1>3, <3>1 DEF InLibrary!WriteContent
      <4>2. /\ DOMAIN new = {"archived", "dated", "text", "labels"}
            /\ new.archived = form.archived
            /\ new.dated = IF form.archived = found.dated THEN c.dated ELSE form.archived
        BY DEF InLibrary!Updated, InLibrary!Dated
      <4>3. form.archived \in BOOLEAN /\ found.dated \in BOOLEAN /\ found.archived \in BOOLEAN
        BY <2>1, <2>6, <3>1 DEF FoundContent
      <4> HIDE DEF new
      <4>4. server'.content = new /\ server'.admin = server.admin /\ DOMAIN server' = DOMAIN server
        BY <2>7, <4>1 DEF ContentRow
      <4>5. new.archived \in BOOLEAN /\ new.dated \in BOOLEAN
        BY <2>7, <4>2, <4>3 DEF ContentRow
      <4>6. ContentRow(server')
        BY <2>7, <4>2, <4>4, <4>5 DEF ContentRow
      <4>7. ~past'.apart => (new.dated <=> new.archived)
        BY <2>3, <2>7, <3>1, <4>2, <4>3 DEF ContentRow
      <4> QED BY <4>4, <4>6, <4>7 DEF Dates
    <3>2. CASE call[i].op \in {"archive", "restore"}
      <4>1. PICK on \in BOOLEAN :
              server' = [server EXCEPT !.content = [c EXCEPT !.archived = on, !.dated = on]]
        BY <1>3, <3>2 DEF InLibrary!WriteContent
      <4>2. /\ DOMAIN server' = DOMAIN server /\ server'.admin = server.admin
            /\ DOMAIN server'.content = DOMAIN c
            /\ server'.content.archived = on /\ server'.content.dated = on
        BY <2>7, <4>1 DEF ContentRow
      <4> QED BY <2>7, <4>2 DEF ContentRow, Dates
    <3> QED BY <2>1, <3>1, <3>2 DEF InLibrary!Writes
  <2>9. FormFits(view')
    BY <2>1 DEF ContentInv, FormFits
  <2> QED BY <2>2, <2>3, <2>4, <2>5, <2>8, <2>9, ContentKnown
<1>4. CASE InLibrary!GetContent(i) \/ InLibrary!CreateLabel(i)
  <2>1. PICK a : /\ InLibrary!Serves(i, a)
                 /\ call[i].op # "create" => a = <<server.content, server.labels>>
    BY <1>4 DEF InLibrary!GetContent, InLibrary!CreateLabel
  <2>2. /\ server'.content = server.content /\ server'.admin = server.admin
        /\ DOMAIN server' = DOMAIN server
    <3>1. CASE InLibrary!GetContent(i)
      BY <3>1 DEF InLibrary!GetContent
    <3>2. CASE InLibrary!CreateLabel(i)
      BY <3>2 DEF InLibrary!CreateLabel, ContentInv, ContentRow
    <3> QED BY <1>4, <3>1, <3>2
  <2>3. /\ Progress(call, call', i) /\ call'[i].state = "ok" /\ call'[i].answer = a
        /\ UNCHANGED <<view, past>>
    BY <1>0, <2>1, ContentServes
  <2>4. ContentFits(view', past', call')
    BY <2>3, ContentFitsOn DEF ContentInv
  <2>5. FoundContent(call'[i], server')
    BY <2>1, <2>3 DEF FoundContent, Progress, ContentInv, ContentRow
  <2>6. ContentRow(server') /\ Dates(server', past') /\ FormFits(view')
    BY <2>2, <2>3 DEF ContentInv, ContentRow, Dates, FormFits
  <2>7. ContentInv'
    BY <2>2, <2>3, <2>4, <2>5, <2>6, ContentKnown
  <2> QED BY <2>7
<1> QED BY <1>1, <1>2, <1>3, <1>4 DEF InLibrary!Serve

\* Answers and what the member does: the API is left alone.
LEMMA ContentLeavesApi ==
  ASSUME ContentInv, server' = server, past'.apart = past.apart,
         ContentFits(view', past', call'), FormFits(view'),
         \A j \in 1..Len(call') : FoundContent(call'[j], server)
  PROVE  ContentInv'
<1>1. \A j \in 1..Len(call') : FoundContent(call'[j], server')
  BY DEF FoundContent
<1> QED BY <1>1 DEF ContentInv, ContentRow, Dates

\* A call is made.
LEMMA ContentAsks ==
  ASSUME ContentInv, NEW op \in ContentChanges, NEW arg, InLibrary!Changes(op, arg),
         op = "update" => arg.archived \in BOOLEAN
  PROVE  ContentInv'
<1> DEFINE c == InLibrary!Call(op, arg)
<1>1. /\ DOMAIN c = CallFields /\ c.live = TRUE /\ c.op = op /\ c.arg = arg /\ c.state = "sent"
      /\ c.answer = <<>>
  BY DEF InLibrary!Call, CallFields
<1>2. /\ ~view.saving /\ view' = [view EXCEPT !.saving = TRUE] /\ call' = Append(call, c)
      /\ past' = past /\ server' = server
  BY DEF InLibrary!Changes, InLibrary!Asks
<1> HIDE DEF c
<1>3. Made(call, call', c)
  BY <1>1, <1>2, CallMade DEF ContentInv, ContentFits
<1>4. \A ops : /\ Waits(call', ops) <=> Waits(call, ops) \/ op \in ops
               /\ OneWaits(call, ops) /\ ~(Waits(call, ops) /\ op \in ops) => OneWaits(call', ops)
               /\ AllLive(call) => AllLive(call')
  BY <1>1, <1>3, WaitsMore DEF ContentInv, ContentFits
<1>5. /\ DOMAIN view' = DOMAIN view /\ view'.saving = TRUE /\ view'.loading = view.loading
      /\ view'.form = view.form
  BY <1>2 DEF ContentInv, ContentFits
<1>6. \A j \in 1..Len(call') : (j \in 1..Len(call) /\ call'[j] = call[j]) \/ call'[j] = c
  BY <1>3, CallsAreSeq DEF Made, ContentInv, ContentFits
<1>7. \A j \in 1..Len(call') : FoundContent(call'[j], server) /\ call'[j].op \in ContentOps
  <2>1. FoundContent(c, server) /\ c.op \in ContentOps
    <3>1. Len(<<>>) = 0
      OBVIOUS
    <3> QED BY <1>1, <3>1 DEF FoundContent, ContentOps, InLibrary!Writes
  <2> QED BY <1>6, <2>1 DEF ContentInv, ContentFits
<1>8. op \notin {"load"}
  BY DEF ContentChanges
<1>9. ContentFits(view', past', call')
  BY <1>2, <1>3, <1>4, <1>5, <1>7, <1>8 DEF ContentInv, ContentFits, Made
<1> QED BY <1>2, <1>5, <1>7, <1>9, ContentLeavesApi DEF ContentInv, FormFits

LEMMA ContentMember ==
  ASSUME ContentInv, InLibrary!Member
  PROVE  ContentInv'
<1>1. ASSUME NEW form, InLibrary!Edits(form), DOMAIN form = DOMAIN view.form,
             form.archived \in BOOLEAN
      PROVE  ContentInv'
  <2>1. /\ view' = [view EXCEPT !.form = form] /\ past' = [past EXCEPT !.edited = TRUE]
        /\ call' = call /\ server' = server
    BY <1>1 DEF InLibrary!Edits, InLibrary!Asks
  <2>2. /\ DOMAIN view' = DOMAIN view /\ view'.form = form
        /\ view'.loading = view.loading /\ view'.saving = view.saving
        /\ DOMAIN past' = DOMAIN past /\ past'.stuck = past.stuck /\ past'.apart = past.apart
    BY <2>1 DEF ContentInv, ContentFits
  <2>3. ContentFits(view', past', call') /\ FormFits(view')
    BY <1>1, <2>1, <2>2 DEF ContentInv, ContentFits, FormFits
  <2> QED BY <2>1, <2>2, <2>3, ContentLeavesApi DEF ContentInv
<1>2. CASE InLibrary!EditText \/ InLibrary!ChooseStatus \/ InLibrary!ToggleTag
  <2>1. CASE InLibrary!EditText
    <3>1. PICK t : InLibrary!Edits([view.form EXCEPT !.text = t])
      BY <2>1 DEF InLibrary!EditText
    <3> QED BY <1>1, <3>1 DEF ContentInv, FormFits
  <2>2. CASE InLibrary!ChooseStatus
    <3>1. InLibrary!Edits([view.form EXCEPT !.archived = ~@])
      BY <2>2 DEF InLibrary!ChooseStatus
    <3> QED BY <1>1, <3>1 DEF ContentInv, FormFits
  <2>3. CASE InLibrary!ToggleTag
    <3>1. PICK l : InLibrary!Edits([view.form EXCEPT !.labels = l])
      BY <2>3 DEF InLibrary!ToggleTag
    <3> QED BY <1>1, <3>1 DEF ContentInv, FormFits
  <2> QED BY <1>2, <2>1, <2>2, <2>3
<1>3. CASE InLibrary!HandleSubmit \/ InLibrary!HandleArchive \/ InLibrary!HandleRestore
           \/ InLibrary!HandleCreate
  <2>1. PICK op, arg :
          /\ op \in ContentChanges /\ InLibrary!Changes(op, arg)
          /\ op = "update" => arg = view.form
    <3>1. CASE InLibrary!HandleSubmit
      BY <3>1 DEF InLibrary!HandleSubmit, ContentChanges
    <3>2. CASE InLibrary!HandleArchive
      BY <3>2 DEF InLibrary!HandleArchive, ContentChanges
    <3>3. CASE InLibrary!HandleRestore
      BY <3>3 DEF InLibrary!HandleRestore, ContentChanges
    <3>4. CASE InLibrary!HandleCreate
      BY <3>4 DEF InLibrary!HandleCreate, ContentChanges
    <3> QED BY <1>3, <3>1, <3>2, <3>3, <3>4
  <2>2. op = "update" => arg.archived \in BOOLEAN
    BY <2>1 DEF ContentInv, FormFits
  <2> QED BY <2>1, <2>2, ContentAsks
<1> QED BY <1>2, <1>3 DEF InLibrary!Member

LEMMA ContentAnswer ==
  ASSUME ContentInv, NEW i \in 1..Len(call), InLibrary!Answer(i)
  PROVE  ContentInv'
<1> DEFINE load == call[i].op = "load"
<1>0. /\ call' = Less(call, i) /\ server' = server /\ call[i].op \in ContentOps /\ call[i].live
      /\ (load => ~(call[i].op \in ContentChanges)) /\ (~load => call[i].op \in ContentChanges)
  <2>1. call' = Less(call, i) /\ server' = server /\ call[i].live
    BY DEF InLibrary!Answer, InLibrary!LoadAnswer, InLibrary!WriteAnswer, InLibrary!CreateAnswer,
           InLibrary!IsRefused, InLibrary!Throws, InLibrary!Takes, InLibrary!Rest,
           InLibrary!WithoutAt, Less
  <2> QED BY <2>1 DEF ContentInv, ContentFits, ContentOps, ContentChanges
<1>1. Over(call, call', i) /\ IsCalls(call)
  BY <1>0, CallOver DEF ContentInv, ContentFits
<1>2. \A ops : /\ Waits(call', ops) => Waits(call, ops)
               /\ call[i].op \notin ops => (Waits(call', ops) <=> Waits(call, ops))
               /\ OneWaits(call, ops) => OneWaits(call', ops)
               /\ OneWaits(call, ops) /\ call[i].op \in ops => ~Waits(call', ops)
               /\ AllLive(call) => AllLive(call')
  BY <1>0, <1>1, WaitsOver
<1>3. \A j \in 1..Len(call') : \E k \in 1..Len(call) : call'[j] = call[k]
  BY <1>1, CallsAreSeq DEF Over
<1>4. \A j \in 1..Len(call') : FoundContent(call'[j], server) /\ call'[j].op \in ContentOps
  BY <1>3 DEF ContentInv, ContentFits
\* The flag of the call is reset, or the call has thrown.
<1>5. /\ DOMAIN view' = DOMAIN view /\ FormFits(view')
      /\ DOMAIN past' = DOMAIN past /\ past'.apart = past.apart
      /\ past.stuck => past'.stuck
      /\ \/ past'.stuck /\ view' = view
         \/ /\ view'.loading = IF load THEN FALSE ELSE view.loading
            /\ view'.saving = IF load THEN view.saving ELSE FALSE
  <2>0. DOMAIN view = {"there", "archived", "form", "labels", "loading", "saving"}
        /\ DOMAIN past = {"edited", "stale", "stuck", "apart"}
        /\ FormFits(view) /\ FoundContent(call[i], server)
    BY DEF ContentInv, ContentFits
  <2>1. CASE InLibrary!IsRefused(i)
    <3>1. past'.stuck = past.stuck
      BY <2>0, <2>1 DEF InLibrary!IsRefused
    <3> QED BY <2>0, <2>1, <3>1 DEF InLibrary!IsRefused, FormFits
  <2>2. CASE InLibrary!Throws(i)
    BY <2>0, <2>2 DEF InLibrary!Throws
  <2>3. CASE InLibrary!LoadAnswer(i) /\ ~InLibrary!IsRefused(i) /\ ~InLibrary!Throws(i)
    <3> DEFINE h == InLibrary!HydrateState(view, call[i].answer)
    <3>1. /\ load /\ view' = [h EXCEPT !.loading = FALSE] /\ past' = past /\ call[i].state = "ok"
      BY <2>3 DEF InLibrary!LoadAnswer, InLibrary!Takes
    <3>2. /\ DOMAIN h = DOMAIN view /\ h.form = InLibrary!Shown(call[i].answer[1])
          /\ h.saving = view.saving
      BY <2>0 DEF InLibrary!HydrateState
    <3>3. /\ DOMAIN h.form = {"archived", "text", "labels"}
          /\ h.form.archived \in BOOLEAN
      BY <2>0, <3>1, <3>2 DEF InLibrary!Shown, FoundContent
    <3> HIDE DEF h
    <3> QED BY <2>0, <3>1, <3>2, <3>3 DEF FormFits
  <2>4. CASE InLibrary!WriteAnswer(i) /\ ~InLibrary!IsRefused(i) /\ ~InLibrary!Throws(i)
    <3> DEFINE h == InLibrary!HydrateState(view, call[i].answer)
    <3>1. /\ call[i].op \in InLibrary!Writes /\ view' = [h EXCEPT !.saving = FALSE]
          /\ past' = [past EXCEPT !.edited = FALSE] /\ call[i].state = "ok"
      BY <2>4 DEF InLibrary!WriteAnswer
    <3>2. /\ DOMAIN h = DOMAIN view /\ h.form = InLibrary!Shown(call[i].answer[1])
          /\ h.loading = view.loading
      BY <2>0 DEF InLibrary!HydrateState
    <3>3. /\ DOMAIN h.form = {"archived", "text", "labels"}
          /\ h.form.archived \in BOOLEAN
      BY <2>0, <3>1, <3>2 DEF InLibrary!Shown, FoundContent, InLibrary!Writes
    <3>4. ~load
      BY <3>1 DEF InLibrary!Writes
    <3> HIDE DEF h, load
    <3> QED BY <2>0, <3>1, <3>2, <3>3, <3>4 DEF FormFits
  <2>5. CASE InLibrary!CreateAnswer(i) /\ ~InLibrary!IsRefused(i) /\ ~InLibrary!Throws(i)
    <3>1. PICK l, m : /\ view' = [view EXCEPT !.labels = l, !.saving = FALSE, !.form.labels = m]
                      /\ past' = [past EXCEPT !.edited = TRUE] /\ ~load
      BY <2>5 DEF InLibrary!CreateAnswer, InLibrary!Takes
    <3>2. view'.form = [view.form EXCEPT !.labels = m]
      BY <2>0, <3>1
    <3> HIDE DEF load
    <3> QED BY <2>0, <3>1, <3>2 DEF FormFits
  <2> QED BY <2>1, <2>2, <2>3, <2>4, <2>5 DEF InLibrary!Answer
<1>6. ContentFits(view', past', call')
  BY <1>0, <1>1, <1>2, <1>4, <1>5 DEF ContentInv, ContentFits, Over
<1> QED BY <1>0, <1>4, <1>5, <1>6, ContentLeavesApi

\* A request that crosses nothing writes what it has found.
LEMMA ContentGuarded ==
  ASSUME ContentInv
  PROVE  InLibrary!EditorsLeaveArchives
<1> SUFFICES ASSUME ~server.admin, ~past'.apart, NEW i \in DOMAIN call,
                    InLibrary!WriteContent(i)
             PROVE  ~server.content.archived /\ ~server'.content.archived
  BY DEF InLibrary!EditorsLeaveArchives
<1> DEFINE c == server.content
           found == call[i].answer[1]
           new == InLibrary!Updated(c, found, call[i].arg)
<1>1. /\ call[i].op \in InLibrary!Writes /\ call[i].state = "sent" /\ Len(call[i].answer) = 1
      /\ past' = [past EXCEPT !.apart = call[i].op = "update" /\ InLibrary!Crosses(c, found)]
  BY DEF InLibrary!WriteContent
<1>2. i \in 1..Len(call)
  BY CallsAreSeq DEF ContentInv, ContentFits
<1>3. call[i].op = "update" /\ ~call[i].arg.archived /\ ~found.archived
  BY <1>1, <1>2 DEF ContentInv, FoundContent
<1>4. c.archived = found.archived
  BY <1>1, <1>3 DEF ContentInv, ContentFits, InLibrary!Crosses
<1>5. server' = [server EXCEPT !.content = new] /\ new.archived = call[i].arg.archived
  BY <1>3 DEF InLibrary!WriteContent, InLibrary!Updated
<1> HIDE DEF new
<1>6. server'.content = new
  BY <1>5 DEF ContentInv, ContentRow
<1> QED BY <1>3, <1>4, <1>5, <1>6

LEMMA ContentAlwaysFits ==
  ASSUME ContentInv, InLibrary!Next \/ UNCHANGED screen
  PROVE  ContentInv' /\ InLibrary!EditorsLeaveArchives
<1> SUFFICES ContentInv'
  BY ContentGuarded
<1>0. IsCalls(call)
  BY DEF ContentInv, ContentFits
<1>1. DOMAIN call = 1..Len(call)
  BY <1>0, CallsAreSeq
<1>2. CASE InLibrary!ChangedElsewhere
  <2> DEFINE c == server.content
  <2>1. PICK archived \in BOOLEAN, dated \in BOOLEAN, text \in LibraryTexts :
          /\ server' = [server EXCEPT !.content = [c EXCEPT !.archived = archived,
                                                          !.dated = dated, !.text = text]]
          /\ past' = [past EXCEPT !.stale = TRUE, !.apart = past'.apart]
          /\ ~past'.apart => (dated <=> archived)
    <3>1. CASE InLibrary!WrittenInLibrary
      <4>1. PICK archived \in BOOLEAN, text \in LibraryTexts :
              /\ server' = [server EXCEPT !.content.archived = archived,
                                          !.content.dated = archived, !.content.text = text]
              /\ past' = [past EXCEPT !.stale = TRUE, !.apart = FALSE]
        BY <3>1 DEF InLibrary!WrittenInLibrary
      <4>2. past' = [past EXCEPT !.stale = TRUE, !.apart = past'.apart] /\ past'.apart = FALSE
        BY <4>1 DEF ContentInv, ContentFits
      <4>3. server' = [server EXCEPT !.content = [c EXCEPT !.archived = archived,
                                                          !.dated = archived, !.text = text]]
        BY <4>1 DEF ContentInv, ContentRow
      <4> QED BY <4>2, <4>3
    <3>2. CASE InLibrary!WrittenWithoutDate
      <4>1. PICK archived \in BOOLEAN, text \in LibraryTexts :
              /\ server' = [server EXCEPT !.content.archived = archived, !.content.text = text]
              /\ past' = [past EXCEPT !.stale = TRUE, !.apart = @ \/ archived # c.archived]
        BY <3>2 DEF InLibrary!WrittenWithoutDate
      <4>2. ~(past.apart \/ archived # c.archived) => (c.dated <=> archived)
        BY DEF ContentInv, Dates
      <4>3. c.dated \in BOOLEAN
        BY DEF ContentInv, ContentRow
      <4>4. server' = [server EXCEPT !.content = [c EXCEPT !.archived = archived,
                                                          !.dated = c.dated, !.text = text]]
        BY <4>1 DEF ContentInv, ContentRow
      <4>5. /\ past' = [past EXCEPT !.stale = TRUE, !.apart = past'.apart]
            /\ past'.apart = (past.apart \/ archived # c.archived)
        BY <4>1 DEF ContentInv, ContentFits
      <4> QED BY <4>2, <4>3, <4>4, <4>5
    <3> QED BY <1>2, <3>1, <3>2 DEF InLibrary!ChangedElsewhere
  <2>2. view' = view /\ call' = call
    BY <1>2 DEF InLibrary!ChangedElsewhere
  <2>3. /\ DOMAIN server' = DOMAIN server /\ server'.admin = server.admin
        /\ DOMAIN server'.content = DOMAIN c
        /\ server'.content.archived = archived /\ server'.content.dated = dated
    BY <2>1 DEF ContentInv, ContentRow
  <2>4. DOMAIN past' = DOMAIN past /\ past'.stuck = past.stuck
    BY <2>1 DEF ContentInv, ContentFits
  <2>5. ContentRow(server') /\ Dates(server', past')
    BY <2>1, <2>3, <2>4 DEF ContentInv, ContentRow, Dates
  <2>6. ContentFits(view', past', call') /\ FormFits(view')
    BY <2>2, <2>4 DEF ContentInv, ContentFits, FormFits
  <2>7. \A j \in 1..Len(call') : FoundContent(call'[j], server')
    BY <2>2, <2>3 DEF ContentInv, FoundContent
  <2> QED BY <2>5, <2>6, <2>7 DEF ContentInv
<1>3. CASE UNCHANGED screen
  BY <1>3 DEF screen, ContentInv, ContentFits, ContentRow, Dates, FormFits, FoundContent
<1>4. ASSUME NEW i \in 1..Len(call),
             InLibrary!Serve(i) \/ InLibrary!Refuses(i) \/ InLibrary!Breaks(i)
      PROVE  ContentInv'
  BY <1>4, ContentServe
<1>5. ASSUME NEW i \in 1..Len(call), InLibrary!Answer(i)
      PROVE  ContentInv'
  BY <1>5, ContentAnswer
<1>6. CASE InLibrary!Member
  BY <1>6, ContentMember
<1>7. InLibrary!Next =>
        \/ InLibrary!Member \/ InLibrary!ChangedElsewhere
        \/ \E i \in 1..Len(call) : \/ InLibrary!Serve(i) \/ InLibrary!Refuses(i)
                                    \/ InLibrary!Breaks(i) \/ InLibrary!Answer(i)
  BY <1>1 DEF InLibrary!Next
<1> QED BY <1>2, <1>3, <1>4, <1>5, <1>6, <1>7

-----------------------------------------------------------------------------
(* The editor (EditorScreen).                                              *)

EditorActions == {"export", "quality"}

\* The screen v, with the history p and the calls c, waits for what it should:
\* nothing else is under way with the reading, and an update is under way with an
\* export only if the member saved during the export.
EditorFits(v, p, c) ==
    /\ IsCalls(c) /\ AllLive(c)
    /\ DOMAIN v = {"there", "content", "form", "loading", "saving", "busy"}
    /\ DOMAIN p = {"edited", "stale", "stuck", "crossed"}
    /\ \A i \in 1..Len(c) : c[i].op \in {"load", "update"} \cup EditorActions
    /\ OneWaits(c, {"load"}) /\ OneWaits(c, {"update"}) /\ OneWaits(c, EditorActions)
    /\ Waits(c, {"load"}) => v.loading /\ ~Waits(c, {"update"} \cup EditorActions)
    /\ Waits(c, {"update"}) => v.saving
    /\ Waits(c, {"export"}) => v.busy = "export"
    /\ Waits(c, {"quality"}) => v.busy = "quality"
    /\ ~p.crossed => ~(Waits(c, {"export"}) /\ Waits(c, {"update"}))
    /\ ~p.stuck =>
        /\ v.loading => Waits(c, {"load"})
        /\ v.saving => Waits(c, {"update"})
        /\ v.busy # "none" => Waits(c, EditorActions)

\* What the call e tells of the content s, and of the content on screen.
EditorKnows(e, v, s, p) ==
    ~p.stale =>
        /\ e.op \in {"load", "update"} /\ e.state = "ok" => e.answer[1] = s
        /\ ~p.crossed /\ e.op = "export" =>
            /\ v.there /\ v.content = e.arg
            /\ Len(e.answer) = 1 => e.answer[1] = e.arg

EditorAgrees(v, s, p, c) == ~p.stale /\ v.there /\ ~Written(c, "update") => v.content = s

EditorInv ==
    /\ EditorFits(view, past, call)
    /\ DOMAIN server = {"content", "page", "noted"}
    /\ EditorAgrees(view, server.content, past, call)
    /\ \A i \in 1..Len(call) : EditorKnows(call[i], view, server.content, past)

LEMMA EditorStarts ==
  ASSUME Editor!Init
  PROVE  EditorInv
<1> DEFINE c == Editor!Call("load", <<>>)
<1>1. DOMAIN c = CallFields /\ c.live = TRUE /\ c.op = "load" /\ c.state = "sent"
  BY DEF Editor!Call, CallFields
<1>2. call = <<c>>
  BY DEF Editor!Init
<1> HIDE DEF c
<1>3. IsCalls(call) /\ Len(call) = 1 /\ call[1] = c
  BY <1>1, <1>2, OneCall
<1>4. /\ DOMAIN view = {"there", "content", "form", "loading", "saving", "busy"}
      /\ view.there = FALSE /\ view.loading = TRUE /\ view.saving = FALSE /\ view.busy = "none"
      /\ DOMAIN past = {"edited", "stale", "stuck", "crossed"}
      /\ DOMAIN server = {"content", "page", "noted"}
  <2>1. PICK x \in Editor!ContentRow :
          /\ server = [content |-> x, page |-> {}, noted |-> FALSE]
          /\ view = [there |-> FALSE, content |-> x, form |-> x, loading |-> TRUE,
                     saving |-> FALSE, busy |-> Editor!None]
    BY DEF Editor!Init
  <2>2. past = [edited |-> FALSE, stale |-> FALSE, stuck |-> FALSE, crossed |-> FALSE]
    BY DEF Editor!Init
  <2> QED BY <2>1, <2>2 DEF Editor!None
<1>5. EditorFits(view, past, call)
  BY <1>1, <1>3, <1>4 DEF EditorFits, OneWaits, Waits, AllLive, EditorActions
<1> QED BY <1>1, <1>3, <1>4, <1>5 DEF EditorInv, EditorAgrees, EditorKnows

LEMMA EditorFitsOn ==
  ASSUME EditorFits(view, past, call), NEW i \in 1..Len(call), Progress(call, call', i)
  PROVE  EditorFits(view, past, call')
<1>1. \A ops : /\ Waits(call', ops) <=> Waits(call, ops)
               /\ OneWaits(call, ops) => OneWaits(call', ops)
               /\ AllLive(call) => AllLive(call')
  BY WaitsOn DEF EditorFits
<1>2. \A j \in 1..Len(call') : call'[j].op \in {"load", "update"} \cup EditorActions
  BY DEF Progress, EditorFits
<1> QED BY <1>1, <1>2 DEF EditorFits, Progress

\* The i-th call goes on, and nothing is written.
LEMMA EditorGoesOn ==
  ASSUME EditorInv, NEW i \in 1..Len(call), Progress(call, call', i),
         UNCHANGED <<view, past>>,
         DOMAIN server' = DOMAIN server, server'.content = server.content,
         EditorKnows(call'[i], view, server.content, past),
         call[i].op = "update" /\ call[i].state \in {"ok", "thrown"}
             => call'[i].state \in {"ok", "thrown"}
  PROVE  EditorInv'
<1>1. EditorFits(view', past', call')
  BY EditorFitsOn DEF EditorInv
<1>2. ASSUME NEW j \in 1..Len(call')
      PROVE  EditorKnows(call'[j], view', server'.content, past')
  <2>1. j = i \/ (call'[j] = call[j] /\ j \in 1..Len(call))
    BY DEF Progress
  <2> QED BY <2>1 DEF EditorInv, EditorKnows
<1>3. Written(call, "update") => Written(call', "update")
  BY DEF Written, Progress
<1>4. EditorAgrees(view', server'.content, past', call')
  BY <1>3 DEF EditorInv, EditorAgrees
<1> QED BY <1>1, <1>2, <1>4 DEF EditorInv

LEMMA EditorServe ==
  ASSUME EditorInv, NEW i \in 1..Len(call),
         Editor!Serve(i) \/ Editor!Refuses(i) \/ Editor!Breaks(i)
  PROVE  EditorInv'
<1>0. IsCalls(call) /\ EditorKnows(call[i], view, server.content, past)
      /\ AllLive(call) /\ call[i].live
  BY DEF EditorInv, EditorFits, AllLive
<1>1. CASE Editor!Refuses(i) \/ Editor!Breaks(i)
  <2>1. PICK x \in {"error", "thrown"} :
          Marked(call, call', i, x) /\ (x = "error" => call[i].state = "sent")
    BY <1>1 DEF Marked, Editor!Refuses, Editor!Breaks
  <2>2. UNCHANGED <<view, server, past>>
    BY <1>1 DEF Editor!Refuses, Editor!Breaks
  <2>3. Progress(call, call', i) /\ call'[i].state = x /\ call'[i].answer = call[i].answer
    BY <1>0, <2>1, IsMarked
  <2>4. EditorKnows(call'[i], view, server.content, past)
    BY <1>0, <2>1, <2>3 DEF EditorKnows, Progress
  <2> QED BY <2>1, <2>2, <2>3, <2>4, EditorGoesOn
<1>2. CASE Editor!FindContent(i)
  <2>1. CASE call[i].op \in {"load", "quality"}
    <3>1. Served(call, call', i, "ok", <<server.content>>)
      BY <1>2, <2>1 DEF Served, Editor!FindContent, Editor!At, Editor!Serves
    <3>2. /\ UNCHANGED <<view, past>> /\ server'.content = server.content
          /\ DOMAIN server' = DOMAIN server
      BY <1>2, <2>1 DEF Editor!FindContent, Editor!At, Editor!Serves, EditorInv
    <3>3. Progress(call, call', i) /\ call'[i].state = "ok" /\ call'[i].answer = <<server.content>>
      BY <1>0, <3>1, IsServed
    <3>4. EditorKnows(call'[i], view, server.content, past)
      BY <2>1, <3>3 DEF EditorKnows, Progress
    <3> QED BY <2>1, <3>2, <3>3, <3>4, EditorGoesOn
  <2>2. CASE call[i].op \in {"update", "export"}
    <3>1. Stepped(call, call', i, <<server.content>>) /\ call[i].state = "sent"
      BY <1>2, <2>2 DEF Stepped, Editor!FindContent, Editor!At
    <3>2. UNCHANGED <<view, server, past>>
      BY <1>2, <2>2 DEF Editor!FindContent, Editor!At
    <3>3. /\ Progress(call, call', i) /\ call'[i].state = "sent"
          /\ call'[i].answer = <<server.content>>
      BY <1>0, <3>1, IsStepped
    \* No update is under way with this export.
    <3>4. call[i].op = "export" /\ ~past.crossed => ~Written(call, "update")
      BY <1>0 DEF EditorInv, EditorFits, Waits, Written, AllLive
    <3>5. EditorKnows(call'[i], view, server.content, past)
      BY <1>0, <3>1, <3>3, <3>4 DEF EditorKnows, Progress, EditorInv, EditorAgrees
    <3> QED BY <3>1, <3>2, <3>3, <3>5, EditorGoesOn
  <2> QED BY <1>2, <2>1, <2>2 DEF Editor!FindContent, Editor!At
<1>3. CASE Editor!UpdateContent(i)
  <2> DEFINE c == Editor!Updated(server.content, call[i].arg)
  <2>1. /\ call[i].op = "update" /\ Served(call, call', i, "ok", <<c>>)
        /\ server' = [server EXCEPT !.content = c] /\ UNCHANGED <<view, past>>
    BY <1>3 DEF Served, Editor!UpdateContent, Editor!At, Editor!Serves
  <2> HIDE DEF c
  <2>2. Progress(call, call', i) /\ call'[i].state = "ok" /\ call'[i].answer = <<c>>
    BY <1>0, <2>1, IsServed
  <2>3. DOMAIN server' = DOMAIN server /\ server'.content = c
    BY <2>1 DEF EditorInv
  <2>4. EditorFits(view', past', call')
    BY <2>1, <2>2, EditorFitsOn DEF EditorInv
  <2>5. Written(call', "update")
    BY <2>1, <2>2 DEF Written, Progress
  \* It is the only call that knows the content by what was answered.
  <2>6. ASSUME NEW j \in 1..Len(call), j # i
        PROVE  call[j].op \notin {"load", "update"}
    <3>1. Waits(call, {"update"}) /\ Waits(call, {"update"} \cup EditorActions)
      BY <1>0, <2>1 DEF Waits
    <3>2. ~Waits(call, {"load"}) /\ OneWaits(call, {"update"})
      BY <3>1 DEF EditorInv, EditorFits
    <3> QED BY <1>0, <2>1, <2>6, <3>2 DEF Waits, OneWaits, AllLive
  <2>7. ASSUME NEW j \in 1..Len(call')
        PROVE  EditorKnows(call'[j], view', server'.content, past')
    <3>1. CASE j = i
      BY <2>1, <2>2, <2>3, <3>1 DEF EditorKnows, Progress
    <3>2. CASE j # i
      <4>1. j \in 1..Len(call) /\ call'[j] = call[j]
        BY <2>2, <3>2 DEF Progress
      <4>2. EditorKnows(call[j], view, server.content, past)
        BY <4>1 DEF EditorInv
      <4> QED BY <2>1, <2>6, <3>2, <4>1, <4>2 DEF EditorKnows
    <3> QED BY <3>1, <3>2
  <2> QED BY <2>3, <2>4, <2>5, <2>7 DEF EditorInv, EditorAgrees
<1>4. CASE Editor!ExportContent(i)
  <2>1. call[i].op = "export" /\ Served(call, call', i, "ok", call[i].answer)
    BY <1>4 DEF Served, Editor!ExportContent, Editor!At, Editor!Serves
  <2>2. /\ UNCHANGED <<view, past>> /\ server'.content = server.content
        /\ DOMAIN server' = DOMAIN server
    BY <1>4 DEF Editor!ExportContent, Editor!Serves, EditorInv
  <2>3. Progress(call, call', i) /\ call'[i].state = "ok" /\ call'[i].answer = call[i].answer
    BY <1>0, <2>1, IsServed
  <2>4. EditorKnows(call'[i], view, server.content, past)
    BY <1>0, <2>1, <2>3 DEF EditorKnows, Progress
  <2> QED BY <2>1, <2>2, <2>3, <2>4, EditorGoesOn
<1> QED BY <1>1, <1>2, <1>3, <1>4 DEF Editor!Serve

\* A call is made.
LEMMA EditorAsks ==
  ASSUME EditorInv, NEW op \in {"update"} \cup EditorActions, NEW arg,
         call' = Append(call, Editor!Call(op, arg)), UNCHANGED server,
         ~view.loading, EditorFits(view', past', call'),
         view'.there = view.there, view'.content = view.content,
         past'.stale = past.stale, ~past'.crossed => ~past.crossed,
         op = "export" => view.there /\ arg = view.content
  PROVE  EditorInv'
<1> DEFINE c == Editor!Call(op, arg)
<1>1. /\ DOMAIN c = CallFields /\ c.live = TRUE /\ c.op = op /\ c.arg = arg /\ c.state = "sent"
      /\ c.answer = <<>>
  BY DEF Editor!Call, CallFields
<1> HIDE DEF c
<1>2. IsCalls(call) /\ call' = Append(call, c)
  BY DEF EditorInv, EditorFits, c
<1>3. Made(call, call', c)
  BY <1>1, <1>2, CallMade
<1>4. /\ \A j \in 1..Len(call') : (j \in 1..Len(call) /\ call'[j] = call[j]) \/ call'[j] = c
      /\ \A j \in 1..Len(call) : j \in 1..Len(call') /\ call'[j] = call[j]
  BY <1>2, <1>3, AndOneMore
<1>5. ASSUME NEW j \in 1..Len(call')
      PROVE  EditorKnows(call'[j], view', server'.content, past')
  <2>1. CASE call'[j] = c
    <3>1. Len(<<>>) = 0
      OBVIOUS
    <3> QED BY <1>1, <2>1, <3>1 DEF EditorKnows
  <2>2. CASE j \in 1..Len(call) /\ call'[j] = call[j]
    BY <2>2 DEF EditorInv, EditorKnows
  <2> QED BY <1>4, <2>1, <2>2
<1>6. Written(call, "update") => Written(call', "update")
  BY <1>4 DEF Written
<1>7. EditorAgrees(view', server'.content, past', call')
  BY <1>6 DEF EditorInv, EditorAgrees
<1> QED BY <1>5, <1>7 DEF EditorInv

LEMMA EditorFitsMore ==
  ASSUME EditorFits(view, past, call), NEW op, NEW arg,
         call' = Append(call, Editor!Call(op, arg))
  PROVE  /\ IsCalls(call') /\ AllLive(call')
         /\ \A j \in 1..Len(call') :
              (j \in 1..Len(call) /\ call'[j] = call[j]) \/ call'[j].op = op
         /\ \A ops : /\ Waits(call', ops) <=> Waits(call, ops) \/ op \in ops
                     /\ OneWaits(call, ops) /\ ~(Waits(call, ops) /\ op \in ops)
                            => OneWaits(call', ops)
<1> DEFINE c == Editor!Call(op, arg)
<1>1. DOMAIN c = CallFields /\ c.live = TRUE /\ c.op = op
  BY DEF Editor!Call, CallFields
<1> HIDE DEF c
<1>2. IsCalls(call) /\ AllLive(call) /\ call' = Append(call, c)
  BY DEF EditorFits, c
<1>3. Made(call, call', c)
  BY <1>1, <1>2, CallMade
<1>4. \A j \in 1..Len(call') : (j \in 1..Len(call) /\ call'[j] = call[j]) \/ call'[j] = c
  BY <1>2, <1>3, AndOneMore
<1>5. \A ops : /\ Waits(call', ops) <=> Waits(call, ops) \/ (c.op \in ops /\ c.live)
               /\ OneWaits(call, ops) /\ ~(Waits(call, ops) /\ c.op \in ops /\ c.live)
                      => OneWaits(call', ops)
               /\ AllLive(call) /\ c.live => AllLive(call')
  BY <1>2, <1>3, WaitsMore
<1> QED BY <1>1, <1>2, <1>3, <1>4, <1>5 DEF Made

LEMMA EditorMember ==
  ASSUME EditorInv, Editor!Member
  PROVE  EditorInv'
<1>0. /\ EditorFits(view, past, call) /\ server' = server
      /\ DOMAIN view = {"there", "content", "form", "loading", "saving", "busy"}
      /\ DOMAIN past = {"edited", "stale", "stuck", "crossed"}
  BY DEF EditorInv, EditorFits, Editor!Member, Editor!Edit, Editor!HandleSubmit,
         Editor!HandleNotionExport, Editor!HandleQuality, Editor!Asks
<1>1. CASE Editor!Edit
  <2>1. PICK f : view' = [view EXCEPT !.form = f]
    BY <1>1 DEF Editor!Edit
  <2>2. past' = [past EXCEPT !.edited = TRUE] /\ call' = call
    BY <1>1 DEF Editor!Edit
  <2>3. /\ DOMAIN view' = DOMAIN view /\ view'.there = view.there /\ view'.content = view.content
        /\ view'.loading = view.loading /\ view'.saving = view.saving /\ view'.busy = view.busy
        /\ DOMAIN past' = DOMAIN past /\ past'.stale = past.stale /\ past'.crossed = past.crossed
        /\ past'.stuck = past.stuck
    BY <1>0, <2>1, <2>2
  <2>4. EditorFits(view', past', call')
    BY <1>0, <2>2, <2>3 DEF EditorFits
  <2>5. \A j \in 1..Len(call') : EditorKnows(call'[j], view', server'.content, past')
    BY <1>0, <2>2, <2>3 DEF EditorInv, EditorKnows
  <2> QED BY <1>0, <2>2, <2>3, <2>4, <2>5 DEF EditorInv, EditorAgrees
<1>2. CASE Editor!HandleSubmit
  <2>1. /\ ~view.saving /\ ~view.loading /\ view' = [view EXCEPT !.saving = TRUE]
        /\ call' = Append(call, Editor!Call("update", view.form))
        /\ past' = [past EXCEPT !.crossed = @ \/ view.busy = "export"]
    BY <1>2 DEF Editor!HandleSubmit, Editor!IsOpen
  <2>2. /\ DOMAIN view' = DOMAIN view /\ view'.there = view.there /\ view'.content = view.content
        /\ view'.loading = view.loading /\ view'.saving = TRUE /\ view'.busy = view.busy
        /\ DOMAIN past' = DOMAIN past /\ past'.stale = past.stale /\ past'.stuck = past.stuck
        /\ ~past'.crossed => ~past.crossed /\ view.busy # "export"
    BY <1>0, <2>1
  <2>3. /\ IsCalls(call') /\ AllLive(call')
        /\ \A j \in 1..Len(call') :
             (j \in 1..Len(call) /\ call'[j] = call[j]) \/ call'[j].op = "update"
        /\ \A ops : /\ Waits(call', ops) <=> Waits(call, ops) \/ "update" \in ops
                    /\ OneWaits(call, ops) /\ ~(Waits(call, ops) /\ "update" \in ops)
                           => OneWaits(call', ops)
    BY <1>0, <2>1, EditorFitsMore
  <2>4. EditorFits(view', past', call')
    BY <1>0, <2>1, <2>2, <2>3 DEF EditorFits, EditorActions
  <2> QED BY <1>0, <2>1, <2>2, <2>4, EditorAsks
<1>3. ASSUME NEW op \in EditorActions, NEW arg, view.busy = Editor!None, ~view.loading,
             op = "export" => view.there /\ arg = view.content /\ ~view.saving,
             view' = [view EXCEPT !.busy = op], call' = Append(call, Editor!Call(op, arg)),
             UNCHANGED past
      PROVE  EditorInv'
  <2>2. /\ DOMAIN view' = DOMAIN view /\ view'.there = view.there /\ view'.content = view.content
        /\ view'.loading = view.loading /\ view'.saving = view.saving /\ view'.busy = op
        /\ past'.stale = past.stale /\ past'.crossed = past.crossed /\ past'.stuck = past.stuck
    BY <1>0, <1>3
  <2>3. /\ IsCalls(call') /\ AllLive(call')
        /\ \A j \in 1..Len(call') :
             (j \in 1..Len(call) /\ call'[j] = call[j]) \/ call'[j].op = op
        /\ \A ops : /\ Waits(call', ops) <=> Waits(call, ops) \/ op \in ops
                    /\ OneWaits(call, ops) /\ ~(Waits(call, ops) /\ op \in ops)
                           => OneWaits(call', ops)
    BY <1>0, <1>3, EditorFitsMore
  <2>4. ~Waits(call, {"export"}) /\ ~Waits(call, {"quality"}) /\ ~Waits(call, EditorActions)
        /\ ~Waits(call, {"load"}) /\ (op = "export" => ~Waits(call, {"update"}))
    <3>1. ~Waits(call, {"export"}) /\ ~Waits(call, {"quality"})
      BY <1>0, <1>3 DEF EditorFits, Editor!None
    <3>2. ~Waits(call, EditorActions)
      BY <3>1 DEF Waits, EditorActions
    <3> QED BY <1>0, <1>3, <3>1, <3>2 DEF EditorFits
  <2>5. EditorFits(view', past', call')
    BY <1>0, <1>3, <2>2, <2>3, <2>4 DEF EditorFits, EditorActions
  <2> QED BY <1>0, <1>3, <2>2, <2>5, EditorAsks
<1>4. CASE Editor!HandleNotionExport
  BY <1>3, <1>4 DEF Editor!HandleNotionExport, Editor!CanExport, Editor!IsOpen, EditorActions
<1>5. CASE Editor!HandleQuality
  BY <1>3, <1>5 DEF Editor!HandleQuality, Editor!IsOpen, EditorActions
<1> QED BY <1>1, <1>2, <1>4, <1>5 DEF Editor!Member

LEMMA EditorAnswer ==
  ASSUME EditorInv, NEW i \in 1..Len(call), Editor!Answer(i)
  PROVE  EditorInv'
<1> DEFINE op == call[i].op
           filled == call[i].state = "ok" /\ op \in {"load", "update"}
<1>0. /\ IsCalls(call) /\ AllLive(call) /\ call[i].live
      /\ op \in {"load", "update"} \cup EditorActions
      /\ DOMAIN view = {"there", "content", "form", "loading", "saving", "busy"}
      /\ DOMAIN past = {"edited", "stale", "stuck", "crossed"}
      /\ EditorKnows(call[i], view, server.content, past)
  BY DEF EditorInv, EditorFits, AllLive
<1>1. call' = Less(call, i) /\ server' = server
  BY DEF Editor!Answer, Editor!Takes, Editor!Rest, Editor!WithoutAt, Less
<1>2. Over(call, call', i)
  BY <1>0, <1>1, CallOver
<1>3. \A ops : /\ Waits(call', ops) => Waits(call, ops)
               /\ op \notin ops => (Waits(call', ops) <=> Waits(call, ops))
               /\ OneWaits(call, ops) => OneWaits(call', ops)
               /\ OneWaits(call, ops) /\ op \in ops => ~Waits(call', ops)
               /\ AllLive(call) => AllLive(call')
  BY <1>0, <1>2, WaitsOver
<1>4. /\ \A j \in 1..Len(call') : \E k \in 1..Len(call) : k # i /\ call'[j] = call[k]
      /\ \A k \in 1..Len(call) : k # i => \E j \in 1..Len(call') : call'[j] = call[k]
  <2>1. IsCalls(call)
    BY <1>0
  <2>2. Others(call, call', i)
    BY <1>2, <2>1, OthersStay
  <2> QED BY <2>2 DEF Others
\* The screen shows the answer, or is told that there is none.
<1>5. /\ DOMAIN view' = DOMAIN view /\ DOMAIN past' = DOMAIN past
      /\ past'.crossed = past.crossed /\ (past.stale => past'.stale)
      /\ call[i].state = "thrown" => past'.stale /\ past'.stuck
      /\ ~past'.stuck => /\ ~past.stuck
                         /\ op = "load" => ~view'.loading
                         /\ op = "update" => ~view'.saving
                         /\ op \in EditorActions => view'.busy = "none"
      /\ filled => view'.there /\ view'.content = call[i].answer[1]
      /\ ~filled => view'.there = view.there /\ view'.content = view.content
      /\ op # "load" => view'.loading = view.loading
      /\ op # "update" => view'.saving = view.saving
      /\ op \notin EditorActions => view'.busy = view.busy
      /\ call[i].state \in {"ok", "error", "thrown"}
  <2> DEFINE d == Editor!Done(view, op)
  <2>1. /\ DOMAIN d = DOMAIN view /\ d.there = view.there /\ d.content = view.content
        /\ op # "load" => d.loading = view.loading
        /\ op # "update" => d.saving = view.saving
        /\ op \notin EditorActions => d.busy = view.busy
        /\ op = "load" => ~d.loading
        /\ op = "update" => ~d.saving
        /\ op \in EditorActions => d.busy = "none"
    <3>1. CASE op = "load"
      BY <1>0, <3>1 DEF Editor!Done, EditorActions
    <3>2. CASE op = "update"
      BY <1>0, <3>2 DEF Editor!Done, EditorActions
    <3>3. CASE op \in EditorActions
      BY <1>0, <3>3 DEF Editor!Done, EditorActions, Editor!None
    <3> QED BY <1>0, <3>1, <3>2, <3>3
  <2> HIDE DEF d
  <2>2. CASE filled /\ view' = Editor!HydrateForm(d, call[i].answer[1])
             /\ past' = [past EXCEPT !.edited = FALSE]
    BY <1>0, <2>1, <2>2 DEF Editor!HydrateForm
  <2>3. CASE /\ call[i].state = "error" \/ (call[i].state = "ok" /\ op \in {"export", "quality"})
             /\ view' = d /\ past' = past
    BY <1>0, <2>1, <2>3
  <2>4. CASE /\ call[i].state = "thrown" /\ view' = view
             /\ past' = [past EXCEPT !.stale = TRUE, !.stuck = TRUE]
    BY <1>0, <2>4
  <2>5. \/ /\ filled /\ view' = Editor!HydrateForm(d, call[i].answer[1])
           /\ past' = [past EXCEPT !.edited = FALSE]
        \/ /\ call[i].state = "error" \/ (call[i].state = "ok" /\ op \in {"export", "quality"})
           /\ view' = d /\ past' = past
        \/ /\ call[i].state = "thrown" /\ view' = view
           /\ past' = [past EXCEPT !.stale = TRUE, !.stuck = TRUE]
    BY DEF Editor!Answer, d
  <2> QED BY <2>2, <2>3, <2>4, <2>5
<1>6. /\ \A ops : op \in ops => Waits(call, ops)
      /\ (op = "load" => ~Waits(call', {"update"} \cup EditorActions))
  BY <1>0, <1>3 DEF Waits, EditorInv, EditorFits
<1>7. EditorFits(view', past', call')
  <2>1. IsCalls(call') /\ AllLive(call')
    BY <1>0, <1>2, <1>3 DEF Over
  <2>2. \A j \in 1..Len(call') : call'[j].op \in {"load", "update"} \cup EditorActions
    BY <1>4 DEF EditorInv, EditorFits
  <2>3. OneWaits(call', {"load"}) /\ OneWaits(call', {"update"}) /\ OneWaits(call', EditorActions)
    BY <1>3 DEF EditorInv, EditorFits
  <2>4. /\ Waits(call', {"load"}) => view'.loading /\ ~Waits(call', {"update"} \cup EditorActions)
    <3>1. CASE op = "load"
      BY <1>3, <3>1 DEF EditorInv, EditorFits
    <3>2. CASE op # "load"
      BY <1>3, <1>5, <3>2 DEF EditorInv, EditorFits
    <3> QED BY <3>1, <3>2
  <2>5. Waits(call', {"update"}) => view'.saving
    BY <1>3, <1>5 DEF EditorInv, EditorFits
  <2>6. /\ Waits(call', {"export"}) => view'.busy = "export"
        /\ Waits(call', {"quality"}) => view'.busy = "quality"
    <3>1. Waits(call', {"export"}) \/ Waits(call', {"quality"}) => Waits(call', EditorActions)
      BY DEF Waits, EditorActions
    <3> QED BY <1>3, <1>5, <3>1 DEF EditorInv, EditorFits
  <2>7. ~past'.crossed => ~(Waits(call', {"export"}) /\ Waits(call', {"update"}))
    BY <1>3, <1>5 DEF EditorInv, EditorFits
  <2>8. ~past'.stuck =>
          /\ view'.loading => Waits(call', {"load"})
          /\ view'.saving => Waits(call', {"update"})
          /\ view'.busy # "none" => Waits(call', EditorActions)
    BY <1>3, <1>5 DEF EditorInv, EditorFits
  <2> QED BY <1>0, <1>5, <2>1, <2>2, <2>3, <2>4, <2>5, <2>6, <2>7, <2>8 DEF EditorFits
<1>8. ASSUME NEW j \in 1..Len(call')
      PROVE  EditorKnows(call'[j], view', server'.content, past')
  <2>1. PICK k \in 1..Len(call) : k # i /\ call'[j] = call[k]
    BY <1>4
  <2>2. EditorKnows(call[k], view, server.content, past)
    BY DEF EditorInv
  \* An export is under way neither with the reading nor with an update.
  <2>3. ~past.crossed /\ call[k].op = "export" => op \notin {"load", "update"}
    <3>1. call[k].op = "export" =>
            Waits(call, {"export"}) /\ Waits(call, {"update"} \cup EditorActions)
      BY <1>0 DEF Waits, AllLive, EditorActions
    <3> QED BY <1>6, <3>1 DEF EditorInv, EditorFits
  <2> QED BY <1>1, <1>5, <2>1, <2>2, <2>3 DEF EditorKnows
<1>9. EditorAgrees(view', server'.content, past', call')
  <2>1. CASE filled
    BY <1>0, <1>1, <1>5, <2>1 DEF EditorAgrees, EditorKnows
  <2>2. CASE ~filled /\ call[i].state # "thrown"
    <3>1. ASSUME NEW k \in 1..Len(call), call[k].op = "update", call[k].state \in {"ok", "thrown"}
          PROVE  Written(call', "update")
      <4>1. k # i
        BY <2>2, <3>1
      <4>2. PICK j \in 1..Len(call') : call'[j] = call[k]
        BY <1>4, <4>1
      <4> QED BY <3>1, <4>2 DEF Written
    <3>2. Written(call, "update") => Written(call', "update")
      BY <3>1 DEF Written
    <3> QED BY <1>1, <1>5, <2>2, <3>2 DEF EditorInv, EditorAgrees
  <2>3. CASE call[i].state = "thrown"
    BY <1>5, <2>3 DEF EditorAgrees
  <2> QED BY <2>1, <2>2, <2>3
<1> QED BY <1>1, <1>7, <1>8, <1>9 DEF EditorInv

LEMMA EditorAlwaysFits ==
  ASSUME EditorInv, Editor!Next \/ UNCHANGED screen
  PROVE  EditorInv'
<1>0. IsCalls(call)
  BY DEF EditorInv, EditorFits
<1>1. DOMAIN call = 1..Len(call)
  BY <1>0, CallsAreSeq
<1>2. CASE Editor!ChangedElsewhere
  <2>1. PICK x : server' = [server EXCEPT !.content.status = x]
    BY <1>2 DEF Editor!ChangedElsewhere
  <2>2. view' = view /\ call' = call /\ past' = [past EXCEPT !.stale = TRUE]
    BY <1>2 DEF Editor!ChangedElsewhere
  <2>3. DOMAIN server' = DOMAIN server
    BY <2>1
  <2>4. /\ DOMAIN past' = DOMAIN past /\ past'.stale = TRUE /\ past'.crossed = past.crossed
        /\ past'.stuck = past.stuck
    BY <2>2 DEF EditorInv, EditorFits
  <2>5. EditorFits(view', past', call')
    BY <2>2, <2>4 DEF EditorInv, EditorFits
  <2> QED BY <2>3, <2>4, <2>5 DEF EditorInv, EditorAgrees, EditorKnows
<1>3. CASE UNCHANGED screen
  BY <1>3 DEF screen, EditorInv, EditorFits, EditorAgrees, EditorKnows
<1>4. ASSUME NEW i \in 1..Len(call), Editor!Serve(i) \/ Editor!Refuses(i) \/ Editor!Breaks(i)
      PROVE  EditorInv'
  BY <1>4, EditorServe
<1>5. ASSUME NEW i \in 1..Len(call), Editor!Answer(i)
      PROVE  EditorInv'
  BY <1>5, EditorAnswer
<1>6. CASE Editor!Member
  BY <1>6, EditorMember
<1>7. Editor!Next =>
        \/ Editor!Member \/ Editor!ChangedElsewhere
        \/ \E i \in 1..Len(call) : \/ Editor!Serve(i) \/ Editor!Refuses(i)
                                   \/ Editor!Breaks(i) \/ Editor!Answer(i)
  BY <1>1 DEF Editor!Next
<1> QED BY <1>2, <1>3, <1>4, <1>5, <1>6, <1>7

-----------------------------------------------------------------------------
(* The forms of the settings (SettingsForms).                              *)

\* The screen v, with the history p and the calls c, waits for what it should: a
\* form that waits for its row has none and saves nothing, and its reading has not
\* failed.
SettingsFits(v, p, c) ==
    /\ IsCalls(c) /\ AllLive(c)
    /\ DOMAIN v = {"form", "role", "there", "typed", "known", "summary", "loading", "saving"}
    /\ DOMAIN p = {"edited", "failed", "stale", "stuck", "blind"}
    /\ v.form \in {"context", "voice"}
    /\ OneWaits(c, {"row"}) /\ OneWaits(c, {"save"})
    /\ Waits(c, {"row"}) => v.loading /\ ~v.there /\ ~p.failed /\ ~Waits(c, {"save"})
    /\ Waits(c, {"save"}) => v.saving
    /\ ~p.stuck => (v.loading => Waits(c, {"row"})) /\ (v.saving => Waits(c, {"save"}))

\* What the call e tells of the row s, and what a saving was made with.
SettingsKnows(e, s, p) ==
    ~p.stale /\ ~p.failed =>
        /\ e.op \in {"row", "save"} /\ e.state = "ok" => e.answer = s
        /\ e.op = "save" /\ e.state = "sent" => e.arg.seen = s

SettingsOpen(v) == ~v.loading /\ (v.form = "context" \/ v.there)

SettingsAgree(v, s, p, c) ==
    ~p.stale /\ ~p.failed /\ SettingsOpen(v) /\ ~Written(c, "save") => v.known = s

SettingsInv ==
    /\ SettingsFits(view, past, call)
    /\ DOMAIN server = {"row", "role"}
    /\ past.blind => past.stale \/ past.failed
    /\ SettingsAgree(view, server.row, past, call)
    /\ \A i \in 1..Len(call) : SettingsKnows(call[i], server.row, past)

LEMMA SettingsStart ==
  ASSUME Settings!Init
  PROVE  SettingsInv
<1> DEFINE made(op) == Settings!Call(op, <<>>)
<1>1. \A op : DOMAIN made(op) = CallFields /\ made(op).live = TRUE /\ made(op).op = op
              /\ made(op).state = "sent"
  BY DEF Settings!Call, CallFields
<1>2. PICK row \in Settings!Row, role \in {"ADMIN", "EDITOR", "READER"},
           form \in {"context", "voice"} :
        /\ server = [row |-> row, role |-> role]
        /\ view = [form |-> form, role |-> "-", there |-> FALSE, typed |-> Settings!NoValue,
                   known |-> Settings!NoValue, summary |-> Settings!NoValue, loading |-> TRUE,
                   saving |-> FALSE]
        /\ call = IF form = "context" THEN <<made("role"), made("row"), made("summary")>>
                  ELSE <<made("row")>>
  BY DEF Settings!Init
<1>3. past = [edited |-> FALSE, failed |-> FALSE, stale |-> FALSE, stuck |-> FALSE,
              blind |-> FALSE]
  BY DEF Settings!Init
<1> HIDE DEF made
<1>4. /\ IsCalls(call)
      /\ \A i \in 1..Len(call) : \E op \in {"role", "row", "summary"} : call[i] = made(op)
      /\ OneWaits(call, {"row"}) /\ \E i \in 1..Len(call) : call[i] = made("row")
  <2>1. CASE form = "context"
    <3>1. call = <<made("role"), made("row"), made("summary")>>
      BY <1>2, <2>1
    <3>2. \A e \in {made("role"), made("row"), made("summary")} :
            DOMAIN e = CallFields /\ e.live \in BOOLEAN
      BY <1>1
    <3>3. /\ IsCalls(call) /\ Len(call) = 3
          /\ call[1] = made("role") /\ call[2] = made("row") /\ call[3] = made("summary")
      BY <3>1, <3>2, ThreeCalls
    <3>4. \A i \in 1..Len(call) : i \in {1, 2, 3}
      BY <3>3
    <3>5. 2 \in 1..Len(call)
      BY <3>3
    <3> QED BY <1>1, <3>3, <3>4, <3>5 DEF OneWaits
  <2>2. CASE form # "context"
    <3>1. call = <<made("row")>>
      BY <1>2, <2>2
    <3>2. IsCalls(call) /\ Len(call) = 1 /\ call[1] = made("row")
      BY <1>1, <3>1, OneCall
    <3> QED BY <3>2 DEF OneWaits
  <2> QED BY <2>1, <2>2
<1>5. \A i \in 1..Len(call) :
        call[i].live = TRUE /\ call[i].op # "save" /\ call[i].state = "sent"
  BY <1>1, <1>4
<1>6. Waits(call, {"row"})
  BY <1>1, <1>4 DEF Waits
<1>7. SettingsFits(view, past, call)
  BY <1>2, <1>3, <1>4, <1>5, <1>6 DEF SettingsFits, AllLive, Waits, OneWaits
<1> QED BY <1>2, <1>3, <1>5, <1>7 DEF SettingsInv, SettingsAgree, SettingsKnows, SettingsOpen

LEMMA SettingsFitOn ==
  ASSUME SettingsFits(view, past, call), NEW i \in 1..Len(call), Progress(call, call', i),
         NEW p, DOMAIN p = DOMAIN past, p.failed = past.failed, p.stuck = past.stuck
  PROVE  SettingsFits(view, p, call')
<1>1. \A ops : /\ Waits(call', ops) <=> Waits(call, ops)
               /\ OneWaits(call, ops) => OneWaits(call', ops)
               /\ AllLive(call) => AllLive(call')
  BY WaitsOn DEF SettingsFits
<1> QED BY <1>1 DEF SettingsFits, Progress

\* The i-th call goes on, and nothing is written.
LEMMA SettingsGoOn ==
  ASSUME SettingsInv, NEW i \in 1..Len(call), Progress(call, call', i),
         UNCHANGED <<view, server, past>>,
         SettingsKnows(call'[i], server.row, past),
         call[i].op = "save" /\ call[i].state \in {"ok", "thrown"}
             => call'[i].state \in {"ok", "thrown"}
  PROVE  SettingsInv'
<1>1. SettingsFits(view', past', call')
  BY SettingsFitOn DEF SettingsInv
<1>2. \A j \in 1..Len(call') : SettingsKnows(call'[j], server'.row, past')
  BY DEF Progress, SettingsInv
<1>3. Written(call, "save") => Written(call', "save")
  BY DEF Written, Progress
<1>4. SettingsAgree(view', server'.row, past', call')
  BY <1>3 DEF SettingsInv, SettingsAgree
<1> QED BY <1>1, <1>2, <1>4 DEF SettingsInv

LEMMA SettingsServe ==
  ASSUME SettingsInv, NEW i \in 1..Len(call),
         Settings!Serve(i) \/ Settings!Refuses(i) \/ Settings!Breaks(i)
  PROVE  SettingsInv'
<1>0. IsCalls(call) /\ SettingsKnows(call[i], server.row, past)
      /\ AllLive(call) /\ call[i].live
  BY DEF SettingsInv, SettingsFits, AllLive
<1>1. ASSUME NEW x \in {"error", "thrown"}, Marked(call, call', i, x),
             x = "error" => call[i].state = "sent", UNCHANGED <<view, server, past>>
      PROVE  SettingsInv'
  <2>1. Progress(call, call', i) /\ call'[i].state = x
    BY <1>0, <1>1, IsMarked
  <2>2. SettingsKnows(call'[i], server.row, past)
    BY <2>1 DEF SettingsKnows
  <2> QED BY <1>1, <2>1, <2>2, SettingsGoOn
<1>2. CASE Settings!Refuses(i) \/ Settings!Breaks(i)
  <2>1. PICK x \in {"error", "thrown"} :
          Marked(call, call', i, x) /\ (x = "error" => call[i].state = "sent")
    BY <1>2 DEF Marked, Settings!Refuses, Settings!Breaks
  <2>2. UNCHANGED <<view, server, past>>
    BY <1>2 DEF Settings!Refuses, Settings!Breaks
  <2> QED BY <1>1, <2>1, <2>2
<1>3. CASE /\ call[i].state = "sent"
           /\ Settings!GetContext(i) \/ Settings!GetSummary(i) \/ Settings!GetRole(i)
  <2>1. PICK a : Served(call, call', i, "ok", a) /\ (call[i].op = "row" => a = server.row)
    BY <1>3 DEF Served, Settings!GetContext, Settings!GetSummary, Settings!GetRole, Settings!Serves
  <2>2. UNCHANGED <<view, server, past>> /\ call[i].op # "save"
    BY <1>3 DEF Settings!GetContext, Settings!GetSummary, Settings!GetRole, Settings!Serves
  <2>3. Progress(call, call', i) /\ call'[i].state = "ok" /\ call'[i].answer = a
    BY <1>0, <2>1, IsServed
  <2>4. SettingsKnows(call'[i], server.row, past)
    BY <2>1, <2>2, <2>3 DEF SettingsKnows, Progress
  <2> QED BY <2>2, <2>3, <2>4, SettingsGoOn
<1>4. CASE call[i].op = "save" /\ call[i].state = "sent" /\ Settings!NotFound(i)
  <2>1. Marked(call, call', i, "error") /\ UNCHANGED <<view, server, past>>
    BY <1>4 DEF Marked, Settings!NotFound
  <2> QED BY <1>1, <1>4, <2>1
<1>5. CASE call[i].op = "save" /\ call[i].state = "sent" /\ Settings!Writes(i)
  <2> DEFINE new == call[i].arg.value
  <2>1. /\ Served(call, call', i, "ok", new) /\ server' = [server EXCEPT !.row = new]
        /\ past' = [past EXCEPT !.blind = @ \/ server.row # call[i].arg.seen]
        /\ UNCHANGED view
    BY <1>5 DEF Served, Settings!Writes
  <2> HIDE DEF new
  <2>2. Progress(call, call', i) /\ call'[i].state = "ok" /\ call'[i].answer = new
    BY <1>0, <2>1, IsServed
  <2>3. DOMAIN server' = DOMAIN server /\ server'.row = new
    BY <2>1 DEF SettingsInv
  <2>4. /\ DOMAIN past' = DOMAIN past /\ past'.failed = past.failed /\ past'.stale = past.stale
        /\ past'.stuck = past.stuck
        /\ past'.blind = (past.blind \/ server.row # call[i].arg.seen)
    BY <2>1 DEF SettingsInv, SettingsFits
  <2>5. SettingsFits(view', past', call')
    BY <2>1, <2>2, <2>4, SettingsFitOn DEF SettingsInv
  \* What is replaced is what the saving was made with.
  <2>6. past'.blind => past'.stale \/ past'.failed
    BY <1>0, <1>5, <2>4 DEF SettingsInv, SettingsKnows
  <2>7. Written(call', "save")
    BY <1>5, <2>2 DEF Written, Progress
  <2>8. ASSUME NEW j \in 1..Len(call), j # i
        PROVE  call[j].op \notin {"row", "save"}
    <3>1. Waits(call, {"save"})
      BY <1>0, <1>5 DEF Waits
    <3>2. ~Waits(call, {"row"}) /\ OneWaits(call, {"save"})
      BY <3>1 DEF SettingsInv, SettingsFits
    <3> QED BY <1>0, <1>5, <2>8, <3>2 DEF Waits, OneWaits, AllLive
  <2>9. ASSUME NEW j \in 1..Len(call')
        PROVE  SettingsKnows(call'[j], server'.row, past')
    <3>1. CASE j = i
      BY <1>5, <2>2, <2>3, <3>1 DEF SettingsKnows, Progress
    <3>2. CASE j # i
      <4>1. j \in 1..Len(call) /\ call'[j] = call[j]
        BY <2>2, <3>2 DEF Progress
      <4> QED BY <2>8, <3>2, <4>1 DEF SettingsKnows
    <3> QED BY <3>1, <3>2
  <2> QED BY <2>3, <2>5, <2>6, <2>7, <2>9 DEF SettingsInv, SettingsAgree
<1>6. CASE Settings!Serve(i)
  <2>1. call[i].state = "sent"
    BY <1>6 DEF Settings!Serve
  <2>2. CASE Settings!UpsertContext(i)
    BY <1>4, <1>5, <2>1, <2>2 DEF Settings!UpsertContext
  <2>3. CASE Settings!UpdateSettings(i)
    BY <1>4, <1>5, <2>1, <2>3 DEF Settings!UpdateSettings
  <2> QED BY <1>3, <1>6, <2>1, <2>2, <2>3 DEF Settings!Serve
<1> QED BY <1>2, <1>6

LEMMA SettingsSave ==
  ASSUME SettingsInv, Settings!Saves
  PROVE  SettingsInv'
<1> DEFINE c == Settings!Call("save", [value |-> view.typed, seen |-> view.known])
<1>1. /\ DOMAIN c = CallFields /\ c.live = TRUE /\ c.op = "save" /\ c.state = "sent"
      /\ c.arg.seen = view.known
  BY DEF Settings!Call, CallFields
<1>2. /\ call' = Append(call, c) /\ server' = server /\ view' = [view EXCEPT !.saving = TRUE]
      /\ past' = [past EXCEPT !.edited = FALSE] /\ SettingsOpen(view) /\ ~view.saving
  BY DEF Settings!Saves, Settings!Asks, Settings!IsOpen, SettingsOpen
<1> HIDE DEF c
<1>3. IsCalls(call) /\ AllLive(call)
  BY DEF SettingsInv, SettingsFits
<1>4. Made(call, call', c)
  BY <1>1, <1>2, <1>3, CallMade
<1>5. \A ops : /\ Waits(call', ops) <=> Waits(call, ops) \/ "save" \in ops
               /\ OneWaits(call, ops) /\ ~(Waits(call, ops) /\ "save" \in ops)
                      => OneWaits(call', ops)
               /\ AllLive(call) => AllLive(call')
  BY <1>1, <1>3, <1>4, WaitsMore
<1>6. /\ \A j \in 1..Len(call') : (j \in 1..Len(call) /\ call'[j] = call[j]) \/ call'[j] = c
      /\ \A j \in 1..Len(call) : j \in 1..Len(call') /\ call'[j] = call[j]
  BY <1>3, <1>4, AndOneMore
<1>7. /\ DOMAIN view' = DOMAIN view /\ view'.loading = view.loading /\ view'.there = view.there
      /\ view'.form = view.form /\ view'.known = view.known /\ view'.saving = TRUE
      /\ DOMAIN past' = DOMAIN past /\ past'.failed = past.failed /\ past'.stale = past.stale
      /\ past'.blind = past.blind /\ past'.stuck = past.stuck
  BY <1>2 DEF SettingsInv, SettingsFits
\* Nothing was being saved, nor read: what is on screen is the row.
<1>8. ~Waits(call, {"save"}) /\ ~Waits(call, {"row"}) /\ ~Written(call, "save")
  <2>1. ~Waits(call, {"save"}) /\ ~Waits(call, {"row"})
    BY <1>2 DEF SettingsInv, SettingsFits, SettingsOpen
  <2> QED BY <1>3, <2>1 DEF Waits, Written, AllLive
<1>9. SettingsFits(view', past', call')
  BY <1>3, <1>4, <1>5, <1>7, <1>8 DEF SettingsInv, SettingsFits, Made
<1>10. ~past.stale /\ ~past.failed => view.known = server.row
  BY <1>2, <1>8 DEF SettingsInv, SettingsAgree
<1>11. ASSUME NEW j \in 1..Len(call')
       PROVE  SettingsKnows(call'[j], server'.row, past')
  <2>1. CASE call'[j] = c
    BY <1>1, <1>2, <1>7, <1>10, <2>1 DEF SettingsKnows
  <2>2. CASE j \in 1..Len(call) /\ call'[j] = call[j]
    BY <1>2, <1>7, <2>2 DEF SettingsInv, SettingsKnows
  <2> QED BY <1>6, <2>1, <2>2
<1>12. SettingsAgree(view', server'.row, past', call')
  BY <1>2, <1>7, <1>10 DEF SettingsAgree
<1> QED BY <1>2, <1>7, <1>9, <1>11, <1>12 DEF SettingsInv

LEMMA SettingsStillKnow ==
  ASSUME NEW e, NEW s, NEW p, NEW q, SettingsKnows(e, s, p),
         q.failed = p.failed, p.stale => q.stale
  PROVE  SettingsKnows(e, s, q)
  BY DEF SettingsKnows

\* The form of the voice, and answers to a saving or to the reading of the summary:
\* the i-th call is over, and the view and the history follow.
LEMMA SettingsEnd ==
  ASSUME SettingsInv, NEW i \in 1..Len(call), NEW rest, Over(call, rest, i),
         call' = rest \/ \E c : Made(rest, call', c) /\ c.op = "again" /\ c.live = TRUE,
         server' = server,
         DOMAIN view' = DOMAIN view, DOMAIN past' = DOMAIN past, view'.form = view.form,
         past'.failed = past.failed, past.stale => past'.stale, past'.blind = past.blind,
         call[i].op # "row" => view'.loading = view.loading,
         call[i].op # "save" => view'.saving = view.saving,
         call[i].op \notin {"row", "save"} => view'.there = view.there,
         call[i].op = "save" /\ call[i].state = "thrown" => past'.stale,
         ~past'.stuck => /\ ~past.stuck
                         /\ call[i].op = "row" => ~view'.loading
                         /\ call[i].op = "save" => ~view'.saving,
         \/ SettingsOpen(view') => SettingsOpen(view) /\ view'.known = view.known
                                   /\ ~(call[i].op = "save" /\ call[i].state = "ok")
         \/ /\ call[i].op \in {"row", "save"} /\ call[i].state = "ok"
            /\ view'.known = call[i].answer
  PROVE  SettingsInv'
<1>0. /\ IsCalls(call) /\ AllLive(call) /\ call[i].live
      /\ SettingsKnows(call[i], server.row, past)
  BY DEF SettingsInv, SettingsFits, AllLive
<1>1. IsCalls(rest)
  BY DEF Over
<1>2. \A ops : /\ Waits(rest, ops) => Waits(call, ops)
               /\ call[i].op \notin ops => (Waits(rest, ops) <=> Waits(call, ops))
               /\ OneWaits(call, ops) => OneWaits(rest, ops)
               /\ OneWaits(call, ops) /\ call[i].op \in ops => ~Waits(rest, ops)
               /\ AllLive(rest)
  BY <1>0, WaitsOver
<1>3. \A ops : "again" \notin ops =>
                 /\ Waits(call', ops) <=> Waits(rest, ops)
                 /\ OneWaits(rest, ops) => OneWaits(call', ops)
  <2>1. CASE call' = rest
    BY <2>1
  <2>2. CASE \E c : Made(rest, call', c) /\ c.op = "again" /\ c.live = TRUE
    BY <1>1, <2>2, WaitsMore
  <2> QED BY <2>1, <2>2
<1>4. IsCalls(call') /\ AllLive(call')
  <2>1. CASE call' = rest
    BY <1>1, <1>2, <2>1
  <2>2. CASE \E c : Made(rest, call', c) /\ c.op = "again" /\ c.live = TRUE
    <3>1. PICK c : Made(rest, call', c) /\ c.op = "again" /\ c.live = TRUE
      BY <2>2
    <3>2. AllLive(rest) => AllLive(call')
      BY <1>1, <3>1, WaitsMore
    <3> QED BY <1>2, <3>1, <3>2 DEF Made
  <2> QED BY <2>1, <2>2
<1>5. /\ \A j \in 1..Len(rest) : \E k \in 1..Len(call) : k # i /\ rest[j] = call[k]
      /\ \A k \in 1..Len(call) : k # i => \E j \in 1..Len(rest) : rest[j] = call[k]
  <2>1. IsCalls(call) /\ Over(call, rest, i)
    BY <1>0
  <2>2. Others(call, rest, i)
    BY <2>1, OthersStay
  <2> QED BY <2>2 DEF Others
<1>6. /\ \A j \in 1..Len(call') :
           (\E k \in 1..Len(rest) : call'[j] = rest[k]) \/ call'[j].op = "again"
      /\ \A k \in 1..Len(rest) : \E j \in 1..Len(call') : call'[j] = rest[k]
  <2>1. CASE call' = rest
    BY <2>1
  <2>2. CASE \E c : Made(rest, call', c) /\ c.op = "again" /\ c.live = TRUE
    <3>1. PICK c : Made(rest, call', c) /\ c.op = "again" /\ c.live = TRUE
      BY <2>2
    <3>2. /\ \A j \in 1..Len(call') : (j \in 1..Len(rest) /\ call'[j] = rest[j]) \/ call'[j] = c
          /\ \A j \in 1..Len(rest) : j \in 1..Len(call') /\ call'[j] = rest[j]
      BY <1>1, <3>1, AndOneMore
    <3> QED BY <3>1, <3>2
  <2> QED BY <2>1, <2>2
<1>7. SettingsFits(view', past', call')
  <2>1. OneWaits(call', {"row"}) /\ OneWaits(call', {"save"})
    BY <1>2, <1>3 DEF SettingsInv, SettingsFits
  <2>2. Waits(call', {"row"}) => call[i].op # "row" /\ Waits(call, {"row"})
    BY <1>2, <1>3 DEF SettingsInv, SettingsFits
  <2>0. Waits(call', {"row"}) => call[i].op # "save"
    BY <1>0, <2>2 DEF SettingsInv, SettingsFits, Waits
  <2>3. Waits(call', {"save"}) => call[i].op # "save" /\ Waits(call, {"save"})
    BY <1>2, <1>3 DEF SettingsInv, SettingsFits
  <2>4. ~past'.stuck =>
          (view'.loading => Waits(call', {"row"})) /\ (view'.saving => Waits(call', {"save"}))
    BY <1>2, <1>3 DEF SettingsInv, SettingsFits
  <2> QED BY <1>4, <2>0, <2>1, <2>2, <2>3, <2>4 DEF SettingsInv, SettingsFits
<1>8. ASSUME NEW j \in 1..Len(call')
      PROVE  SettingsKnows(call'[j], server'.row, past')
  <2>1. CASE call'[j].op = "again"
    BY <2>1 DEF SettingsKnows
  <2>2. CASE \E k \in 1..Len(call) : call'[j] = call[k]
    <3>1. PICK k \in 1..Len(call) : call'[j] = call[k]
      BY <2>2
    <3>2. SettingsKnows(call[k], server.row, past)
      BY DEF SettingsInv
    <3>3. SettingsKnows(call[k], server.row, past')
      BY <3>2, SettingsStillKnow
    <3>4. server'.row = server.row
      OBVIOUS
    <3> QED BY <3>1, <3>3, <3>4
  <2>3. ASSUME NEW m \in 1..Len(rest), call'[j] = rest[m]
        PROVE  \E k \in 1..Len(call) : call'[j] = call[k]
    BY <1>5, <2>3
  <2>4. \/ call'[j].op = "again"
        \/ \E m \in 1..Len(rest) : call'[j] = rest[m]
    BY <1>6
  <2> QED BY <2>1, <2>2, <2>3, <2>4
<1>9. SettingsAgree(view', server'.row, past', call')
  <2>1. Written(call, "save") /\ ~(call[i].op = "save" /\ call[i].state \in {"ok", "thrown"})
          => Written(call', "save")
    <3>1. SUFFICES ASSUME NEW k \in 1..Len(call), call[k].op = "save",
                          call[k].state \in {"ok", "thrown"}, k # i
                   PROVE  Written(call', "save")
      BY DEF Written
    <3>2. PICK m \in 1..Len(rest) : rest[m] = call[k]
      BY <1>5, <3>1
    <3>3. PICK j \in 1..Len(call') : call'[j] = rest[m]
      BY <1>6
    <3> QED BY <3>1, <3>2, <3>3 DEF Written
  <2> QED BY <1>0, <2>1 DEF SettingsInv, SettingsAgree, SettingsKnows
<1> QED BY <1>7, <1>8, <1>9 DEF SettingsInv

LEMMA SettingsAnswer ==
  ASSUME SettingsInv, NEW i \in 1..Len(call),
         Settings!LoadVoice(i) \/ Settings!SaveAnswer(i) \/ Settings!SummaryAnswer(i)
  PROVE  SettingsInv'
<1> DEFINE rest == Less(call, i)
<1>0. /\ IsCalls(call)
      /\ DOMAIN view = {"form", "role", "there", "typed", "known", "summary", "loading", "saving"}
      /\ DOMAIN past = {"edited", "failed", "stale", "stuck", "blind"}
      /\ Settings!Rest(i) = rest
  BY DEF SettingsInv, SettingsFits, Less, Settings!Rest, Settings!WithoutAt
<1>1. Over(call, rest, i)
  BY <1>0, CallOver
<1> HIDE DEF rest
<1>2. CASE Settings!LoadVoice(i)
  <2>1. call' = rest /\ call[i].op = "row" /\ server' = server /\ view.form = "voice"
    BY <1>0, <1>2 DEF Settings!LoadVoice, Settings!Takes
  <2>2. CASE /\ call[i].state = "ok" /\ past' = past
             /\ view' = [Settings!Made(view, call[i].answer) EXCEPT !.loading = FALSE]
    <3>1. /\ DOMAIN view' = DOMAIN view /\ view'.form = view.form /\ view'.saving = view.saving
          /\ view'.known = call[i].answer /\ ~view'.loading
      BY <1>0, <2>2 DEF Settings!Made
    <3> QED BY <1>1, <2>1, <2>2, <3>1, SettingsEnd
  <2>3. CASE call[i].state = "error" /\ view' = [view EXCEPT !.loading = FALSE] /\ past' = past
    <3>1. /\ DOMAIN view' = DOMAIN view /\ view'.form = view.form /\ view'.saving = view.saving
          /\ view'.known = view.known /\ view'.there = view.there /\ ~view'.loading
      BY <1>0, <2>3
    \* The voice is not shown before it was read.
    <3>2. ~SettingsOpen(view')
      <4>1. call[i].live
        BY DEF SettingsInv, SettingsFits, AllLive
      <4>2. Waits(call, {"row"})
        BY <2>1, <4>1 DEF Waits
      <4> QED BY <2>1, <3>1, <4>2 DEF SettingsInv, SettingsFits, SettingsOpen
    <3> QED BY <1>1, <2>1, <2>3, <3>1, <3>2, SettingsEnd
  <2>4. CASE /\ call[i].state = "thrown" /\ past' = [past EXCEPT !.stuck = TRUE] /\ view' = view
    <3>1. /\ DOMAIN past' = DOMAIN past /\ past'.failed = past.failed /\ past'.stale = past.stale
          /\ past'.blind = past.blind /\ past'.stuck
      BY <1>0, <2>4
    <3> QED BY <1>1, <2>1, <2>4, <3>1, SettingsEnd
  <2> QED BY <1>2, <2>2, <2>3, <2>4 DEF Settings!LoadVoice
<1>3. CASE Settings!SaveAnswer(i)
  <2>1. call[i].op = "save" /\ server' = server
    BY <1>3 DEF Settings!SaveAnswer, Settings!Takes
  <2>2. CASE /\ call[i].state = "ok" /\ past' = past
             /\ view' = [view EXCEPT !.there = TRUE, !.known = call[i].answer, !.saving = FALSE]
             /\ call' = IF view.form = "context" THEN Append(rest, Settings!Call("again", <<>>))
                        ELSE rest
    <3>1. /\ DOMAIN view' = DOMAIN view /\ view'.form = view.form /\ view'.loading = view.loading
          /\ view'.known = call[i].answer /\ ~view'.saving
      BY <1>0, <2>2
    <3>2. call' = rest \/ \E c : Made(rest, call', c) /\ c.op = "again" /\ c.live = TRUE
      <4> DEFINE c == Settings!Call("again", <<>>)
      <4>1. DOMAIN c = CallFields /\ c.live = TRUE /\ c.op = "again"
        BY DEF Settings!Call, CallFields
      <4>2. call' = rest \/ call' = Append(rest, c)
        BY <2>2
      <4> HIDE DEF c
      <4>3. IsCalls(rest)
        BY <1>1 DEF Over
      <4>4. Made(rest, Append(rest, c), c)
        BY <4>1, <4>3, CallMade
      <4> QED BY <4>1, <4>2, <4>4
    <3> QED BY <1>1, <2>1, <2>2, <3>1, <3>2, SettingsEnd
  <2>3. CASE /\ call[i].state = "error" /\ call' = rest
             /\ view' = [view EXCEPT !.saving = FALSE] /\ past' = [past EXCEPT !.edited = TRUE]
    <3>1. /\ DOMAIN view' = DOMAIN view /\ view'.form = view.form /\ view'.loading = view.loading
          /\ view'.known = view.known /\ view'.there = view.there /\ ~view'.saving
          /\ DOMAIN past' = DOMAIN past /\ past'.failed = past.failed /\ past'.stale = past.stale
          /\ past'.blind = past.blind /\ past'.stuck = past.stuck
      BY <1>0, <2>3
    <3>2. SettingsOpen(view') => SettingsOpen(view)
      BY <3>1 DEF SettingsOpen
    <3> QED BY <1>1, <2>1, <2>3, <3>1, <3>2, SettingsEnd
  <2>4. CASE /\ call[i].state = "thrown" /\ call' = rest
             /\ past' = [past EXCEPT !.stale = TRUE, !.stuck = TRUE] /\ view' = view
    <3>1. /\ DOMAIN past' = DOMAIN past /\ past'.failed = past.failed /\ past'.stale = TRUE
          /\ past'.blind = past.blind /\ past'.stuck
      BY <1>0, <2>4
    <3> QED BY <1>1, <2>1, <2>4, <3>1, SettingsEnd
  <2> QED BY <1>0, <1>3, <2>2, <2>3, <2>4 DEF Settings!SaveAnswer
<1>4. CASE Settings!SummaryAnswer(i)
  <2>1. call[i].op = "again" /\ call' = rest /\ server' = server
    BY <1>0, <1>4 DEF Settings!SummaryAnswer, Settings!Takes
  <2>2. PICK x, y : /\ view' = view \/ view' = [view EXCEPT !.summary = x]
                    /\ past' = [past EXCEPT !.stale = @ \/ y]
    BY <1>4 DEF Settings!SummaryAnswer
  <2>3. /\ DOMAIN view' = DOMAIN view /\ view'.form = view.form /\ view'.loading = view.loading
        /\ view'.known = view.known /\ view'.there = view.there /\ view'.saving = view.saving
        /\ DOMAIN past' = DOMAIN past /\ past'.failed = past.failed
        /\ past'.blind = past.blind /\ (past.stale => past'.stale) /\ past'.stuck = past.stuck
    BY <1>0, <2>2
  <2>4. SettingsOpen(view') => SettingsOpen(view)
    BY <2>3 DEF SettingsOpen
  <2> QED BY <1>1, <2>1, <2>3, <2>4, SettingsEnd
<1> QED BY <1>2, <1>3, <1>4

\* The three answers of the context, at once.
LEMMA SettingsLoad ==
  ASSUME SettingsInv, Settings!LoadContext
  PROVE  SettingsInv'
<1>0. /\ IsCalls(call) /\ AllLive(call)
      /\ DOMAIN view = {"form", "role", "there", "typed", "known", "summary", "loading", "saving"}
      /\ DOMAIN past = {"edited", "failed", "stale", "stuck", "blind"}
  BY DEF SettingsInv, SettingsFits
<1>1. DOMAIN call = 1..Len(call)
  BY <1>0, CallsAreSeq
<1>2. /\ call' = <<>> /\ server' = server
      /\ Waits(call, {"row"}) /\ OneWaits(call, {"row"}) /\ ~past.failed
  <2>1. call' = <<>> /\ server' = server /\ \E i \in DOMAIN call : call[i].op = "row"
    BY DEF Settings!LoadContext, Settings!Under
  <2>2. Waits(call, {"row"})
    BY <1>0, <1>1, <2>1 DEF Waits, AllLive
  <2> QED BY <2>1, <2>2 DEF SettingsInv, SettingsFits
<1>3. /\ IsCalls(call') /\ AllLive(call')
      /\ \A ops : ~Waits(call', ops) /\ OneWaits(call', ops)
      /\ \A j \in 1..Len(call') : FALSE
  BY <1>2, NoCall DEF Waits, OneWaits, AllLive
<1>4. CASE Settings!Thrown /\ past' = [past EXCEPT !.stuck = TRUE] /\ UNCHANGED view
  <2>1. /\ DOMAIN past' = DOMAIN past /\ past'.failed = past.failed /\ past'.stale = past.stale
        /\ past'.blind = past.blind /\ past'.stuck
    BY <1>0, <1>4
  <2>2. SettingsFits(view', past', call')
    BY <1>2, <1>3, <1>4, <2>1 DEF SettingsInv, SettingsFits
  <2>3. ~SettingsOpen(view')
    BY <1>2, <1>4 DEF SettingsInv, SettingsFits, SettingsOpen
  <2> QED BY <1>2, <1>3, <2>1, <2>2, <2>3 DEF SettingsInv, SettingsAgree
<1>5. CASE ~(Settings!Thrown /\ past' = [past EXCEPT !.stuck = TRUE] /\ UNCHANGED view)
  <2> DEFINE named == IF Settings!Ok("role") THEN [view EXCEPT !.role = Settings!Of("role")]
                      ELSE view
             made  == IF Settings!Ok("row") THEN Settings!Made(named, Settings!Of("row"))
                      ELSE named
             summed == IF Settings!Ok("summary")
                       THEN [made EXCEPT !.summary = Settings!Of("summary")] ELSE made
  <2>1. /\ view' = [summed EXCEPT !.loading = FALSE]
        /\ past' = [past EXCEPT !.failed = ~Settings!Ok("row"),
                                !.stale = @ \/ ~Settings!Ok("summary")]
    BY <1>5 DEF Settings!LoadContext
  <2>2. /\ DOMAIN named = DOMAIN view /\ named.form = view.form /\ named.saving = view.saving
        /\ named.known = view.known
    BY <1>0
  <2>3. /\ DOMAIN made = DOMAIN view /\ made.form = view.form /\ made.saving = view.saving
        /\ Settings!Ok("row") => made.known = Settings!Of("row")
    BY <1>0, <2>2 DEF Settings!Made
  <2> HIDE DEF made
  <2>4. /\ DOMAIN summed = DOMAIN view /\ summed.form = view.form /\ summed.saving = view.saving
        /\ summed.known = made.known
    BY <1>0, <2>3
  <2> HIDE DEF summed
  <2>5. /\ DOMAIN view' = DOMAIN view /\ view'.form = view.form /\ view'.saving = view.saving
        /\ Settings!Ok("row") => view'.known = Settings!Of("row")
        /\ ~view'.loading
    BY <1>0, <2>1, <2>3, <2>4
  <2>6. /\ DOMAIN past' = DOMAIN past /\ past'.blind = past.blind
        /\ past'.failed = ~Settings!Ok("row") /\ (past.stale => past'.stale)
        /\ past'.stuck = past.stuck
    BY <1>0, <2>1
  <2>7. SettingsFits(view', past', call')
    BY <1>2, <1>3, <2>5, <2>6 DEF SettingsInv, SettingsFits
  \* The row that was read is the row: no other call is about it.
  <2>8. Settings!Ok("row") /\ ~past.stale => Settings!Of("row") = server.row
    <3>1. SUFFICES ASSUME Settings!Ok("row"), ~past.stale PROVE Settings!Of("row") = server.row
      OBVIOUS
    <3>2. PICK i \in 1..Len(call) : call[i].op = "row" /\ call[i].state = "ok"
      BY <1>1, <3>1 DEF Settings!Ok
    <3> DEFINE k == CHOOSE j \in DOMAIN call : call[j].op = "row"
    <3>3. k \in DOMAIN call /\ call[k].op = "row"
      BY <1>1, <3>2
    <3>4. Settings!Of("row") = call[k].answer
      BY DEF Settings!Of
    <3> HIDE DEF k
    <3>5. k = i
      BY <1>0, <1>1, <1>2, <3>2, <3>3 DEF OneWaits, AllLive
    <3> QED BY <1>2, <3>1, <3>2, <3>4, <3>5 DEF SettingsInv, SettingsKnows
  <2>9. SettingsAgree(view', server'.row, past', call')
    BY <1>2, <2>5, <2>6, <2>8 DEF SettingsAgree
  <2> QED BY <1>2, <1>3, <2>6, <2>7, <2>9 DEF SettingsInv
<1> QED BY <1>4, <1>5

LEMMA SettingsAlwaysFit ==
  ASSUME SettingsInv, Settings!Next \/ UNCHANGED screen
  PROVE  SettingsInv'
<1>0. IsCalls(call)
  BY DEF SettingsInv, SettingsFits
<1>1. DOMAIN call = 1..Len(call)
  BY <1>0, CallsAreSeq
<1>2. CASE Settings!WrittenElsewhere
  <2>1. PICK x : server' = [server EXCEPT !.row = x]
    BY <1>2 DEF Settings!WrittenElsewhere
  <2>2. view' = view /\ call' = call /\ past' = [past EXCEPT !.stale = TRUE]
    BY <1>2 DEF Settings!WrittenElsewhere
  <2>3. DOMAIN server' = DOMAIN server
    BY <2>1
  <2>4. /\ DOMAIN past' = DOMAIN past /\ past'.stale = TRUE /\ past'.failed = past.failed
        /\ past'.stuck = past.stuck
    BY <2>2 DEF SettingsInv, SettingsFits
  <2>5. SettingsFits(view', past', call')
    BY <2>2, <2>4 DEF SettingsInv, SettingsFits
  <2> QED BY <2>2, <2>3, <2>4, <2>5 DEF SettingsInv, SettingsAgree, SettingsKnows
<1>3. CASE UNCHANGED screen
  BY <1>3 DEF screen, SettingsInv, SettingsFits, SettingsAgree, SettingsKnows
<1>4. CASE Settings!TypeValue
  <2>1. PICK v : view' = [view EXCEPT !.typed = v]
    BY <1>4 DEF Settings!TypeValue
  <2>2. past' = [past EXCEPT !.edited = TRUE] /\ call' = call /\ server' = server
    BY <1>4 DEF Settings!TypeValue, Settings!Asks
  <2>3. /\ DOMAIN view' = DOMAIN view /\ view'.form = view.form /\ view'.loading = view.loading
        /\ view'.known = view.known /\ view'.there = view.there /\ view'.saving = view.saving
        /\ DOMAIN past' = DOMAIN past /\ past'.failed = past.failed /\ past'.stale = past.stale
        /\ past'.blind = past.blind /\ past'.stuck = past.stuck
    BY <2>1, <2>2 DEF SettingsInv, SettingsFits
  <2>4. SettingsFits(view', past', call')
    BY <2>2, <2>3 DEF SettingsInv, SettingsFits
  <2>5. SettingsAgree(view', server'.row, past', call')
    BY <2>2, <2>3 DEF SettingsInv, SettingsAgree, SettingsOpen
  <2> QED BY <2>2, <2>3, <2>4, <2>5 DEF SettingsInv, SettingsKnows
<1>5. CASE Settings!HandleContextSubmit \/ Settings!HandleVoiceSubmit
  BY <1>5, SettingsSave DEF Settings!HandleContextSubmit, Settings!HandleVoiceSubmit
<1>6. ASSUME NEW i \in 1..Len(call),
             Settings!Serve(i) \/ Settings!Refuses(i) \/ Settings!Breaks(i)
      PROVE  SettingsInv'
  BY <1>6, SettingsServe
<1>7. ASSUME NEW i \in 1..Len(call),
             Settings!LoadVoice(i) \/ Settings!SaveAnswer(i) \/ Settings!SummaryAnswer(i)
      PROVE  SettingsInv'
  BY <1>7, SettingsAnswer
<1>8. Settings!Next =>
        \/ Settings!TypeValue \/ Settings!HandleContextSubmit \/ Settings!HandleVoiceSubmit
        \/ Settings!WrittenElsewhere \/ Settings!LoadContext
        \/ \E i \in 1..Len(call) :
             \/ Settings!Serve(i) \/ Settings!Refuses(i) \/ Settings!Breaks(i)
             \/ Settings!LoadVoice(i) \/ Settings!SaveAnswer(i) \/ Settings!SummaryAnswer(i)
  BY <1>1 DEF Settings!Next
<1> QED BY <1>2, <1>3, <1>4, <1>5, <1>6, <1>7, <1>8, SettingsLoad

-----------------------------------------------------------------------------
(* The three screens.                                                      *)

EditingInv ==
    /\ part = "content" => ContentInv
    /\ part = "editor" => EditorInv
    /\ part = "settings" => SettingsInv

Guarded ==
    /\ part = "content" => InLibrary!EditorsLeaveArchives /\ InLibrary!ArchivesAreDated'
    /\ part = "editor" => Editor!ExportsWhatIsShown'
    /\ part = "settings" => Settings!ReplacesWhatWasRead'

LEMMA EditingStarts == EditingInit => EditingInv
<1> SUFFICES ASSUME EditingInit PROVE EditingInv
  OBVIOUS
<1>1. CASE part = "content" /\ InLibrary!Init
  BY <1>1, ContentStarts DEF EditingInv
<1>2. CASE part = "editor" /\ Editor!Init
  BY <1>2, EditorStarts DEF EditingInv
<1>3. CASE part = "settings" /\ Settings!Init
  BY <1>3, SettingsStart DEF EditingInv
<1> QED BY <1>1, <1>2, <1>3 DEF EditingInit

LEMMA EditingGoesOn ==
  EditingInv /\ [EditingNext]_<<part, screen>> => EditingInv' /\ [Guarded]_screen
<1> SUFFICES ASSUME EditingInv, [EditingNext]_<<part, screen>> PROVE EditingInv' /\ Guarded
  OBVIOUS
<1>1. /\ part' = part
      /\ part = "content" => InLibrary!Next \/ UNCHANGED screen
      /\ part = "editor" => Editor!Next \/ UNCHANGED screen
      /\ part = "settings" => Settings!Next \/ UNCHANGED screen
  BY DEF EditingNext, ContentNext, EditorNext, SettingsNext
<1>2. CASE part = "content"
  <2>1. ContentInv' /\ InLibrary!EditorsLeaveArchives
    BY <1>1, <1>2, ContentAlwaysFits DEF EditingInv
  <2>2. InLibrary!ArchivesAreDated'
    BY <2>1 DEF ContentInv, Dates, InLibrary!ArchivesAreDated
  <2> QED BY <1>1, <1>2, <2>1, <2>2 DEF EditingInv, Guarded
<1>3. CASE part = "editor"
  <2>1. EditorInv'
    BY <1>1, <1>3, EditorAlwaysFits DEF EditingInv
  <2>2. Editor!ExportsWhatIsShown'
    <3>1. IsCalls(call')
      BY <2>1 DEF EditorInv, EditorFits
    <3>2. DOMAIN call' = 1..Len(call')
      BY <3>1, CallsAreSeq
    <3> QED BY <2>1, <3>2 DEF EditorInv, EditorKnows, Editor!ExportsWhatIsShown
  <2> QED BY <1>1, <1>3, <2>1, <2>2 DEF EditingInv, Guarded
<1>4. CASE part = "settings"
  <2>1. SettingsInv'
    BY <1>1, <1>4, SettingsAlwaysFit DEF EditingInv
  <2>2. Settings!ReplacesWhatWasRead'
    BY <2>1 DEF SettingsInv, Settings!ReplacesWhatWasRead
  <2> QED BY <1>1, <1>4, <2>1, <2>2 DEF EditingInv, Guarded
<1> QED BY <1>1, <1>2, <1>3, <1>4 DEF EditingInv, Guarded

LEMMA EditsWait == EditingInv => EditsWaitForCalls
<1>1. ASSUME part = "content", ContentInv PROVE InLibrary!WaitsForCall
  <2>1. IsCalls(call) /\ AllLive(call)
    BY <1>1 DEF ContentInv, ContentFits
  <2>2. DOMAIN call = 1..Len(call)
    BY <2>1, CallsAreSeq
  <2>3. \A ops : InLibrary!UnderLive(ops) <=> Waits(call, ops)
    BY <2>2 DEF InLibrary!UnderLive, Waits
  <2>4. InLibrary!Writes \cup {"create"} = ContentChanges
    BY DEF InLibrary!Writes, ContentChanges
  <2> QED BY <1>1, <2>3, <2>4 DEF ContentInv, ContentFits, InLibrary!WaitsForCall
<1>2. ASSUME part = "editor", EditorInv PROVE Editor!WaitsForCall
  <2>1. IsCalls(call) /\ AllLive(call)
    BY <1>2 DEF EditorInv, EditorFits
  <2>2. DOMAIN call = 1..Len(call)
    BY <2>1, CallsAreSeq
  <2>3. \A ops : Editor!Under(ops) <=> Waits(call, ops)
    BY <2>1, <2>2 DEF Editor!Under, Waits, AllLive
  <2>4. Waits(call, EditorActions) => Waits(call, {"export"}) \/ Waits(call, {"quality"})
    BY DEF Waits, EditorActions
  <2>5. EditorActions = {"export", "quality"} /\ Editor!None = "none"
    BY DEF EditorActions, Editor!None
  <2> QED BY <1>2, <2>3, <2>4, <2>5 DEF EditorInv, EditorFits, Editor!WaitsForCall
<1>3. ASSUME part = "settings", SettingsInv PROVE Settings!WaitsForCall
  <2>1. IsCalls(call) /\ AllLive(call)
    BY <1>3 DEF SettingsInv, SettingsFits
  <2>2. DOMAIN call = 1..Len(call)
    BY <2>1, CallsAreSeq
  <2>3. \A ops : Settings!Under(ops) <=> Waits(call, ops)
    BY <2>1, <2>2 DEF Settings!Under, Waits, AllLive
  <2> QED BY <1>3, <2>3 DEF SettingsInv, SettingsFits, Settings!WaitsForCall
<1> QED BY <1>1, <1>2, <1>3 DEF EditingInv, EditsWaitForCalls

\* Whatever the order of the answers, and however many are refused or lost: each of
\* the three screens waits only for a call under way, and for that one until it is
\* answered, unless a call threw.
THEOREM EditsAlwaysWait == EditingSpec => []EditsWaitForCalls
BY EditsWait, EditingStarts, EditingGoesOn, PTL DEF EditingSpec

\* Whatever the texts, labels, statuses and values, however calls and answers
\* cross, and however many are refused or lost: an archive is dated and left alone
\* by editors, unless it was archived or restored between the steps of a request;
\* an export writes what was on screen, unless the member saved meanwhile or the
\* content changed elsewhere; and a row of the settings is replaced by a member who
\* has read it, unless it was written elsewhere or its reading failed.
THEOREM WritesAlwaysGuarded == EditingSpec => WritesAreGuarded
<1>1. EditingSpec => [][Guarded]_screen
  BY EditingStarts, EditingGoesOn, PTL DEF EditingSpec
<1> QED BY <1>1 DEF WritesAreGuarded, Guarded
=============================================================================
