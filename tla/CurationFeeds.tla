--------------------------- MODULE CurationFeeds ---------------------------
(***************************************************************************)
(* Feeds and the resources they bring (apps/api/src/curation), for one     *)
(* organization.  A process is the scheduler's importDueFeeds, which reads *)
(* the due feeds and then imports them one by one; or a member who adds a  *)
(* feed, imports one, adds a page by hand, has a resource summarised or    *)
(* uses it for a content.                                                  *)
(*                                                                         *)
(* An import runs under the lease of its feed (ScheduledJobs).  A lease    *)
(* whose renewals are missed is given to another import while the first    *)
(* one goes on (LoseLease).  Time is counted in quarters of an hour, and a *)
(* feed keeps how long it still has to wait.                               *)
(***************************************************************************)
EXTENDS Integers, FiniteSets

CONSTANTS
    Feed,       \* feeds, by URL
    Page,       \* URLs of articles
    Proc,       \* calls under way
    Replica,    \* those of schedulers; the others are of members
    Refused,    \* pages whose address may not be fetched (assertPublicHttpUrl)
    Tag,        \* tags a member gives to a page
    MaxTroubles,    \* bound of the model on failures, refused items and lost leases
    MaxByHand       \* bound of the model on what members ask for

VARIABLES
    feed,       \* the rows of the feeds
    resource,   \* the status of each resource
    tags,       \* the tags of each resource
    lease,      \* the calls that hold the lease of each feed
    req,        \* the calls
    stored,     \* history: how many times each page was inserted
    failed,     \* history: imports of a feed that failed since one succeeded
    troubles, byHand    \* what the bounds count

vars == <<feed, resource, tags, lease, req, stored, failed, troubles, byHand>>

counts == <<troubles, byHand>>

-----------------------------------------------------------------------------
(* The delay before the next attempt, in quarters of an hour.              *)

AtMost(a, b) == IF a < b THEN a ELSE b

Pow2 == <<1, 2, 4, 8, 16, 32, 64>>

Backoff(previousFailures) == AtMost(96, Pow2[AtMost(previousFailures, 6) + 1])

HourBetweenImports == 4

-----------------------------------------------------------------------------

NoFeed == [status |-> "NONE", wait |-> 0, failures |-> 0]

NewFeed == [status |-> "ACTIVE", wait |-> 0, failures |-> 0]

\* No feed waits longer than sixteen hours: the cap of a day is never reached.
FeedRow == [status : {"NONE", "ACTIVE", "ERROR"}, wait : 0..64, failures : Nat]

\* op: the scheduler, or what a member asks for.  queue: the feeds still to be
\* imported.  known: their failures as they were read.  f, todo, got, page: the
\* feed at hand, the items left, those fetched, and the one looked at.
Call == [op : {"job", "import", "page", "summary", "use"},
         stage : {"idle", "next", "fetch", "check", "create", "success", "failure",
                  "byhand", "insert", "tags", "write"},
         queue : SUBSET Feed, known : [Feed -> Nat], f : Feed, todo : SUBSET Page,
         got : SUBSET Page, page : Page, names : SUBSET Tag]

SomePage == CHOOSE u \in Page : TRUE

Idle == [op |-> "job", stage |-> "idle", queue |-> {}, known |-> [f \in Feed |-> 0],
         f |-> CHOOSE f \in Feed : TRUE, todo |-> {}, got |-> {}, page |-> SomePage,
         names |-> {}]

TypeOK ==
    /\ feed \in [Feed -> FeedRow]
    /\ resource \in [Page -> {"NONE", "NEW", "SUMMARIZED", "USED"}]
    /\ tags \in [Page -> SUBSET Tag]
    /\ lease \in [Feed -> SUBSET Proc]
    /\ req \in [Proc -> Call]
    /\ stored \in [Page -> Nat]
    /\ failed \in [Feed -> Nat]
    /\ troubles \in 0..MaxTroubles /\ byHand \in 0..MaxByHand

Init ==
    /\ feed \in [Feed -> {NoFeed, NewFeed}]
    /\ resource = [u \in Page |-> "NONE"]
    /\ tags = [u \in Page |-> {}]
    /\ lease = [f \in Feed |-> {}]
    /\ req = [p \in Proc |-> Idle]
    /\ stored = [u \in Page |-> 0]
    /\ failed = [f \in Feed |-> 0]
    /\ troubles = 0 /\ byHand = 0

-----------------------------------------------------------------------------

At(p, stage) == req[p].stage = stage

Goes(p, stage) == req' = [req EXCEPT ![p].stage = stage]

Ends(p) == req' = [req EXCEPT ![p] = Idle]

Asks(p) == p \notin Replica /\ byHand < MaxByHand /\ byHand' = byHand + 1 /\ UNCHANGED troubles

Troubles == troubles < MaxTroubles /\ troubles' = troubles + 1 /\ UNCHANGED byHand

\* The feed at hand is done with, and its lease released.
Leaves(p) == lease' = [lease EXCEPT ![req[p].f] = @ \ {p}]

\* After a feed: the next one of the job, or the answer to the member.
GoesOn(p) == IF req[p].queue = {} THEN Ends(p) ELSE Goes(p, "next")

Due_ActiveOnly(f) == feed[f].status = "ACTIVE" /\ feed[f].wait = 0

Due(f) == feed[f].status \in {"ACTIVE", "ERROR"} /\ feed[f].wait = 0

\* importDueFeeds: the feeds that are due, as they are now.
ReadDueFeeds(p) ==
    /\ p \in Replica /\ At(p, "idle")
    /\ LET due == {f \in Feed : Due(f)}
       IN  /\ due # {}
           /\ req' = [req EXCEPT ![p] =
                        [Idle EXCEPT !.op = "job", !.stage = "next", !.queue = due,
                                     !.known = [f \in Feed |-> feed[f].failures]]]
    /\ UNCHANGED <<feed, resource, tags, lease, stored, failed, counts>>

Imports(p, f) == [Idle EXCEPT !.op = "import", !.stage = "next", !.queue = {f},
                              !.known = [g \in Feed |-> feed[g].failures]]

\* addRssFeed: a new row, or the one there is, made active again.
AddRssFeed(p, f) ==
    /\ At(p, "idle") /\ Asks(p)
    /\ feed' = [feed EXCEPT ![f].status = "ACTIVE"]
    /\ req' = [req EXCEPT ![p] = Imports(p, f)]
    /\ UNCHANGED <<resource, tags, lease, stored, failed>>

ImportFeed(p, f) ==
    /\ At(p, "idle") /\ Asks(p)
    /\ feed[f].status # "NONE"
    /\ req' = [req EXCEPT ![p] = Imports(p, f)]
    /\ UNCHANGED <<feed, resource, tags, lease, stored, failed>>

\* importFeedResourcesWithLease: with the lease the import begins; without it
\* the job passes on to the next feed, and a member is answered that it is busy.
TakeLease(p) ==
    /\ At(p, "next")
    /\ \E f \in req[p].queue :
        IF lease[f] = {}
        THEN /\ lease' = [lease EXCEPT ![f] = {p}]
             /\ req' = [req EXCEPT ![p].stage = "fetch", ![p].f = f, ![p].queue = @ \ {f}]
        ELSE /\ req' = [req EXCEPT ![p] = IF req[p].queue = {f} THEN Idle
                                          ELSE [req[p] EXCEPT !.queue = @ \ {f}]]
             /\ UNCHANGED lease
    /\ UNCHANGED <<feed, resource, tags, stored, failed, counts>>

\* The feed is fetched: it holds any pages.
Fetch(p) ==
    /\ At(p, "fetch")
    /\ \E items \in SUBSET Page :
        /\ req' = [req EXCEPT ![p].stage = "check", ![p].todo = items, ![p].got = items]
        /\ IF items \cap Refused = {} THEN UNCHANGED counts ELSE Troubles
    /\ UNCHANGED <<feed, resource, tags, lease, stored, failed>>

OfItem(u) ==
    IF u \in Refused THEN "failure" ELSE IF resource[u] # "NONE" THEN "check" ELSE "create"

\* The next item: refused, already there, or to be stored.
CheckItem(p) ==
    /\ At(p, "check")
    /\ \E u \in req[p].todo :
        req' = [req EXCEPT ![p].todo = @ \ {u}, ![p].page = u,
                           ![p].stage = OfItem(u)]
    /\ UNCHANGED <<feed, resource, tags, lease, stored, failed, counts>>

\* The unique index (organization, url).

IsNew(u) == resource[u] = "NONE"

Stores(u) ==
    /\ resource' = [resource EXCEPT ![u] = "NEW"]
    /\ stored' = [stored EXCEPT ![u] = @ + 1]

\* A refused insert goes to the catch, like any other error.
CreateItem(p) ==
    /\ At(p, "create")
    /\ IF IsNew(req[p].page)
       THEN Stores(req[p].page) /\ Goes(p, "check")
       ELSE Goes(p, "failure") /\ UNCHANGED <<resource, stored>>
    /\ UNCHANGED <<feed, tags, lease, failed, counts>>

AllItemsSeen(p) ==
    /\ At(p, "check") /\ req[p].todo = {}
    /\ Goes(p, "success")
    /\ UNCHANGED <<feed, resource, tags, lease, stored, failed, counts>>

RecordSuccess(p) ==
    /\ At(p, "success")
    /\ feed' = [feed EXCEPT ![req[p].f] =
                  [status |-> "ACTIVE", wait |-> HourBetweenImports, failures |-> 0]]
    /\ failed' = [failed EXCEPT ![req[p].f] = 0]
    /\ Leaves(p) /\ GoesOn(p)
    /\ UNCHANGED <<resource, tags, stored, counts>>

FailuresAfter_Read(p) == req[p].known[req[p].f] + 1

FailuresAfter(p) == feed[req[p].f].failures + 1

\* The catch: the count is incremented by the database, the delay computed from
\* the failures that were read with the feed.
RecordFailure(p) ==
    /\ At(p, "failure")
    /\ feed' = [feed EXCEPT ![req[p].f] =
                  [status |-> "ERROR", wait |-> Backoff(req[p].known[req[p].f]),
                   failures |-> FailuresAfter(p)]]
    /\ failed' = [failed EXCEPT ![req[p].f] = @ + 1]
    /\ Leaves(p) /\ GoesOn(p)
    /\ UNCHANGED <<resource, tags, stored, counts>>

\* A fetch or a statement inside the try fails.
Throws(p) ==
    /\ req[p].stage \in {"fetch", "check", "create", "success"}
    /\ Troubles
    /\ Goes(p, "failure")
    /\ UNCHANGED <<feed, resource, tags, lease, stored, failed>>

\* The server stops, or the statement of the catch fails; the lease of the call
\* ends by itself.
Dies(p) ==
    /\ ~At(p, "idle")
    /\ Troubles
    /\ Ends(p)
    /\ lease' = [f \in Feed |-> lease[f] \ {p}]
    /\ UNCHANGED <<feed, resource, tags, stored, failed>>

\* Renewals are missed: the lease is swept while its call goes on.
LoseLease(p) ==
    /\ Troubles
    /\ \E f \in Feed : p \in lease[f] /\ lease' = [lease EXCEPT ![f] = @ \ {p}]
    /\ UNCHANGED <<feed, resource, tags, req, stored, failed>>

-----------------------------------------------------------------------------
(* Pages added by hand, summaries and uses.                                *)

\* addResourceUrl, up to the look for the page; a page already there is signalled.
AddResourceUrl(p, u) ==
    /\ At(p, "idle") /\ Asks(p)
    /\ u \notin Refused /\ resource[u] = "NONE"
    /\ \E names \in SUBSET Tag :
        req' = [req EXCEPT ![p] = [Idle EXCEPT !.op = "page", !.stage = "insert",
                                               !.page = u, !.names = names]]
    /\ UNCHANGED <<feed, resource, tags, lease, stored, failed>>

\* Its metadata are fetched, for seconds, then it is stored.
InsertPage(p) ==
    /\ At(p, "insert")
    /\ IF IsNew(req[p].page)
       THEN Stores(req[p].page) /\ Goes(p, "tags")
       ELSE Ends(p) /\ UNCHANGED <<resource, stored>>
    /\ UNCHANGED <<feed, tags, lease, failed, counts>>

\* syncResourceTags: tag by tag.
SyncResourceTags(p) ==
    /\ At(p, "tags")
    /\ \/ /\ req[p].names = {}
          /\ Ends(p)
          /\ UNCHANGED tags
       \/ \E t \in req[p].names :
            /\ tags' = [tags EXCEPT ![req[p].page] = @ \cup {t}]
            /\ req' = [req EXCEPT ![p].names = @ \ {t}]
    /\ UNCHANGED <<feed, resource, lease, stored, failed, counts>>

\* summarizeResource and useResourceForGeneration: the resource is read, the
\* provider is asked, and the status is written by id, whatever it has become.
AskProvider(p, u) ==
    /\ At(p, "idle") /\ Asks(p)
    /\ resource[u] # "NONE"
    /\ \E op \in {"summary", "use"} :
        req' = [req EXCEPT ![p] = [Idle EXCEPT !.op = op, !.stage = "write", !.page = u]]
    /\ UNCHANGED <<feed, resource, tags, lease, stored, failed>>

WriteResource(p) ==
    /\ At(p, "write")
    /\ resource' = [resource EXCEPT ![req[p].page] =
                      IF req[p].op = "summary" THEN "SUMMARIZED" ELSE "USED"]
    /\ Ends(p)
    /\ UNCHANGED <<feed, tags, lease, stored, failed, counts>>

-----------------------------------------------------------------------------

\* Time passes until another feed is due; nothing looks at a delay before.
Tick ==
    /\ \E soon \in {feed[f].wait : f \in Feed} \ {0} :
        /\ \A f \in Feed : feed[f].wait \in 1..soon => feed[f].wait = soon
        /\ feed' = [f \in Feed |-> [feed[f] EXCEPT !.wait = IF @ > 0 THEN @ - soon ELSE 0]]
    /\ UNCHANGED <<resource, tags, lease, req, stored, failed, counts>>

Step(p) ==
    \/ TakeLease(p) \/ Fetch(p) \/ CheckItem(p) \/ CreateItem(p) \/ AllItemsSeen(p)
    \/ RecordSuccess(p) \/ RecordFailure(p)
    \/ InsertPage(p) \/ SyncResourceTags(p) \/ WriteResource(p)

ByHand(p) ==
    \/ \E f \in Feed : AddRssFeed(p, f) \/ ImportFeed(p, f)
    \/ \E u \in Page : AddResourceUrl(p, u) \/ AskProvider(p, u)

Next ==
    \/ \E p \in Proc : ReadDueFeeds(p) \/ ByHand(p) \/ Step(p) \/ Throws(p) \/ Dies(p) \/ LoseLease(p)
    \/ Tick

Spec == Init /\ [][Next]_vars

\* The clock runs, the scheduler keeps calling, and a call that is not killed
\* makes its next statement: its fetches have timeouts.
Fairness ==
    /\ WF_vars(Tick)
    /\ \A p \in Proc : WF_vars(ReadDueFeeds(p) \/ Step(p))

FairSpec == Spec /\ Fairness

-----------------------------------------------------------------------------
(* Properties.                                                             *)

\* docs/specs/30-features-v2/01-curation-veille.md:84: an import creates no
\* duplicate.  A page is stored once, whichever feeds carry it, however often
\* they are imported, with a lease that holds or not, and with a member who
\* adds it by hand meanwhile.
StoredOnce == \A u \in Page : stored[u] <= 1

\* A feed that reports success has nothing of its last fetch missing: the items
\* that the import found there already, and those that it stored.
SuccessHasAll ==
    \A p \in Proc : At(p, "success") => \A u \in req[p].got : resource[u] # "NONE"

\* An import leaves the work done on a resource alone: what is summarised or
\* used does not become new again because a feed still carries it.
KeepsWork ==
    \A u \in Page : resource[u] # "NONE" => resource'[u] # "NEW" \/ resource[u] = "NEW"

WorkIsKept == [][KeepsWork]_vars

\* The failures in a row of a feed are counted, also when two imports of it
\* overlap after a lost lease and both fail.
FailuresCounted == \A f \in Feed : feed[f].failures = failed[f]

\* A feed in error comes back when what it carries can be fetched: a failed
\* import, a conflict on a shared article, a crash or a lost lease delays it
\* only.
ErrorRecovers ==
    \A f \in Feed : []<>(feed[f].status # "ERROR")
=============================================================================
