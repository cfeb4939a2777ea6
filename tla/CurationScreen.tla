--------------------------- MODULE CurationScreen ---------------------------
(***************************************************************************)
(* The page of curation on screen (apps/web, curation): pages added by     *)
(* hand, feeds, summaries, and a draft generated from a resource, which is *)
(* kept nowhere until it is saved in the library.  Several of these go on  *)
(* at the same time: the screen remembers the last one only (busyKey).     *)
(* What feeds import is in CurationFeeds; here an import brings resources. *)
(***************************************************************************)
EXTENDS ScreenCalls, FiniteSets

CONSTANTS
    Resource,   \* resources that may be added
    Feed

Status == {"NEW", "SUMMARIZED", "USED"}

Row == [id : Resource, status : Status]

Key == [op : {"add", "addFeed", "importFeed", "summarize", "use", "save"},
        of : Resource \cup Feed \cup {"-"}]

NoKey == [op |-> "none", of |-> "-"]

\* A draft, and the content that it is said to be saved as; 0 is none.
Draft == [number : Nat, savedAs : Nat]

NoDraft == [number |-> 0, savedAs |-> 0]

View == [resources : Seq(Row), feeds : SUBSET Feed, loading : BOOLEAN, failed : BOOLEAN,
         busy : Key \cup {NoKey}, draft : Draft]

\* stale: what is listed may not be what the API holds.  stuck: an answer never
\* came.  mixed: a draft was generated while another was saved.
Past == [stale : BOOLEAN, stuck : BOOLEAN, mixed : BOOLEAN]

\* drafts: how many were generated.  saved: the draft of each content saved.
TypeOK ==
    /\ view \in View /\ past \in Past
    /\ server.rows \subseteq Row /\ server.feeds \subseteq Feed
    /\ server.drafts \in Nat /\ server.saved \in Seq(Nat)
    /\ asked \in Nat /\ troubles \in Nat

Load == Call("load", NoKey)

Init ==
    /\ \E feeds \in SUBSET Feed, old \in SUBSET Resource :
        server = [rows |-> {[id |-> x, status |-> "NEW"] : x \in old}, feeds |-> feeds,
                  drafts |-> 0, saved |-> <<>>]
    /\ view = [resources |-> <<>>, feeds |-> {}, loading |-> TRUE, failed |-> FALSE,
               busy |-> NoKey, draft |-> NoDraft]
    /\ call = <<Load>>
    /\ past = [stale |-> FALSE, stuck |-> FALSE, mixed |-> FALSE]
    /\ asked = 0 /\ troubles = 0

-----------------------------------------------------------------------------
(* The API.                                                                *)

Put(row) == {r \in server.rows : r.id # row.id} \cup {row}

\* The resources, the newest first: any order, here.
Found ==
    CHOOSE s \in [1..Cardinality(server.rows) -> server.rows] : ItemsOf(s) = server.rows

ListCuration(i) ==
    /\ call[i].op \in {"load", "reload"}
    /\ Serves(i, [rows |-> Found, feeds |-> server.feeds]) /\ UNCHANGED server

\* A page that is there is refused.
AddResource(i) ==
    /\ call[i].op = "add"
    /\ LET row == [id |-> call[i].arg.of, status |-> "NEW"]
       IN  IF \E r \in server.rows : r.id = row.id THEN NotFound(i)
           ELSE server' = [server EXCEPT !.rows = Put(row)] /\ Serves(i, row)

ImportFeed(i) ==
    /\ call[i].op \in {"addFeed", "importFeed"}
    /\ \E new \in SUBSET (Resource \ {r.id : r \in server.rows}) :
        server' = [server EXCEPT !.feeds = @ \cup {call[i].arg.of},
                                 !.rows = @ \cup {[id |-> x, status |-> "NEW"] : x \in new}]
    /\ Serves(i, <<>>)

Summarize(i) ==
    /\ call[i].op = "summarize"
    /\ LET row == [id |-> call[i].arg.of, status |-> "SUMMARIZED"]
       IN  server' = [server EXCEPT !.rows = Put(row)] /\ Serves(i, row)

UseForGeneration(i) ==
    /\ call[i].op = "use"
    /\ server' = [server EXCEPT !.rows = Put([id |-> call[i].arg.of, status |-> "USED"]),
                                !.drafts = @ + 1]
    /\ Serves(i, server.drafts + 1)

\* The same draft may be saved twice.
SaveContent(i) ==
    /\ call[i].op = "save"
    /\ server' = [server EXCEPT !.saved = Append(@, call[i].arg.draft)]
    /\ Serves(i, Len(server.saved) + 1)

Serve(i) ==
    /\ call[i].state = "sent"
    /\ \/ ListCuration(i) \/ AddResource(i) \/ ImportFeed(i) \/ Summarize(i)
       \/ UseForGeneration(i) \/ SaveContent(i)

-----------------------------------------------------------------------------
(* What the member does.                                                   *)

Changing == {"add", "addFeed", "importFeed", "summarize", "use"}

Reading == {"load", "reload"}

\* A reading that fails leaves the page empty.
IsOpen == ~view.loading /\ ~(view.failed /\ view.resources = <<>> /\ view.feeds = {})

\* A button waits for its own operation only while no other was started.
Starts(key, arg) ==
    /\ Asks /\ IsOpen /\ view.busy # key
    /\ view' = [view EXCEPT !.busy = key]
    /\ call' = Append(call, Call(key.op, arg))
    /\ past' = [past EXCEPT !.stale = @ \/ (key.op \in Changing /\ Under(Reading))]

Does(op, x) == LET key == [op |-> op, of |-> x] IN Starts(key, key)

HandleAddResource == \E x \in Resource : Does("add", x)

HandleAddFeed == \E f \in Feed : Does("addFeed", f)

HandleImportFeed == \E f \in view.feeds : Does("importFeed", f)

HandleSummarize == \E r \in ItemsOf(view.resources) : Does("summarize", r.id)

HandleUseResource == \E r \in ItemsOf(view.resources) : Does("use", r.id)

HandleSaveDraft ==
    /\ view.draft # NoDraft
    /\ Starts([op |-> "save", of |-> "-"], [draft |-> view.draft.number])

-----------------------------------------------------------------------------
(* What the answers do.                                                    *)

Throws(i) ==
    /\ call[i].state = "thrown" /\ call' = Rest(i)
    /\ past' = [past EXCEPT !.stale = TRUE, !.stuck = TRUE]
    /\ UNCHANGED view

IsRefused(i) ==
    /\ call[i].state = "error" /\ call' = Rest(i)
    /\ view' = [view EXCEPT !.busy = NoKey]
    /\ UNCHANGED past

Listed(v, answer) == [v EXCEPT !.resources = answer.rows, !.feeds = answer.feeds, !.failed = FALSE]

LoadAnswer(i) ==
    /\ Takes(i, "load")
    /\ \/ /\ call[i].state = "ok" /\ call' = Rest(i)
          /\ view' = [Listed(view, call[i].answer) EXCEPT !.loading = FALSE]
          /\ UNCHANGED past
       \/ /\ call[i].state = "error" /\ call' = Rest(i)
          /\ view' = [view EXCEPT !.loading = FALSE, !.failed = TRUE]
          /\ past' = [past EXCEPT !.stale = TRUE]
       \/ Throws(i)

\* reload waits for nothing and holds nothing.
ReloadAnswer(i) ==
    /\ Takes(i, "reload") /\ call' = Rest(i)
    /\ IF call[i].state = "ok" THEN view' = Listed(view, call[i].answer) /\ UNCHANGED past
       ELSE past' = [past EXCEPT !.stale = TRUE] /\ UNCHANGED view

\* The list is read again.
ThenReads(i) == Append(Rest(i), Call("reload", NoKey))

CrossedBy(i) == \E j \in DOMAIN call \ {i} : call[j].op \in Changing \cup Reading

FeedAnswer(i) ==
    /\ call[i].op \in {"addFeed", "importFeed"} /\ Takes(i, call[i].op)
    /\ \/ /\ call[i].state = "ok" /\ call' = ThenReads(i)
          /\ view' = [view EXCEPT !.busy = NoKey]
          /\ past' = [past EXCEPT !.stale = @ \/ CrossedBy(i)]
       \/ IsRefused(i)
       \/ Throws(i)

AddAnswer(i) ==
    /\ Takes(i, "add")
    /\ \/ /\ call[i].state = "ok" /\ call' = Rest(i)
          /\ view' = [view EXCEPT !.busy = NoKey, !.resources = <<call[i].answer>> \o @]
          /\ UNCHANGED past
       \/ IsRefused(i)
       \/ Throws(i)

SummarizeAnswer(i) ==
    /\ Takes(i, "summarize")
    /\ \/ /\ call[i].state = "ok" /\ call' = Rest(i)
          /\ view' = [view EXCEPT !.busy = NoKey,
                !.resources = [j \in DOMAIN @ |->
                                IF @[j].id = call[i].answer.id THEN call[i].answer ELSE @[j]]]
          /\ past' = [past EXCEPT !.stale = @ \/ CrossedBy(i)]
       \/ IsRefused(i)
       \/ Throws(i)

UseAnswer(i) ==
    /\ Takes(i, "use")
    /\ \/ /\ call[i].state = "ok" /\ call' = ThenReads(i)
          /\ view' = [view EXCEPT !.busy = NoKey,
                                  !.draft = [number |-> call[i].answer, savedAs |-> 0]]
          /\ past' = [past EXCEPT !.stale = @ \/ CrossedBy(i), !.mixed = @ \/ Under({"save"})]
       \/ IsRefused(i)
       \/ Throws(i)

\* The draft on screen gets the link, whichever it is.
SaveAnswer(i) ==
    /\ Takes(i, "save")
    /\ \/ /\ call[i].state = "ok" /\ call' = Rest(i)
          /\ view' = [view EXCEPT !.busy = NoKey, !.draft.savedAs = call[i].answer]
          /\ UNCHANGED past
       \/ IsRefused(i)
       \/ Throws(i)

Member ==
    \/ HandleAddResource \/ HandleAddFeed \/ HandleImportFeed \/ HandleSummarize
    \/ HandleUseResource \/ HandleSaveDraft

Answer(i) ==
    \/ LoadAnswer(i) \/ ReloadAnswer(i) \/ FeedAnswer(i) \/ AddAnswer(i)
    \/ SummarizeAnswer(i) \/ UseAnswer(i) \/ SaveAnswer(i)

Next ==
    \/ Member
    \/ \E i \in DOMAIN call : Serve(i) \/ Refuses(i) \/ Breaks(i) \/ Answer(i)

Spec == Init /\ [][Next]_screenVars

-----------------------------------------------------------------------------

\* At rest the resources and the feeds on screen are those of the organization,
\* each once and with its status, unless a reading failed or crossed a change.
\* A draft is said to be saved as a content made from it, unless it was generated
\* while another was being saved.
ShowsTheCuration ==
    /\ call = <<>> /\ ~past.stale =>
        /\ ItemsOf(view.resources) = server.rows /\ Len(view.resources) = Cardinality(server.rows)
        /\ view.feeds = server.feeds
    /\ view.draft.savedAs # 0 /\ ~past.mixed =>
        server.saved[view.draft.savedAs] = view.draft.number

\* The screen waits only for an operation under way, unless one threw.
WaitsForCall ==
    ~past.stuck =>
        /\ view.loading <=> Under({"load"})
        /\ view.busy # NoKey => \E i \in DOMAIN call :
            call[i].op = view.busy.op /\ (call[i].op # "save" => call[i].arg = view.busy)
=============================================================================
