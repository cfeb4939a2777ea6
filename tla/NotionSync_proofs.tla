------------------------- MODULE NotionSync_proofs -------------------------
(***************************************************************************)
(* Proofs about NotionSync, for any number of requests, pages, edits and   *)
(* plans.                                                                  *)
(*                                                                         *)
(* What carries them is that a page never changes without a later date     *)
(* (PagesMove): whoever finds the date it remembers finds the page it      *)
(* remembers.  And the state only changes under the lock (OneHolder), by   *)
(* the request that has read it there (SeesState).                         *)
(***************************************************************************)
EXTENDS NotionSync, FiniteSetTheorems, WellFoundedInduction, TLAPS

Stage == {"idle", "listed", "retrieve", "write", "clear", "append", "reread", "save", "pull"}

OneHolder == \A p, q \in Proc : Holds(p) /\ Holds(q) => p = q

PagesAreOld == \A g \in Page : page[g].edited <= now

StateIsOld == state # NoState => Made(state.page) /\ state.edited <= page[state.page].edited

-----------------------------------------------------------------------------
(* What a request knows of the state and of its page.                      *)

SeesState(p) == Holds(p) => req[p].seen = state

OnItsPage(p) ==
    Inside(p) /\ req[p].seen # NoState =>
        /\ state # NoState
        /\ state.page = req[p].seen.page
        /\ req[p].page = req[p].seen.page

NoPageYet(p) ==
    Inside(p) /\ ~Writing(p) /\ req[p].seen = NoState =>
        req[p].stage = "write" /\ req[p].page = None

OnAPage(p) == Writing(p) => req[p].page # None /\ Made(req[p].page)

\* What it remembers of the page is no later than the page, and no earlier
\* than what the state says.
GotInTime(p) ==
    Writing(p) \/ req[p].stage = "pull" =>
        /\ req[p].got.edited <= page[req[p].page].edited
        /\ Holds(p) /\ state # NoState => state.edited <= req[p].got.edited

Decided(p) ==
    /\ req[p].stage = "pull" => ~KeepsLocal(p, req[p].got)
    /\ req[p].stage = "write" /\ req[p].rule # "EXPORT" /\ req[p].seen # NoState =>
           KeepsLocal(p, req[p].got)

SameDate(p) == page[req[p].page].edited = req[p].got.edited

GotThePage(p) == req[p].stage = "pull" /\ SameDate(p) => page[req[p].page] = req[p].got

PushedResource(p) ==
    kind = "RESOURCE" /\ Writing(p) =>
        /\ req[p].stage = "save"
        /\ SameDate(p) => page[req[p].page].text = req[p].snap.text

PushedContent(p) ==
    kind = "CONTENT" /\ Writing(p) /\ p \in clean =>
        LET remote == page[req[p].page]
            snap == req[p].snap
        IN  /\ req[p].stage # "save" \/ SameDate(p) =>
                   remote.text = snap.text /\ remote.date = First(snap).date
            /\ req[p].stage = "append" => remote.body \subseteq {Hand}
            /\ req[p].stage \in {"reread", "save"} =>
                   Hand \in remote.body \/ remote.body = {snap.body}

Knows(p) ==
    /\ SeesState(p)
    /\ OnItsPage(p)
    /\ NoPageYet(p)
    /\ OnAPage(p)
    /\ GotInTime(p)
    /\ Decided(p)
    /\ GotThePage(p)
    /\ PushedResource(p)
    /\ PushedContent(p)

-----------------------------------------------------------------------------
(* What the state says of its page.                                        *)

FinitePlans == IsFiniteSet(item.plans)

UpToDate == kind = "CONTENT" => ~behind

StatesProperties ==
    state # NoState /\ page[state.page].edited = state.edited /\ UpToDate =>
        LET remote == page[state.page] IN
        /\ remote.text = state.hash.text \/ ~Readable(remote.text)
        /\ kind = "CONTENT" => remote.date = state.hash.first.date

StatesBody ==
    state # NoState /\ kind = "CONTENT" /\ ~behind /\ (\A p \in Proc : ~Writing(p)) =>
        LET remote == page[state.page] IN
        Hand \in remote.body \/ remote.body = {state.hash.body}

SyncInv ==
    /\ TypeOK
    /\ OneHolder
    /\ PagesAreOld
    /\ StateIsOld
    /\ \A p \in Proc : Knows(p)
    /\ FinitePlans
    /\ StatesProperties
    /\ StatesBody
    /\ NoPageLost

-----------------------------------------------------------------------------
(* Data.                                                                   *)

LEMMA Constants ==
  /\ NoState \notin State
  /\ \A s \in State : s # NoState /\ s.page # None /\ s.page \in Page
  /\ NoState.page = None
  /\ SomeItem \in Item
  /\ NoRemote \in Remote
  /\ Idle \in Request
<1>1. \A s \in State : s.page \in Page
  BY DEF State
<1>2. NoState.page = None
  BY DEF NoState
<1>3. \A s \in State : s # NoState /\ s.page # None
  BY <1>1, <1>2, SyncAssumption
<1>4. SomeItem \in Item
  <2>1. (CHOOSE b \in Body : TRUE) \in Body
    BY SyncAssumption
  <2> QED BY <2>1, SyncAssumption DEF SomeItem, Item
<1>5. NoRemote \in Remote
  BY DEF NoRemote, Remote
<1>6. Idle \in Request
  BY <1>4, <1>5 DEF Idle, Request, Rule
<1> QED BY <1>1, <1>2, <1>3, <1>4, <1>5, <1>6

LEMMA Smallest ==
  ASSUME NEW S \in SUBSET Nat, S # {}
  PROVE  \E n \in S : \A m \in S : n <= m
<1> DEFINE Less == {ss \in Nat \X Nat : ss[1] < ss[2]}
<1>1. IsWellFoundedOn(Less, Nat)
  BY NatLessThanWellFounded DEF OpToRel
<1> HIDE DEF Less
<1>2. PICK n \in S : \A m \in S : <<m, n>> \notin Less
  BY <1>1, WFMin
<1>3. ASSUME NEW m \in S PROVE n <= m
  <2>1. <<m, n>> \in Nat \X Nat /\ <<m, n>>[1] = m /\ <<m, n>>[2] = n
    OBVIOUS
  <2>2. ~(m < n)
    BY <1>2, <2>1 DEF Less
  <2> QED BY <2>2
<1> QED BY <1>3

\* A content with plans has a first one.
LEMMA FirstIsThere ==
  ASSUME NEW i, i.plans \in SUBSET PlanRow
  PROVE  /\ i.plans = {} => First(i) = NoPlan
         /\ i.plans # {} => First(i) \in i.plans
         /\ First(i) \in PlanRow \cup {NoPlan}
<1> SUFFICES ASSUME i.plans # {} PROVE First(i) \in i.plans
  BY DEF First
<1> DEFINE Dates == {r.date : r \in i.plans}
<1>1. Dates \in SUBSET Nat /\ Dates # {}
  BY SyncAssumption DEF PlanRow
<1>2. PICK d \in Dates : \A e \in Dates : d <= e
  BY <1>1, Smallest
<1> DEFINE Ats == {r.at : r \in {o \in i.plans : o.date = d}}
<1>3. Ats \in SUBSET Nat /\ Ats # {}
  BY DEF PlanRow
<1>4. PICK a \in Ats : \A b \in Ats : a <= b
  BY <1>3, Smallest
<1>5. PICK r \in i.plans : r.date = d /\ r.at = a
  OBVIOUS
<1>6. ASSUME NEW o \in i.plans
      PROVE  r.date < o.date \/ (r.date = o.date /\ r.at <= o.at)
  <2>1. r.date \in Nat /\ o.date \in Nat /\ o.date \in Dates
    BY <1>1
  <2>2. CASE o.date = d
    BY <1>4, <1>5, <2>2
  <2>3. CASE o.date # d
    BY <1>2, <1>5, <2>1, <2>3
  <2> QED BY <2>2, <2>3
<1> QED BY <1>6 DEF First

LEMMA HashHasType ==
  ASSUME NEW i \in Item
  PROVE  Hash(i) \in Hashed
<1>1. First(i) \in PlanRow \cup {NoPlan}
  BY FirstIsThere DEF Item
<1> QED BY <1>1 DEF Hash, Hashed, Item

-----------------------------------------------------------------------------
(* What each step makes of the request it serves.                          *)

\* A request is replaced by another of its type, and the others stay.
Becomes(p, r) ==
    /\ r \in Request
    /\ req' = [req EXCEPT ![p] = r]
    /\ req' \in [Proc -> Request]
    /\ req'[p] = r
    /\ \A q \in Proc \ {p} : req'[q] = req[q]

LEMMA Replaced ==
  ASSUME TypeOK, NEW p \in Proc, NEW r \in Request, req' = [req EXCEPT ![p] = r]
  PROVE  Becomes(p, r)
BY DEF TypeOK, Becomes

LEMMA EndsRequest ==
  ASSUME TypeOK, NEW p \in Proc, Ends(p)
  PROVE  Becomes(p, Idle)
BY Constants, Replaced DEF Ends

LEMMA GoesOn ==
  ASSUME TypeOK, NEW p \in Proc, NEW stage \in Stage, Goes(p, stage)
  PROVE  Becomes(p, [req[p] EXCEPT !.stage = stage])
<1> DEFINE r == [req[p] EXCEPT !.stage = stage]
<1>1. r \in Request
  BY DEF TypeOK, Request, Stage
<1>2. req' = [req EXCEPT ![p] = r]
  BY DEF Goes
<1>3. Becomes(p, r)
  <2> HIDE DEF r
  <2> QED BY <1>1, <1>2, Replaced
<1> QED BY <1>3

LEMMA AskRequest ==
  ASSUME TypeOK, NEW p \in Proc, Ask(p)
  PROVE  \E rule \in Rule \cup {"EXPORT"} :
            Becomes(p, [Idle EXCEPT !.stage = "listed", !.rule = rule, !.snap = item])
<1>1. PICK rule \in Rule \cup {"EXPORT"} :
        req' = [req EXCEPT ![p] = [Idle EXCEPT !.stage = "listed", !.rule = rule, !.snap = item]]
  BY DEF Ask
<1> DEFINE r == [Idle EXCEPT !.stage = "listed", !.rule = rule, !.snap = item]
<1>2. r \in Request
  BY Constants DEF TypeOK, Request
<1>3. req' = [req EXCEPT ![p] = r]
  BY <1>1
<1>4. Becomes(p, r)
  <2> HIDE DEF r
  <2> QED BY <1>2, <1>3, Replaced
<1> QED BY <1>4

LEMMA LockRequest ==
  ASSUME TypeOK, NEW p \in Proc, LockEntity(p)
  PROVE  Becomes(p, [req[p] EXCEPT
                       !.stage = IF req[p].rule = "EXPORT" \/ state = NoState
                                   THEN "write" ELSE "retrieve",
                       !.began = now + 1, !.open = TRUE,
                       !.seen = state, !.page = state.page])
<1> DEFINE s == IF req[p].rule = "EXPORT" \/ state = NoState THEN "write" ELSE "retrieve"
<1> DEFINE r == [req[p] EXCEPT !.stage = s, !.began = now + 1, !.open = TRUE,
                               !.seen = state, !.page = state.page]
<1>1. state.page \in Page \cup {None}
  BY Constants DEF TypeOK
<1>2. r \in Request
  <2>1. /\ req[p] \in Request /\ state \in State \cup {NoState}
        /\ now + 1 \in Nat /\ s \in {"write", "retrieve"}
    BY DEF TypeOK
  <2> HIDE DEF s
  <2> QED BY <1>1, <2>1 DEF Request
<1>3. req' = [req EXCEPT ![p] = r]
  BY DEF LockEntity, TypeOK
<1>4. Becomes(p, r)
  <2> HIDE DEF r
  <2> QED BY <1>2, <1>3, Replaced
<1> QED BY <1>4

\* The page that a request works on, or pulls from.
LEMMA ItsPage ==
  ASSUME TypeOK, NEW p \in Proc, Knows(p), Inside(p), req[p].stage # "write" \/ req[p].page # None
  PROVE  req[p].page \in Page
<1>1. req[p].page \in Page \cup {None} /\ req[p].seen \in State \cup {NoState}
  BY DEF TypeOK, Request
<1>2. CASE Writing(p)
  BY <1>1, <1>2 DEF Knows, OnAPage
<1>3. CASE ~Writing(p) /\ req[p].seen # NoState
  BY <1>1, <1>3, Constants DEF Knows, OnItsPage
<1>4. CASE ~Writing(p) /\ req[p].seen = NoState
  BY <1>1, <1>4 DEF Knows, NoPageYet
<1> QED BY <1>2, <1>3, <1>4

LEMMA PageHasType ==
  ASSUME TypeOK, NEW p \in Proc, NEW g \in Page
  PROVE  page[g] \in Remote /\ req[p] \in Request
BY DEF TypeOK

LEMMA DecidedRequest ==
  ASSUME TypeOK, NEW p \in Proc, NEW stage \in Stage, NEW remote \in Remote,
         req' = [req EXCEPT ![p].stage = stage, ![p].got = remote]
  PROVE  Becomes(p, [req[p] EXCEPT !.stage = stage, !.got = remote])
<1> DEFINE r == [req[p] EXCEPT !.stage = stage, !.got = remote]
<1>1. r \in Request
  BY DEF TypeOK, Request, Stage
<1>2. req' = [req EXCEPT ![p] = r]
  BY DEF TypeOK
<1>3. Becomes(p, r)
  <2> HIDE DEF r
  <2> QED BY <1>1, <1>2, Replaced
<1> QED BY <1>3

LEMMA ReconcileRequest ==
  ASSUME TypeOK, NEW p \in Proc, Knows(p), Reconcile(p)
  PROVE  LET remote == page[req[p].page] IN
         \/ /\ KeepsLocal(p, remote)
            /\ Becomes(p, [req[p] EXCEPT !.stage = "write", !.got = remote])
         \/ Becomes(p, Idle)
         \/ /\ ~KeepsLocal(p, remote)
            /\ Becomes(p, [req[p] EXCEPT !.stage = "pull", !.got = remote])
<1> DEFINE remote == page[req[p].page]
<1>1. req[p].page \in Page
  BY ItsPage DEF Reconcile, Inside
<1>2. remote \in Remote
  BY <1>1, PageHasType
<1> HIDE DEF remote
<1>3. \/ /\ KeepsLocal(p, remote)
         /\ req' = [req EXCEPT ![p].stage = "write", ![p].got = remote]
      \/ Ends(p)
      \/ /\ ~KeepsLocal(p, remote)
         /\ req' = [req EXCEPT ![p].stage = "pull", ![p].got = remote]
  BY DEF Reconcile, remote
<1>4. "write" \in Stage /\ "pull" \in Stage
  BY DEF Stage
<1>5. \/ /\ KeepsLocal(p, remote)
         /\ Becomes(p, [req[p] EXCEPT !.stage = "write", !.got = remote])
      \/ Becomes(p, Idle)
      \/ /\ ~KeepsLocal(p, remote)
         /\ Becomes(p, [req[p] EXCEPT !.stage = "pull", !.got = remote])
  BY <1>2, <1>3, <1>4, DecidedRequest, EndsRequest
<1> QED BY <1>5 DEF remote

\* A push notes the page and the date that a call has given to it.
LEMMA NotedRequest ==
  ASSUME TypeOK, NEW p \in Proc, NEW stage \in Stage, NEW g \in Page, NEW e \in Nat,
         \/ req' = [req EXCEPT ![p].stage = stage, ![p].page = g, ![p].got.edited = e]
         \/ /\ g = req[p].page
            /\ req' = [req EXCEPT ![p].stage = stage, ![p].got.edited = e]
  PROVE  Becomes(p, [req[p] EXCEPT !.stage = stage, !.page = g,
                                   !.got = [req[p].got EXCEPT !.edited = e]])
<1> DEFINE got == [req[p].got EXCEPT !.edited = e]
           r == [req[p] EXCEPT !.stage = stage, !.page = g, !.got = got]
<1>1. req[p] \in Request
  BY DEF TypeOK
<1>2. got \in Remote
  BY <1>1 DEF Request, Remote
<1>3. r \in Request
  <2> HIDE DEF got
  <2> QED BY <1>1, <1>2 DEF Request, Stage
<1>4. req' = [req EXCEPT ![p] = r]
  <2>1. CASE req' = [req EXCEPT ![p].stage = stage, ![p].page = g, ![p].got.edited = e]
    BY <1>1, <2>1 DEF TypeOK, Request
  <2>2. CASE /\ g = req[p].page
             /\ req' = [req EXCEPT ![p].stage = stage, ![p].got.edited = e]
    <3>1. req' = [req EXCEPT ![p] = [req[p] EXCEPT !.stage = stage, !.got = got]]
      BY <1>1, <2>2 DEF TypeOK
    <3>2. [req[p] EXCEPT !.stage = stage, !.got = got] = r
      <4> HIDE DEF got
      <4> QED BY <1>1, <2>2 DEF Request
    <3> QED BY <3>1, <3>2
  <2> QED BY <2>1, <2>2
<1>5. Becomes(p, r)
  <2> HIDE DEF r
  <2> QED BY <1>3, <1>4, Replaced
<1> QED BY <1>5

-----------------------------------------------------------------------------
(* What each step makes of the pages.                                      *)

PagesMove ==
    /\ page' \in [Page -> Remote]
    /\ now' \in Nat
    /\ now <= now'
    /\ \A g \in Page : page'[g] = page[g] \/ (now < page'[g].edited /\ page'[g].edited <= now')

LEMMA PageReplaced ==
  ASSUME TypeOK, NEW g \in Page, NEW r \in Remote, now < r.edited, now' = r.edited,
         page' = [page EXCEPT ![g] = r]
  PROVE  /\ page'[g] = r
         /\ \A h \in Page \ {g} : page'[h] = page[h]
         /\ PagesMove
<1>1. page'[g] = r /\ page' \in [Page -> Remote] /\ \A h \in Page \ {g} : page'[h] = page[h]
  BY DEF TypeOK
<1>2. r.edited \in Nat /\ now \in Nat
  BY DEF TypeOK, Remote
<1> QED BY <1>1, <1>2 DEF PagesMove

LEMMA WritesPage ==
  ASSUME TypeOK, NEW g \in Page, NEW remote \in Remote, Writes(g, remote)
  PROVE  /\ page'[g].text = remote.text
         /\ page'[g].date = remote.date
         /\ page'[g].body = remote.body
         /\ page'[g].edited = now + 1
         /\ \A h \in Page \ {g} : page'[h] = page[h]
         /\ PagesMove
         /\ now' = now + 1
<1> DEFINE r == [remote EXCEPT !.edited = now + 1]
<1>1. now \in Nat /\ now + 1 \in Nat /\ now < now + 1
  BY DEF TypeOK
<1>2. /\ r \in Remote /\ r.edited = now + 1
      /\ r.text = remote.text /\ r.date = remote.date /\ r.body = remote.body
  BY <1>1 DEF Remote
<1>3. page' = [page EXCEPT ![g] = r] /\ now' = now + 1
  BY DEF Writes
<1> HIDE DEF r
<1>4. page'[g] = r /\ PagesMove /\ \A h \in Page \ {g} : page'[h] = page[h]
  BY <1>1, <1>2, <1>3, PageReplaced
<1> QED BY <1>2, <1>3, <1>4

LEMMA ShownHasType ==
  ASSUME TypeOK, NEW p \in Proc, NEW remote \in Remote
  PROVE  /\ Shown(p, remote) \in Remote
         /\ Shown(p, remote).text = req[p].snap.text
         /\ Shown(p, remote).date = First(req[p].snap).date
         /\ Shown(p, remote).body = remote.body
<1>1. req[p].snap \in Item
  BY DEF TypeOK, Request
<1>2. req[p].snap.text \in Text \cup {Removed}
  BY <1>1 DEF Item
<1>3. First(req[p].snap) \in PlanRow \cup {NoPlan}
  BY <1>1, FirstIsThere DEF Item
<1>4. First(req[p].snap).date \in Date \cup {0}
  BY <1>3 DEF PlanRow, NoPlan
<1> QED BY <1>2, <1>4 DEF Shown, Remote

\* A page stays as it is but for a later date and what one edit changes.
LEMMA EditedPage ==
  ASSUME TypeOK, EditInNotion
  PROVE  \E g \in Page :
           /\ Made(g)
           /\ PagesMove
           /\ now < page'[g].edited
           /\ \A h \in Page \ {g} : page'[h] = page[h]
           /\ \/ /\ page'[g].body = page[g].body
                 /\ clean' = {p \in clean : req[p].stage = "save"}
              \/ /\ page'[g].text = page[g].text
                 /\ page'[g].date = page[g].date
                 /\ page'[g].body = page[g].body \cup {Hand}
                 /\ clean' = clean
<1>1. PICK g \in Page, wait \in {1, 1 + Tolerance} :
        /\ Made(g)
        /\ \/ /\ \/ \E t \in (Text \cup {Blank, Removed}) \ {page[g].text} :
                        page' = [page EXCEPT ![g].text = t, ![g].edited = now + wait]
                 \/ \E d \in (Date \cup {0}) \ {page[g].date} :
                        page' = [page EXCEPT ![g].date = d, ![g].edited = now + wait]
              /\ clean' = {p \in clean : req[p].stage = "save"}
           \/ /\ Hand \notin page[g].body
              /\ page' = [page EXCEPT ![g].body = @ \cup {Hand}, ![g].edited = now + wait]
              /\ UNCHANGED clean
        /\ now' = now + wait
  BY DEF EditInNotion
<1> DEFINE e == now + wait
<1>2. e \in Nat /\ now < e /\ now' = e
  BY <1>1, SyncAssumption DEF TypeOK
<1>3. page[g] \in Remote
  BY DEF TypeOK
<1> HIDE DEF e
<1>4. ASSUME NEW t \in Text \cup {Blank, Removed},
             page' = [page EXCEPT ![g].text = t, ![g].edited = e]
      PROVE  /\ page'[g].body = page[g].body /\ page'[g].edited = e
             /\ \A h \in Page \ {g} : page'[h] = page[h]
             /\ PagesMove
  <2> DEFINE r == [page[g] EXCEPT !.text = t, !.edited = e]
  <2>1. r \in Remote /\ r.body = page[g].body /\ r.edited = e
    BY <1>2, <1>3 DEF Remote
  <2>2. page' = [page EXCEPT ![g] = r]
    BY <1>4 DEF TypeOK
  <2> HIDE DEF r
  <2>3. page'[g] = r /\ PagesMove /\ \A h \in Page \ {g} : page'[h] = page[h]
    BY <1>2, <2>1, <2>2, PageReplaced
  <2> QED BY <2>1, <2>3
<1>5. ASSUME NEW d \in Date \cup {0},
             page' = [page EXCEPT ![g].date = d, ![g].edited = e]
      PROVE  /\ page'[g].body = page[g].body /\ page'[g].edited = e
             /\ \A h \in Page \ {g} : page'[h] = page[h]
             /\ PagesMove
  <2> DEFINE r == [page[g] EXCEPT !.date = d, !.edited = e]
  <2>1. r \in Remote /\ r.body = page[g].body /\ r.edited = e
    BY <1>2, <1>3 DEF Remote
  <2>2. page' = [page EXCEPT ![g] = r]
    BY <1>5 DEF TypeOK
  <2> HIDE DEF r
  <2>3. page'[g] = r /\ PagesMove /\ \A h \in Page \ {g} : page'[h] = page[h]
    BY <1>2, <2>1, <2>2, PageReplaced
  <2> QED BY <2>1, <2>3
<1>6. ASSUME page' = [page EXCEPT ![g].body = @ \cup {Hand}, ![g].edited = e]
      PROVE  /\ page'[g].text = page[g].text /\ page'[g].date = page[g].date
             /\ page'[g].body = page[g].body \cup {Hand} /\ page'[g].edited = e
             /\ \A h \in Page \ {g} : page'[h] = page[h]
             /\ PagesMove
  <2> DEFINE r == [page[g] EXCEPT !.body = page[g].body \cup {Hand}, !.edited = e]
  <2>1. /\ r \in Remote /\ r.text = page[g].text /\ r.date = page[g].date
        /\ r.body = page[g].body \cup {Hand} /\ r.edited = e
    BY <1>2, <1>3 DEF Remote
  <2>2. page' = [page EXCEPT ![g] = r]
    BY <1>6 DEF TypeOK
  <2> HIDE DEF r
  <2>3. page'[g] = r /\ PagesMove /\ \A h \in Page \ {g} : page'[h] = page[h]
    BY <1>2, <2>1, <2>2, PageReplaced
  <2> QED BY <2>1, <2>3
<1>7. CASE \E t \in Text \cup {Blank, Removed} :
             page' = [page EXCEPT ![g].text = t, ![g].edited = e]
           /\ clean' = {p \in clean : req[p].stage = "save"}
  BY <1>1, <1>2, <1>4, <1>7
<1>8. CASE \E d \in Date \cup {0} :
             page' = [page EXCEPT ![g].date = d, ![g].edited = e]
           /\ clean' = {p \in clean : req[p].stage = "save"}
  BY <1>1, <1>2, <1>5, <1>8
<1>9. CASE page' = [page EXCEPT ![g].body = @ \cup {Hand}, ![g].edited = e] /\ clean' = clean
  BY <1>1, <1>2, <1>6, <1>9
<1> QED BY <1>1, <1>7, <1>8, <1>9 DEF e

-----------------------------------------------------------------------------
(* What a request knows stays true under the steps of others.              *)

StateKeepsPage ==
    /\ state' \in State
    /\ state # NoState => state'.page = state.page

LEMMA OthersKnow ==
  ASSUME TypeOK, PagesAreOld, NEW q \in Proc, Knows(q),
         req'[q] = req[q], kind' = kind, PagesMove,
         state' = state \/ (~Holds(q) /\ StateKeepsPage),
         PushedContent(q)'
  PROVE  Knows(q)'
<1> DEFINE r == req[q]
<1>1. /\ Inside(q)' = Inside(q) /\ Writing(q)' = Writing(q) /\ Holds(q)' = Holds(q)
  BY DEF Inside, Writing, Holds
<1>2. r \in Request /\ r.got.edited \in Nat /\ r.seen \in State \cup {NoState}
  BY DEF TypeOK, Request, Remote
<1>3. SeesState(q)'
  BY <1>1 DEF Knows, SeesState
<1>4. OnItsPage(q)'
  <2>1. SUFFICES ASSUME Inside(q), r.seen # NoState
                 PROVE  state' # NoState /\ state'.page = r.seen.page /\ r.page = r.seen.page
    BY <1>1 DEF OnItsPage
  <2>2. state # NoState /\ state.page = r.seen.page /\ r.page = r.seen.page
    BY <2>1 DEF Knows, OnItsPage
  <2> QED BY <2>2, Constants DEF StateKeepsPage
<1>5. NoPageYet(q)'
  BY <1>1 DEF Knows, NoPageYet
<1>6. ASSUME Inside(q), r.stage # "write" \/ r.page # None
      PROVE  /\ r.page \in Page
             /\ page[r.page].edited \in Nat
             /\ page[r.page].edited <= page'[r.page].edited
             /\ r.got.edited <= page[r.page].edited /\ page'[r.page] # page[r.page] =>
                   r.got.edited < page'[r.page].edited
  <2>1. r.page \in Page
    BY <1>6, ItsPage
  <2>2. page[r.page] \in Remote /\ page'[r.page] \in Remote
    BY <2>1 DEF TypeOK, PagesMove
  <2>3. page[r.page].edited \in Nat /\ page'[r.page].edited \in Nat /\ now \in Nat
    BY <2>2 DEF Remote, TypeOK
  <2>4. page[r.page].edited <= now
    BY <2>1 DEF PagesAreOld
  <2> QED BY <1>2, <2>1, <2>3, <2>4 DEF PagesMove
<1>7. Writing(q) => Inside(q) /\ r.stage # "write"
  BY DEF Inside, Writing
<1>8. r.stage = "pull" => Inside(q) /\ r.stage # "write"
  BY DEF Inside
<1>9. OnAPage(q)'
  <2>1. SUFFICES ASSUME Writing(q) PROVE r.page # None /\ page'[r.page].edited # 0
    BY <1>1 DEF OnAPage, Made
  <2>2. r.page # None /\ page[r.page].edited # 0
    BY <2>1 DEF Knows, OnAPage, Made
  <2> QED BY <1>6, <1>7, <2>1, <2>2
<1>10. GotInTime(q)'
  <2>1. SUFFICES ASSUME Writing(q) \/ r.stage = "pull"
                 PROVE  /\ r.got.edited <= page'[r.page].edited
                        /\ Holds(q) /\ state' # NoState => state'.edited <= r.got.edited
    BY <1>1 DEF GotInTime
  <2>2. /\ r.got.edited <= page[r.page].edited
        /\ Holds(q) /\ state # NoState => state.edited <= r.got.edited
    BY <2>1 DEF Knows, GotInTime
  <2>3. page[r.page].edited \in Nat /\ page'[r.page].edited \in Nat
        /\ page[r.page].edited <= page'[r.page].edited
    BY <1>6, <1>7, <1>8, <2>1 DEF PagesMove, Remote
  <2> QED BY <1>2, <2>2, <2>3
<1>11. Decided(q)'
  BY <1>1 DEF Knows, Decided, KeepsLocal, RemoteChanged, LocalChanged, ShouldLocalWin
<1>12. GotThePage(q)'
  <2>1. SUFFICES ASSUME r.stage = "pull", page'[r.page].edited = r.got.edited
                 PROVE  page'[r.page] = r.got
    BY <1>1 DEF GotThePage, SameDate
  <2>2. r.got.edited <= page[r.page].edited
    BY <2>1 DEF Knows, GotInTime
  <2>3. page'[r.page] = page[r.page]
    BY <1>2, <1>6, <1>8, <2>1, <2>2
  <2> QED BY <2>1, <2>3 DEF Knows, GotThePage, SameDate
<1>13. PushedResource(q)'
  <2>1. SUFFICES ASSUME kind = "RESOURCE", Writing(q)
                 PROVE  /\ r.stage = "save"
                        /\ page'[r.page].edited = r.got.edited =>
                              page'[r.page].text = r.snap.text
    BY <1>1 DEF PushedResource, SameDate
  <2>2. page'[r.page].edited = r.got.edited => page'[r.page] = page[r.page]
    BY <1>2, <1>6, <1>7, <2>1 DEF Knows, GotInTime
  <2> QED BY <2>1, <2>2 DEF Knows, PushedResource, SameDate
<1> QED BY <1>3, <1>4, <1>5, <1>9, <1>10, <1>11, <1>12, <1>13 DEF Knows

\* Nobody else has written what a clean request writes.
LEMMA OthersPushed ==
  ASSUME TypeOK, PagesAreOld, NEW q \in Proc, Knows(q), req'[q] = req[q], kind' = kind,
         q \in clean' => q \in clean /\ page' = page
  PROVE  PushedContent(q)'
<1>1. Writing(q)' = Writing(q) /\ (page' = page => SameDate(q)' = SameDate(q))
  BY DEF Writing, SameDate
<1> QED BY <1>1 DEF Knows, PushedContent

-----------------------------------------------------------------------------
(* What a request knows after its own steps.                               *)

LEMMA OutsideKnows ==
  ASSUME NEW p \in Proc, req'[p].stage \in {"idle", "listed"}
  PROVE  Knows(p)' /\ ~Inside(p)' /\ ~Writing(p)'
<1>1. ~Inside(p)' /\ ~Writing(p)' /\ ~Holds(p)'
  BY DEF Inside, Writing, Holds
<1> QED BY <1>1 DEF Knows, SeesState, OnItsPage, NoPageYet, OnAPage, GotInTime, Decided,
          GotThePage, PushedResource, PushedContent

LEMMA AskKnows ==
  ASSUME SyncInv, NEW p \in Proc, Ask(p)
  PROVE  Knows(p)' /\ ~Inside(p)' /\ ~Writing(p)'
<1>1. PICK rule \in Rule \cup {"EXPORT"} :
        Becomes(p, [Idle EXCEPT !.stage = "listed", !.rule = rule, !.snap = item])
  BY AskRequest DEF SyncInv
<1>2. req'[p].stage = "listed"
  BY <1>1 DEF Becomes, Idle
<1> QED BY <1>2, OutsideKnows

LEMMA LockKnows ==
  ASSUME SyncInv, NEW p \in Proc, LockEntity(p)
  PROVE  Knows(p)' /\ ~Writing(p)'
<1> DEFINE s == IF req[p].rule = "EXPORT" \/ state = NoState THEN "write" ELSE "retrieve"
           r == [req[p] EXCEPT !.stage = s, !.began = now + 1, !.open = TRUE,
                               !.seen = state, !.page = state.page]
<1>1. Becomes(p, r)
  BY LockRequest DEF SyncInv
<1>2. req[p] \in Request
  BY DEF SyncInv, TypeOK
<1>3. /\ r.stage = s /\ r.rule = req[p].rule /\ r.snap = req[p].snap
      /\ r.seen = state /\ r.page = state.page
  BY <1>2 DEF Request
<1> HIDE DEF r
<1>4. /\ req'[p].stage = s /\ req'[p].rule = req[p].rule
      /\ req'[p].seen = state /\ req'[p].page = state.page
  BY <1>1, <1>3 DEF Becomes
<1>5. state' = state /\ (state = NoState => state.page = None)
  BY Constants DEF LockEntity
<1>6. ~Writing(p)' /\ req'[p].stage # "pull"
  BY <1>4 DEF Writing
<1> QED BY <1>4, <1>5, <1>6 DEF Knows, SeesState, OnItsPage, NoPageYet, OnAPage, GotInTime,
          Decided, GotThePage, PushedResource, PushedContent

LEMMA ReconcileKnows ==
  ASSUME SyncInv, NEW p \in Proc, Reconcile(p)
  PROVE  Knows(p)' /\ ~Writing(p)'
<1> DEFINE remote == page[req[p].page]
           w == [req[p] EXCEPT !.stage = "write", !.got = remote]
           l == [req[p] EXCEPT !.stage = "pull", !.got = remote]
<1>1. Knows(p) /\ req[p].stage = "retrieve" /\ Inside(p) /\ ~Writing(p)
  BY DEF SyncInv, Reconcile, Inside, Writing
<1>2. req[p] \in Request /\ req[p].page \in Page /\ remote \in Remote
  BY <1>1, ItsPage, PageHasType DEF SyncInv
<1>3. page' = page /\ state' = state /\ kind' = kind
  BY DEF Reconcile
<1>4. \/ KeepsLocal(p, remote) /\ Becomes(p, w)
      \/ Becomes(p, Idle)
      \/ ~KeepsLocal(p, remote) /\ Becomes(p, l)
  BY <1>1, ReconcileRequest DEF SyncInv
<1>5. req[p].seen # NoState
  BY <1>1 DEF Knows, NoPageYet
<1>6. state # NoState /\ state.page = req[p].seen.page /\ req[p].page = req[p].seen.page
  BY <1>1, <1>5 DEF Knows, OnItsPage
<1>7. /\ w.stage = "write" /\ l.stage = "pull"
      /\ \A r \in {w, l} : /\ r.got = remote /\ r.rule = req[p].rule /\ r.snap = req[p].snap
                           /\ r.seen = req[p].seen /\ r.page = req[p].page /\ r.open = req[p].open
  BY <1>2 DEF Request
<1> HIDE DEF remote, w, l
<1>8. ASSUME NEW r \in {w, l}, Becomes(p, r),
             r = w => KeepsLocal(p, remote), r = l => ~KeepsLocal(p, remote)
      PROVE  Knows(p)' /\ ~Writing(p)'
  <2>1. req'[p] = r
    BY <1>8 DEF Becomes
  <2>2. /\ req'[p].stage = r.stage /\ r.stage \in {"write", "pull"} /\ req'[p].got = remote
        /\ req'[p].rule = req[p].rule /\ req'[p].snap = req[p].snap
        /\ req'[p].seen = req[p].seen /\ req'[p].page = req[p].page /\ req'[p].open = req[p].open
    BY <1>7, <2>1
  <2>3. ~Writing(p)' /\ Inside(p)' /\ (Holds(p)' => Holds(p))
    BY <1>1, <2>2 DEF Writing, Inside, Holds
  <2>4. SeesState(p)' /\ OnItsPage(p)' /\ NoPageYet(p)' /\ OnAPage(p)'
    BY <1>1, <1>3, <1>5, <1>6, <2>2, <2>3 DEF Knows, SeesState, OnItsPage, NoPageYet, OnAPage
  <2>5. GotInTime(p)'
    <3>1. state.edited <= remote.edited
      BY <1>6 DEF SyncInv, StateIsOld, remote
    <3>2. remote.edited <= page'[req'[p].page].edited
      BY <1>2, <1>3, <2>2 DEF remote, Remote
    <3> QED BY <1>3, <2>2, <3>1, <3>2 DEF GotInTime
  <2>6. Decided(p)'
    <3>1. KeepsLocal(p, req[p].got)' = KeepsLocal(p, remote)
      BY <2>2 DEF KeepsLocal, RemoteChanged, LocalChanged, ShouldLocalWin
    <3>2. r.stage = "pull" => r = l
      BY <1>7
    <3>3. r.stage = "write" => r = w
      BY <1>7
    <3> QED BY <1>8, <2>2, <3>1, <3>2, <3>3 DEF Decided
  <2>7. GotThePage(p)'
    BY <1>3, <2>2 DEF GotThePage, remote
  <2> QED BY <2>3, <2>4, <2>5, <2>6, <2>7 DEF Knows, PushedResource, PushedContent
<1>9. CASE Becomes(p, Idle)
  BY <1>9, OutsideKnows DEF Becomes, Idle
<1>10. w # l
  BY <1>7
<1> QED BY <1>4, <1>8, <1>9, <1>10

\* A request that goes on writing a page, the one it wrote or another.
LEMMA WritingKnows ==
  ASSUME SyncInv, NEW p \in Proc, Inside(p), state' = state, PagesMove,
         req'[p].stage \in {"clear", "append", "reread", "save"},
         req'[p].seen = req[p].seen, req'[p].open = req[p].open,
         req'[p].page \in Page,
         req[p].seen # NoState => req'[p].page = req[p].page,
         page'[req'[p].page].edited # 0,
         req'[p].got.edited <= page'[req'[p].page].edited,
         Holds(p) /\ state # NoState => state.edited <= req'[p].got.edited,
         PushedResource(p)', PushedContent(p)'
  PROVE  Knows(p)' /\ Writing(p)'
<1>1. Writing(p)' /\ Inside(p)' /\ Holds(p)' = Holds(p)
  BY DEF Writing, Inside, Holds
<1>2. req'[p].stage \notin {"pull", "write"}
  OBVIOUS
<1>3. Knows(p)
  BY DEF SyncInv
<1>4. SeesState(p)'
  BY <1>1, <1>3 DEF Knows, SeesState
<1>5. OnItsPage(p)'
  BY <1>1, <1>3 DEF Knows, OnItsPage
<1>6. NoPageYet(p)' /\ OnAPage(p)'
  BY <1>1, SyncAssumption DEF NoPageYet, OnAPage, Made
<1>7. GotInTime(p)'
  BY <1>1 DEF GotInTime
<1>8. Decided(p)' /\ GotThePage(p)'
  BY <1>2 DEF Decided, GotThePage
<1> QED BY <1>1, <1>4, <1>5, <1>6, <1>7, <1>8 DEF Knows

\* The state is never later than the clock.
LEMMA StateInTime ==
  ASSUME SyncInv, state # NoState
  PROVE  /\ state \in State /\ state.page \in Page
         /\ state.edited \in Nat /\ page[state.page].edited \in Nat /\ now \in Nat
         /\ page[state.page].edited <= now
         /\ state.edited <= page[state.page].edited
<1>1. state \in State /\ state.page \in Page
  BY Constants DEF SyncInv, TypeOK
<1>2. state.edited \in Nat
  BY <1>1 DEF State
<1>3. page[state.page] \in Remote
  BY <1>1 DEF SyncInv, TypeOK
<1> QED BY <1>1, <1>2, <1>3 DEF SyncInv, TypeOK, Remote, PagesAreOld, StateIsOld

\* Both kinds of first call of a push.
LEMMA PushStarts ==
  ASSUME SyncInv, NEW p \in Proc, req[p].stage = "write", NEW g \in Page,
         NEW remote \in Remote, Writes(g, Shown(p, remote)),
         req[p].page = g \/ req[p].page = None,
         \/ req' = [req EXCEPT ![p].stage = AfterProperties, ![p].page = g, ![p].got.edited = now + 1]
         \/ /\ g = req[p].page
            /\ req' = [req EXCEPT ![p].stage = AfterProperties, ![p].got.edited = now + 1],
         UNCHANGED <<kind, state>>
  PROVE  Knows(p)' /\ Writing(p)'
<1> DEFINE r == [req[p] EXCEPT !.stage = AfterProperties, !.page = g,
                               !.got = [req[p].got EXCEPT !.edited = now + 1]]
<1>1. AfterProperties \in Stage /\ now \in Nat /\ now + 1 \in Nat /\ req[p] \in Request
  BY DEF AfterProperties, Stage, SyncInv, TypeOK
<1>2. Becomes(p, r)
  BY <1>1, NotedRequest DEF SyncInv
<1>3. /\ r.stage = AfterProperties /\ r.page = g /\ r.got.edited = now + 1
      /\ r.seen = req[p].seen /\ r.open = req[p].open /\ r.snap = req[p].snap
  BY <1>1 DEF Request, Remote
<1> HIDE DEF r
<1>4. req'[p] = r
  BY <1>2 DEF Becomes
<1>5. /\ Shown(p, remote) \in Remote
      /\ Shown(p, remote).text = req[p].snap.text
      /\ Shown(p, remote).date = First(req[p].snap).date
  BY ShownHasType DEF SyncInv
<1>6. /\ page'[g].text = req[p].snap.text
      /\ page'[g].date = First(req[p].snap).date
      /\ page'[g].edited = now + 1
      /\ PagesMove
  BY <1>5, WritesPage DEF SyncInv
<1>7. Knows(p) /\ Inside(p) /\ ~Writing(p)
  BY DEF SyncInv, Inside, Writing
<1>8. req[p].seen # NoState => req[p].page = g
  <2>1. SUFFICES ASSUME req[p].seen # NoState PROVE req[p].page # None
    OBVIOUS
  <2>2. req[p].page = req[p].seen.page /\ req[p].seen \in State
    BY <1>1, <1>7, <2>1 DEF Knows, OnItsPage, Request
  <2> QED BY <2>2, Constants
<1>9. Holds(p) /\ state # NoState => state.edited <= now + 1
  <2>1. SUFFICES ASSUME state # NoState PROVE state.edited <= now + 1
    OBVIOUS
  <2> QED BY <2>1, StateInTime
<1>10. PushedResource(p)'
  BY <1>3, <1>4, <1>6 DEF PushedResource, AfterProperties
<1>11. PushedContent(p)'
  <2>1. kind' = "CONTENT" => req'[p].stage = "clear"
    BY <1>3, <1>4 DEF AfterProperties
  <2>2. req'[p].snap = req[p].snap /\ req'[p].page = g
    BY <1>3, <1>4
  <2> QED BY <1>6, <2>1, <2>2 DEF PushedContent
<1>12. req'[p].stage \in {"clear", "append", "reread", "save"}
  BY <1>3, <1>4 DEF AfterProperties
<1> QED BY <1>1, <1>3, <1>4, <1>6, <1>7, <1>8, <1>9, <1>10, <1>11, <1>12, WritingKnows

LEMMA UpdateKnows ==
  ASSUME SyncInv, NEW p \in Proc, UpdatePage(p)
  PROVE  req[p].page \in Page /\ Knows(p)' /\ Writing(p)'
<1>1. req[p].page \in Page
  BY ItsPage DEF SyncInv, UpdatePage, Inside
<1>2. page[req[p].page] \in Remote
  BY <1>1 DEF SyncInv, TypeOK
<1> QED BY <1>1, <1>2, PushStarts DEF UpdatePage

LEMMA CreateKnows ==
  ASSUME SyncInv, NEW p \in Proc, NEW g \in Page, CreatePage(p),
         Writes(g, Shown(p, NoRemote)), Alive(p),
         req' = [req EXCEPT ![p].stage = AfterProperties, ![p].page = g, ![p].got.edited = now + 1]
  PROVE  Knows(p)' /\ Writing(p)'
BY Constants, PushStarts DEF CreatePage

\* A request that writes a body knows its page.
LEMMA WriterKnows ==
  ASSUME SyncInv, NEW p \in Proc, Writing(p)
  PROVE  /\ Knows(p) /\ Inside(p)
         /\ req[p] \in Request
         /\ req[p].page \in Page
         /\ page[req[p].page] \in Remote
         /\ page[req[p].page].edited \in Nat \ {0}
         /\ page[req[p].page].edited <= now
         /\ now \in Nat
         /\ req[p].got.edited \in Nat
         /\ req[p].got.edited <= page[req[p].page].edited
         /\ Holds(p) /\ state # NoState => state.edited <= req[p].got.edited
         /\ kind # "CONTENT" => req[p].stage = "save"
<1>1. Knows(p) /\ Inside(p) /\ req[p].stage # "write"
  BY DEF SyncInv, Writing, Inside
<1>2. req[p] \in Request /\ req[p].page \in Page
  BY <1>1, ItsPage DEF SyncInv, TypeOK
<1>3. page[req[p].page] \in Remote
  BY <1>2 DEF SyncInv, TypeOK
<1>4. page[req[p].page].edited \in Nat /\ page[req[p].page].edited # 0
  BY <1>1, <1>3 DEF Remote, Knows, OnAPage, Made
<1>5. page[req[p].page].edited <= now /\ now \in Nat
  BY <1>2 DEF SyncInv, PagesAreOld, TypeOK
<1>6. req[p].got.edited \in Nat
  BY <1>2 DEF Request, Remote
<1>7. kind # "CONTENT" => req[p].stage = "save"
  BY <1>1 DEF SyncInv, TypeOK, Knows, PushedResource
<1>8. /\ req[p].got.edited <= page[req[p].page].edited
      /\ Holds(p) /\ state # NoState => state.edited <= req[p].got.edited
  BY <1>1 DEF Knows, GotInTime
<1> QED BY <1>1, <1>2, <1>3, <1>4, <1>5, <1>6, <1>7, <1>8

\* A request goes from one call on the body of its page to the next.
LEMMA BodyKnows ==
  ASSUME SyncInv, NEW p \in Proc, Writing(p), NEW stage \in {"append", "reread"},
         Goes(p, stage), PagesMove, UNCHANGED <<kind, state>>,
         kind = "CONTENT",
         p \in clean' => PushedContent(p)'
  PROVE  Knows(p)' /\ Writing(p)'
<1> DEFINE r == [req[p] EXCEPT !.stage = stage]
<1>1. Becomes(p, r)
  BY GoesOn DEF SyncInv, Stage
<1>2. req[p] \in Request
  BY DEF SyncInv, TypeOK
<1>3. /\ r.stage = stage /\ r.page = req[p].page /\ r.got = req[p].got
      /\ r.seen = req[p].seen /\ r.open = req[p].open /\ r.snap = req[p].snap
  BY <1>2 DEF Request
<1> HIDE DEF r
<1>4. /\ req'[p].stage = stage /\ req'[p].page = req[p].page /\ req'[p].got = req[p].got
      /\ req'[p].seen = req[p].seen /\ req'[p].open = req[p].open /\ req'[p].snap = req[p].snap
  BY <1>1, <1>3 DEF Becomes
<1>5. PushedResource(p)' /\ PushedContent(p)'
  BY DEF PushedResource, PushedContent
<1>6. /\ page'[req[p].page].edited # 0
      /\ req[p].got.edited <= page'[req[p].page].edited
  <2>1. page'[req[p].page] \in Remote
    BY WriterKnows DEF PagesMove
  <2>2. page'[req[p].page].edited \in Nat
    BY <2>1 DEF Remote
  <2>3. page'[req[p].page] = page[req[p].page] \/ now < page'[req[p].page].edited
    BY WriterKnows DEF PagesMove
  <2> QED BY <2>2, <2>3, WriterKnows
<1> QED BY <1>4, <1>5, <1>6, WriterKnows, WritingKnows

LEMMA PageUntouched ==
  ASSUME TypeOK, page' = page, now' = now
  PROVE  PagesMove
BY DEF TypeOK, PagesMove

LEMMA ClearKnows ==
  ASSUME SyncInv, NEW p \in Proc, ClearBody(p)
  PROVE  PagesMove /\ Knows(p)' /\ Writing(p)'
<1> DEFINE g == req[p].page
           remote == page[g]
<1>1. Writing(p) /\ req[p].stage = "clear"
  BY DEF ClearBody, Writing
<1>2. g \in Page /\ remote \in Remote /\ kind = "CONTENT" /\ Knows(p)
  BY <1>1, WriterKnows
<1>3. /\ PagesMove /\ page'[g].body = {}
      /\ page'[g].text = remote.text /\ page'[g].date = remote.date
  <2>1. CASE remote.body = {}
    BY <1>2, <2>1, PageUntouched DEF ClearBody, SyncInv
  <2>2. CASE remote.body # {}
    <3> DEFINE new == [remote EXCEPT !.body = {}]
    <3>1. /\ new \in Remote /\ new.body = {}
          /\ new.text = remote.text /\ new.date = remote.date
      BY <1>2 DEF Remote
    <3>2. Writes(g, new)
      BY <2>2 DEF ClearBody
    <3> HIDE DEF new, g
    <3> QED BY <1>2, <3>1, <3>2, WritesPage DEF SyncInv, g
  <2> QED BY <2>1, <2>2
<1>4. Goes(p, "append")
  BY DEF ClearBody
<1>5. Becomes(p, [req[p] EXCEPT !.stage = "append"])
  BY <1>4, GoesOn DEF SyncInv, Stage
<1>6. req'[p].stage = "append" /\ req'[p].page = g /\ req'[p].snap = req[p].snap
  BY <1>5 DEF Becomes, SyncInv, TypeOK, Request
<1>7. p \in clean' => PushedContent(p)'
  <2>1. SUFFICES ASSUME p \in clean'
                 PROVE  PushedContent(p)'
    OBVIOUS
  <2>2. p \in clean
    BY <2>1 DEF ClearBody
  <2>3. remote.text = req[p].snap.text /\ remote.date = First(req[p].snap).date
    BY <1>1, <1>2, <2>2 DEF Knows, PushedContent
  <2> QED BY <1>3, <1>6, <2>3 DEF PushedContent
<1>8. UNCHANGED <<kind, state>>
  BY DEF ClearBody
<1> QED BY <1>1, <1>2, <1>3, <1>4, <1>7, <1>8, BodyKnows

LEMMA AppendKnows ==
  ASSUME SyncInv, NEW p \in Proc, AppendBody(p)
  PROVE  PagesMove /\ Knows(p)' /\ Writing(p)'
<1> DEFINE g == req[p].page
           remote == page[g]
           new == [remote EXCEPT !.body = remote.body \cup {req[p].snap.body}]
<1>1. Writing(p) /\ req[p].stage = "append"
  BY DEF AppendBody, Writing
<1>2. g \in Page /\ remote \in Remote /\ kind = "CONTENT" /\ Knows(p) /\ req[p] \in Request
  BY <1>1, WriterKnows
<1>3. req[p].snap.body \in Body
  BY <1>2 DEF Request, Item
<1>4. /\ new \in Remote /\ new.body = remote.body \cup {req[p].snap.body}
      /\ new.text = remote.text /\ new.date = remote.date
  BY <1>2, <1>3 DEF Remote
<1>5. Writes(g, new)
  BY DEF AppendBody
<1>6. /\ PagesMove /\ page'[g].body = remote.body \cup {req[p].snap.body}
      /\ page'[g].text = remote.text /\ page'[g].date = remote.date
  <2> HIDE DEF new, g
  <2> QED BY <1>2, <1>4, <1>5, WritesPage DEF SyncInv, g
<1>7. Goes(p, "reread")
  BY DEF AppendBody
<1>8. Becomes(p, [req[p] EXCEPT !.stage = "reread"])
  BY <1>7, GoesOn DEF SyncInv, Stage
<1>9. req'[p].stage = "reread" /\ req'[p].page = g /\ req'[p].snap = req[p].snap
  BY <1>8, <1>2 DEF Becomes, Request
<1>10. p \in clean' => PushedContent(p)'
  <2>1. SUFFICES ASSUME p \in clean'
                 PROVE  PushedContent(p)'
    OBVIOUS
  <2>2. p \in clean
    BY <2>1 DEF AppendBody
  <2>3. /\ remote.text = req[p].snap.text /\ remote.date = First(req[p].snap).date
        /\ remote.body \subseteq {Hand}
    BY <1>1, <1>2, <2>2 DEF Knows, PushedContent
  <2>4. Hand \in page'[g].body \/ page'[g].body = {req[p].snap.body}
    BY <1>6, <2>3
  <2> QED BY <1>6, <1>9, <2>3, <2>4 DEF PushedContent
<1>11. UNCHANGED <<kind, state>>
  BY DEF AppendBody
<1> QED BY <1>1, <1>2, <1>6, <1>7, <1>10, <1>11, BodyKnows

LEMMA RetrieveKnows ==
  ASSUME SyncInv, NEW p \in Proc, RetrievePushed(p)
  PROVE  Knows(p)' /\ Writing(p)'
<1> DEFINE g == req[p].page
           remote == page[g]
           e == remote.edited
           r == [req[p] EXCEPT !.stage = "save", !.page = g, !.got = [req[p].got EXCEPT !.edited = e]]
<1>1. Writing(p) /\ req[p].stage = "reread"
  BY DEF RetrievePushed, Writing
<1>2. /\ g \in Page /\ kind = "CONTENT" /\ Knows(p) /\ Inside(p) /\ req[p] \in Request
      /\ e \in Nat \ {0}
  BY <1>1, WriterKnows
<1>3. UNCHANGED <<kind, page, state, now, clean>>
  BY DEF RetrievePushed, history
<1>4. PagesMove
  BY <1>3, PageUntouched DEF SyncInv
<1>5. req' = [req EXCEPT ![p].stage = "save", ![p].got.edited = e]
  BY DEF RetrievePushed
<1>6. Becomes(p, r)
  <2> HIDE DEF e
  <2> QED BY <1>2, <1>5, NotedRequest DEF SyncInv, Stage
<1>7. /\ r.stage = "save" /\ r.page = g /\ r.got.edited = e
      /\ r.seen = req[p].seen /\ r.open = req[p].open /\ r.snap = req[p].snap
  BY <1>2 DEF Request, Remote
<1> HIDE DEF r
<1>8. /\ req'[p].stage = "save" /\ req'[p].page = g /\ req'[p].got.edited = e
      /\ req'[p].seen = req[p].seen /\ req'[p].open = req[p].open /\ req'[p].snap = req[p].snap
  BY <1>6, <1>7 DEF Becomes
<1>9. Holds(p) /\ state # NoState => state.edited <= e
  <2>1. SUFFICES ASSUME Holds(p), state # NoState PROVE state.edited <= e
    OBVIOUS
  <2>2. req[p].got.edited \in Nat /\ req[p].got.edited <= e /\ state.edited <= req[p].got.edited
    BY <1>1, <2>1, WriterKnows
  <2>3. state.edited \in Nat
    BY <2>1, StateInTime
  <2> QED BY <1>2, <2>2, <2>3
<1>10. PushedResource(p)'
  BY <1>2, <1>3 DEF PushedResource
<1>11. PushedContent(p)'
  <2>1. SUFFICES ASSUME p \in clean
                 PROVE  /\ remote.text = req[p].snap.text
                        /\ remote.date = First(req[p].snap).date
                        /\ Hand \in remote.body \/ remote.body = {req[p].snap.body}
    BY <1>3, <1>8 DEF PushedContent
  <2> QED BY <1>1, <1>2, <2>1 DEF Knows, PushedContent
<1>12. e <= e
  BY <1>2
<1> QED BY <1>2, <1>3, <1>4, <1>8, <1>9, <1>10, <1>11, <1>12, WritingKnows

LEMMA ExpireKnows ==
  ASSUME SyncInv, NEW p \in Proc, Expire(p)
  PROVE  /\ Knows(p)' /\ Writing(p)' = Writing(p) /\ ~Holds(p)'
         /\ \E r \in Request : Becomes(p, r)
         /\ req'[p].page = req[p].page /\ req'[p].seen = req[p].seen
<1> DEFINE r == [req[p] EXCEPT !.open = FALSE]
<1>1. req[p] \in Request /\ Knows(p)
  BY DEF SyncInv, TypeOK
<1>2. /\ r \in Request /\ r.open = FALSE /\ r.stage = req[p].stage /\ r.rule = req[p].rule
      /\ r.snap = req[p].snap /\ r.seen = req[p].seen /\ r.page = req[p].page
      /\ r.got = req[p].got
  BY <1>1 DEF Request
<1>3. req' = [req EXCEPT ![p] = r]
  BY DEF Expire
<1> HIDE DEF r
<1>4. Becomes(p, r)
  BY <1>2, <1>3, Replaced DEF SyncInv
<1>5. /\ req'[p].open = FALSE /\ req'[p].stage = req[p].stage /\ req'[p].rule = req[p].rule
      /\ req'[p].snap = req[p].snap /\ req'[p].seen = req[p].seen /\ req'[p].page = req[p].page
      /\ req'[p].got = req[p].got
  BY <1>2, <1>4 DEF Becomes
<1>6. Writing(p)' = Writing(p) /\ Inside(p)' = Inside(p) /\ ~Holds(p)'
  BY <1>5 DEF Writing, Inside, Holds
<1>7. UNCHANGED <<kind, page, state, clean>>
  BY DEF Expire, history
<1>8. SeesState(p)' /\ OnItsPage(p)' /\ NoPageYet(p)' /\ OnAPage(p)'
  BY <1>1, <1>5, <1>6, <1>7 DEF Knows, SeesState, OnItsPage, NoPageYet, OnAPage, Made
<1>9. GotInTime(p)'
  BY <1>1, <1>5, <1>6, <1>7 DEF Knows, GotInTime
<1>10. Decided(p)'
  BY <1>1, <1>5 DEF Knows, Decided, KeepsLocal, RemoteChanged, LocalChanged, ShouldLocalWin
<1>11. SameDate(p)' = SameDate(p)
  BY <1>5, <1>7 DEF SameDate
<1>12. GotThePage(p)' /\ PushedResource(p)' /\ PushedContent(p)'
  BY <1>1, <1>5, <1>6, <1>7, <1>11 DEF Knows, GotThePage, PushedResource, PushedContent
<1> QED BY <1>2, <1>4, <1>5, <1>6, <1>8, <1>9, <1>10, <1>12 DEF Knows

-----------------------------------------------------------------------------
(* What is saved.                                                          *)

LEMMA PulledHasType ==
  ASSUME TypeOK, NEW p \in Proc
  PROVE  Pulled(p) \in Item /\ Pulled(p).body = item.body
<1>1. /\ req[p].got \in Remote /\ req[p].began \in Nat
      /\ item.text \in Text \cup {Removed} /\ item.body \in Body /\ item.plans \in SUBSET PlanRow
  BY DEF TypeOK, Request, Item
<1>2. req[p].got.date \in Date \cup {0}
  BY <1>1 DEF Remote
<1>3. PulledPlans(p) \in SUBSET PlanRow
  <2>1. req[p].got.date # 0 => [date |-> req[p].got.date, at |-> req[p].began] \in PlanRow
    BY <1>1, <1>2 DEF PlanRow
  <2> QED BY <1>1, <2>1 DEF PulledPlans
<1>4. (IF Readable(req[p].got.text) THEN req[p].got.text ELSE item.text) \in Text \cup {Removed}
  BY <1>1 DEF Readable
<1> QED BY <1>1, <1>3, <1>4 DEF Pulled, Item

LEMMA PullerKnows ==
  ASSUME SyncInv, NEW p \in Proc, req[p].stage = "pull"
  PROVE  /\ Knows(p) /\ Inside(p)
         /\ state # NoState /\ req[p].page = state.page
         /\ req[p].seen = state \/ ~req[p].open
         /\ req[p].page \in Page /\ req[p].got \in Remote
         /\ req[p].got.edited \in Nat
         /\ req[p].got.edited <= page[req[p].page].edited
<1>1. Knows(p) /\ Inside(p) /\ ~Writing(p)
  BY DEF SyncInv, Inside, Writing
<1>2. req[p].seen # NoState
  BY <1>1 DEF Knows, NoPageYet
<1>3. state # NoState /\ req[p].page = state.page
  BY <1>1, <1>2 DEF Knows, OnItsPage
<1>4. req[p].seen = state \/ ~req[p].open
  BY <1>1 DEF Knows, SeesState, Holds, SyncInv, TypeOK, Request
<1>5. req[p].page \in Page /\ req[p].got \in Remote
  BY <1>1, <1>3, Constants DEF SyncInv, TypeOK, Request
<1>6. req[p].got.edited <= page[req[p].page].edited
  BY <1>1 DEF Knows, GotInTime
<1> QED BY <1>1, <1>3, <1>4, <1>5, <1>6 DEF Remote

LEMMA SaveMoves ==
  ASSUME SyncInv, NEW p \in Proc, SaveSyncState(p)
  PROVE  /\ StateKeepsPage
         /\ Holds(p) /\ Writing(p)
         /\ state'.page = req[p].page /\ state'.hash = Pushed(p) /\ state'.edited = req[p].got.edited
         /\ state # NoState => state.edited <= state'.edited
         /\ req[p].seen # NoState => state # NoState
<1>1. Writing(p) /\ Holds(p)
  BY DEF SaveSyncState, Alive, Writing, Inside, Holds
<1>2. /\ Knows(p) /\ req[p] \in Request /\ req[p].page \in Page /\ req[p].got.edited \in Nat
      /\ state # NoState => state.edited <= req[p].got.edited
  BY <1>1, WriterKnows
<1>3. Pushed(p) \in Hashed
  BY <1>2, HashHasType DEF Pushed, Request
<1>4. state' = [page |-> req[p].page, hash |-> Pushed(p), edited |-> req[p].got.edited]
  BY DEF SaveSyncState
<1>5. state' \in State
  BY <1>2, <1>3, <1>4 DEF State
<1>6. req[p].seen = state
  BY <1>1, <1>2 DEF Knows, SeesState
<1>7. state # NoState => state.page = req[p].page
  BY <1>1, <1>2, <1>6 DEF Knows, OnItsPage, Holds
<1> QED BY <1>1, <1>2, <1>4, <1>5, <1>6, <1>7 DEF StateKeepsPage

LEMMA PullMoves ==
  ASSUME SyncInv, NEW p \in Proc, ApplyRemote(p)
  PROVE  /\ StateKeepsPage
         /\ Holds(p)
         /\ item' \in Item
         /\ state'.page = req[p].page /\ state'.hash = Hash(Pulled(p))
         /\ state'.edited = req[p].got.edited
         /\ state.edited <= state'.edited
<1>1. /\ req[p].stage = "pull" /\ req[p].open
      /\ state' = [page |-> req[p].page, hash |-> Hash(Pulled(p)), edited |-> req[p].got.edited]
      /\ item' = Pulled(p)
  BY DEF ApplyRemote, Alive
<1>2. /\ Knows(p) /\ Inside(p) /\ Holds(p) /\ state # NoState /\ req[p].page = state.page
      /\ req[p].page \in Page /\ req[p].got.edited \in Nat
  BY <1>1, PullerKnows DEF Holds
<1>3. Pulled(p) \in Item
  BY PulledHasType DEF SyncInv
<1>4. state' \in State
  BY <1>1, <1>2, <1>3, HashHasType DEF State
<1>5. state.edited <= req[p].got.edited
  BY <1>1, <1>2 DEF Knows, GotInTime
<1> QED BY <1>1, <1>2, <1>3, <1>4, <1>5 DEF StateKeepsPage

LEMMA EndKnows ==
  ASSUME SyncInv, NEW p \in Proc, Ends(p)
  PROVE  /\ Becomes(p, Idle) /\ Idle \in Request
         /\ Knows(p)' /\ ~Inside(p)' /\ ~Writing(p)'
<1>1. Becomes(p, Idle)
  BY EndsRequest DEF SyncInv
<1>2. req'[p].stage = "idle"
  BY <1>1 DEF Becomes, Idle
<1> QED BY <1>1, <1>2, OutsideKnows, Constants

\* The page that a request creates.
LEMMA CreateMoves ==
  ASSUME SyncInv, NEW p \in Proc, CreatePage(p)
  PROVE  \E g \in Page :
           /\ ~Made(g)
           /\ page'[g].edited = now + 1
           /\ \A h \in Page \ {g} : page'[h] = page[h]
           /\ PagesMove
           /\ Knows(p)'
           /\ \E r \in Request : Becomes(p, r)
           /\ \/ Alive(p) /\ Writing(p)' /\ req'[p].page = g /\ lost' = lost
              \/ ~Alive(p) /\ ~Inside(p)' /\ ~Writing(p)' /\ lost' = lost \cup {g}
<1>1. PICK g \in Page :
        /\ ~Made(g)
        /\ Writes(g, Shown(p, NoRemote))
        /\ IF Alive(p)
             THEN /\ req' = [req EXCEPT ![p].stage = AfterProperties, ![p].page = g,
                                        ![p].got.edited = now + 1]
                  /\ UNCHANGED lost
             ELSE /\ Ends(p)
                  /\ lost' = lost \cup {g}
  BY DEF CreatePage
<1>2. Shown(p, NoRemote) \in Remote
  BY Constants, ShownHasType DEF SyncInv
<1>3. page'[g].edited = now + 1 /\ PagesMove /\ \A h \in Page \ {g} : page'[h] = page[h]
  BY <1>1, <1>2, WritesPage DEF SyncInv
<1>4. CASE Alive(p)
  <2>1. Knows(p)' /\ Writing(p)'
    BY <1>1, <1>4, CreateKnows
  <2>2. AfterProperties \in Stage /\ now + 1 \in Nat
    BY DEF AfterProperties, Stage, SyncInv, TypeOK
  <2> DEFINE r == [req[p] EXCEPT !.stage = AfterProperties, !.page = g,
                                 !.got = [req[p].got EXCEPT !.edited = now + 1]]
  <2>3. Becomes(p, r)
    BY <1>1, <1>4, <2>2, NotedRequest DEF SyncInv
  <2>4. r.page = g
    BY DEF SyncInv, TypeOK, Request
  <2> HIDE DEF r
  <2> QED BY <1>1, <1>3, <1>4, <2>1, <2>3, <2>4 DEF Becomes
<1>5. CASE ~Alive(p)
  BY <1>1, <1>3, <1>5, EndKnows
<1> QED BY <1>4, <1>5

-----------------------------------------------------------------------------
(* A step, as the other requests see it.                                   *)

Served(p) ==
    /\ \E r \in Request : Becomes(p, r)
    /\ Knows(p)'
    /\ PagesMove
    /\ kind' = kind
    /\ state' = state \/ (Holds(p) /\ StateKeepsPage)
    /\ state # NoState /\ state' # state => state.edited <= state'.edited
    /\ \A q \in Proc \ {p} : q \in clean' => q \in clean /\ page' = page

LEMMA HandleServes ==
  ASSUME SyncInv, NEW p \in Proc, Handle(p)
  PROVE  Served(p)
<1> USE DEF bounds, history
<1>1. CASE Ask(p)
  <2>1. PICK rule \in Rule \cup {"EXPORT"} :
          Becomes(p, [Idle EXCEPT !.stage = "listed", !.rule = rule, !.snap = item])
    BY <1>1, AskRequest DEF SyncInv
  <2>2. UNCHANGED <<kind, page, state, now, clean>>
    BY <1>1 DEF Ask
  <2>3. \E r \in Request : Becomes(p, r)
    BY <2>1 DEF Becomes
  <2> QED BY <1>1, <2>2, <2>3, AskKnows, PageUntouched DEF Served, SyncInv
<1>2. CASE LockEntity(p)
  <2>1. PICK r : Becomes(p, r)
    BY <1>2, LockRequest DEF SyncInv
  <2>2. r \in Request
    BY <2>1 DEF Becomes
  <2>3. UNCHANGED <<kind, page, state, clean>> /\ now' = now + 1
    BY <1>2 DEF LockEntity
  <2>4. PagesMove
    BY <2>3 DEF PagesMove, SyncInv, TypeOK
  <2> QED BY <1>2, <2>1, <2>2, <2>3, <2>4, LockKnows DEF Served
<1>3. CASE Reconcile(p)
  <2>1. PICK r : Becomes(p, r)
    BY <1>3, ReconcileRequest DEF SyncInv
  <2>2. r \in Request
    BY <2>1 DEF Becomes
  <2>3. UNCHANGED <<kind, page, state, now, clean>>
    BY <1>3 DEF Reconcile
  <2> QED BY <1>3, <2>1, <2>2, <2>3, ReconcileKnows, PageUntouched DEF Served, SyncInv
<1>4. CASE UpdatePage(p)
  <2>1. req[p].page \in Page /\ Knows(p)'
    BY <1>4, UpdateKnows
  <2>2. page[req[p].page] \in Remote /\ AfterProperties \in Stage /\ now + 1 \in Nat
    BY <2>1 DEF SyncInv, TypeOK, AfterProperties, Stage
  <2>3. PagesMove
    BY <1>4, <2>1, <2>2, ShownHasType, WritesPage DEF SyncInv, UpdatePage
  <2>4. \E r \in Request : Becomes(p, r)
    <3>1. req' = [req EXCEPT ![p].stage = AfterProperties, ![p].got.edited = now + 1]
      BY <1>4 DEF UpdatePage
    <3>2. PICK r : Becomes(p, r)
      BY <2>1, <2>2, <3>1, NotedRequest DEF SyncInv
    <3> QED BY <3>2 DEF Becomes
  <2>5. UNCHANGED <<kind, state>> /\ clean' = {p}
    BY <1>4 DEF UpdatePage
  <2> QED BY <2>1, <2>3, <2>4, <2>5 DEF Served
<1>5. CASE CreatePage(p)
  <2>1. UNCHANGED <<kind, state>> /\ clean' = {p}
    BY <1>5 DEF CreatePage
  <2> QED BY <1>5, <2>1, CreateMoves DEF Served
<1>6. CASE ClearBody(p)
  <2>1. UNCHANGED <<kind, state>> /\ clean' = clean \cap {p} /\ Goes(p, "append")
    BY <1>6 DEF ClearBody
  <2>2. Becomes(p, [req[p] EXCEPT !.stage = "append"])
    BY <2>1, GoesOn DEF SyncInv, Stage
  <2>3. \E r \in Request : Becomes(p, r)
    BY <2>2 DEF Becomes
  <2> QED BY <1>6, <2>1, <2>3, ClearKnows DEF Served
<1>7. CASE AppendBody(p)
  <2>1. UNCHANGED <<kind, state>> /\ clean' = clean \cap {p} /\ Goes(p, "reread")
    BY <1>7 DEF AppendBody
  <2>2. Becomes(p, [req[p] EXCEPT !.stage = "reread"])
    BY <2>1, GoesOn DEF SyncInv, Stage
  <2>3. \E r \in Request : Becomes(p, r)
    BY <2>2 DEF Becomes
  <2> QED BY <1>7, <2>1, <2>3, AppendKnows DEF Served
<1>8. CASE RetrievePushed(p)
  <2>1. UNCHANGED <<kind, page, state, now, clean>>
    BY <1>8 DEF RetrievePushed
  <2>2. Writing(p)
    BY <1>8 DEF RetrievePushed, Writing
  <2> DEFINE e == page[req[p].page].edited
  <2>3. e \in Nat /\ req[p].page \in Page
    BY <2>2, WriterKnows
  <2>4. req' = [req EXCEPT ![p].stage = "save", ![p].got.edited = e]
    BY <1>8 DEF RetrievePushed
  <2>5. \E r \in Request : Becomes(p, r)
    <3> HIDE DEF e
    <3>1. PICK r : Becomes(p, r)
      BY <2>3, <2>4, NotedRequest DEF SyncInv, Stage
    <3> QED BY <3>1 DEF Becomes
  <2> QED BY <1>8, <2>1, <2>5, RetrieveKnows, PageUntouched DEF Served, SyncInv
<1>9. CASE SaveSyncState(p)
  <2>1. UNCHANGED <<kind, page, now>> /\ Ends(p) /\ clean' = clean \ {p}
    BY <1>9 DEF SaveSyncState
  <2> QED BY <1>9, <2>1, EndKnows, SaveMoves, PageUntouched DEF Served, SyncInv
<1>10. CASE ApplyRemote(p)
  <2>1. UNCHANGED <<kind, page, now, clean>> /\ Ends(p)
    BY <1>10 DEF ApplyRemote
  <2> QED BY <1>10, <2>1, EndKnows, PullMoves, PageUntouched DEF Served, SyncInv
<1>11. CASE Expire(p)
  <2>1. UNCHANGED <<kind, page, state, now, clean>>
    BY <1>11 DEF Expire
  <2> QED BY <1>11, <2>1, ExpireKnows, PageUntouched DEF Served, SyncInv
<1>12. CASE Fails(p)
  <2>1. UNCHANGED <<kind, page, state, now, clean>> /\ Ends(p)
    BY <1>12 DEF Fails
  <2> QED BY <1>12, <2>1, EndKnows, PageUntouched DEF Served, SyncInv
<1> QED BY <1>1, <1>2, <1>3, <1>4, <1>5, <1>6, <1>7, <1>8, <1>9, <1>10, <1>11, <1>12 DEF Handle

\* What requests see of a step that is nobody's.
Edited ==
    /\ req' = req
    /\ kind' = kind
    /\ state' = state
    /\ behind' = behind
    /\ lost' = lost
    /\ PagesMove

LEMMA EditsAround ==
  ASSUME SyncInv, EditItem \/ ChangePlan \/ EditInNotion
  PROVE  Edited
<1> USE DEF bounds, history
<1>1. CASE EditItem \/ ChangePlan
  <2>1. UNCHANGED <<req, kind, state, behind, lost, page>> /\ now' = now + 1
    BY <1>1 DEF EditItem, ChangePlan
  <2> QED BY <2>1 DEF Edited, PagesMove, SyncInv, TypeOK
<1>2. CASE EditInNotion
  <2>1. UNCHANGED <<req, kind, state, behind, lost>>
    BY <1>2 DEF EditInNotion
  <2> QED BY <1>2, <2>1, EditedPage DEF Edited, SyncInv
<1> QED BY <1>1, <1>2

-----------------------------------------------------------------------------
(* The invariant is kept, one part after another.                          *)

Step == (\E p \in Proc : Handle(p)) \/ EditItem \/ ChangePlan \/ EditInNotion

\* The lock is only taken by LockEntity.
LEMMA HoldsFromLock ==
  ASSUME SyncInv, NEW p \in Proc, Handle(p), ~LockEntity(p)
  PROVE  Holds(p)' => Holds(p)
<1>1. req \in [Proc -> Request]
  BY DEF SyncInv, TypeOK
<1> USE DEF Holds, Inside, Writing
<1>2. CASE Ask(p)
  <2>1. req'[p].stage = "listed"
    BY <1>1, <1>2 DEF Ask, Idle
  <2> QED BY <2>1
<1>3. CASE SaveSyncState(p) \/ ApplyRemote(p) \/ Fails(p)
  <2>1. Ends(p)
    BY <1>3 DEF SaveSyncState, ApplyRemote, Fails
  <2> QED BY <2>1, EndKnows
<1>4. CASE Reconcile(p)
  <2>1. req'[p] = Idle \/ req'[p].open = req[p].open
    BY <1>1, <1>4 DEF Reconcile, Request, Ends
  <2>2. Inside(p) /\ Idle.open = FALSE
    BY <1>4 DEF Reconcile, Idle
  <2> QED BY <2>1, <2>2
<1>5. CASE UpdatePage(p)
  <2>1. req'[p].open = req[p].open
    BY <1>1, <1>5 DEF UpdatePage, Request
  <2> QED BY <1>5, <2>1 DEF UpdatePage
<1>6. CASE CreatePage(p)
  <2>1. req'[p] = Idle \/ req[p].open
    BY <1>1, <1>6 DEF CreatePage, Ends, Alive
  <2>2. Inside(p) /\ Idle.open = FALSE
    BY <1>6 DEF CreatePage, Idle
  <2> QED BY <2>1, <2>2
<1>7. CASE ClearBody(p) \/ AppendBody(p)
  <2>1. req'[p].open = req[p].open
    BY <1>1, <1>7 DEF ClearBody, AppendBody, Goes, Request
  <2> QED BY <1>7, <2>1 DEF ClearBody, AppendBody
<1>8. CASE RetrievePushed(p)
  <2>1. req'[p].open = req[p].open
    BY <1>1, <1>8 DEF RetrievePushed, Request
  <2> QED BY <1>8, <2>1 DEF RetrievePushed
<1>9. CASE Expire(p)
  BY <1>9, ExpireKnows
<1> QED BY <1>2, <1>3, <1>4, <1>5, <1>6, <1>7, <1>8, <1>9 DEF Handle

LEMMA OneHolderKept ==
  ASSUME SyncInv, Step
  PROVE  OneHolder'
<1>1. CASE EditItem \/ ChangePlan \/ EditInNotion
  <2>1. \A q \in Proc : Holds(q)' = Holds(q)
    BY <1>1, EditsAround DEF Edited, Holds, Inside, Writing
  <2> QED BY <2>1 DEF SyncInv, OneHolder
<1>2. ASSUME NEW p \in Proc, Handle(p)
      PROVE  OneHolder'
  <2>1. PICK r : Becomes(p, r)
    BY <1>2, HandleServes DEF Served
  <2>2. \A q \in Proc \ {p} : Holds(q)' = Holds(q)
    BY <2>1 DEF Becomes, Holds, Inside, Writing
  <2>3. Holds(p)' => \A q \in Proc \ {p} : ~Holds(q)
    <3>1. CASE LockEntity(p)
      BY <3>1 DEF LockEntity, Unlocked
    <3>2. CASE ~LockEntity(p)
      BY <1>2, <3>2, HoldsFromLock DEF SyncInv, OneHolder
    <3> QED BY <3>1, <3>2
  <2> QED BY <2>2, <2>3 DEF SyncInv, OneHolder
<1> QED BY <1>1, <1>2 DEF Step

\* Someone's edit in Notion spoils no push, or the push is no longer clean.
LEMMA EditSpoils ==
  ASSUME SyncInv, EditInNotion, NEW q \in Proc
  PROVE  PushedContent(q)'
<1>1. PICK g \in Page :
         /\ PagesMove
         /\ now < page'[g].edited
         /\ \A h \in Page \ {g} : page'[h] = page[h]
         /\ \/ /\ page'[g].body = page[g].body
               /\ clean' = {p \in clean : req[p].stage = "save"}
            \/ /\ page'[g].text = page[g].text
               /\ page'[g].date = page[g].date
               /\ page'[g].body = page[g].body \cup {Hand}
               /\ clean' = clean
  BY EditedPage DEF SyncInv
<1>2. req' = req /\ kind' = kind
  BY EditsAround DEF Edited
<1>3. SUFFICES ASSUME kind = "CONTENT", Writing(q), q \in clean'
               PROVE  PushedContent(q)'
  BY <1>2 DEF PushedContent, Writing
<1> DEFINE h == req[q].page
           snap == req[q].snap
<1>4. q \in clean
  BY <1>1, <1>3
<1>5. /\ h \in Page /\ Knows(q) /\ req[q].got.edited \in Nat /\ now \in Nat
      /\ req[q].got.edited <= page[h].edited /\ page[h].edited <= now /\ page[h].edited \in Nat
  BY <1>3, WriterKnows
<1>6. /\ req[q].stage # "save" \/ SameDate(q) =>
            page[h].text = snap.text /\ page[h].date = First(snap).date
      /\ req[q].stage = "append" => page[h].body \subseteq {Hand}
      /\ req[q].stage \in {"reread", "save"} =>
            Hand \in page[h].body \/ page[h].body = {snap.body}
  BY <1>3, <1>4, <1>5 DEF Knows, PushedContent
<1>7. SUFFICES
        /\ req[q].stage # "save" \/ page'[h].edited = req[q].got.edited =>
              page'[h].text = snap.text /\ page'[h].date = First(snap).date
        /\ req[q].stage = "append" => page'[h].body \subseteq {Hand}
        /\ req[q].stage \in {"reread", "save"} =>
              Hand \in page'[h].body \/ page'[h].body = {snap.body}
  BY <1>2 DEF PushedContent, SameDate
<1>8. CASE h # g
  BY <1>1, <1>5, <1>6, <1>8 DEF SameDate
<1>9. CASE h = g
  <2>1. page'[h].edited # req[q].got.edited
    <3>1. page'[h] \in Remote
      BY <1>1, <1>5 DEF PagesMove
    <3>2. page'[h].edited \in Nat
      BY <3>1 DEF Remote
    <3> QED BY <1>1, <1>5, <1>9, <3>2
  <2>2. CASE page'[g].body = page[g].body /\ clean' = {p \in clean : req[p].stage = "save"}
    BY <1>3, <1>6, <1>9, <2>1, <2>2
  <2>3. CASE /\ page'[g].text = page[g].text /\ page'[g].date = page[g].date
             /\ page'[g].body = page[g].body \cup {Hand}
    BY <1>6, <1>9, <2>1, <2>3
  <2> QED BY <1>1, <2>2, <2>3
<1> QED BY <1>8, <1>9

LEMMA KnowsKept ==
  ASSUME SyncInv, Step, NEW q \in Proc
  PROVE  Knows(q)'
<1>1. TypeOK /\ PagesAreOld /\ Knows(q)
  BY DEF SyncInv
<1>2. CASE EditItem \/ ChangePlan \/ EditInNotion
  <2>1. Edited
    BY <1>2, EditsAround
  <2>2. PushedContent(q)'
    <3>1. CASE EditItem \/ ChangePlan
      <4>1. page' = page /\ clean' = clean
        BY <3>1 DEF EditItem, ChangePlan, history
      <4> QED BY <1>1, <2>1, <4>1, OthersPushed DEF Edited
    <3> QED BY <1>2, <3>1, EditSpoils
  <2> QED BY <1>1, <2>1, <2>2, OthersKnow DEF Edited
<1>3. ASSUME NEW p \in Proc, Handle(p)
      PROVE  Knows(q)'
  <2>1. Served(p)
    BY <1>3, HandleServes
  <2>2. CASE q = p
    BY <2>1, <2>2 DEF Served
  <2>3. CASE q # p
    <3>1. req'[q] = req[q]
      BY <2>1, <2>3 DEF Served, Becomes
    <3>2. PushedContent(q)'
      BY <1>1, <2>1, <2>3, <3>1, OthersPushed DEF Served
    <3>3. state' = state \/ (~Holds(q) /\ StateKeepsPage)
      BY <2>1, <2>3 DEF Served, SyncInv, OneHolder
    <3> QED BY <1>1, <2>1, <3>1, <3>2, <3>3, OthersKnow DEF Served
  <2> QED BY <2>2, <2>3
<1> QED BY <1>2, <1>3 DEF Step

LEMMA PagesKept ==
  ASSUME SyncInv, Step
  PROVE  PagesMove /\ PagesAreOld' /\ kind' = kind
<1>1. PagesMove /\ kind' = kind
  BY HandleServes, EditsAround DEF Step, Served, Edited
<1>2. ASSUME NEW g \in Page PROVE page'[g].edited <= now'
  <2>1. page[g] \in Remote /\ now \in Nat /\ page[g].edited <= now
    BY DEF SyncInv, TypeOK, PagesAreOld
  <2>2. page[g].edited \in Nat
    BY <2>1 DEF Remote
  <2>3. now' \in Nat /\ now <= now' /\ (page'[g] = page[g] \/ page'[g].edited <= now')
    BY <1>1 DEF PagesMove
  <2> QED BY <2>1, <2>2, <2>3
<1> QED BY <1>1, <1>2 DEF PagesAreOld

\* A page that has been made is not unmade, nor goes back.
LEMMA StaysMade ==
  ASSUME SyncInv, PagesMove, NEW g \in Page
  PROVE  /\ page[g].edited \in Nat /\ page'[g].edited \in Nat
         /\ page[g].edited <= page'[g].edited
         /\ Made(g) => Made(g)'
<1>1. page[g] \in Remote /\ page'[g] \in Remote /\ now \in Nat /\ page[g].edited <= now
  BY DEF SyncInv, TypeOK, PagesAreOld, PagesMove
<1>2. page[g].edited \in Nat /\ page'[g].edited \in Nat
  BY <1>1 DEF Remote
<1>3. page[g].edited <= page'[g].edited
  BY <1>1, <1>2 DEF PagesMove
<1> QED BY <1>2, <1>3 DEF Made

\* The state only changes at the end of a push or of a pull.
LEMMA StateChanges ==
  ASSUME SyncInv, Step
  PROVE  state' = state \/ \E p \in Proc : SaveSyncState(p) \/ ApplyRemote(p)
<1>1. CASE EditItem \/ ChangePlan \/ EditInNotion
  BY <1>1, EditsAround DEF Edited
<1>2. ASSUME NEW p \in Proc, Handle(p)
      PROVE  state' = state \/ SaveSyncState(p) \/ ApplyRemote(p)
  BY <1>2 DEF Handle, Ask, LockEntity, Reconcile, UpdatePage, CreatePage, ClearBody, AppendBody,
     RetrievePushed, Expire, Fails, history
<1> QED BY <1>1, <1>2 DEF Step

LEMMA StateIsOldKept ==
  ASSUME SyncInv, Step
  PROVE  StateIsOld' /\ state' \in State \cup {NoState}
<1>1. PagesMove
  BY PagesKept
<1>2. CASE state' = state
  <2>1. CASE state = NoState
    BY <1>2, <2>1 DEF StateIsOld
  <2>2. CASE state # NoState
    <3>1. state \in State /\ state.page \in Page /\ state.edited \in Nat
          /\ state.edited <= page[state.page].edited
      BY <2>2, StateInTime
    <3>2. Made(state.page)'
      BY <1>1, <1>2, <2>2, <3>1, StaysMade DEF SyncInv, StateIsOld, Made
    <3>3. state.edited <= page'[state.page].edited
      BY <1>1, <3>1, StaysMade
    <3> QED BY <1>2, <3>1, <3>2, <3>3 DEF StateIsOld
  <2> QED BY <2>1, <2>2
<1>3. ASSUME NEW p \in Proc, SaveSyncState(p)
      PROVE  StateIsOld' /\ state' \in State
  <2>1. /\ state' \in State /\ Writing(p) /\ page' = page
        /\ state'.page = req[p].page /\ state'.edited = req[p].got.edited
    BY <1>3, SaveMoves DEF SaveSyncState, StateKeepsPage
  <2> QED BY <2>1, WriterKnows DEF StateIsOld, Made
<1>4. ASSUME NEW p \in Proc, ApplyRemote(p)
      PROVE  StateIsOld' /\ state' \in State
  <2>1. /\ state' \in State /\ page' = page
        /\ state'.page = req[p].page /\ state'.edited = req[p].got.edited
    BY <1>4, PullMoves DEF ApplyRemote, StateKeepsPage
  <2>2. state # NoState /\ req[p].page = state.page /\ req[p].got.edited <= page[req[p].page].edited
    BY <1>4, PullerKnows DEF ApplyRemote
  <2>3. Made(state.page)
    BY <2>2 DEF SyncInv, StateIsOld
  <2> QED BY <2>1, <2>2, <2>3 DEF StateIsOld, Made
<1> QED BY <1>2, <1>3, <1>4, StateChanges DEF SyncInv, TypeOK

LEMMA PlansKept ==
  ASSUME SyncInv, Step
  PROVE  FinitePlans' /\ item' \in Item
<1>1. item \in Item /\ IsFiniteSet(item.plans) /\ now + 1 \in Nat
  BY DEF SyncInv, TypeOK, FinitePlans
<1>2. CASE EditItem
  <2>1. PICK t \in Text \cup {Removed}, b \in Body :
          item' = [item EXCEPT !.text = t, !.body = b, !.at = now + 1]
    BY <1>2 DEF EditItem
  <2>2. item' \in Item /\ item'.plans = item.plans
    BY <1>1, <2>1 DEF Item
  <2> QED BY <1>1, <2>2 DEF FinitePlans
<1>3. CASE ChangePlan
  <2>1. PICK r \in item.plans \cup {NoPlan}, d \in Date \cup {0}, at \in {item.at, now + 1} :
          item' = [item EXCEPT !.plans = (item.plans \ {r}) \cup [date : {d} \ {0}, at : {now + 1}],
                               !.at = at]
    BY <1>1, <1>3 DEF ChangePlan, Item
  <2> DEFINE new == [date : {d} \ {0}, at : {now + 1}]
             plans == (item.plans \ {r}) \cup new
  <2>2. new \subseteq {[date |-> d, at |-> now + 1]} /\ new \subseteq PlanRow
    BY <1>1 DEF PlanRow
  <2>3. IsFiniteSet(new)
    BY <2>2, FS_Singleton, FS_Subset
  <2>4. IsFiniteSet(plans)
    <3>1. IsFiniteSet(item.plans \ {r})
      BY <1>1, FS_Subset
    <3> QED BY <2>3, <3>1, FS_Union
  <2>5. plans \in SUBSET PlanRow
    BY <1>1, <2>2 DEF Item
  <2>6. at \in Nat
    BY <1>1 DEF Item
  <2> HIDE DEF plans
  <2>7. item' = [item EXCEPT !.plans = plans, !.at = at]
    BY <2>1 DEF plans
  <2>8. item' \in Item /\ item'.plans = plans
    BY <1>1, <2>5, <2>6, <2>7 DEF Item
  <2> QED BY <2>4, <2>8 DEF FinitePlans
<1>4. ASSUME NEW p \in Proc, ApplyRemote(p)
      PROVE  FinitePlans' /\ item' \in Item
  <2>1. item' = Pulled(p) /\ Pulled(p) \in Item
    BY <1>4, PulledHasType DEF ApplyRemote, SyncInv
  <2>2. item'.plans = PulledPlans(p)
    BY <2>1 DEF Pulled
  <2>3. IsFiniteSet(PulledPlans(p))
    <3> DEFINE others == item.plans \ {First(item)}
               row == [date |-> req[p].got.date, at |-> req[p].began]
    <3>1. IsFiniteSet(others)
      BY <1>1, FS_Subset
    <3>2. IsFiniteSet(others \cup {row})
      BY <3>1, FS_AddElement
    <3> QED BY <1>1, <3>1, <3>2 DEF PulledPlans
  <2> QED BY <2>1, <2>2, <2>3 DEF FinitePlans
<1>5. ASSUME NEW p \in Proc, Handle(p), ~ApplyRemote(p)
      PROVE  item' = item
  BY <1>5 DEF Handle, Ask, LockEntity, Reconcile, UpdatePage, CreatePage, ClearBody, AppendBody,
     RetrievePushed, SaveSyncState, Expire, Fails
<1>6. CASE EditInNotion
  BY <1>1, <1>6 DEF EditInNotion, FinitePlans
<1>7. ASSUME NEW p \in Proc, Handle(p)
      PROVE  FinitePlans' /\ item' \in Item
  BY <1>1, <1>4, <1>5, <1>7 DEF FinitePlans
<1> QED BY <1>2, <1>3, <1>6, <1>7 DEF Step

LEMMA TypesStay ==
  ASSUME SyncInv, Step
  PROVE  TypeOK'
<1>1. TypeOK
  BY DEF SyncInv
<1>2. /\ kind' \in {"CONTENT", "RESOURCE"} /\ page' \in [Page -> Remote] /\ now' \in Nat
      /\ state' \in State \cup {NoState} /\ item' \in Item
  BY <1>1, PagesKept, StateIsOldKept, PlansKept DEF TypeOK, PagesMove
<1>3. req' \in [Proc -> Request]
  BY <1>1, HandleServes, EditsAround DEF Step, Served, Becomes, Edited, TypeOK
<1>4. asked' \in Nat /\ edits' \in Nat
  <2>1. asked' \in {asked, asked + 1} /\ edits' \in {edits, edits + 1}
    BY DEF Step, Handle, Ask, LockEntity, Reconcile, UpdatePage, CreatePage, ClearBody, AppendBody,
       RetrievePushed, SaveSyncState, ApplyRemote, Expire, Fails, EditItem, ChangePlan,
       EditInNotion, bounds
  <2> QED BY <1>1, <2>1 DEF TypeOK
<1>5. clean' \in SUBSET Proc
  <2>1. clean' \subseteq clean \/ \E p \in Proc : clean' = {p}
    BY DEF Step, Handle, Ask, LockEntity, Reconcile, UpdatePage, CreatePage, ClearBody, AppendBody,
       RetrievePushed, SaveSyncState, ApplyRemote, Expire, Fails, EditItem, ChangePlan,
       EditInNotion, history
  <2> QED BY <1>1, <2>1 DEF TypeOK
<1>6. behind' \in BOOLEAN
  BY <1>1, ZenonT(60) DEF TypeOK, Step, Handle, Ask, LockEntity, Reconcile, UpdatePage, CreatePage, ClearBody,
     AppendBody, RetrievePushed, SaveSyncState, ApplyRemote, Expire, Fails, EditItem, ChangePlan,
     EditInNotion, history
<1>7. lost' \in SUBSET Page
  <2>1. CASE lost' = lost
    BY <1>1, <2>1 DEF TypeOK
  <2>2. ASSUME NEW p \in Proc, CreatePage(p) PROVE lost' \in SUBSET Page
    BY <1>1, <2>2, CreateMoves DEF TypeOK
  <2>3. ASSUME NEW p \in Proc, Fails(p) PROVE lost' \in SUBSET Page
    <3>1. Writing(p) => req[p].page \in Page
      BY WriterKnows
    <3> QED BY <1>1, <2>3, <3>1 DEF TypeOK, Fails
  <2>4. lost' = lost \/ \E p \in Proc : CreatePage(p) \/ Fails(p)
    BY DEF Step, Handle, Ask, LockEntity, Reconcile, UpdatePage, ClearBody, AppendBody,
       RetrievePushed, SaveSyncState, ApplyRemote, Expire, EditItem, ChangePlan,
       EditInNotion, history
  <2> QED BY <2>1, <2>2, <2>3, <2>4
<1> QED BY <1>2, <1>3, <1>4, <1>5, <1>6, <1>7 DEF TypeOK

\* Only the end of a push says that nothing is behind.
LEMMA BehindGrows ==
  ASSUME SyncInv, Step, \A p \in Proc : ~SaveSyncState(p)
  PROVE  behind => behind'
BY DEF Step, Handle, Ask, LockEntity, Reconcile, UpdatePage, CreatePage, ClearBody, AppendBody,
   RetrievePushed, ApplyRemote, Expire, Fails, EditItem, ChangePlan, EditInNotion, history

\* The page of an only plan is the date of the page that was pulled.
LEMMA PulledDate ==
  ASSUME SyncInv, NEW p \in Proc, kind = "CONTENT", ~(Cardinality(item.plans) > 1)
  PROVE  First(Pulled(p)).date = req[p].got.date
<1> DEFINE row == [date |-> req[p].got.date, at |-> req[p].began]
<1>1. IsFiniteSet(item.plans) /\ item.plans \in SUBSET PlanRow
  BY DEF SyncInv, FinitePlans, TypeOK, Item
<1>2. item.plans \ {First(item)} = {}
  <2>1. CASE item.plans = {}
    BY <2>1
  <2>2. CASE item.plans # {}
    <3>1. First(item) \in item.plans
      BY <1>1, <2>2, FirstIsThere
    <3>2. /\ IsFiniteSet(item.plans \ {First(item)})
          /\ Cardinality(item.plans \ {First(item)}) = Cardinality(item.plans) - 1
      BY <1>1, <3>1, FS_RemoveElement
    <3>3. Cardinality(item.plans) \in Nat /\ Cardinality(item.plans \ {First(item)}) \in Nat
      BY <1>1, <3>2, FS_CardinalityType
    <3>4. Cardinality(item.plans \ {First(item)}) = 0
      BY <3>2, <3>3
    <3> QED BY <3>2, <3>4, FS_EmptySet
  <2> QED BY <2>1, <2>2
<1>3. Pulled(p).plans = PulledPlans(p) /\ Pulled(p) \in Item
  BY PulledHasType DEF Pulled, SyncInv
<1>4. Pulled(p).plans \in SUBSET PlanRow
  BY <1>3 DEF Item
<1>5. CASE req[p].got.date = 0
  <2>1. Pulled(p).plans = {}
    BY <1>2, <1>3, <1>5 DEF PulledPlans
  <2> QED BY <1>4, <1>5, <2>1, FirstIsThere DEF NoPlan
<1>6. CASE req[p].got.date # 0
  <2>1. Pulled(p).plans = {row}
    BY <1>2, <1>3, <1>6 DEF PulledPlans
  <2>2. First(Pulled(p)) = row
    BY <1>4, <2>1, FirstIsThere
  <2> QED BY <2>2
<1> QED BY <1>5, <1>6

LEMMA StatesPropertiesKept ==
  ASSUME SyncInv, Step
  PROVE  StatesProperties'
<1>1. PagesMove /\ kind' = kind
  BY PagesKept
<1>2. ASSUME NEW p \in Proc, SaveSyncState(p)
      PROVE  StatesProperties'
  <2>1. /\ Writing(p) /\ page' = page /\ behind' = (p \notin clean)
        /\ state'.page = req[p].page /\ state'.edited = req[p].got.edited
        /\ state'.hash = Hash(req[p].snap) /\ req[p].stage = "save"
    BY <1>2, SaveMoves DEF SaveSyncState, Pushed
  <2>2. state'.hash.text = req[p].snap.text /\ state'.hash.first = First(req[p].snap)
    BY <2>1 DEF Hash
  <2>3. SUFFICES ASSUME page[req[p].page].edited = req[p].got.edited, UpToDate'
                 PROVE  /\ page[req[p].page].text = state'.hash.text
                        /\ kind = "CONTENT" => page[req[p].page].date = state'.hash.first.date
    BY <1>1, <2>1 DEF StatesProperties
  <2>4. Knows(p) /\ SameDate(p) /\ kind \in {"CONTENT", "RESOURCE"}
    BY <2>1, <2>3, WriterKnows DEF SameDate, SyncInv, TypeOK
  <2>5. CASE kind = "RESOURCE"
    BY <2>1, <2>2, <2>4, <2>5 DEF Knows, PushedResource
  <2>6. CASE kind = "CONTENT"
    <3>1. p \in clean
      BY <1>1, <2>1, <2>3, <2>6 DEF UpToDate
    <3> QED BY <2>1, <2>2, <2>4, <2>6, <3>1 DEF Knows, PushedContent
  <2> QED BY <2>4, <2>5, <2>6
<1>3. ASSUME NEW p \in Proc, ApplyRemote(p)
      PROVE  StatesProperties'
  <2>1. /\ page' = page /\ req[p].stage = "pull"
        /\ behind' = (behind \/ item.body # state.hash.body \/ Cardinality(item.plans) > 1)
        /\ state'.page = req[p].page /\ state'.edited = req[p].got.edited
        /\ state'.hash = Hash(Pulled(p))
    BY <1>3, PullMoves DEF ApplyRemote
  <2>2. state'.hash.text = Pulled(p).text /\ state'.hash.first = First(Pulled(p))
    BY <2>1 DEF Hash
  <2>3. SUFFICES ASSUME page[req[p].page].edited = req[p].got.edited, UpToDate'
                 PROVE  LET remote == page[req[p].page] IN
                        /\ remote.text = state'.hash.text \/ ~Readable(remote.text)
                        /\ kind = "CONTENT" => remote.date = state'.hash.first.date
    BY <1>1, <2>1 DEF StatesProperties, Readable
  <2>4. page[req[p].page] = req[p].got
    BY <2>1, <2>3, PullerKnows DEF Knows, GotThePage, SameDate
  <2>5. Readable(req[p].got.text) => state'.hash.text = req[p].got.text
    BY <2>2 DEF Pulled
  <2>6. kind = "CONTENT" => req[p].got.date = First(Pulled(p)).date
    <3>1. SUFFICES ASSUME kind = "CONTENT" PROVE req[p].got.date = First(Pulled(p)).date
      OBVIOUS
    <3>2. ~(Cardinality(item.plans) > 1)
      BY <1>1, <2>1, <2>3, <3>1 DEF UpToDate
    <3> QED BY <3>1, <3>2, PulledDate
  <2> QED BY <2>2, <2>4, <2>5, <2>6
<1>4. CASE \A p \in Proc : ~SaveSyncState(p) /\ ~ApplyRemote(p)
  <2>1. state' = state /\ (behind => behind')
    BY <1>4, StateChanges, BehindGrows
  <2>2. SUFFICES ASSUME state # NoState, page'[state.page].edited = state.edited, UpToDate'
                 PROVE  page'[state.page] = page[state.page]
    BY <1>1, <2>1 DEF SyncInv, StatesProperties, UpToDate, Readable
  <2>3. /\ state.page \in Page /\ state.edited \in Nat /\ now \in Nat
        /\ page[state.page].edited \in Nat
        /\ state.edited <= page[state.page].edited /\ page[state.page].edited <= now
    BY <2>2, StateInTime
  <2> QED BY <1>1, <2>2, <2>3 DEF PagesMove
<1> QED BY <1>2, <1>3, <1>4

\* A request that is not writing after its step has made no page it did not
\* tell, and if it was writing, it has saved or something is behind.
LEMMA WritingEnds ==
  ASSUME SyncInv, NEW p \in Proc, Handle(p), ~Writing(p)'
  PROVE  /\ \A g \in Page : Made(g) => page'[g] = page[g]
         /\ Writing(p) => SaveSyncState(p) \/ (Fails(p) /\ behind')
<1>1. CASE CreatePage(p)
  <2>1. ~Writing(p)
    BY <1>1 DEF CreatePage, Writing
  <2> QED BY <1>1, <2>1, CreateMoves
<1>2. ~UpdatePage(p) /\ ~ClearBody(p) /\ ~AppendBody(p) /\ ~RetrievePushed(p)
  BY UpdateKnows, ClearKnows, AppendKnows, RetrieveKnows
<1>3. CASE Expire(p)
  BY <1>3, ExpireKnows DEF Expire
<1>4. CASE Ask(p) \/ LockEntity(p) \/ Reconcile(p) \/ ApplyRemote(p)
  BY <1>4 DEF Ask, LockEntity, Reconcile, ApplyRemote, Writing
<1>5. CASE SaveSyncState(p) \/ Fails(p)
  BY <1>5 DEF SaveSyncState, Fails
<1> QED BY <1>1, <1>2, <1>3, <1>4, <1>5 DEF Handle

LEMMA StatesBodyKept ==
  ASSUME SyncInv, Step
  PROVE  StatesBody'
<1>1. PagesMove /\ kind' = kind
  BY PagesKept
<1>2. SUFFICES ASSUME state' # NoState, kind = "CONTENT", ~behind', \A q \in Proc : ~Writing(q)'
               PROVE  LET remote == page'[state'.page] IN
                      Hand \in remote.body \/ remote.body = {state'.hash.body}
  BY <1>1 DEF StatesBody
<1>3. ASSUME NEW p \in Proc, SaveSyncState(p)
      PROVE  LET remote == page'[state'.page] IN
             Hand \in remote.body \/ remote.body = {state'.hash.body}
  <2>1. /\ Writing(p) /\ page' = page /\ p \in clean /\ req[p].stage = "save"
        /\ state'.page = req[p].page /\ state'.hash = Hash(req[p].snap)
    BY <1>2, <1>3, SaveMoves DEF SaveSyncState, Pushed
  <2>2. state'.hash.body = req[p].snap.body
    BY <2>1 DEF Hash
  <2>3. Knows(p)
    BY DEF SyncInv
  <2> QED BY <1>2, <2>1, <2>2, <2>3 DEF Knows, PushedContent
<1>4. CASE \A p \in Proc : ~SaveSyncState(p)
  <2>1. ~behind
    BY <1>2, <1>4, BehindGrows
  <2>2. ASSUME NEW q \in Proc PROVE ~Writing(q)
    <3>1. CASE EditItem \/ ChangePlan \/ EditInNotion
      BY <1>2, <3>1, EditsAround DEF Edited, Writing
    <3>2. ASSUME NEW p \in Proc, Handle(p) PROVE ~Writing(q)
      <4>1. CASE q = p
        BY <1>2, <1>4, <3>2, <4>1, WritingEnds
      <4>2. CASE q # p
        BY <1>2, <3>2, <4>2, HandleServes DEF Served, Becomes, Writing
      <4> QED BY <4>1, <4>2
    <3> QED BY <3>1, <3>2 DEF Step
  <2>3. state # NoState /\ state'.page = state.page /\ state'.hash.body = state.hash.body
    <3>1. CASE state' = state
      BY <1>2, <3>1
    <3>2. ASSUME NEW p \in Proc, ApplyRemote(p)
          PROVE  state # NoState /\ state'.page = state.page /\ state'.hash.body = state.hash.body
      <4>1. /\ state # NoState /\ state'.page = state.page /\ state'.hash = Hash(Pulled(p))
        BY <3>2, PullMoves, PullerKnows DEF ApplyRemote
      <4>2. state'.hash.body = item.body
        BY <4>1, PulledHasType DEF Hash, SyncInv
      <4>3. item.body = state.hash.body
        BY <1>2, <3>2 DEF ApplyRemote
      <4> QED BY <4>1, <4>2, <4>3
    <3> QED BY <1>4, <3>1, <3>2, StateChanges
  <2>4. /\ state.page \in Page /\ Made(state.page)
        /\ Hand \in page[state.page].body \/ page[state.page].body = {state.hash.body}
    BY <1>2, <2>1, <2>2, <2>3, StateInTime DEF SyncInv, StatesBody, StateIsOld
  <2>5. \/ page'[state.page] = page[state.page]
        \/ page'[state.page].body = page[state.page].body
        \/ page'[state.page].body = page[state.page].body \cup {Hand}
    <3>1. CASE EditItem \/ ChangePlan
      BY <3>1 DEF EditItem, ChangePlan
    <3>2. CASE EditInNotion
      BY <2>4, <3>2, EditedPage DEF SyncInv
    <3>3. ASSUME NEW p \in Proc, Handle(p) PROVE page'[state.page] = page[state.page]
      BY <1>2, <2>4, <3>3, WritingEnds
    <3> QED BY <3>1, <3>2, <3>3 DEF Step
  <2> QED BY <2>3, <2>4, <2>5
<1> QED BY <1>3, <1>4

\* Why a page that was made stays known.
Known(g) ==
    \/ state # NoState /\ state.page = g
    \/ g \in lost
    \/ \E p \in Proc : Writing(p) /\ req[p].page = g

LEMMA LostGrows ==
  ASSUME SyncInv, Step
  PROVE  lost \subseteq lost'
BY ZenonT(60) DEF Step, Handle, Ask, LockEntity, Reconcile, UpdatePage, CreatePage, ClearBody, AppendBody,
   RetrievePushed, SaveSyncState, ApplyRemote, Expire, Fails, EditItem, ChangePlan, EditInNotion,
   history

\* Only CreatePage makes a page.
LEMMA MadeBefore ==
  ASSUME SyncInv, Step, \A p \in Proc : ~CreatePage(p), NEW g \in Page, Made(g)'
  PROVE  Made(g)
<1>1. ASSUME NEW p \in Proc, UpdatePage(p) PROVE Made(g)
  <2>1. req[p].page \in Page
    BY <1>1, UpdateKnows
  <2>2. page' = [page EXCEPT ![req[p].page] = [Shown(p, page[req[p].page]) EXCEPT !.edited = now + 1]]
    BY <1>1 DEF UpdatePage, Writes
  <2>3. CASE g # req[p].page
    BY <2>1, <2>2, <2>3 DEF Made, SyncInv, TypeOK
  <2>4. CASE g = req[p].page
    <3>1. Knows(p) /\ Inside(p) /\ ~Writing(p) /\ req[p].page # None
      BY <1>1 DEF SyncInv, UpdatePage, Inside, Writing
    <3>2. state # NoState /\ state.page = req[p].page
      BY <3>1 DEF Knows, NoPageYet, OnItsPage
    <3> QED BY <2>4, <3>2 DEF SyncInv, StateIsOld
  <2> QED BY <2>3, <2>4
<1>2. ASSUME NEW p \in Proc, ClearBody(p) \/ AppendBody(p) PROVE Made(g)
  <2>1. Writing(p)
    BY <1>2 DEF ClearBody, AppendBody, Writing
  <2>2. req[p].page \in Page /\ Made(req[p].page)
    BY <2>1, WriterKnows DEF Made
  <2>3. g # req[p].page => page'[g] = page[g]
    BY <1>2, <2>2 DEF ClearBody, AppendBody, Writes, SyncInv, TypeOK
  <2> QED BY <2>2, <2>3 DEF Made
<1>3. CASE EditInNotion
  <2>1. PICK h \in Page : Made(h) /\ \A o \in Page \ {h} : page'[o] = page[o]
    BY <1>3, EditedPage DEF SyncInv
  <2> QED BY <2>1 DEF Made
<1>4. CASE page' = page
  BY <1>4 DEF Made
<1>5. \/ page' = page \/ EditInNotion
      \/ \E p \in Proc : UpdatePage(p) \/ CreatePage(p) \/ ClearBody(p) \/ AppendBody(p)
  BY DEF Step, Handle, Ask, LockEntity, Reconcile, RetrievePushed, SaveSyncState, ApplyRemote,
     Expire, Fails, EditItem, ChangePlan
<1> QED BY <1>1, <1>2, <1>3, <1>4, <1>5

\* A request that writes on keeps its page; one that ends leaves it to the
\* state, or lost.
LEMMA WriterTells ==
  ASSUME SyncInv, NEW p \in Proc, Handle(p), Writing(p)
  PROVE  \/ Writing(p)' /\ req'[p].page = req[p].page
         \/ state' # NoState /\ state'.page = req[p].page
         \/ req[p].page \in lost'
<1>1. Knows(p) /\ Inside(p) /\ req[p] \in Request
  BY WriterKnows
<1>2. CASE ClearBody(p) \/ AppendBody(p) \/ RetrievePushed(p)
  <2>1. Writing(p)'
    BY <1>2, ClearKnows, AppendKnows, RetrieveKnows
  <2>2. req'[p].page = req[p].page
    BY <1>1, <1>2 DEF ClearBody, AppendBody, RetrievePushed, Goes, SyncInv, TypeOK, Request
  <2> QED BY <2>1, <2>2
<1>3. CASE SaveSyncState(p)
  BY <1>3, SaveMoves, Constants DEF StateKeepsPage
<1>4. CASE Expire(p)
  BY <1>4, ExpireKnows
<1>5. CASE Fails(p)
  <2>1. CASE req[p].seen = NoState
    BY <1>5, <2>1 DEF Fails
  <2>2. CASE req[p].seen # NoState
    BY <1>1, <1>5, <2>2 DEF Fails, Knows, OnItsPage
  <2> QED BY <2>1, <2>2
<1>6. ~(Ask(p) \/ LockEntity(p) \/ Reconcile(p) \/ UpdatePage(p) \/ CreatePage(p) \/ ApplyRemote(p))
  BY DEF Ask, LockEntity, Reconcile, UpdatePage, CreatePage, ApplyRemote, Writing
<1> QED BY <1>2, <1>3, <1>4, <1>5, <1>6 DEF Handle

LEMMA NoPageLostKept ==
  ASSUME SyncInv, Step
  PROVE  NoPageLost'
<1>1. ASSUME NEW g \in Page, Known(g)
      PROVE  Known(g)'
  <2>1. CASE state # NoState /\ state.page = g
    <3>1. state' = state \/ StateKeepsPage
      BY StateChanges, SaveMoves, PullMoves
    <3> QED BY <2>1, <3>1, Constants DEF StateKeepsPage, Known
  <2>2. CASE g \in lost
    BY <2>2, LostGrows DEF Known
  <2>3. ASSUME NEW q \in Proc, Writing(q), req[q].page = g
        PROVE  Known(g)'
    <3>1. CASE req'[q] = req[q]
      BY <2>3, <3>1 DEF Writing, Known
    <3>2. CASE Handle(q)
      BY <2>3, <3>2, WriterTells DEF Known
    <3>3. req'[q] = req[q] \/ Handle(q)
      BY HandleServes, EditsAround DEF Step, Served, Becomes, Edited
    <3> QED BY <3>1, <3>2, <3>3
  <2> QED BY <1>1, <2>1, <2>2, <2>3 DEF Known
<1>2. ASSUME NEW p \in Proc, CreatePage(p), NEW g \in Page, ~Made(g), Made(g)'
      PROVE  Known(g)'
  <2>1. PICK h \in Page :
          /\ \A o \in Page \ {h} : page'[o] = page[o]
          /\ \/ Writing(p)' /\ req'[p].page = h
             \/ lost' = lost \cup {h}
    BY <1>2, CreateMoves
  <2>2. g = h
    BY <1>2, <2>1 DEF Made
  <2> QED BY <2>1, <2>2 DEF Known
<1>3. ASSUME NEW g \in Page, Made(g)'
      PROVE  Known(g)'
  <2>1. CASE Made(g)
    BY <1>1, <2>1 DEF SyncInv, NoPageLost, Known
  <2>2. CASE ~Made(g)
    <3>1. PICK p \in Proc : CreatePage(p)
      BY <1>3, <2>2, MadeBefore
    <3> QED BY <1>2, <1>3, <2>2, <3>1
  <2> QED BY <2>1, <2>2
<1> QED BY <1>3 DEF NoPageLost, Known

-----------------------------------------------------------------------------
(* The invariant, and what it implies.                                     *)

LEMMA InvHoldsFirst == Init => SyncInv
<1> SUFFICES ASSUME Init PROVE SyncInv
  OBVIOUS
<1>1. item \in Item /\ item.plans = {}
  BY DEF Init, Item
<1>2. TypeOK
  BY <1>1, Constants DEF Init, TypeOK
<1>3. \A p \in Proc : req[p].stage = "idle"
  BY DEF Init, Idle
<1>4. \A p \in Proc : ~Inside(p) /\ ~Writing(p) /\ ~Holds(p)
  BY <1>3 DEF Inside, Writing, Holds
<1>5. \A p \in Proc : Knows(p)
  BY <1>3, <1>4 DEF Knows, SeesState, OnItsPage, NoPageYet, OnAPage, GotInTime, Decided,
     GotThePage, PushedResource, PushedContent
<1>6. \A g \in Page : page[g].edited = 0
  BY DEF Init, NoRemote
<1>7. PagesAreOld /\ NoPageLost
  BY <1>6 DEF PagesAreOld, NoPageLost, Made, Init
<1>8. StateIsOld /\ StatesProperties /\ StatesBody
  BY DEF Init, StateIsOld, StatesProperties, StatesBody
<1>9. FinitePlans
  BY <1>1, FS_EmptySet DEF FinitePlans
<1> QED BY <1>2, <1>4, <1>5, <1>7, <1>8, <1>9 DEF SyncInv, OneHolder

LEMMA InvKept == SyncInv /\ [Next]_vars => SyncInv'
<1> SUFFICES ASSUME SyncInv, [Next]_vars PROVE SyncInv'
  OBVIOUS
<1>1. CASE Next
  <2>1. Step
    BY <1>1 DEF Next, Step
  <2> QED BY <2>1, TypesStay, OneHolderKept, PagesKept, StateIsOldKept, KnowsKept, PlansKept,
             StatesPropertiesKept, StatesBodyKept, NoPageLostKept DEF SyncInv
<1>2. CASE UNCHANGED vars
  <2>1. UNCHANGED <<kind, item, page, state, req, now, asked, edits, clean, behind, lost>>
    BY <1>2 DEF vars
  <2>2. TypeOK'
    BY <2>1 DEF SyncInv, TypeOK
  <2>3. \A p \in Proc : /\ Inside(p)' = Inside(p) /\ Writing(p)' = Writing(p)
                        /\ Holds(p)' = Holds(p)
    BY <2>1 DEF Inside, Writing, Holds
  <2>4. OneHolder' /\ PagesAreOld' /\ StateIsOld' /\ FinitePlans'
    BY <2>1, <2>3 DEF SyncInv, OneHolder, PagesAreOld, StateIsOld, FinitePlans, Made
  <2>5. StatesProperties' /\ StatesBody' /\ NoPageLost'
    BY <2>1, <2>3 DEF SyncInv, StatesProperties, StatesBody, NoPageLost, UpToDate, Readable, Made
  <2>6. ASSUME NEW p \in Proc PROVE Knows(p)'
    <3>1. TypeOK /\ PagesAreOld /\ Knows(p) /\ PagesMove
      BY <2>1, PageUntouched DEF SyncInv
    <3> QED BY <2>1, <3>1, OthersKnow, OthersPushed
  <2> QED BY <2>2, <2>4, <2>5, <2>6 DEF SyncInv
<1> QED BY <1>1, <1>2

\* The invariant holds always: what follows about states is read from it.
THEOREM Invariant == Spec => []SyncInv
<1> QED BY InvHoldsFirst, InvKept, PTL DEF Spec

\* Every variable keeps its type: a pull stores a status that exists
\* (fromNotionContentStatus), and a page is only written when there is one.
THEOREM TypesKept == Spec => []TypeOK
<1>1. SyncInv => TypeOK
  BY DEF SyncInv
<1> QED BY <1>1, Invariant, PTL

\* However many requests cross, whatever expires or fails, each page is the
\* one of the state, is being pushed, or was lost here (withEntityLock).
THEOREM OnePage == Spec => []NoPageLost
<1>1. SyncInv => NoPageLost
  BY DEF SyncInv
<1> QED BY <1>1, Invariant, PTL

\* What a synchronisation leaves alone agrees with its page
\* (reconcileContent, reconcileResource).
THEOREM LeftAloneAgrees == Spec => []SynchronisedAgrees
<1>1. SyncInv => SynchronisedAgrees
  <2> SUFFICES ASSUME SyncInv, TakenForSynchronised, kind = "CONTENT" => ~behind
               PROVE  PropertiesAgree /\ BodiesAgree
    BY DEF SynchronisedAgrees
  <2>1. /\ state # NoState /\ page[state.page].edited = state.edited
        /\ \A p \in Proc : ~Writing(p)
    BY DEF TakenForSynchronised
  <2>2. /\ state.hash.text = item.text /\ state.hash.body = item.body
        /\ state.hash.first = First(item)
    BY DEF TakenForSynchronised, Hash
  <2>3. PropertiesAgree
    BY <2>1, <2>2 DEF SyncInv, StatesProperties, UpToDate, PropertiesAgree
  <2>4. BodiesAgree
    BY <2>1, <2>2 DEF SyncInv, StatesBody, BodiesAgree
  <2> QED BY <2>3, <2>4
<1> QED BY <1>1, Invariant, PTL

\* The state keeps its page and never goes back to an earlier version of it:
\* only a request whose transaction is still there saves (saveSyncState).
THEOREM StateNeverBack == Spec => StateMovesForward
<1> DEFINE Forward == state # NoState => /\ state' # NoState /\ state'.page = state.page
                                         /\ state'.edited >= state.edited
<1>1. SyncInv /\ [Next]_vars => [Forward]_vars
  <2> SUFFICES ASSUME SyncInv, Next, state # NoState
               PROVE  /\ state' # NoState /\ state'.page = state.page
                      /\ state'.edited >= state.edited
    OBVIOUS
  <2>1. Step
    BY DEF Next, Step
  <2>2. state.edited \in Nat
    BY StateInTime
  <2>3. state' = state \/ (StateKeepsPage /\ state.edited <= state'.edited)
    BY <2>1, StateChanges, SaveMoves, PullMoves
  <2>4. CASE state' = state
    BY <2>2, <2>4
  <2>5. CASE StateKeepsPage /\ state.edited <= state'.edited
    <3>1. state' \in State /\ state'.page = state.page
      BY <2>5 DEF StateKeepsPage
    <3>2. state'.edited \in Nat
      BY <3>1 DEF State
    <3> QED BY <2>2, <2>5, <3>1, <3>2, Constants
  <2> QED BY <2>3, <2>4, <2>5
<1> QED BY <1>1, Invariant, PTL DEF Spec, StateMovesForward

\* A synchronisation overwrites what it has not synchronised as its rule says,
\* or what was changed after it had looked (shouldLocalWin).
THEOREM RuleFollowed == Spec => ConflictFollowsRule
<1>1. SyncInv => \A p \in Proc : OverwritesAsRuled(p)
  <2> SUFFICES ASSUME SyncInv, NEW p \in Proc
               PROVE  OverwritesAsRuled(p)
    OBVIOUS
  <2> DEFINE Pulls ==
               req[p].stage = "pull" /\ state' # state =>
                 \/ Hash(item) = state.hash \/ item # req[p].snap
                 \/ ~ShouldLocalWin(p, req[p].got)
             Pushes ==
               req[p].stage = "write" /\ page' # page =>
                 LET remote == page[req[p].page] IN
                 \/ remote.edited <= state.edited + Tolerance \/ remote # req[p].got
                 \/ ShouldLocalWin(p, remote)
  <2> SUFFICES ASSUME req[p].rule # "EXPORT", req[p].seen # NoState, req[p].open
               PROVE  Pulls /\ Pushes
    BY DEF OverwritesAsRuled
  <2>1. Knows(p)
    BY DEF SyncInv
  <2>2. Pulls
    <3>1. SUFFICES ASSUME req[p].stage = "pull", item = req[p].snap, ShouldLocalWin(p, req[p].got)
                   PROVE  Hash(item) = state.hash
      OBVIOUS
    <3>2. req[p].seen = state /\ ~KeepsLocal(p, req[p].got)
      BY <2>1, <3>1, PullerKnows DEF Knows, Decided
    <3> QED BY <3>1, <3>2 DEF KeepsLocal, LocalChanged
  <2>3. Pushes
    <3>1. SUFFICES ASSUME req[p].stage = "write", page[req[p].page] = req[p].got,
                          ~ShouldLocalWin(p, req[p].got)
                   PROVE  req[p].got.edited <= state.edited + Tolerance
      OBVIOUS
    <3>2. req[p].seen = state /\ KeepsLocal(p, req[p].got)
      BY <2>1, <3>1 DEF Knows, SeesState, Decided, Holds, Inside
    <3>3. ~(req[p].got.edited > state.edited + Tolerance)
      BY <3>1, <3>2 DEF KeepsLocal, RemoteChanged
    <3>4. state.edited \in Nat /\ Tolerance \in Nat /\ req[p].got.edited \in Nat
      <4>1. state.edited \in Nat
        BY <3>2, StateInTime
      <4>2. req[p] \in Request
        BY DEF SyncInv, TypeOK
      <4>3. req[p].got.edited \in Nat
        BY <4>2 DEF Request, Remote
      <4> QED BY <4>1, <4>3, SyncAssumption
    <3> QED BY <3>3, <3>4
  <2> QED BY <2>2, <2>3
<1>2. SyncInv /\ [Next]_vars => [\A p \in Proc : OverwritesAsRuled(p)]_vars
  BY <1>1
<1> QED BY <1>2, Invariant, PTL DEF Spec, ConflictFollowsRule
=============================================================================
