---------------------- MODULE IndependentParts_proofs ----------------------
(***************************************************************************)
(* Proofs about the parts that MC_IndependentParts runs beside the leases, *)
(* for all values of their constants: the feeds, the recommendations, the  *)
(* limits of requests, and the deck of ideas in a browser (DiscoveryDeck), *)
(* for any number of organizations, cards and calls.                       *)
(***************************************************************************)
EXTENDS MC_IndependentParts, SequenceTheorems, FiniteSetTheorems, TLAPS

-----------------------------------------------------------------------------
(* The composition: each part makes its own steps or none.                 *)

LEMMA FeedsRun == MCSpec => Feeds!Spec
<1>1. MCInit => Feeds!Init
  BY DEF MCInit
<1>2. [MCNext]_all => [Feeds!Next]_Feeds!vars
  BY DEF MCNext, LeasesNext, FeedsNext, RecommendationsNext, LimitsNext, DeckNext, all,
         cVars, Feeds!vars
<1> QED BY <1>1, <1>2, PTL DEF MCSpec, Feeds!Spec

LEMMA RecommendationsRun == MCSpec => Recommendations!Spec
<1>1. MCInit => Recommendations!Init
  BY DEF MCInit
<1>2. [MCNext]_all => [Recommendations!Next]_Recommendations!vars
  BY DEF MCNext, LeasesNext, FeedsNext, RecommendationsNext, LimitsNext, DeckNext, all,
         nVars, Recommendations!vars
<1> QED BY <1>1, <1>2, PTL DEF MCSpec, Recommendations!Spec

LEMMA LimitsRun == MCSpec => Limits!Spec
<1>1. MCInit => Limits!Init
  BY DEF MCInit
<1>2. [MCNext]_all => [Limits!Next]_Limits!vars
  BY DEF MCNext, LeasesNext, FeedsNext, RecommendationsNext, LimitsNext, DeckNext, all,
         lVars, Limits!vars
<1> QED BY <1>1, <1>2, PTL DEF MCSpec, Limits!Spec

-----------------------------------------------------------------------------
(* A sequence without one of its elements.                                 *)

WithoutPlace(s, i) == SubSeq(s, 1, i - 1) \o SubSeq(s, i + 1, Len(s))

LEMMA WithoutPlaceProperties ==
  ASSUME NEW S, NEW s \in Seq(S), NEW i \in 1..Len(s)
  PROVE  /\ WithoutPlace(s, i) \in Seq(S)
         /\ Len(WithoutPlace(s, i)) = Len(s) - 1
         /\ \A j \in 1..(Len(s) - 1) :
              WithoutPlace(s, i)[j] = IF j < i THEN s[j] ELSE s[j + 1]
<1> DEFINE a == SubSeq(s, 1, i - 1)
           b == SubSeq(s, i + 1, Len(s))
<1>0. Len(s) \in Nat /\ i \in Int /\ \A j \in 1..Len(s) : s[j] \in S
  BY ElementOfSeq, LenProperties
<1>1. a \in Seq(S) /\ Len(a) = i - 1 /\ \A j \in 1..(i - 1) : a[j] = s[j]
  <2>1. /\ SubSeq(s, 1, i - 1) \in Seq(S)
        /\ Len(SubSeq(s, 1, i - 1)) = IF 1 <= i - 1 THEN i - 1 - 1 + 1 ELSE 0
        /\ \A j \in 1..(i - 1) - 1 + 1 : SubSeq(s, 1, i - 1)[j] = s[1 + j - 1]
    BY <1>0, SubSeqProperties
  <2> QED BY <1>0, <2>1
<1>2. b \in Seq(S) /\ Len(b) = Len(s) - i /\ \A j \in 1..(Len(s) - i) : b[j] = s[i + j]
  <2>1. /\ SubSeq(s, i + 1, Len(s)) \in Seq(S)
        /\ Len(SubSeq(s, i + 1, Len(s))) = IF i + 1 <= Len(s) THEN Len(s) - (i + 1) + 1 ELSE 0
        /\ \A j \in 1..Len(s) - (i + 1) + 1 : SubSeq(s, i + 1, Len(s))[j] = s[(i + 1) + j - 1]
    BY <1>0, SubSeqProperties
  <2> QED BY <1>0, <2>1
<1> HIDE DEF a, b
<1>3. /\ a \o b \in Seq(S) /\ Len(a \o b) = Len(a) + Len(b)
      /\ \A j \in 1..Len(a) + Len(b) : (a \o b)[j] = IF j <= Len(a) THEN a[j] ELSE b[j - Len(a)]
  BY <1>1, <1>2, ConcatProperties
<1>4. WithoutPlace(s, i) = a \o b
  BY DEF WithoutPlace, a, b
<1>5. ASSUME NEW j \in 1..(Len(s) - 1)
      PROVE  (a \o b)[j] = IF j < i THEN s[j] ELSE s[j + 1]
  <2>1. CASE j < i
    BY <1>0, <1>1, <1>2, <1>3, <2>1
  <2>2. CASE j >= i
    <3>1. (a \o b)[j] = b[j - (i - 1)]
      BY <1>0, <1>1, <1>2, <1>3, <2>2
    <3>2. j - (i - 1) \in 1..(Len(s) - i) /\ i + (j - (i - 1)) = j + 1
      BY <1>0, <2>2
    <3>3. b[j - (i - 1)] = s[j + 1]
      BY <1>2, <3>2
    <3>4. ~(j < i)
      BY <1>0, <2>2
    <3>5. (a \o b)[j] = s[j + 1]
      BY <3>1, <3>3
    <3> QED BY <3>4, <3>5
  <2>3. j < i \/ j >= i
    BY <1>0
  <2> QED BY <2>1, <2>2, <2>3, Zenon
<1> QED BY <1>0, <1>1, <1>2, <1>3, <1>4, <1>5

-----------------------------------------------------------------------------
(* Feeds (CurationFeeds).                                                  *)

LEMMA BackoffIsShort ==
  ASSUME NEW n \in Nat
  PROVE  Feeds!Backoff(n) \in 0..64
<1>1. Feeds!AtMost(n, 6) + 1 \in 1..7
  BY DEF Feeds!AtMost
<1>2. \A i \in 1..7 : Feeds!Pow2[i] \in 1..64
  BY DEF Feeds!Pow2
<1>3. Feeds!Pow2[Feeds!AtMost(n, 6) + 1] \in 1..64
  BY <1>1, <1>2
<1> QED BY <1>3 DEF Feeds!Backoff, Feeds!AtMost

LEMMA FeedsIdleTyped == Feeds!Idle \in Feeds!Call /\ Feeds!Idle.stage = "idle"
  BY FeedsAssumption DEF Feeds!Idle, Feeds!Call, Feeds!SomePage

LEMMA FeedsGoesTyped ==
  ASSUME Feeds!TypeOK, NEW p \in Caller,
         NEW s \in {"next", "fetch", "check", "create", "success", "failure", "tags"},
         Feeds!Goes(p, s)
  PROVE  /\ cReq' \in [Caller -> Feeds!Call]
         /\ cReq'[p] = [cReq[p] EXCEPT !.stage = s]
         /\ \A q \in Caller \ {p} : cReq'[q] = cReq[q]
<1>1. cReq[p] \in Feeds!Call
  BY DEF Feeds!TypeOK
<1>2. [cReq[p] EXCEPT !.stage = s] \in Feeds!Call
  BY <1>1 DEF Feeds!Call
<1> QED BY <1>2 DEF Feeds!Goes, Feeds!TypeOK

LEMMA FeedsEndsTyped ==
  ASSUME Feeds!TypeOK, NEW p \in Caller, Feeds!Ends(p)
  PROVE  /\ cReq' \in [Caller -> Feeds!Call]
         /\ cReq'[p] = Feeds!Idle
         /\ \A q \in Caller \ {p} : cReq'[q] = cReq[q]
  BY FeedsIdleTyped DEF Feeds!Ends, Feeds!TypeOK

LEMMA FeedsGoesOnTyped ==
  ASSUME Feeds!TypeOK, NEW p \in Caller, Feeds!GoesOn(p)
  PROVE  /\ cReq' \in [Caller -> Feeds!Call]
         /\ cReq'[p].stage \in {"idle", "next"}
         /\ \A q \in Caller \ {p} : cReq'[q] = cReq[q]
<1>1. CASE Feeds!Ends(p)
  BY <1>1, FeedsEndsTyped, FeedsIdleTyped
<1>2. CASE Feeds!Goes(p, "next")
  <2>1. [cReq[p] EXCEPT !.stage = "next"].stage = "next"
    BY DEF Feeds!TypeOK, Feeds!Call
  <2> QED BY <1>2, <2>1, FeedsGoesTyped
<1> QED BY <1>1, <1>2 DEF Feeds!GoesOn

LEMMA FeedsCountsTyped ==
  ASSUME Feeds!TypeOK, NEW p \in Caller,
         Feeds!Asks(p) \/ Feeds!Troubles \/ UNCHANGED Feeds!counts
  PROVE  cTroubles' \in 0..MaxTroubles /\ cByHand' \in 0..MaxByHand
  BY FeedsAssumption DEF Feeds!TypeOK, Feeds!Asks, Feeds!Troubles, Feeds!counts

\* The calls that start: their record is a new one.
FeedsStart(p) ==
    \/ Feeds!ReadDueFeeds(p)
    \/ \E f \in Feed : Feeds!AddRssFeed(p, f) \/ Feeds!ImportFeed(p, f)
    \/ \E u \in Page : Feeds!AddResourceUrl(p, u) \/ Feeds!AskProvider(p, u)

LEMMA FeedsStartTyped ==
  ASSUME Feeds!TypeOK, NEW p \in Caller, FeedsStart(p)
  PROVE  /\ cReq' \in [Caller -> Feeds!Call]
         /\ cReq'[p].stage \in {"next", "insert", "write"}
         /\ cReq'[p].stage = "write" => cResource[cReq'[p].page] # "NONE"
         /\ \A q \in Caller \ {p} : cReq'[q] = cReq[q]
         /\ Feeds!TypeOK'
<1>0. \A f \in Feed : cFeed[f] \in Feeds!FeedRow /\ cFeed[f].failures \in Nat
  BY DEF Feeds!TypeOK, Feeds!FeedRow
<1>1. CASE Feeds!ReadDueFeeds(p)
  <2> DEFINE due == {f \in Feed : Feeds!Due(f)}
  <2>1. cReq' = [cReq EXCEPT ![p] =
                   [Feeds!Idle EXCEPT !.op = "job", !.stage = "next", !.queue = due,
                                      !.known = [f \in Feed |-> cFeed[f].failures]]]
    BY <1>1 DEF Feeds!ReadDueFeeds
  <2>2. [f \in Feed |-> cFeed[f].failures] \in [Feed -> Nat] /\ due \in SUBSET Feed
    BY <1>0 DEF due
  <2>3. /\ cReq' \in [Caller -> Feeds!Call] /\ cReq'[p].stage = "next"
        /\ \A q \in Caller \ {p} : cReq'[q] = cReq[q]
    <3> HIDE DEF due
    <3> DEFINE r == [Feeds!Idle EXCEPT !.op = "job", !.stage = "next", !.queue = due,
                                      !.known = [f \in Feed |-> cFeed[f].failures]]
    <3>1. r \in Feeds!Call /\ r.stage = "next"
      BY <2>2, FeedsIdleTyped DEF Feeds!Call
    <3> HIDE DEF r
    <3> QED BY <2>1, <3>1 DEF Feeds!TypeOK, r
  <2> QED BY <1>1, <2>3 DEF Feeds!ReadDueFeeds, Feeds!TypeOK, Feeds!counts
<1>2. CASE \E f \in Feed : Feeds!AddRssFeed(p, f) \/ Feeds!ImportFeed(p, f)
  <2>1. PICK f \in Feed : Feeds!AddRssFeed(p, f) \/ Feeds!ImportFeed(p, f)
    BY <1>2
  <2>2. Feeds!Imports(p, f) \in Feeds!Call /\ Feeds!Imports(p, f).stage = "next"
    BY <1>0, FeedsIdleTyped DEF Feeds!Imports, Feeds!Call
  <2>3. cReq' = [cReq EXCEPT ![p] = Feeds!Imports(p, f)]
    BY <2>1 DEF Feeds!AddRssFeed, Feeds!ImportFeed
  <2>4. [cFeed[f] EXCEPT !.status = "ACTIVE"] \in Feeds!FeedRow
    BY <1>0 DEF Feeds!FeedRow
  <2>5. cFeed' \in [Feed -> Feeds!FeedRow]
    BY <2>1, <2>4 DEF Feeds!AddRssFeed, Feeds!ImportFeed, Feeds!TypeOK
  <2>6. cTroubles' \in 0..MaxTroubles /\ cByHand' \in 0..MaxByHand
    <3>1. Feeds!Asks(p)
      BY <2>1 DEF Feeds!AddRssFeed, Feeds!ImportFeed
    <3> QED BY <3>1, FeedsCountsTyped
  <2> QED BY <2>1, <2>2, <2>3, <2>5, <2>6 DEF Feeds!AddRssFeed, Feeds!ImportFeed, Feeds!TypeOK
<1>3. CASE \E u \in Page : Feeds!AddResourceUrl(p, u) \/ Feeds!AskProvider(p, u)
  <2>1. PICK u \in Page : Feeds!AddResourceUrl(p, u) \/ Feeds!AskProvider(p, u)
    BY <1>3
  <2>2. PICK r \in Feeds!Call :
          /\ cReq' = [cReq EXCEPT ![p] = r]
          /\ r.stage \in {"insert", "write"}
          /\ r.stage = "write" => r.page = u /\ cResource[u] # "NONE"
    <3>1. CASE Feeds!AddResourceUrl(p, u)
      <4>1. PICK names \in SUBSET Tag :
              cReq' = [cReq EXCEPT ![p] = [Feeds!Idle EXCEPT !.op = "page", !.stage = "insert",
                                                            !.page = u, !.names = names]]
        BY <3>1 DEF Feeds!AddResourceUrl
      <4>2. /\ [Feeds!Idle EXCEPT !.op = "page", !.stage = "insert", !.page = u, !.names = names]
                  \in Feeds!Call
            /\ [Feeds!Idle EXCEPT !.op = "page", !.stage = "insert", !.page = u,
                                  !.names = names].stage = "insert"
        BY FeedsIdleTyped DEF Feeds!Call
      <4> QED BY <4>1, <4>2
    <3>2. CASE Feeds!AskProvider(p, u)
      <4>1. PICK op \in {"summary", "use"} :
              cReq' = [cReq EXCEPT ![p] = [Feeds!Idle EXCEPT !.op = op, !.stage = "write",
                                                            !.page = u]]
        BY <3>2 DEF Feeds!AskProvider
      <4>2. /\ [Feeds!Idle EXCEPT !.op = op, !.stage = "write", !.page = u] \in Feeds!Call
            /\ [Feeds!Idle EXCEPT !.op = op, !.stage = "write", !.page = u].stage = "write"
            /\ [Feeds!Idle EXCEPT !.op = op, !.stage = "write", !.page = u].page = u
        BY FeedsIdleTyped DEF Feeds!Call
      <4>3. cResource[u] # "NONE"
        BY <3>2 DEF Feeds!AskProvider
      <4> QED BY <4>1, <4>2, <4>3
    <3> QED BY <2>1, <3>1, <3>2
  <2>3. cTroubles' \in 0..MaxTroubles /\ cByHand' \in 0..MaxByHand
    <3>1. Feeds!Asks(p)
      BY <2>1 DEF Feeds!AddResourceUrl, Feeds!AskProvider
    <3> QED BY <3>1, FeedsCountsTyped
  <2> QED BY <2>1, <2>2, <2>3 DEF Feeds!AddResourceUrl, Feeds!AskProvider, Feeds!TypeOK
<1> QED BY <1>1, <1>2, <1>3 DEF FeedsStart

\* The statements of an import.
FeedsImport(p) ==
    \/ Feeds!TakeLease(p) \/ Feeds!Fetch(p) \/ Feeds!CheckItem(p) \/ Feeds!CreateItem(p)
    \/ Feeds!AllItemsSeen(p) \/ Feeds!RecordSuccess(p) \/ Feeds!RecordFailure(p)

\* The call of a step is in one of its stages, with what it knows of its items.
FeedsCallKept(p) ==
    /\ cReq' \in [Caller -> Feeds!Call]
    /\ \A q \in Caller \ {p} : cReq'[q] = cReq[q]

LEMMA FeedsTakeLease ==
  ASSUME Feeds!TypeOK, NEW p \in Caller, Feeds!TakeLease(p)
  PROVE  FeedsCallKept(p) /\ cReq'[p].stage \in {"idle", "next", "fetch"} /\ Feeds!TypeOK'
<1>1. PICK f \in cReq[p].queue :
        IF cLease[f] = {}
        THEN /\ cLease' = [cLease EXCEPT ![f] = {p}]
             /\ cReq' = [cReq EXCEPT ![p].stage = "fetch", ![p].f = f, ![p].queue = @ \ {f}]
        ELSE /\ cReq' = [cReq EXCEPT ![p] = IF cReq[p].queue = {f} THEN Feeds!Idle
                                            ELSE [cReq[p] EXCEPT !.queue = @ \ {f}]]
             /\ UNCHANGED cLease
  BY DEF Feeds!TakeLease
<1>2. cReq[p] \in Feeds!Call /\ f \in Feed /\ cReq[p].stage = "next"
  BY DEF Feeds!TypeOK, Feeds!Call, Feeds!TakeLease, Feeds!At
<1>3. FeedsCallKept(p) /\ cReq'[p].stage \in {"idle", "next", "fetch"}
  <2>1. CASE cLease[f] = {}
    <3> DEFINE r == [cReq[p] EXCEPT !.stage = "fetch", !.f = f, !.queue = @ \ {f}]
    <3>1. r \in Feeds!Call /\ r.stage = "fetch"
      BY <1>2 DEF Feeds!Call
    <3>2. cReq' = [cReq EXCEPT ![p] = r]
      BY <1>1, <2>1 DEF Feeds!TypeOK
    <3> QED BY <3>1, <3>2 DEF FeedsCallKept, Feeds!TypeOK
  <2>2. CASE cLease[f] # {}
    <3> DEFINE r == IF cReq[p].queue = {f} THEN Feeds!Idle
                    ELSE [cReq[p] EXCEPT !.queue = @ \ {f}]
    <3>1. r \in Feeds!Call /\ r.stage \in {"idle", "next"}
      BY <1>2, FeedsIdleTyped DEF Feeds!Call
    <3>2. cReq' = [cReq EXCEPT ![p] = r]
      BY <1>1, <2>2
    <3> HIDE DEF r
    <3> QED BY <3>1, <3>2 DEF FeedsCallKept, Feeds!TypeOK
  <2> QED BY <2>1, <2>2
<1>4. cLease' \in [Feed -> SUBSET Caller]
  BY <1>1, <1>2 DEF Feeds!TypeOK
<1> QED BY <1>3, <1>4 DEF FeedsCallKept, Feeds!TakeLease, Feeds!TypeOK, Feeds!counts

LEMMA FeedsFetch ==
  ASSUME Feeds!TypeOK, NEW p \in Caller, Feeds!Fetch(p)
  PROVE  /\ FeedsCallKept(p) /\ cReq'[p].stage = "check" /\ cReq'[p].got = cReq'[p].todo
         /\ Feeds!TypeOK'
<1>1. PICK items \in SUBSET Page :
        /\ cReq' = [cReq EXCEPT ![p].stage = "check", ![p].todo = items, ![p].got = items]
        /\ IF items \cap Barred = {} THEN UNCHANGED Feeds!counts ELSE Feeds!Troubles
  BY DEF Feeds!Fetch
<1> DEFINE r == [cReq[p] EXCEPT !.stage = "check", !.todo = items, !.got = items]
<1>0. cReq[p] \in Feeds!Call
  BY DEF Feeds!TypeOK
<1>2. r \in Feeds!Call /\ r.stage = "check" /\ r.got = r.todo
  BY <1>0 DEF Feeds!Call
<1>3. cReq' = [cReq EXCEPT ![p] = r]
  BY <1>1 DEF Feeds!TypeOK
<1>4. FeedsCallKept(p) /\ cReq'[p].stage = "check" /\ cReq'[p].got = cReq'[p].todo
  BY <1>2, <1>3 DEF FeedsCallKept, Feeds!TypeOK
<1>5. cTroubles' \in 0..MaxTroubles /\ cByHand' \in 0..MaxByHand
  BY <1>1, FeedsCountsTyped
<1> QED BY <1>4, <1>5 DEF FeedsCallKept, Feeds!Fetch, Feeds!TypeOK

\* What a call knows of its rows: the page that it writes is there; an item of
\* its fetch is there, or still to be looked at, or about to be stored.
FeedsCallInv(p) ==
    /\ cReq[p].stage = "write" => cResource[cReq[p].page] # "NONE"
    /\ \A u \in cReq[p].got :
        /\ cReq[p].stage \in {"check", "create"} =>
             \/ cResource[u] # "NONE" \/ u \in cReq[p].todo
             \/ cReq[p].stage = "create" /\ u = cReq[p].page
        /\ cReq[p].stage = "success" => cResource[u] # "NONE"

FeedsInsertedOnce == \A u \in Page : cStored[u] = IF cResource[u] = "NONE" THEN 0 ELSE 1

FeedsInv ==
    /\ Feeds!TypeOK
    /\ FeedsInsertedOnce
    /\ \A p \in Caller : FeedsCallInv(p)
    /\ Feeds!FailuresCounted

\* What a step that leaves the feeds alone has to show.
FeedsRowsKept ==
    /\ \A u \in Page : cResource[u] # "NONE" => cResource'[u] # "NONE"
    /\ \A u \in Page : cStored'[u] = IF cResource'[u] = "NONE" THEN 0 ELSE 1

LEMMA FeedsOthersKept ==
  ASSUME FeedsInv, NEW p \in Caller, FeedsCallKept(p), FeedsRowsKept, FeedsCallInv(p)',
         Feeds!TypeOK', Feeds!FailuresCounted'
  PROVE  FeedsInv'
<1>1. ASSUME NEW q \in Caller \ {p}
      PROVE  FeedsCallInv(q)'
  <2>1. cReq'[q] = cReq[q] /\ cReq[q] \in Feeds!Call /\ FeedsCallInv(q)
    BY <1>1 DEF FeedsCallKept, FeedsInv, Feeds!TypeOK
  <2>2. cReq[q].page \in Page /\ cReq[q].got \subseteq Page
    BY <2>1 DEF Feeds!Call
  <2> QED BY <2>1, <2>2 DEF FeedsCallInv, FeedsRowsKept
<1>2. FeedsInsertedOnce'
  BY DEF FeedsRowsKept, FeedsInsertedOnce
<1>3. \A q \in Caller : FeedsCallInv(q)'
  BY <1>1
<1> QED BY <1>2, <1>3 DEF FeedsInv

LEMMA FeedsInitInv == Feeds!Init => FeedsInv
<1> SUFFICES ASSUME Feeds!Init PROVE FeedsInv
  OBVIOUS
<1>1. Feeds!TypeOK
  BY FeedsAssumption, FeedsIdleTyped DEF Feeds!Init, Feeds!TypeOK, Feeds!FeedRow, Feeds!NoFeed,
     Feeds!NewFeed
<1>2. FeedsInsertedOnce /\ Feeds!FailuresCounted
  BY DEF Feeds!Init, FeedsInsertedOnce, Feeds!FailuresCounted, Feeds!NoFeed, Feeds!NewFeed
<1>3. \A p \in Caller : FeedsCallInv(p)
  BY FeedsIdleTyped DEF Feeds!Init, FeedsCallInv
<1> QED BY <1>1, <1>2, <1>3 DEF FeedsInv

LEMMA FeedsStartInv ==
  ASSUME FeedsInv, NEW p \in Caller, FeedsStart(p)
  PROVE  FeedsInv'
<1>1. FeedsRowsKept
  BY DEF FeedsRowsKept, FeedsStart, FeedsInv, FeedsInsertedOnce, Feeds!ReadDueFeeds,
         Feeds!AddRssFeed, Feeds!ImportFeed, Feeds!AddResourceUrl, Feeds!AskProvider
<1>2. UNCHANGED cResource
  BY DEF FeedsStart, Feeds!ReadDueFeeds, Feeds!AddRssFeed, Feeds!ImportFeed,
         Feeds!AddResourceUrl, Feeds!AskProvider
<1>3. FeedsCallInv(p)'
  BY <1>2, FeedsStartTyped DEF FeedsInv, FeedsCallInv
<1>4. Feeds!FailuresCounted'
  <2>1. \A f \in Feed : cFeed'[f].failures = cFeed[f].failures
    <3>1. CASE \E f \in Feed : Feeds!AddRssFeed(p, f)
      <4>1. PICK f \in Feed : cFeed' = [cFeed EXCEPT ![f].status = "ACTIVE"]
        BY <3>1 DEF Feeds!AddRssFeed
      <4> QED BY <4>1 DEF FeedsInv, Feeds!TypeOK, Feeds!FeedRow
    <3>2. CASE UNCHANGED cFeed
      BY <3>2
    <3> QED BY <3>1, <3>2 DEF FeedsStart, Feeds!ReadDueFeeds, Feeds!ImportFeed,
               Feeds!AddResourceUrl, Feeds!AskProvider
  <2>2. UNCHANGED cFailed
    BY DEF FeedsStart, Feeds!ReadDueFeeds, Feeds!AddRssFeed, Feeds!ImportFeed,
           Feeds!AddResourceUrl, Feeds!AskProvider
  <2> QED BY <2>1, <2>2 DEF FeedsInv, Feeds!FailuresCounted
<1> QED BY <1>1, <1>3, <1>4, FeedsStartTyped, FeedsOthersKept DEF FeedsInv, FeedsCallKept

LEMMA FeedsTakeLeaseInv ==
  ASSUME FeedsInv, NEW p \in Caller, Feeds!TakeLease(p)
  PROVE  FeedsInv'
<1>1. FeedsRowsKept
  BY DEF FeedsRowsKept, FeedsInv, FeedsInsertedOnce, Feeds!TakeLease
<1>2. FeedsCallInv(p)'
  BY FeedsTakeLease DEF FeedsInv, FeedsCallInv
<1>3. Feeds!FailuresCounted'
  BY DEF Feeds!TakeLease, FeedsInv, Feeds!FailuresCounted
<1> QED BY <1>1, <1>2, <1>3, FeedsTakeLease, FeedsOthersKept DEF FeedsInv

LEMMA FeedsFetchInv ==
  ASSUME FeedsInv, NEW p \in Caller, Feeds!Fetch(p)
  PROVE  FeedsInv'
<1>1. FeedsRowsKept
  BY DEF FeedsRowsKept, FeedsInv, FeedsInsertedOnce, Feeds!Fetch
<1>2. FeedsCallInv(p)'
  BY FeedsFetch DEF FeedsInv, FeedsCallInv
<1>3. Feeds!FailuresCounted'
  BY DEF Feeds!Fetch, FeedsInv, Feeds!FailuresCounted
<1> QED BY <1>1, <1>2, <1>3, FeedsFetch, FeedsOthersKept DEF FeedsInv

LEMMA FeedsCheckItemInv ==
  ASSUME FeedsInv, NEW p \in Caller, Feeds!CheckItem(p)
  PROVE  FeedsInv'
<1>0. cReq[p] \in Feeds!Call /\ cReq[p].stage = "check"
  BY DEF FeedsInv, Feeds!TypeOK, Feeds!CheckItem, Feeds!At
<1>1. PICK u \in cReq[p].todo :
        cReq' = [cReq EXCEPT ![p].todo = @ \ {u}, ![p].page = u, ![p].stage = Feeds!OfItem(u)]
  BY DEF Feeds!CheckItem
<1>2. Feeds!OfItem(u) \in {"failure", "check", "create"}
      /\ (Feeds!OfItem(u) = "check" => cResource[u] # "NONE")
  BY DEF Feeds!OfItem
<1> DEFINE r == [cReq[p] EXCEPT !.todo = @ \ {u}, !.page = u, !.stage = Feeds!OfItem(u)]
<1>3. /\ r \in Feeds!Call /\ r.stage = Feeds!OfItem(u) /\ r.page = u
      /\ r.todo = cReq[p].todo \ {u} /\ r.got = cReq[p].got
  BY <1>0, <1>1, <1>2 DEF Feeds!Call
<1>4. cReq' = [cReq EXCEPT ![p] = r]
  BY <1>1 DEF FeedsInv, Feeds!TypeOK
<1> HIDE DEF r
<1>5. FeedsCallKept(p) /\ cReq'[p] = r
  BY <1>3, <1>4 DEF FeedsCallKept, FeedsInv, Feeds!TypeOK
<1>6. UNCHANGED <<cFeed, cResource, cTags, cLease, cStored, cFailed, cTroubles, cByHand>>
  BY DEF Feeds!CheckItem, Feeds!counts
<1>7. Feeds!TypeOK'
  BY <1>5, <1>6 DEF FeedsCallKept, FeedsInv, Feeds!TypeOK
<1>8. FeedsCallInv(p)'
  <2>1. FeedsCallInv(p)
    BY DEF FeedsInv
  <2> QED BY <1>0, <1>2, <1>3, <1>5, <1>6, <2>1 DEF FeedsCallInv
<1>9. FeedsRowsKept /\ Feeds!FailuresCounted'
  BY <1>6 DEF FeedsInv, FeedsRowsKept, FeedsInsertedOnce, Feeds!FailuresCounted
<1> QED BY <1>5, <1>7, <1>8, <1>9, FeedsOthersKept

\* The unique index lets one call store a page.
LEMMA FeedsStoresRows ==
  ASSUME FeedsInv, NEW u \in Page, Feeds!IsNew(u), Feeds!Stores(u)
  PROVE  /\ FeedsRowsKept /\ cResource'[u] # "NONE"
         /\ cResource' \in [Page -> {"NONE", "NEW", "SUMMARIZED", "USED"}]
         /\ cStored' \in [Page -> Nat]
  BY DEF FeedsInv, Feeds!TypeOK, FeedsInsertedOnce, Feeds!IsNew, Feeds!Stores, FeedsRowsKept

LEMMA FeedsGoesStage ==
  ASSUME Feeds!TypeOK, NEW p \in Caller,
         NEW s \in {"next", "fetch", "check", "create", "success", "failure", "tags"},
         Feeds!Goes(p, s)
  PROVE  /\ FeedsCallKept(p)
         /\ cReq'[p].stage = s /\ cReq'[p].page = cReq[p].page
         /\ cReq'[p].todo = cReq[p].todo /\ cReq'[p].got = cReq[p].got
<1>1. cReq[p] \in Feeds!Call
  BY DEF Feeds!TypeOK
<1>2. LET r == [cReq[p] EXCEPT !.stage = s]
      IN  r.stage = s /\ r.page = cReq[p].page /\ r.todo = cReq[p].todo /\ r.got = cReq[p].got
  BY <1>1 DEF Feeds!Call
<1> QED BY <1>2, FeedsGoesTyped DEF FeedsCallKept

LEMMA FeedsCreateItemInv ==
  ASSUME FeedsInv, NEW p \in Caller, Feeds!CreateItem(p)
  PROVE  FeedsInv'
<1>0. cReq[p] \in Feeds!Call /\ cReq[p].stage = "create" /\ cReq[p].page \in Page
  BY DEF FeedsInv, Feeds!TypeOK, Feeds!CreateItem, Feeds!At, Feeds!Call
<1>1. CASE Feeds!IsNew(cReq[p].page)
  <2>1. Feeds!Stores(cReq[p].page) /\ Feeds!Goes(p, "check")
    BY <1>1 DEF Feeds!CreateItem
  <2>2. FeedsRowsKept /\ cResource'[cReq[p].page] # "NONE"
        /\ cResource' \in [Page -> {"NONE", "NEW", "SUMMARIZED", "USED"}]
        /\ cStored' \in [Page -> Nat]
    BY <1>0, <1>1, <2>1, FeedsStoresRows
  <2>3. FeedsCallKept(p) /\ cReq'[p].stage = "check" /\ cReq'[p].todo = cReq[p].todo
        /\ cReq'[p].got = cReq[p].got
    BY <2>1, FeedsGoesStage DEF FeedsInv
  <2>4. Feeds!TypeOK'
    BY <2>2, <2>3 DEF FeedsCallKept, Feeds!CreateItem, FeedsInv, Feeds!TypeOK, Feeds!counts
  <2>5. FeedsCallInv(p)'
    <3>1. FeedsCallInv(p) /\ cReq[p].got \subseteq Page
      BY <1>0 DEF FeedsInv, Feeds!Call
    <3> QED BY <1>0, <2>2, <2>3, <3>1 DEF FeedsCallInv, FeedsRowsKept
  <2>6. Feeds!FailuresCounted'
    BY DEF Feeds!CreateItem, FeedsInv, Feeds!FailuresCounted
  <2> QED BY <2>2, <2>3, <2>4, <2>5, <2>6, FeedsOthersKept
<1>2. CASE ~Feeds!IsNew(cReq[p].page)
  <2>1. UNCHANGED <<cFeed, cResource, cTags, cLease, cStored, cFailed, cTroubles, cByHand>>
        /\ Feeds!Goes(p, "failure")
    BY <1>2 DEF Feeds!CreateItem, Feeds!counts
  <2>2. FeedsCallKept(p) /\ cReq'[p].stage = "failure"
    BY <2>1, FeedsGoesStage DEF FeedsInv
  <2>3. Feeds!TypeOK' /\ FeedsRowsKept /\ Feeds!FailuresCounted'
    BY <2>1, <2>2 DEF FeedsCallKept, FeedsInv, Feeds!TypeOK, FeedsRowsKept, FeedsInsertedOnce,
       Feeds!FailuresCounted
  <2>4. FeedsCallInv(p)'
    BY <2>2 DEF FeedsCallInv
  <2> QED BY <2>2, <2>3, <2>4, FeedsOthersKept
<1> QED BY <1>1, <1>2

LEMMA FeedsAllSeenInv ==
  ASSUME FeedsInv, NEW p \in Caller, Feeds!AllItemsSeen(p)
  PROVE  FeedsInv'
<1>1. UNCHANGED <<cFeed, cResource, cTags, cLease, cStored, cFailed, cTroubles, cByHand>>
      /\ Feeds!Goes(p, "success") /\ cReq[p].stage = "check" /\ cReq[p].todo = {}
  BY DEF Feeds!AllItemsSeen, Feeds!At, Feeds!counts
<1>2. FeedsCallKept(p) /\ cReq'[p].stage = "success" /\ cReq'[p].got = cReq[p].got
  BY <1>1, FeedsGoesStage DEF FeedsInv
<1>3. Feeds!TypeOK' /\ FeedsRowsKept /\ Feeds!FailuresCounted'
  BY <1>1, <1>2 DEF FeedsCallKept, FeedsInv, Feeds!TypeOK, FeedsRowsKept, FeedsInsertedOnce,
     Feeds!FailuresCounted
<1>4. FeedsCallInv(p)'
  BY <1>1, <1>2 DEF FeedsInv, FeedsCallInv
<1> QED BY <1>2, <1>3, <1>4, FeedsOthersKept

\* The outcome of an import is written with its count of failures.
LEMMA FeedsOutcomeInv ==
  ASSUME FeedsInv, NEW p \in Caller, Feeds!RecordSuccess(p) \/ Feeds!RecordFailure(p)
  PROVE  FeedsInv'
<1> DEFINE f == cReq[p].f
<1>0. f \in Feed /\ cFeed[f] \in Feeds!FeedRow /\ cReq[p].known[f] \in Nat
  BY DEF FeedsInv, Feeds!TypeOK, Feeds!Call
<1>1. UNCHANGED <<cResource, cTags, cStored, cTroubles, cByHand>>
      /\ Feeds!Leaves(p) /\ Feeds!GoesOn(p)
  BY DEF Feeds!RecordSuccess, Feeds!RecordFailure, Feeds!counts
<1>2. FeedsCallKept(p) /\ cReq'[p].stage \in {"idle", "next"}
  BY <1>1, FeedsGoesOnTyped DEF FeedsInv, FeedsCallKept
<1>3. PICK r \in Feeds!FeedRow, n \in Nat :
        /\ cFeed' = [cFeed EXCEPT ![f] = r] /\ cFailed' = [cFailed EXCEPT ![f] = n]
        /\ r.failures = n
  <2>1. CASE Feeds!RecordSuccess(p)
    <3>1. [status |-> "ACTIVE", wait |-> Feeds!HourBetweenImports, failures |-> 0]
            \in Feeds!FeedRow
      BY DEF Feeds!FeedRow, Feeds!HourBetweenImports
    <3> QED BY <2>1, <3>1 DEF Feeds!RecordSuccess
  <2>2. CASE Feeds!RecordFailure(p)
    <3> DEFINE r == [status |-> "ERROR", wait |-> Feeds!Backoff(cReq[p].known[f]),
                     failures |-> Feeds!FailuresAfter(p)]
    <3>1. Feeds!FailuresAfter(p) = cFailed[f] + 1 /\ cFailed[f] + 1 \in Nat
      BY <1>0 DEF Feeds!FailuresAfter, FeedsInv, Feeds!FailuresCounted, Feeds!TypeOK
    <3>2. r \in Feeds!FeedRow /\ r.failures = cFailed[f] + 1
      BY <1>0, <3>1, BackoffIsShort DEF Feeds!FeedRow
    <3>3. cFeed' = [cFeed EXCEPT ![f] = r] /\ cFailed' = [cFailed EXCEPT ![f] = cFailed[f] + 1]
      BY <2>2 DEF Feeds!RecordFailure, FeedsInv, Feeds!TypeOK
    <3> HIDE DEF r
    <3> QED BY <3>1, <3>2, <3>3
  <2> QED BY <2>1, <2>2
<1>4. Feeds!FailuresCounted'
  BY <1>0, <1>3 DEF FeedsInv, Feeds!FailuresCounted, Feeds!TypeOK
<1>5. cLease' \in [Feed -> SUBSET Caller]
  BY <1>0, <1>1 DEF FeedsInv, Feeds!TypeOK, Feeds!Leaves
<1>6. Feeds!TypeOK'
  BY <1>0, <1>1, <1>2, <1>3, <1>5 DEF FeedsCallKept, FeedsInv, Feeds!TypeOK
<1>7. FeedsRowsKept
  BY <1>1 DEF FeedsInv, FeedsRowsKept, FeedsInsertedOnce
<1>8. FeedsCallInv(p)'
  BY <1>2 DEF FeedsCallInv
<1> QED BY <1>2, <1>4, <1>6, <1>7, <1>8, FeedsOthersKept

\* A failure, the end of a call, and a lease that its holder loses.
LEMMA FeedsTroubleInv ==
  ASSUME FeedsInv, NEW p \in Caller, Feeds!Throws(p) \/ Feeds!Dies(p) \/ Feeds!LoseLease(p)
  PROVE  FeedsInv'
<1>1. UNCHANGED <<cFeed, cResource, cTags, cStored, cFailed>> /\ Feeds!Troubles
  BY DEF Feeds!Throws, Feeds!Dies, Feeds!LoseLease
<1>2. cLease' \in [Feed -> SUBSET Caller]
  BY DEF Feeds!Throws, Feeds!Dies, Feeds!LoseLease, FeedsInv, Feeds!TypeOK
<1>3. FeedsCallKept(p) /\ FeedsCallInv(p)'
  <2>1. CASE Feeds!Throws(p)
    <3>1. Feeds!Goes(p, "failure")
      BY <2>1 DEF Feeds!Throws
    <3>2. FeedsCallKept(p) /\ cReq'[p].stage = "failure"
      BY <3>1, FeedsGoesStage DEF FeedsInv
    <3> QED BY <3>2 DEF FeedsCallInv
  <2>2. CASE Feeds!Dies(p)
    <3>1. FeedsCallKept(p) /\ cReq'[p].stage = "idle"
      BY <2>2, FeedsEndsTyped, FeedsIdleTyped DEF Feeds!Dies, FeedsInv, FeedsCallKept
    <3> QED BY <3>1 DEF FeedsCallInv
  <2>3. CASE Feeds!LoseLease(p)
    <3>1. UNCHANGED cReq
      BY <2>3 DEF Feeds!LoseLease
    <3> QED BY <1>1, <3>1 DEF FeedsInv, FeedsCallInv, FeedsCallKept, Feeds!TypeOK
  <2> QED BY <2>1, <2>2, <2>3
<1>4. cTroubles' \in 0..MaxTroubles /\ cByHand' \in 0..MaxByHand
  BY <1>1, FeedsCountsTyped DEF FeedsInv
<1>5. Feeds!TypeOK' /\ FeedsRowsKept /\ Feeds!FailuresCounted'
  BY <1>1, <1>2, <1>3, <1>4 DEF FeedsCallKept, FeedsInv, Feeds!TypeOK, FeedsRowsKept,
     FeedsInsertedOnce, Feeds!FailuresCounted
<1> QED BY <1>3, <1>5, FeedsOthersKept

LEMMA FeedsInsertPageInv ==
  ASSUME FeedsInv, NEW p \in Caller, Feeds!InsertPage(p)
  PROVE  FeedsInv'
<1>0. cReq[p] \in Feeds!Call /\ cReq[p].page \in Page
  BY DEF FeedsInv, Feeds!TypeOK, Feeds!Call
<1>1. UNCHANGED <<cFeed, cTags, cLease, cFailed, cTroubles, cByHand>>
  BY DEF Feeds!InsertPage, Feeds!counts
<1>2. /\ FeedsRowsKept /\ cResource' \in [Page -> {"NONE", "NEW", "SUMMARIZED", "USED"}]
      /\ cStored' \in [Page -> Nat]
      /\ FeedsCallKept(p) /\ cReq'[p].stage \in {"idle", "tags"}
  <2>1. CASE Feeds!IsNew(cReq[p].page)
    <3>1. Feeds!Stores(cReq[p].page) /\ Feeds!Goes(p, "tags")
      BY <2>1 DEF Feeds!InsertPage
    <3>2. FeedsCallKept(p) /\ cReq'[p].stage = "tags"
      BY <3>1, FeedsGoesStage DEF FeedsInv
    <3> QED BY <1>0, <2>1, <3>1, <3>2, FeedsStoresRows
  <2>2. CASE ~Feeds!IsNew(cReq[p].page)
    <3>1. Feeds!Ends(p) /\ UNCHANGED <<cResource, cStored>>
      BY <2>2 DEF Feeds!InsertPage
    <3>2. FeedsCallKept(p) /\ cReq'[p].stage = "idle"
      BY <3>1, FeedsEndsTyped, FeedsIdleTyped DEF FeedsInv, FeedsCallKept
    <3> QED BY <3>1, <3>2 DEF FeedsInv, Feeds!TypeOK, FeedsRowsKept, FeedsInsertedOnce
  <2> QED BY <2>1, <2>2
<1>3. Feeds!TypeOK' /\ Feeds!FailuresCounted'
  BY <1>1, <1>2 DEF FeedsCallKept, FeedsInv, Feeds!TypeOK, Feeds!FailuresCounted
<1>4. FeedsCallInv(p)'
  BY <1>2 DEF FeedsCallInv
<1> QED BY <1>2, <1>3, <1>4, FeedsOthersKept

LEMMA FeedsTagsInv ==
  ASSUME FeedsInv, NEW p \in Caller, Feeds!SyncResourceTags(p)
  PROVE  FeedsInv'
<1>0. cReq[p] \in Feeds!Call /\ cReq[p].page \in Page /\ cReq[p].stage = "tags"
  BY DEF FeedsInv, Feeds!TypeOK, Feeds!Call, Feeds!SyncResourceTags, Feeds!At
<1>1. UNCHANGED <<cFeed, cResource, cLease, cStored, cFailed, cTroubles, cByHand>>
  BY DEF Feeds!SyncResourceTags, Feeds!counts
<1>2. /\ FeedsCallKept(p) /\ cReq'[p].stage \in {"idle", "tags"}
      /\ cTags' \in [Page -> SUBSET Tag]
  <2>1. CASE Feeds!Ends(p) /\ UNCHANGED cTags
    <3>1. FeedsCallKept(p) /\ cReq'[p].stage = "idle"
      BY <2>1, FeedsEndsTyped, FeedsIdleTyped DEF FeedsInv, FeedsCallKept
    <3> QED BY <2>1, <3>1 DEF FeedsInv, Feeds!TypeOK
  <2>2. CASE \E t \in cReq[p].names :
               /\ cTags' = [cTags EXCEPT ![cReq[p].page] = @ \cup {t}]
               /\ cReq' = [cReq EXCEPT ![p].names = @ \ {t}]
    <3>1. PICK t \in cReq[p].names :
               /\ cTags' = [cTags EXCEPT ![cReq[p].page] = @ \cup {t}]
               /\ cReq' = [cReq EXCEPT ![p].names = @ \ {t}]
      BY <2>2
    <3>2. t \in Tag
      BY <1>0 DEF Feeds!Call
    <3> DEFINE r == [cReq[p] EXCEPT !.names = @ \ {t}]
    <3>3. r \in Feeds!Call /\ r.stage = "tags"
      BY <1>0 DEF Feeds!Call
    <3>4. cReq' = [cReq EXCEPT ![p] = r]
      BY <3>1 DEF FeedsInv, Feeds!TypeOK
    <3> HIDE DEF r
    <3>5. FeedsCallKept(p) /\ cReq'[p] = r
      BY <3>3, <3>4 DEF FeedsInv, Feeds!TypeOK, FeedsCallKept
    <3>6. cTags' \in [Page -> SUBSET Tag]
      BY <1>0, <3>1, <3>2 DEF FeedsInv, Feeds!TypeOK
    <3> QED BY <3>3, <3>5, <3>6
  <2> QED BY <2>1, <2>2 DEF Feeds!SyncResourceTags
<1>3. Feeds!TypeOK' /\ FeedsRowsKept /\ Feeds!FailuresCounted'
  BY <1>1, <1>2 DEF FeedsCallKept, FeedsInv, Feeds!TypeOK, FeedsRowsKept, FeedsInsertedOnce,
     Feeds!FailuresCounted
<1>4. FeedsCallInv(p)'
  BY <1>2 DEF FeedsCallInv
<1> QED BY <1>2, <1>3, <1>4, FeedsOthersKept

LEMMA FeedsWriteInv ==
  ASSUME FeedsInv, NEW p \in Caller, Feeds!WriteResource(p)
  PROVE  FeedsInv'
<1>0. cReq[p].page \in Page /\ cResource[cReq[p].page] # "NONE"
  BY DEF FeedsInv, FeedsCallInv, Feeds!TypeOK, Feeds!Call, Feeds!WriteResource, Feeds!At
<1>1. PICK s \in {"SUMMARIZED", "USED"} : cResource' = [cResource EXCEPT ![cReq[p].page] = s]
  BY DEF Feeds!WriteResource
<1>2. UNCHANGED <<cFeed, cTags, cLease, cStored, cFailed, cTroubles, cByHand>> /\ Feeds!Ends(p)
  BY DEF Feeds!WriteResource, Feeds!counts
<1>3. FeedsCallKept(p) /\ cReq'[p].stage = "idle"
  BY <1>2, FeedsEndsTyped, FeedsIdleTyped DEF FeedsInv, FeedsCallKept
<1>4. FeedsRowsKept
  BY <1>0, <1>1, <1>2 DEF FeedsInv, Feeds!TypeOK, FeedsInsertedOnce, FeedsRowsKept
<1>5. Feeds!TypeOK' /\ Feeds!FailuresCounted'
  BY <1>0, <1>1, <1>2, <1>3 DEF FeedsCallKept, FeedsInv, Feeds!TypeOK, Feeds!FailuresCounted
<1>6. FeedsCallInv(p)'
  BY <1>3 DEF FeedsCallInv
<1> QED BY <1>3, <1>4, <1>5, <1>6, FeedsOthersKept

LEMMA FeedsTickInv ==
  ASSUME FeedsInv, Feeds!Tick
  PROVE  FeedsInv'
<1>1. PICK soon \in {cFeed[f].wait : f \in Feed} \ {0} :
        /\ \A f \in Feed : cFeed[f].wait \in 1..soon => cFeed[f].wait = soon
        /\ cFeed' = [f \in Feed |-> [cFeed[f] EXCEPT !.wait = IF @ > 0 THEN @ - soon ELSE 0]]
  BY DEF Feeds!Tick
<1>2. UNCHANGED <<cResource, cTags, cLease, cReq, cStored, cFailed, cTroubles, cByHand>>
  BY DEF Feeds!Tick, Feeds!counts
<1>3. ASSUME NEW f \in Feed
      PROVE  cFeed'[f] \in Feeds!FeedRow /\ cFeed'[f].failures = cFeed[f].failures
  <2>1. cFeed[f] \in Feeds!FeedRow /\ soon \in 1..64
    BY DEF FeedsInv, Feeds!TypeOK, Feeds!FeedRow
  <2>2. (IF cFeed[f].wait > 0 THEN cFeed[f].wait - soon ELSE 0) \in 0..64
    BY <1>1, <2>1 DEF Feeds!FeedRow
  <2>3. cFeed'[f] = [cFeed[f] EXCEPT !.wait = IF cFeed[f].wait > 0 THEN cFeed[f].wait - soon
                                               ELSE 0]
    BY <1>1
  <2> QED BY <2>1, <2>2, <2>3 DEF Feeds!FeedRow
<1>4. cFeed' \in [Feed -> Feeds!FeedRow]
  BY <1>1, <1>3
<1>5. Feeds!TypeOK' /\ FeedsInsertedOnce' /\ Feeds!FailuresCounted'
  BY <1>2, <1>3, <1>4 DEF FeedsInv, Feeds!TypeOK, FeedsInsertedOnce, Feeds!FailuresCounted
<1>6. \A p \in Caller : FeedsCallInv(p)'
  BY <1>2 DEF FeedsInv, FeedsCallInv
<1> QED BY <1>5, <1>6 DEF FeedsInv

LEMMA FeedsNextInv == FeedsInv /\ [Feeds!Next]_Feeds!vars => FeedsInv'
<1> SUFFICES ASSUME FeedsInv, [Feeds!Next]_Feeds!vars PROVE FeedsInv'
  OBVIOUS
<1>1. ASSUME NEW p \in Caller,
             \/ Feeds!ReadDueFeeds(p) \/ Feeds!ByHand(p) \/ Feeds!Step(p)
             \/ Feeds!Throws(p) \/ Feeds!Dies(p) \/ Feeds!LoseLease(p)
      PROVE  FeedsInv'
  <2>1. CASE Feeds!ReadDueFeeds(p) \/ Feeds!ByHand(p)
    BY <2>1, FeedsStartInv DEF FeedsStart, Feeds!ByHand
  <2>2. CASE Feeds!Step(p)
    BY <2>2, FeedsTakeLeaseInv, FeedsFetchInv, FeedsCheckItemInv, FeedsCreateItemInv,
       FeedsAllSeenInv, FeedsOutcomeInv, FeedsInsertPageInv, FeedsTagsInv, FeedsWriteInv
       DEF Feeds!Step
  <2> QED BY <1>1, <2>1, <2>2, FeedsTroubleInv
<1>2. CASE UNCHANGED Feeds!vars
  BY <1>2 DEF Feeds!vars, FeedsInv, Feeds!TypeOK, FeedsInsertedOnce, Feeds!FailuresCounted,
     FeedsCallInv
<1> QED BY <1>1, <1>2, FeedsTickInv DEF Feeds!Next

\* Whatever feeds carry the same pages, however their imports overlap, die or
\* lose their leases: a page is stored once, a success has all its items, and
\* the failures in a row are counted.
THEOREM FeedsKeptExact == MCSpec => []FeedsAreExact
<1>1. Feeds!Spec => []FeedsInv
  BY FeedsInitInv, FeedsNextInv, PTL DEF Feeds!Spec
<1>2. FeedsInv => FeedsAreExact
  <2> SUFFICES ASSUME FeedsInv PROVE Feeds!StoredOnce /\ Feeds!SuccessHasAll
    BY DEF FeedsInv, FeedsAreExact
  <2>1. Feeds!StoredOnce
    BY DEF FeedsInv, FeedsInsertedOnce, Feeds!StoredOnce
  <2>2. Feeds!SuccessHasAll
    BY DEF FeedsInv, FeedsCallInv, Feeds!SuccessHasAll, Feeds!At
  <2> QED BY <2>1, <2>2
<1> QED BY <1>1, <1>2, FeedsRun, PTL

-----------------------------------------------------------------------------
(* Recommendations (Recommendations).                                      *)

\* The targets by age: each of them once.
EachTargetOnce ==
    /\ nByAge \in Seq(Target)
    /\ \A t \in Target : \E i \in 1..Len(nByAge) : nByAge[i] = t
    /\ \A i, j \in 1..Len(nByAge) : nByAge[i] = nByAge[j] => i = j

\* What the tables and the runs hold, one by one.
TargetTypes ==
    /\ nWanting \in SUBSET Target
    /\ nStatus \in [Target -> Recommendations!Status \cup {"NONE"}]
    /\ nGiven \in [Target -> Recommendations!Status \cup {"NONE"}]
    /\ nInserted \in [Target -> Nat]
    /\ nReq \in [Runner -> Recommendations!Run]
    /\ nFails \in 0..MaxFails /\ nEdits \in 0..MaxEdits

\* A row for each insert, with the status last given or still open.
RowPerTarget ==
    \A t \in Target :
        /\ nInserted[t] = IF nStatus[t] = "NONE" THEN 0 ELSE 1
        /\ nGiven[t] # "NONE" => nStatus[t] = nGiven[t]
        /\ nGiven[t] = "NONE" => nStatus[t] \in {"NONE", "OPEN"}

\* The targets that a run has looked at have a row, or it is about to insert one.
RunInv(p) ==
    /\ nReq[p].stage = "find" =>
         \A t \in nReq[p].seen \ nReq[p].todo : nStatus[t] # "NONE"
    /\ nReq[p].stage = "create" =>
         \A t \in nReq[p].seen \ nReq[p].todo : t = nReq[p].t \/ nStatus[t] # "NONE"

RecommendedInv ==
    /\ EachTargetOnce /\ TargetTypes
    /\ RowPerTarget
    /\ \A p \in Runner : RunInv(p)

LEMMA RecommendedTyped == RecommendedInv => Recommendations!TypeOK
<1> SUFFICES ASSUME RecommendedInv PROVE Recommendations!TypeOK
  OBVIOUS
<1>1. nByAge \in [1..Len(nByAge) -> Target] /\ DOMAIN nByAge = 1..Len(nByAge)
  BY LenProperties DEF RecommendedInv, EachTargetOnce
<1>2. Recommendations!Range(nByAge) = Target
  BY <1>1 DEF RecommendedInv, EachTargetOnce, Recommendations!Range
<1>3. Recommendations!IsInjective(nByAge)
  BY <1>1 DEF RecommendedInv, EachTargetOnce, Recommendations!IsInjective
<1> QED BY <1>1, <1>2, <1>3 DEF RecommendedInv, TargetTypes, Recommendations!TypeOK

LEMMA RunIdleTyped == Recommendations!Idle \in Recommendations!Run
                      /\ Recommendations!Idle.stage = "idle"
  BY TargetsAssumption DEF Recommendations!Idle, Recommendations!Run

LEMMA RecommendedInit == Recommendations!Init => RecommendedInv
<1> SUFFICES ASSUME Recommendations!Init PROVE RecommendedInv
  OBVIOUS
<1> DEFINE n == Cardinality(Target)
<1>1. nByAge \in Injection(1..n, Target) /\ n \in Nat
  <2>1. n \in Nat /\ ExistsBijection(1..n, Target)
    BY FS_CardinalityType, TargetsAssumption
  <2>2. PICK g \in [1..n -> Target] : \A i, j \in 1..n : g[i] = g[j] => i = j
    BY <2>1 DEF ExistsBijection, Bijection, Injection, IsInjective
  <2>3. Recommendations!IsInjective(g)
    BY <2>2 DEF Recommendations!IsInjective
  <2>4. nByAge = CHOOSE f \in [1..n -> Target] : Recommendations!IsInjective(f)
    BY DEF Recommendations!Init, Cardinality,
       Recommendations!Cardinality
  <2>5. nByAge \in [1..n -> Target] /\ Recommendations!IsInjective(nByAge)
    BY <2>2, <2>3, <2>4
  <2> QED BY <2>1, <2>5 DEF Injection, IsInjective, Recommendations!IsInjective
<1>2. nByAge \in Surjection(1..n, Target)
  <2>1. IsFiniteSet(1..n) /\ Cardinality(1..n) = n
    BY <1>1, FS_Interval
  <2> QED BY <1>1, <2>1, FS_Injection, TargetsAssumption
<1>3. nByAge \in Seq(Target) /\ Len(nByAge) = n
  <2>1. nByAge \in [1..n -> Target] /\ n \in Nat
    BY <1>1 DEF Injection
  <2>2. nByAge \in Seq(Target)
    BY <2>1, SeqDef
  <2> HIDE DEF n
  <2> QED BY <2>1, <2>2, LenProperties
<1> HIDE DEF n
<1>4. EachTargetOnce
  BY <1>1, <1>2, <1>3 DEF EachTargetOnce, Injection, IsInjective, Surjection
<1>5. TargetTypes
  BY RunIdleTyped, TargetsAssumption DEF Recommendations!Init, TargetTypes
<1>6. RowPerTarget /\ \A p \in Runner : RunInv(p)
  BY RunIdleTyped DEF Recommendations!Init, RowPerTarget, RunInv
<1> QED BY <1>4, <1>5, <1>6 DEF RecommendedInv
\* What an action leaves to the runs: rows stay, so what a run has looked at
\* keeps its row.
LEMMA RunsKept ==
  ASSUME RecommendedInv, nReq' = nReq,
         \A t \in Target : nStatus[t] # "NONE" => nStatus'[t] # "NONE"
  PROVE  \A p \in Runner : RunInv(p)'
<1> SUFFICES ASSUME NEW p \in Runner PROVE RunInv(p)'
  OBVIOUS
<1>1. nReq[p] \in Recommendations!Run
  BY DEF RecommendedInv, TargetTypes
<1>2. nReq[p].seen \in SUBSET Target
  BY <1>1 DEF Recommendations!Run
<1> QED BY <1>2 DEF RecommendedInv, RunInv

\* A step of one run, with rows that stay.
LEMMA RunStepInv ==
  ASSUME RecommendedInv, NEW p \in Runner, NEW r \in Recommendations!Run,
         nReq' = [nReq EXCEPT ![p] = r],
         RunInv(p)',
         \A t \in Target : nStatus[t] # "NONE" => nStatus'[t] # "NONE"
  PROVE  nReq' \in [Runner -> Recommendations!Run] /\ \A q \in Runner : RunInv(q)'
<1>1. nReq' \in [Runner -> Recommendations!Run]
  BY DEF RecommendedInv, TargetTypes
<1>2. ASSUME NEW q \in Runner, q # p
      PROVE  RunInv(q)'
  <2>1. nReq'[q] = nReq[q] /\ nReq[q] \in Recommendations!Run
    BY <1>2 DEF RecommendedInv, TargetTypes
  <2>2. nReq[q].seen \in SUBSET Target
    BY <2>1 DEF Recommendations!Run
  <2> QED BY <2>1, <2>2 DEF RecommendedInv, RunInv
<1> QED BY <1>1, <1>2

LEMMA ReadInv ==
  ASSUME RecommendedInv, NEW p \in Runner, Recommendations!Read(p)
  PROVE  RecommendedInv'
<1>1. PICK due \in SUBSET Target :
        nReq' = [nReq EXCEPT ![p].stage = "find", ![p].seen = due, ![p].todo = due]
  <2> DEFINE d == {nByAge[i] : i \in 1..(IF Len(nByAge) < MaxRead THEN Len(nByAge) ELSE MaxRead)}
                    \cap nWanting
  <2>1. d \in SUBSET Target
    BY DEF RecommendedInv, TargetTypes
  <2>2. nReq' = [nReq EXCEPT ![p].stage = "find", ![p].seen = d, ![p].todo = d]
    BY DEF Recommendations!Read
  <2> QED BY <2>1, <2>2
<1> DEFINE r == [nReq[p] EXCEPT !.stage = "find", !.seen = due, !.todo = due]
<1>2. r \in Recommendations!Run /\ r.stage = "find" /\ r.seen = due /\ r.todo = due
  BY DEF RecommendedInv, TargetTypes, Recommendations!Run
<1>3. nReq' = [nReq EXCEPT ![p] = r]
  BY <1>1 DEF RecommendedInv, TargetTypes
<1> HIDE DEF r
<1>4. UNCHANGED <<nByAge, nWanting, nStatus, nGiven, nInserted, nFails, nEdits>>
  BY DEF Recommendations!Read
<1>5. nReq'[p] = r
  BY <1>3 DEF RecommendedInv, TargetTypes
<1>6. RunInv(p)'
  BY <1>2, <1>5 DEF RunInv
<1> QED BY <1>2, <1>3, <1>4, <1>6, RunStepInv
        DEF RecommendedInv, EachTargetOnce, TargetTypes, RowPerTarget

LEMMA FindInv ==
  ASSUME RecommendedInv, NEW p \in Runner, Recommendations!Find(p)
  PROVE  RecommendedInv'
<1>1. PICK t \in nReq[p].todo :
        nReq' = [nReq EXCEPT ![p].t = t, ![p].todo = @ \ {t},
                             ![p].stage = IF Recommendations!IsMissing(t) THEN "create" ELSE "find"]
  BY DEF Recommendations!Find
<1>2. nReq[p] \in Recommendations!Run /\ nReq[p].stage = "find"
  BY DEF RecommendedInv, TargetTypes, Recommendations!Find, Recommendations!At
<1>3. nReq[p].todo \in SUBSET Target /\ nReq[p].seen \in SUBSET Target /\ t \in Target
  BY <1>1, <1>2 DEF Recommendations!Run
<1> DEFINE stage == IF nStatus[t] = "NONE" THEN "create" ELSE "find"
           r == [nReq[p] EXCEPT !.t = t, !.todo = nReq[p].todo \ {t}, !.stage = stage]
<1>4. stage \in {"create", "find"} /\ (stage = "find" => nStatus[t] # "NONE")
  OBVIOUS
<1>5. nReq' = [nReq EXCEPT ![p] = r]
  BY <1>1 DEF RecommendedInv, TargetTypes, Recommendations!IsMissing
<1> HIDE DEF stage
<1>6. /\ r \in Recommendations!Run
      /\ r.stage = stage /\ r.t = t /\ r.todo = nReq[p].todo \ {t} /\ r.seen = nReq[p].seen
  BY <1>2, <1>3, <1>4 DEF Recommendations!Run
<1> HIDE DEF r
<1>7. UNCHANGED <<nByAge, nWanting, nStatus, nGiven, nInserted, nFails, nEdits>>
  BY DEF Recommendations!Find
<1>8. nReq'[p] = r
  BY <1>5 DEF RecommendedInv, TargetTypes
<1>9. RunInv(p)'
  <2>1. \A u \in nReq[p].seen \ nReq[p].todo : nStatus[u] # "NONE"
    BY <1>2 DEF RecommendedInv, RunInv
  <2> QED BY <1>4, <1>6, <1>7, <1>8, <2>1 DEF RunInv
<1> QED BY <1>5, <1>6, <1>7, <1>9, RunStepInv
        DEF RecommendedInv, EachTargetOnce, TargetTypes, RowPerTarget

LEMMA CreateInv ==
  ASSUME RecommendedInv, NEW p \in Runner, Recommendations!Create(p)
  PROVE  RecommendedInv'
<1> DEFINE t == nReq[p].t
           r == [nReq[p] EXCEPT !.stage = "find"]
<1>1. /\ nReq[p] \in Recommendations!Run /\ nReq[p].stage = "create"
      /\ nReq' = [nReq EXCEPT ![p] = r]
      /\ UNCHANGED <<nByAge, nWanting, nGiven, nFails, nEdits>>
  BY DEF RecommendedInv, TargetTypes, Recommendations!Create, Recommendations!GoesOn,
     Recommendations!At
<1>2. r \in Recommendations!Run /\ r.stage = "find" /\ r.seen = nReq[p].seen
      /\ r.todo = nReq[p].todo /\ t \in Target
  BY <1>1 DEF Recommendations!Run
<1>3. \/ /\ nStatus[t] = "NONE"
         /\ nStatus' = [nStatus EXCEPT ![t] = "OPEN"]
         /\ nInserted' = [nInserted EXCEPT ![t] = @ + 1]
      \/ nStatus[t] # "NONE" /\ UNCHANGED <<nStatus, nInserted>>
  BY DEF Recommendations!Create, Recommendations!Allows
<1> HIDE DEF t, r
<1>4. /\ nStatus \in [Target -> Recommendations!Status \cup {"NONE"}]
      /\ nInserted \in [Target -> Nat]
  BY DEF RecommendedInv, TargetTypes
<1>5. /\ nStatus' \in [Target -> Recommendations!Status \cup {"NONE"}]
      /\ nInserted' \in [Target -> Nat]
      /\ nStatus'[t] # "NONE"
      /\ \A u \in Target : nStatus[u] # "NONE" => nStatus'[u] # "NONE"
  BY <1>2, <1>3, <1>4 DEF Recommendations!Status
<1>6. RowPerTarget'
  <2>1. RowPerTarget
    BY DEF RecommendedInv
  <2>2. CASE nStatus[t] # "NONE" /\ UNCHANGED <<nStatus, nInserted>>
    BY <1>1, <2>1, <2>2 DEF RowPerTarget
  <2>3. CASE /\ nStatus[t] = "NONE"
             /\ nStatus' = [nStatus EXCEPT ![t] = "OPEN"]
             /\ nInserted' = [nInserted EXCEPT ![t] = @ + 1]
    <3>1. nInserted[t] = 0 /\ nGiven[t] = "NONE"
      BY <1>2, <2>1, <2>3 DEF RowPerTarget
    <3>2. nInserted'[t] = 1 /\ nStatus'[t] = "OPEN" /\ nGiven'[t] = "NONE"
      BY <1>1, <1>2, <1>4, <2>3, <3>1
    <3>3. \A u \in Target \ {t} : nInserted'[u] = nInserted[u] /\ nStatus'[u] = nStatus[u]
      BY <1>2, <1>4, <2>3
    <3> QED BY <1>1, <2>1, <3>2, <3>3 DEF RowPerTarget
  <2> QED BY <1>3, <2>2, <2>3
<1>7. nReq'[p] = r
  BY <1>1 DEF RecommendedInv, TargetTypes
<1>8. RunInv(p)'
  <2>1. \A u \in nReq[p].seen \ nReq[p].todo : u = t \/ nStatus[u] # "NONE"
    BY <1>1 DEF RecommendedInv, RunInv, t
  <2>2. nReq[p].seen \in SUBSET Target
    BY <1>1 DEF Recommendations!Run
  <2> QED BY <1>2, <1>5, <1>7, <2>1, <2>2 DEF RunInv
<1> QED BY <1>1, <1>2, <1>5, <1>6, <1>8, RunStepInv
        DEF RecommendedInv, EachTargetOnce, TargetTypes

\* A run ends, or dies: its record is the idle one.
LEMMA RunEndInv ==
  ASSUME RecommendedInv, NEW p \in Runner, Recommendations!Finish(p) \/ Recommendations!Fails(p)
  PROVE  RecommendedInv'
<1>1. /\ nReq' = [nReq EXCEPT ![p] = Recommendations!Idle]
      /\ UNCHANGED <<nByAge, nWanting, nStatus, nGiven, nInserted, nEdits>>
      /\ nFails' = nFails \/ (nFails' = nFails + 1 /\ nFails < MaxFails)
  BY DEF Recommendations!Finish, Recommendations!Fails
<1>2. nFails' \in 0..MaxFails
  BY <1>1, TargetsAssumption DEF RecommendedInv, TargetTypes
<1>3. nReq'[p] = Recommendations!Idle
  BY <1>1 DEF RecommendedInv, TargetTypes
<1>4. RunInv(p)'
  BY <1>3, RunIdleTyped DEF RunInv
<1> QED BY <1>1, <1>2, <1>4, RunIdleTyped, RunStepInv
        DEF RecommendedInv, EachTargetOnce, TargetTypes, RowPerTarget

LEMMA UpdateStatusInv ==
  ASSUME RecommendedInv, NEW t \in Target, Recommendations!UpdateStatus(t)
  PROVE  RecommendedInv'
<1>1. PICK s \in Recommendations!Status :
        nStatus' = [nStatus EXCEPT ![t] = s] /\ nGiven' = [nGiven EXCEPT ![t] = s]
  BY DEF Recommendations!UpdateStatus
<1>2. /\ UNCHANGED <<nByAge, nWanting, nInserted, nReq, nFails>>
      /\ nStatus[t] # "NONE" /\ nEdits' = nEdits + 1 /\ nEdits < MaxEdits
  BY DEF Recommendations!UpdateStatus
<1>3. nEdits' \in 0..MaxEdits
  BY <1>2, TargetsAssumption DEF RecommendedInv, TargetTypes
<1>4. s # "NONE" /\ s \in Recommendations!Status \cup {"NONE"}
  BY DEF Recommendations!Status
<1>5. /\ nStatus'[t] = s /\ nGiven'[t] = s
      /\ \A u \in Target \ {t} : nStatus'[u] = nStatus[u] /\ nGiven'[u] = nGiven[u]
  BY <1>1 DEF RecommendedInv, TargetTypes
<1>6. TargetTypes'
  BY <1>1, <1>2, <1>3, <1>4 DEF RecommendedInv, TargetTypes
<1>7. RowPerTarget'
  BY <1>2, <1>4, <1>5 DEF RecommendedInv, RowPerTarget
<1>8. \A p \in Runner : RunInv(p)'
  BY <1>2, <1>4, <1>5, RunsKept
<1> QED BY <1>2, <1>6, <1>7, <1>8 DEF RecommendedInv, EachTargetOnce

LEMMA EditTargetInv ==
  ASSUME RecommendedInv, NEW t \in Target, Recommendations!EditTarget(t)
  PROVE  RecommendedInv'
<1>1. PICK i \in 1..Len(nByAge) :
        nByAge[i] = t /\ nByAge' = Append(WithoutPlace(nByAge, i), t)
  BY DEF Recommendations!EditTarget, WithoutPlace
<1>2. /\ UNCHANGED <<nStatus, nGiven, nInserted, nReq, nFails>>
      /\ nWanting' \in {nWanting, nWanting \cup {t}, nWanting \ {t}}
      /\ nEdits' = nEdits + 1 /\ nEdits < MaxEdits
  BY DEF Recommendations!EditTarget
<1>3. TargetTypes' /\ RowPerTarget'
  <2>1. nEdits' \in 0..MaxEdits
    BY <1>2, TargetsAssumption DEF RecommendedInv, TargetTypes
  <2>2. nWanting' \in SUBSET Target
    BY <1>2 DEF RecommendedInv, TargetTypes
  <2> QED BY <1>2, <2>1, <2>2 DEF RecommendedInv, TargetTypes, RowPerTarget
<1>4. \A p \in Runner : RunInv(p)'
  BY <1>2, RunsKept
<1>5. EachTargetOnce'
  <2> DEFINE n == Len(nByAge)
             w == WithoutPlace(nByAge, i)
  <2>1. nByAge \in Seq(Target) /\ n \in Nat /\ i \in 1..n
        /\ \A j \in 1..n : nByAge[j] \in Target
    BY ElementOfSeq, LenProperties DEF RecommendedInv, EachTargetOnce
  <2>2. /\ w \in Seq(Target) /\ Len(w) = n - 1
        /\ \A j \in 1..(n - 1) : w[j] = IF j < i THEN nByAge[j] ELSE nByAge[j + 1]
    BY <2>1, WithoutPlaceProperties
  <2> HIDE DEF w, n
  <2>3. /\ nByAge' = Append(w, t) /\ nByAge' \in Seq(Target) /\ Len(nByAge') = n
        /\ \A j \in 1..(n - 1) : nByAge'[j] = w[j]
        /\ nByAge'[n] = t
    <3>1. nByAge' = Append(w, t)
      BY <1>1 DEF w
    <3>2. /\ Append(w, t) \in Seq(Target) /\ Len(Append(w, t)) = Len(w) + 1
          /\ \A j \in 1..Len(w) : Append(w, t)[j] = w[j]
          /\ Append(w, t)[Len(w) + 1] = t
      BY <2>2, AppendProperties
    <3> QED BY <2>1, <2>2, <3>1, <3>2
  <2>4. ASSUME NEW u \in Target
        PROVE  \E j \in 1..n : nByAge'[j] = u
    <3>1. PICK k \in 1..n : nByAge[k] = u
      BY DEF RecommendedInv, EachTargetOnce, n
    <3>2. CASE k = i
      BY <1>1, <2>1, <2>3, <3>1, <3>2
    <3>3. CASE k < i
      BY <2>1, <2>2, <2>3, <3>1, <3>3
    <3>4. CASE k > i
      <4>1. k - 1 \in 1..(n - 1) /\ ~(k - 1 < i) /\ (k - 1) + 1 = k
        BY <2>1, <3>4
      <4>2. nByAge'[k - 1] = u
        BY <2>2, <2>3, <3>1, <4>1
      <4> QED BY <2>1, <4>1, <4>2
    <3> QED BY <2>1, <3>2, <3>3, <3>4
  <2>5. ASSUME NEW j \in 1..n, NEW k \in 1..n, nByAge'[j] = nByAge'[k]
        PROVE  j = k
    <3>1. \A a, b \in 1..n : nByAge[a] = nByAge[b] => a = b
      BY DEF RecommendedInv, EachTargetOnce, n
    <3> DEFINE From(a) == IF a = n THEN i ELSE IF a < i THEN a ELSE a + 1
    <3>2. \A a \in 1..n : From(a) \in 1..n /\ nByAge'[a] = nByAge[From(a)]
      <4> SUFFICES ASSUME NEW a \in 1..n
                   PROVE  From(a) \in 1..n /\ nByAge'[a] = nByAge[From(a)]
        OBVIOUS
      <4>1. CASE a = n
        BY <1>1, <2>1, <2>3, <4>1
      <4>2. CASE a # n /\ a < i
        <5>1. a \in 1..(n - 1) /\ From(a) = a
          BY <2>1, <4>2
        <5> QED BY <2>1, <2>2, <2>3, <4>2, <5>1
      <4>3. CASE a # n /\ ~(a < i)
        <5>1. a \in 1..(n - 1) /\ From(a) = a + 1 /\ a + 1 \in 1..n
          BY <2>1, <4>3
        <5> QED BY <2>1, <2>2, <2>3, <4>3, <5>1
      <4> QED BY <4>1, <4>2, <4>3
    <3>3. From(j) = From(k)
      BY <2>5, <3>1, <3>2
    <3> QED BY <2>1, <3>3
  <2> QED BY <2>3, <2>4, <2>5 DEF EachTargetOnce
<1> QED BY <1>3, <1>4, <1>5 DEF RecommendedInv

LEMMA RecommendedNext ==
  RecommendedInv /\ [Recommendations!Next]_Recommendations!vars => RecommendedInv'
<1> SUFFICES ASSUME RecommendedInv, [Recommendations!Next]_Recommendations!vars
             PROVE  RecommendedInv'
  OBVIOUS
<1>1. CASE UNCHANGED Recommendations!vars
  BY <1>1 DEF Recommendations!vars, RecommendedInv, EachTargetOnce, TargetTypes, RowPerTarget,
     RunInv
<1> QED BY <1>1, ReadInv, FindInv, CreateInv, RunEndInv, UpdateStatusInv, EditTargetInv
        DEF Recommendations!Next

\* Whatever targets there are and however many runs cross, fail and start again:
\* one recommendation for a target, shown until a member closes it, with the
\* member's answer standing, and no target of a window left without a row.
THEOREM RecommendedExactlyOnce == MCSpec => []RecommendedOnce
<1>1. Recommendations!Spec => []RecommendedInv
  BY RecommendedInit, RecommendedNext, PTL DEF Recommendations!Spec
<1>2. RecommendedInv => RecommendedOnce
  <2> SUFFICES ASSUME RecommendedInv
               PROVE  Recommendations!AnswerStands /\ Recommendations!RunCoversWindow
    BY RecommendedTyped DEF RecommendedOnce
  <2>1. Recommendations!RunCoversWindow
    BY DEF RecommendedInv, RunInv, Recommendations!RunCoversWindow, Recommendations!At
  <2>2. Recommendations!AnswerStands
    <3> SUFFICES ASSUME NEW t \in Target
                 PROVE  /\ nInserted[t] <= 1
                        /\ t \in Recommendations!Shown
                             <=> nInserted[t] = 1 /\ nGiven[t] \in {"NONE", "OPEN"}
                        /\ nGiven[t] # "NONE" => nStatus[t] = nGiven[t]
      BY DEF Recommendations!AnswerStands
    <3>1. /\ nInserted[t] = IF nStatus[t] = "NONE" THEN 0 ELSE 1
          /\ nGiven[t] # "NONE" => nStatus[t] = nGiven[t]
          /\ nGiven[t] = "NONE" => nStatus[t] \in {"NONE", "OPEN"}
      BY DEF RecommendedInv, RowPerTarget
    <3>2. t \in Recommendations!Shown <=> nStatus[t] = "OPEN"
      BY DEF Recommendations!Shown
    <3> QED BY <3>1, <3>2
  <2> QED BY <2>1, <2>2
<1> QED BY <1>1, <1>2, RecommendationsRun, PTL

-----------------------------------------------------------------------------
(* Limits (RateLimiter).                                                   *)

\* A table of buckets: one for a key, in the order of their insertion.
BucketsIn(s) == {s[i] : i \in 1..Len(s)}

Table(s) ==
    /\ s \in Seq(Limits!Bucket)
    /\ \A i, j \in 1..Len(s) : s[i].key = s[j].key => i = j

\* A client that was never evicted: as many requests admitted as its limit
\* allows, and its bucket, if it has one, is about its window.
ClientInv(k) ==
    ~lWindow[k].evicted =>
        /\ lWindow[k].admitted =
             IF lWindow[k].asked < Limits!Limit(k) THEN lWindow[k].asked ELSE Limits!Limit(k)
        /\ \A b \in BucketsIn(lBuckets) : b.key = k =>
             b.resetAt = lWindow[k].until /\ b.count = lWindow[k].asked
        /\ (\A b \in BucketsIn(lBuckets) : b.key # k) => lWindow[k].until <= lNow

LimitsInv ==
    /\ Limits!TypeOK
    /\ Table(lBuckets) /\ Len(lBuckets) <= MaxBuckets
    /\ Limits!RefusedBeyondLimit
    /\ \A k \in Limits!Key : ClientInv(k)

LEMMA LimitsTyped ==
  ASSUME NEW k \in Limits!Key
  PROVE  Limits!Limit(k) \in Nat \ {0} /\ Limits!Window(k) \in Nat \ {0}
  BY LimitsAssumption DEF Limits!Limit, Limits!Window, Limits!KindOf

LEMMA BucketFound ==
  ASSUME NEW s, Table(s), NEW b \in BucketsIn(s)
  PROVE  Limits!Holds(s, b.key) /\ Limits!BucketOf(s, b.key) = b
<1>1. PICK i \in 1..Len(s) : s[i] = b
  BY DEF BucketsIn
<1>2. Limits!PlaceOf(s, b.key) = i
  BY <1>1 DEF Table, Limits!PlaceOf
<1> QED BY <1>1, <1>2 DEF Limits!Holds, Limits!BucketOf

LEMMA BucketHeld ==
  ASSUME NEW s, Table(s), NEW k, Limits!Holds(s, k)
  PROVE  /\ Limits!PlaceOf(s, k) \in 1..Len(s)
         /\ Limits!BucketOf(s, k) = s[Limits!PlaceOf(s, k)]
         /\ Limits!BucketOf(s, k) \in BucketsIn(s) /\ Limits!BucketOf(s, k).key = k
<1>1. PICK i \in 1..Len(s) : s[i].key = k
  BY DEF Limits!Holds
<1>2. Limits!PlaceOf(s, k) \in 1..Len(s) /\ s[Limits!PlaceOf(s, k)].key = k
  BY <1>1 DEF Limits!PlaceOf
<1> QED BY <1>2 DEF Limits!BucketOf, BucketsIn

LEMMA WithoutOne ==
  ASSUME NEW s, Table(s), NEW i \in 1..Len(s)
  PROVE  /\ Table(WithoutPlace(s, i))
         /\ Len(WithoutPlace(s, i)) = Len(s) - 1
         /\ BucketsIn(WithoutPlace(s, i)) = BucketsIn(s) \ {s[i]}
<1> DEFINE n == Len(s)
           w == WithoutPlace(s, i)
<1>1. s \in Seq(Limits!Bucket) /\ n \in Nat
      /\ \A j, k \in 1..n : s[j].key = s[k].key => j = k
  BY LenProperties DEF Table
<1>2. /\ w \in Seq(Limits!Bucket) /\ Len(w) = n - 1
      /\ \A j \in 1..(n - 1) : w[j] = IF j < i THEN s[j] ELSE s[j + 1]
  BY <1>1, WithoutPlaceProperties
<1> HIDE DEF w, n
<1> DEFINE From(j) == IF j < i THEN j ELSE j + 1
<1>3. \A j \in 1..(n - 1) : From(j) \in 1..n /\ From(j) # i /\ w[j] = s[From(j)]
  <2> SUFFICES ASSUME NEW j \in 1..(n - 1)
               PROVE  From(j) \in 1..n /\ From(j) # i /\ w[j] = s[From(j)]
    OBVIOUS
  <2>1. i \in Int /\ j \in Int /\ n \in Nat
    BY <1>1 DEF n
  <2>2. CASE j < i
    BY <1>2, <2>1, <2>2
  <2>3. CASE ~(j < i)
    BY <1>2, <2>1, <2>3
  <2> QED BY <2>2, <2>3
<1>4. \A j \in 1..n : j # i => \E k \in 1..(n - 1) : From(k) = j
  <2> SUFFICES ASSUME NEW j \in 1..n, j # i
               PROVE  \E k \in 1..(n - 1) : From(k) = j
    OBVIOUS
  <2>1. i \in 1..n /\ n \in Nat
    BY <1>1 DEF n
  <2>2. CASE j < i
    <3>1. j \in 1..(n - 1) /\ From(j) = j
      BY <2>1, <2>2
    <3> QED BY <3>1
  <2>3. CASE j > i
    <3>1. j - 1 \in 1..(n - 1) /\ From(j - 1) = j
      BY <2>1, <2>3
    <3> QED BY <3>1
  <2> QED BY <2>1, <2>2, <2>3
<1>5. \A j, k \in 1..(n - 1) : w[j].key = w[k].key => j = k
  <2> SUFFICES ASSUME NEW j \in 1..(n - 1), NEW k \in 1..(n - 1), w[j].key = w[k].key
               PROVE  j = k
    OBVIOUS
  <2>1. From(j) = From(k)
    BY <1>1, <1>3, SMTT(60)
  <2>2. i \in Int /\ j \in Int /\ k \in Int
    BY <1>1 DEF n
  <2> QED BY <2>1, <2>2
<1>6. BucketsIn(w) = BucketsIn(s) \ {s[i]}
  <2>1. \A j \in 1..n : s[j] = s[i] => j = i
    BY <1>1 DEF n
  <2>2. BucketsIn(w) \subseteq BucketsIn(s) \ {s[i]}
    BY <1>2, <1>3, <2>1 DEF BucketsIn, n
  <2>3. ASSUME NEW b \in BucketsIn(s) \ {s[i]}
        PROVE  b \in BucketsIn(w)
    <3>1. PICK j \in 1..n : s[j] = b /\ j # i
      BY DEF BucketsIn, n
    <3>2. PICK k \in 1..(n - 1) : From(k) = j
      BY <1>4, <3>1
    <3>3. w[k] = b
      BY <1>3, <3>1, <3>2
    <3> QED BY <1>2, <3>3 DEF BucketsIn
  <2> QED BY <2>2, <2>3
<1>7. Table(w)
  BY <1>2, <1>5 DEF Table
<1> QED BY <1>2, <1>6, <1>7 DEF w, n

LEMMA WithoutFirst ==
  ASSUME NEW s, Table(s), s # <<>>
  PROVE  /\ Table(Tail(s)) /\ Len(Tail(s)) = Len(s) - 1
         /\ BucketsIn(Tail(s)) = BucketsIn(s) \ {s[1]}
         /\ 1 \in 1..Len(s)
<1> DEFINE n == Len(s)
           w == Tail(s)
<1>1. /\ s \in Seq(Limits!Bucket) /\ n \in Nat \ {0}
      /\ w \in Seq(Limits!Bucket) /\ Len(w) = n - 1
      /\ \A j \in 1..(n - 1) : w[j] = s[j + 1]
      /\ \A j, k \in 1..n : s[j].key = s[k].key => j = k
  BY EmptySeq, LenProperties, HeadTailProperties DEF Table
<1> HIDE DEF w, n
<1>2. \A j \in 1..(n - 1) : j + 1 \in 1..n /\ j + 1 # 1
  BY <1>1
<1>3. ASSUME NEW j \in 1..(n - 1), NEW k \in 1..(n - 1), w[j].key = w[k].key
      PROVE  j = k
  <2>1. j + 1 \in 1..n /\ k + 1 \in 1..n /\ s[j + 1].key = s[k + 1].key
    BY <1>1, <1>2, <1>3
  <2>2. j + 1 = k + 1
    BY <1>1, <2>1
  <2> QED BY <1>1, <2>2
<1>4. BucketsIn(w) \subseteq BucketsIn(s) \ {s[1]}
  <2> SUFFICES ASSUME NEW j \in 1..(n - 1)
               PROVE  w[j] \in BucketsIn(s) /\ w[j] # s[1]
    BY <1>1 DEF BucketsIn
  <2>1. w[j] = s[j + 1] /\ 1 \in 1..n
    BY <1>1
  <2> QED BY <1>1, <1>2, <2>1 DEF BucketsIn, n
<1>5. ASSUME NEW b \in BucketsIn(s) \ {s[1]}
      PROVE  b \in BucketsIn(w)
  <2>1. PICK j \in 1..n : s[j] = b /\ j # 1
    BY DEF BucketsIn, n
  <2>2. j - 1 \in 1..(n - 1) /\ (j - 1) + 1 = j
    BY <1>1, <2>1
  <2>3. w[j - 1] = b
    BY <1>1, <2>1, <2>2
  <2> QED BY <1>1, <2>2, <2>3 DEF BucketsIn
<1>6. Table(w)
  BY <1>1, <1>3 DEF Table
<1>7. 1 \in 1..n
  BY <1>1
<1> QED BY <1>1, <1>4, <1>5, <1>6, <1>7 DEF w, n

\* Of the buckets, room is made for a key: its own is left if its window goes
\* on, and only then.
LEMMA ReadyProperties ==
  ASSUME Table(lBuckets), Len(lBuckets) <= MaxBuckets, NEW k \in Limits!Key
  PROVE  /\ Table(Limits!Ready(k)) /\ Len(Limits!Ready(k)) <= MaxBuckets
         /\ BucketsIn(Limits!Ready(k)) \subseteq BucketsIn(lBuckets)
         /\ (\A b \in BucketsIn(Limits!Ready(k)) : b.key # k)
              => Len(Limits!Ready(k)) < MaxBuckets
         /\ \A b \in BucketsIn(lBuckets) : b.key = k =>
              (b \in BucketsIn(Limits!Ready(k)) <=> ~Limits!IsOver(b))
<1> DEFINE s0 == lBuckets
           s1 == Limits!WithoutExpiredOldest(s0)
           s2 == Limits!WithoutOver(s1, k)
           s3 == Limits!WithRoom(s2, k)
<1>0. MaxBuckets \in Nat \ {0} /\ \A s : Table(s) => Len(s) \in Nat
  BY LimitsAssumption, LenProperties DEF Table
<1>1. /\ Table(s1) /\ Len(s1) <= MaxBuckets
      /\ BucketsIn(s1) \subseteq BucketsIn(s0)
      /\ \A b \in BucketsIn(s0) : ~Limits!IsOver(b) => b \in BucketsIn(s1)
  <2>1. CASE s0 # <<>> /\ Limits!IsOver(Head(s0))
    <3>1. s1 = Tail(s0)
      BY <2>1 DEF Limits!WithoutExpiredOldest
    <3>2. Head(s0) = s0[1]
      BY <2>1, HeadTailProperties DEF Table
    <3> QED BY <1>0, <2>1, <3>1, <3>2, WithoutFirst
  <2>2. CASE ~(s0 # <<>> /\ Limits!IsOver(Head(s0)))
    BY <2>2 DEF Limits!WithoutExpiredOldest
  <2> QED BY <2>1, <2>2
<1> HIDE DEF s1
<1>2. /\ Table(s2) /\ Len(s2) <= MaxBuckets
      /\ BucketsIn(s2) \subseteq BucketsIn(s1)
      /\ \A b \in BucketsIn(s1) : b.key = k => (b \in BucketsIn(s2) <=> ~Limits!IsOver(b))
  <2>1. CASE Limits!Holds(s1, k) /\ Limits!IsOver(Limits!BucketOf(s1, k))
    <3> DEFINE i == Limits!PlaceOf(s1, k)
    <3>1. i \in 1..Len(s1) /\ Limits!BucketOf(s1, k) = s1[i] /\ s1[i].key = k
      BY <1>1, <2>1, BucketHeld
    <3>2. s2 = WithoutPlace(s1, i)
      BY <2>1 DEF Limits!WithoutOver, Limits!WithoutKey, WithoutPlace
    <3>3. \A b \in BucketsIn(s1) : b.key = k => b = s1[i]
      BY <1>1, <3>1, BucketFound
    <3>4. Table(s2) /\ Len(s2) = Len(s1) - 1 /\ BucketsIn(s2) = BucketsIn(s1) \ {s1[i]}
      BY <1>1, <3>1, <3>2, WithoutOne
    <3> QED BY <1>0, <1>1, <2>1, <3>1, <3>3, <3>4
  <2>2. CASE ~(Limits!Holds(s1, k) /\ Limits!IsOver(Limits!BucketOf(s1, k)))
    <3>1. s2 = s1
      BY <2>2 DEF Limits!WithoutOver
    <3>2. \A b \in BucketsIn(s1) : b.key = k => ~Limits!IsOver(b)
      BY <1>1, <2>2, BucketFound
    <3> QED BY <1>1, <3>1, <3>2
  <2> QED BY <2>1, <2>2
<1> HIDE DEF s2
<1>3. /\ Table(s3) /\ Len(s3) <= MaxBuckets
      /\ BucketsIn(s3) \subseteq BucketsIn(s2)
      /\ \A b \in BucketsIn(s2) : b.key = k => b \in BucketsIn(s3)
      /\ (\A b \in BucketsIn(s3) : b.key # k) => Len(s3) < MaxBuckets
  <2>1. CASE ~Limits!Holds(s2, k) /\ Limits!IsFull(s2)
    <3>1. s3 = Tail(s2)
      BY <2>1 DEF Limits!WithRoom
    <3>2. s2 # <<>>
      BY <1>0, <2>1 DEF Limits!IsFull
    <3>3. Table(s3) /\ Len(s3) = Len(s2) - 1 /\ BucketsIn(s3) \subseteq BucketsIn(s2)
      BY <1>2, <3>1, <3>2, WithoutFirst
    <3>4. \A b \in BucketsIn(s2) : b.key # k
      BY <1>2, <2>1, BucketFound
    <3> QED BY <1>0, <1>2, <3>3, <3>4
  <2>2. CASE ~(~Limits!Holds(s2, k) /\ Limits!IsFull(s2))
    <3>1. s3 = s2
      BY <2>2 DEF Limits!WithRoom
    <3>2. (\A b \in BucketsIn(s2) : b.key # k) => ~Limits!Holds(s2, k)
      BY <1>2, BucketHeld
    <3>3. ~Limits!Holds(s2, k) => Len(s2) < MaxBuckets
      BY <1>0, <1>2, <2>2 DEF Limits!IsFull
    <3> QED BY <1>2, <3>1, <3>2, <3>3
  <2> QED BY <2>1, <2>2
<1>4. Limits!Ready(k) = s3
  BY DEF Limits!Ready, s1, s2
<1> HIDE DEF s3
<1>5. \A b \in BucketsIn(s0) : b.key = k => (b \in BucketsIn(s3) <=> ~Limits!IsOver(b))
  BY <1>1, <1>2, <1>3
<1> QED BY <1>1, <1>2, <1>3, <1>4, <1>5

LEMMA CountedProperties ==
  ASSUME NEW s, Table(s), NEW k \in Limits!Key, lNow \in Nat,
         Len(s) <= MaxBuckets, (\A b \in BucketsIn(s) : b.key # k) => Len(s) < MaxBuckets
  PROVE  /\ Table(Limits!Counted(s, k)) /\ Len(Limits!Counted(s, k)) <= MaxBuckets
         /\ \A b \in BucketsIn(Limits!Counted(s, k)) : b.key # k => b \in BucketsIn(s)
         /\ \A b \in BucketsIn(s) : b.key = k =>
              [b EXCEPT !.count = b.count + 1] \in BucketsIn(Limits!Counted(s, k))
         /\ (\A b \in BucketsIn(s) : b.key # k) =>
              [key |-> k, count |-> 1, resetAt |-> lNow + Limits!Window(k)]
                \in BucketsIn(Limits!Counted(s, k))
<1> DEFINE n == Len(s)
           c == Limits!Counted(s, k)
           new == [key |-> k, count |-> 1, resetAt |-> lNow + Limits!Window(k)]
<1>1. /\ s \in Seq(Limits!Bucket) /\ n \in Nat /\ \A i \in 1..n : s[i] \in Limits!Bucket
      /\ \A i, j \in 1..n : s[i].key = s[j].key => i = j
  BY ElementOfSeq, LenProperties DEF Table
<1>2. MaxBuckets \in Nat
  BY LimitsAssumption
<1>3. CASE Limits!Holds(s, k)
  <2> DEFINE d == [i \in 1..n |-> IF s[i].key = k THEN [s[i] EXCEPT !.count = @ + 1] ELSE s[i]]
  <2>1. c = d
    BY <1>3 DEF Limits!Counted
  <2>2. \A i \in 1..n : /\ d[i] \in Limits!Bucket /\ d[i].key = s[i].key
                        /\ s[i].key # k => d[i] = s[i]
                        /\ s[i].key = k => d[i] = [s[i] EXCEPT !.count = s[i].count + 1]
    <3> SUFFICES ASSUME NEW i \in 1..n
                 PROVE  /\ d[i] \in Limits!Bucket /\ d[i].key = s[i].key
                        /\ s[i].key # k => d[i] = s[i]
                        /\ s[i].key = k => d[i] = [s[i] EXCEPT !.count = s[i].count + 1]
      OBVIOUS
    <3>1. s[i] \in Limits!Bucket
      BY <1>1
    <3>2. CASE s[i].key = k
      <4>1. d[i] = [s[i] EXCEPT !.count = s[i].count + 1]
        BY <3>2
      <4> HIDE DEF d
      <4> QED BY <3>1, <3>2, <4>1 DEF Limits!Bucket
    <3>3. CASE s[i].key # k
      <4>1. d[i] = s[i]
        BY <3>3
      <4> HIDE DEF d
      <4> QED BY <3>1, <3>3, <4>1
    <3> QED BY <3>2, <3>3
  <2>3. DOMAIN d = 1..n
    OBVIOUS
  <2> HIDE DEF d, n
  <2>4. d \in Seq(Limits!Bucket) /\ Len(d) = n
    <3>1. d = [i \in 1..n |-> d[i]]
      BY DEF d
    <3>2. d \in [1..n -> Limits!Bucket]
      BY <2>2, <3>1
    <3>3. d \in Seq(Limits!Bucket)
      BY <1>1, <3>2, SeqDef
    <3> QED BY <1>1, <2>3, <3>3, LenProperties
  <2>5. Table(d)
    BY <1>1, <2>2, <2>4 DEF Table
  <2>6. \A b \in BucketsIn(d) : b.key # k => b \in BucketsIn(s)
    BY <2>2, <2>4 DEF BucketsIn, n
  <2>7. \A b \in BucketsIn(s) : b.key = k => [b EXCEPT !.count = b.count + 1] \in BucketsIn(d)
    BY <2>2, <2>4 DEF BucketsIn, n
  <2>8. ~(\A b \in BucketsIn(s) : b.key # k)
    BY <1>3, BucketHeld
  <2> HIDE DEF c
  <2> QED BY <1>2, <2>1, <2>4, <2>5, <2>6, <2>7, <2>8 DEF c, n
<1>4. CASE ~Limits!Holds(s, k)
  <2>1. c = Append(s, new)
    BY <1>4 DEF Limits!Counted
  <2>2. new \in Limits!Bucket /\ new.key = k
    BY LimitsTyped DEF Limits!Bucket
  <2> HIDE DEF new, n
  <2>3. /\ c \in Seq(Limits!Bucket) /\ Len(c) = n + 1
        /\ \A i \in 1..n : c[i] = s[i]
        /\ c[n + 1] = new
    BY <1>1, <2>1, <2>2, AppendProperties DEF n
  <2> HIDE DEF c
  <2>4. \A i \in 1..n : s[i].key # k
    BY <1>4 DEF Limits!Holds, n
  <2>5. \A i, j \in 1..(n + 1) : c[i].key = c[j].key => i = j
    <3> SUFFICES ASSUME NEW i \in 1..(n + 1), NEW j \in 1..(n + 1), c[i].key = c[j].key
                 PROVE  i = j
      OBVIOUS
    <3>1. i \in 1..n \/ i = n + 1
      BY <1>1
    <3>2. j \in 1..n \/ j = n + 1
      BY <1>1
    <3> QED BY <1>1, <2>2, <2>3, <2>4, <3>1, <3>2
  <2>6. Table(c)
    BY <2>3, <2>5 DEF Table
  <2>7. \A b \in BucketsIn(c) : b.key # k => b \in BucketsIn(s)
    <3> SUFFICES ASSUME NEW i \in 1..(n + 1), c[i].key # k
                 PROVE  c[i] \in BucketsIn(s)
      BY <2>3 DEF BucketsIn
    <3>1. i \in 1..n
      BY <1>1, <2>2, <2>3
    <3> QED BY <2>3, <3>1 DEF BucketsIn, n
  <2>8. \A b \in BucketsIn(s) : b.key # k
    BY <2>4 DEF BucketsIn, n
  <2>9. new \in BucketsIn(c)
    BY <1>1, <2>3 DEF BucketsIn
  <2>10. Len(c) <= MaxBuckets
    BY <1>1, <1>2, <2>3, <2>8 DEF n
  <2> QED BY <2>6, <2>7, <2>8, <2>9, <2>10 DEF c, new
<1> QED BY <1>3, <1>4

\* A request finds or makes the bucket of its key, and counts in it.
LEMMA RequestTable ==
  ASSUME LimitsInv, NEW k \in Limits!Key, Limits!Request(k)
  PROVE  /\ Table(lBuckets') /\ Len(lBuckets') <= MaxBuckets
         /\ \A b \in BucketsIn(lBuckets') : b.key # k => b \in BucketsIn(lBuckets)
         /\ \A b \in BucketsIn(lBuckets) : b.key = k /\ ~Limits!IsOver(b) =>
              [b EXCEPT !.count = b.count + 1] \in BucketsIn(lBuckets')
         /\ (\A b \in BucketsIn(lBuckets) : b.key = k => Limits!IsOver(b)) =>
              [key |-> k, count |-> 1, resetAt |-> lNow + Limits!Window(k)]
                \in BucketsIn(lBuckets')
<1> DEFINE r == Limits!Ready(k)
<1>1. lBuckets' = Limits!Counted(r, k) /\ lNow \in Nat
  BY DEF Limits!Request, LimitsInv, Limits!TypeOK
<1>2. /\ Table(r) /\ Len(r) <= MaxBuckets
      /\ BucketsIn(r) \subseteq BucketsIn(lBuckets)
      /\ (\A b \in BucketsIn(r) : b.key # k) => Len(r) < MaxBuckets
      /\ \A b \in BucketsIn(lBuckets) : b.key = k => (b \in BucketsIn(r) <=> ~Limits!IsOver(b))
  BY ReadyProperties DEF LimitsInv
<1> HIDE DEF r
<1>3. /\ Table(lBuckets') /\ Len(lBuckets') <= MaxBuckets
      /\ \A b \in BucketsIn(lBuckets') : b.key # k => b \in BucketsIn(r)
      /\ \A b \in BucketsIn(r) : b.key = k =>
           [b EXCEPT !.count = b.count + 1] \in BucketsIn(lBuckets')
      /\ (\A b \in BucketsIn(r) : b.key # k) =>
           [key |-> k, count |-> 1, resetAt |-> lNow + Limits!Window(k)] \in BucketsIn(lBuckets')
  BY <1>1, <1>2, CountedProperties
<1> QED BY <1>2, <1>3

\* The one who asks.
LEMMA RequestOwn ==
  ASSUME LimitsInv, NEW k \in Limits!Key, Limits!Request(k)
  PROVE  /\ ClientInv(k)' /\ Limits!RefusedBeyondLimit'
         /\ lRefused' \in Limits!Key \cup {Limits!NoKey}
         /\ lWindow'[k] \in [until : Nat, asked : 0..MaxAsked, admitted : Nat, evicted : BOOLEAN]
<1> DEFINE w == Limits!WindowOfClient(k)
           count == Limits!BucketOf(lBuckets', k).count
           ok == Limits!Passes(k, count)
           admitted == IF ok THEN w.admitted + 1 ELSE w.admitted
<1>1. /\ lNow \in Nat /\ MaxAsked \in Nat
      /\ lWindow[k] \in [until : Nat, asked : 0..MaxAsked, admitted : Nat, evicted : BOOLEAN]
      /\ lWindow \in [Limits!Key -> [until : Nat, asked : 0..MaxAsked, admitted : Nat,
                                     evicted : BOOLEAN]]
  BY LimitsAssumption DEF LimitsInv, Limits!TypeOK
<1>2. Limits!Limit(k) \in Nat \ {0} /\ Limits!Window(k) \in Nat \ {0}
  BY LimitsTyped
<1>3. \/ /\ lWindow[k].until <= lNow
         /\ w = [until |-> lNow + Limits!Window(k), asked |-> 0, admitted |-> 0,
                 evicted |-> lWindow[k].evicted]
      \/ ~(lWindow[k].until <= lNow) /\ w = lWindow[k]
  BY DEF Limits!WindowOfClient, Limits!Closed
<1>4. /\ w \in [until : Nat, asked : 0..MaxAsked, admitted : Nat, evicted : BOOLEAN]
      /\ w.evicted = lWindow[k].evicted
  BY <1>1, <1>2, <1>3
<1>5. /\ w.asked < MaxAsked /\ lNow' = lNow
      /\ lRefused' = IF ok THEN Limits!NoKey ELSE k
      /\ lWindow'[k] = [w EXCEPT !.asked = w.asked + 1, !.admitted = admitted]
  BY DEF Limits!Request
<1> HIDE DEF w, ok
<1>a. admitted \in Nat
  BY <1>4
<1> HIDE DEF admitted
<1>6. /\ lWindow'[k] \in [until : Nat, asked : 0..MaxAsked, admitted : Nat, evicted : BOOLEAN]
      /\ lWindow'[k].until = w.until /\ lWindow'[k].asked = w.asked + 1
      /\ lWindow'[k].evicted = w.evicted
      /\ lWindow'[k].admitted = admitted
  <2> DEFINE asked == w.asked + 1
  <2>1. asked \in 0..MaxAsked
    BY <1>1, <1>4, <1>5
  <2>2. lWindow'[k] = [w EXCEPT !.asked = asked, !.admitted = admitted]
    BY <1>5
  <2> HIDE DEF asked
  <2>3. /\ lWindow'[k] \in [until : Nat, asked : 0..MaxAsked, admitted : Nat, evicted : BOOLEAN]
        /\ lWindow'[k].until = w.until /\ lWindow'[k].asked = asked
        /\ lWindow'[k].evicted = w.evicted
        /\ lWindow'[k].admitted = admitted
    BY <1>4, <1>a, <2>1, <2>2
  <2> QED BY <2>3 DEF asked
<1>7. ASSUME ~lWindow'[k].evicted
      PROVE  \E b \in BucketsIn(lBuckets') :
               /\ b.key = k /\ b.resetAt = lWindow'[k].until /\ b.count = lWindow'[k].asked
               /\ w.admitted = IF w.asked < Limits!Limit(k) THEN w.asked ELSE Limits!Limit(k)
  <2>1. /\ lWindow[k].admitted =
             IF lWindow[k].asked < Limits!Limit(k) THEN lWindow[k].asked ELSE Limits!Limit(k)
        /\ \A b \in BucketsIn(lBuckets) : b.key = k =>
             b.resetAt = lWindow[k].until /\ b.count = lWindow[k].asked
        /\ (\A b \in BucketsIn(lBuckets) : b.key # k) => lWindow[k].until <= lNow
    BY <1>4, <1>6, <1>7 DEF LimitsInv, ClientInv
  <2>2. CASE lWindow[k].until <= lNow
    <3>1. \A b \in BucketsIn(lBuckets) : b.key = k => Limits!IsOver(b)
      BY <2>1, <2>2 DEF Limits!IsOver
    <3> DEFINE new == [key |-> k, count |-> 1, resetAt |-> lNow + Limits!Window(k)]
    <3>2. new \in BucketsIn(lBuckets')
      BY <3>1, RequestTable
    <3>3. w.until = lNow + Limits!Window(k) /\ w.asked = 0 /\ w.admitted = 0
      BY <1>3, <2>2
    <3>4. new.key = k /\ new.count = 1 /\ new.resetAt = w.until
      BY <3>3
    <3> HIDE DEF new
    <3> QED BY <1>2, <1>6, <3>2, <3>3, <3>4
  <2>3. CASE ~(lWindow[k].until <= lNow)
    <3>1. PICK b \in BucketsIn(lBuckets) : b.key = k
      BY <2>1, <2>3
    <3>2. ~Limits!IsOver(b) /\ b.resetAt = lWindow[k].until /\ b.count = lWindow[k].asked
      BY <2>1, <2>3, <3>1 DEF Limits!IsOver
    <3> DEFINE new == [b EXCEPT !.count = b.count + 1]
    <3>3. new \in BucketsIn(lBuckets')
      BY <3>1, <3>2, RequestTable
    <3>4. b \in Limits!Bucket
      BY ElementOfSeq DEF BucketsIn, LimitsInv, Table
    <3>5. new.key = k /\ new.count = b.count + 1 /\ new.resetAt = b.resetAt
      BY <3>1, <3>4 DEF Limits!Bucket
    <3>6. w = lWindow[k]
      BY <1>3, <2>3
    <3> HIDE DEF new
    <3> QED BY <1>6, <2>1, <3>2, <3>3, <3>5, <3>6
  <2> QED BY <2>2, <2>3
<1>8. ASSUME ~lWindow'[k].evicted
      PROVE  /\ lWindow'[k].admitted = IF lWindow'[k].asked < Limits!Limit(k)
                                       THEN lWindow'[k].asked ELSE Limits!Limit(k)
             /\ ~ok => lWindow'[k].admitted = Limits!Limit(k)
             /\ \A c \in BucketsIn(lBuckets') : c.key = k =>
                  c.resetAt = lWindow'[k].until /\ c.count = lWindow'[k].asked
             /\ \E c \in BucketsIn(lBuckets') : c.key = k
  <2>1. PICK b \in BucketsIn(lBuckets') :
          /\ b.key = k /\ b.resetAt = lWindow'[k].until /\ b.count = lWindow'[k].asked
          /\ w.admitted = IF w.asked < Limits!Limit(k) THEN w.asked ELSE Limits!Limit(k)
    BY <1>7, <1>8
  <2>2. Table(lBuckets')
    BY RequestTable
  <2>3. Limits!BucketOf(lBuckets', k) = b
    BY <2>1, <2>2, BucketFound
  <2>4. \A c \in BucketsIn(lBuckets') : c.key = k => c = b
    BY <2>2, <2>3, BucketFound
  <2>5. ok <=> w.asked + 1 <= Limits!Limit(k)
    BY <1>6, <2>1, <2>3 DEF ok, Limits!Passes
  <2>6. w.asked \in Nat /\ w.admitted \in Nat
    BY <1>4
  <2>7. /\ lWindow'[k].admitted = IF lWindow'[k].asked < Limits!Limit(k)
                                  THEN lWindow'[k].asked ELSE Limits!Limit(k)
        /\ ~ok => lWindow'[k].admitted = Limits!Limit(k)
    BY <1>2, <1>6, <2>1, <2>5, <2>6 DEF admitted
  <2> QED BY <2>1, <2>4, <2>7
<1>9. ClientInv(k)'
  BY <1>8 DEF ClientInv, Limits!Limit, Limits!KindOf
<1>10. Limits!RefusedBeyondLimit'
  BY <1>5, <1>8 DEF Limits!RefusedBeyondLimit, Limits!Limit, Limits!KindOf
<1> QED BY <1>5, <1>6, <1>9, <1>10

\* The others: a bucket goes when its window is over, or the loss is known.
LEMMA RequestOthers ==
  ASSUME LimitsInv, NEW k \in Limits!Key, Limits!Request(k), NEW j \in Limits!Key, j # k
  PROVE  /\ ClientInv(j)'
         /\ lWindow'[j] \in [until : Nat, asked : 0..MaxAsked, admitted : Nat, evicted : BOOLEAN]
<1> DEFINE lost == {i \in Limits!Key \ {k} :
                      /\ Limits!Holds(lBuckets, i) /\ ~Limits!Holds(lBuckets', i)
                      /\ ~Limits!IsOver(Limits!BucketOf(lBuckets, i))}
<1>1. lWindow'[j] = [lWindow[j] EXCEPT !.evicted = @ \/ j \in lost]
  BY DEF Limits!Request
<1>2. lWindow[j] \in [until : Nat, asked : 0..MaxAsked, admitted : Nat, evicted : BOOLEAN]
  BY DEF LimitsInv, Limits!TypeOK
<1>3. (lWindow[j].evicted \/ j \in lost) \in BOOLEAN
  BY <1>2
<1> HIDE DEF lost
<1>4. /\ lWindow'[j].until = lWindow[j].until /\ lWindow'[j].asked = lWindow[j].asked
      /\ lWindow'[j].admitted = lWindow[j].admitted
      /\ lWindow'[j].evicted = (lWindow[j].evicted \/ j \in lost)
      /\ lWindow'[j] \in [until : Nat, asked : 0..MaxAsked, admitted : Nat, evicted : BOOLEAN]
  BY <1>1, <1>2, <1>3
<1>5. ASSUME ~lWindow[j].evicted, j \notin lost
      PROVE  /\ lWindow[j].admitted =
                  IF lWindow[j].asked < Limits!Limit(j) THEN lWindow[j].asked
                  ELSE Limits!Limit(j)
             /\ \A b \in BucketsIn(lBuckets') : b.key = j =>
                  b.resetAt = lWindow[j].until /\ b.count = lWindow[j].asked
             /\ (\A b \in BucketsIn(lBuckets') : b.key # j) => lWindow[j].until <= lNow
  <2>1. /\ lWindow[j].admitted =
             IF lWindow[j].asked < Limits!Limit(j) THEN lWindow[j].asked ELSE Limits!Limit(j)
        /\ \A b \in BucketsIn(lBuckets) : b.key = j =>
             b.resetAt = lWindow[j].until /\ b.count = lWindow[j].asked
        /\ (\A b \in BucketsIn(lBuckets) : b.key # j) => lWindow[j].until <= lNow
    BY <1>5 DEF LimitsInv, ClientInv
  <2>2. \A b \in BucketsIn(lBuckets') : b.key = j => b \in BucketsIn(lBuckets)
    BY RequestTable
  <2>3. ASSUME \A b \in BucketsIn(lBuckets') : b.key # j
        PROVE  lWindow[j].until <= lNow
    <3>1. SUFFICES ASSUME NEW b \in BucketsIn(lBuckets), b.key = j
                   PROVE  lWindow[j].until <= lNow
      BY <2>1
    <3>2. Limits!Holds(lBuckets, j) /\ Limits!BucketOf(lBuckets, j) = b
      BY <3>1, BucketFound DEF LimitsInv
    <3>3. ~Limits!Holds(lBuckets', j)
      BY <2>3, RequestTable, BucketHeld
    <3>4. Limits!IsOver(b)
      BY <1>5, <3>2, <3>3 DEF lost
    <3> QED BY <2>1, <3>1, <3>4 DEF Limits!IsOver
  <2> QED BY <2>1, <2>2, <2>3
<1>6. lNow' = lNow
  BY DEF Limits!Request
<1> QED BY <1>4, <1>5, <1>6 DEF ClientInv, Limits!Limit, Limits!KindOf

LEMMA LimitsNextInv == LimitsInv /\ [Limits!Next]_Limits!vars => LimitsInv'
<1> SUFFICES ASSUME LimitsInv, [Limits!Next]_Limits!vars PROVE LimitsInv'
  OBVIOUS
<1>1. CASE UNCHANGED Limits!vars
  BY <1>1 DEF Limits!vars, LimitsInv, Limits!TypeOK, Table, Limits!RefusedBeyondLimit, ClientInv,
     Limits!Limit, Limits!KindOf
<1>2. CASE Limits!Tick
  <2>1. /\ lNow' = lNow + 1 /\ lNow < MaxTime /\ lNow \in Nat /\ MaxTime \in Nat
        /\ UNCHANGED <<lBuckets, lWindow, lRefused>>
    BY <1>2, LimitsAssumption DEF Limits!Tick, LimitsInv, Limits!TypeOK
  <2>2. ASSUME NEW k \in Limits!Key
        PROVE  ClientInv(k)'
    <3>1. lWindow[k].until \in Nat
      BY DEF LimitsInv, Limits!TypeOK
    <3> QED BY <2>1, <3>1 DEF LimitsInv, ClientInv, Limits!Limit, Limits!KindOf
  <2>3. lNow' \in 0..MaxTime
    BY <2>1
  <2> QED BY <2>1, <2>2, <2>3
          DEF LimitsInv, Limits!TypeOK, Table, Limits!RefusedBeyondLimit, Limits!Limit,
              Limits!KindOf
<1>3. ASSUME NEW k \in Limits!Key, Limits!Request(k)
      PROVE  LimitsInv'
  <2>1. Table(lBuckets)' /\ (Len(lBuckets) <= MaxBuckets)'
    BY <1>3, RequestTable
  <2>2. \A j \in Limits!Key :
          /\ ClientInv(j)'
          /\ lWindow'[j] \in [until : Nat, asked : 0..MaxAsked, admitted : Nat, evicted : BOOLEAN]
    BY <1>3, RequestOwn, RequestOthers
  <2>3. lWindow' = [j \in Limits!Key |-> lWindow'[j]]
    BY <1>3 DEF Limits!Request
  <2>4. /\ lRefused' \in Limits!Key \cup {Limits!NoKey} /\ Limits!RefusedBeyondLimit'
        /\ lNow' = lNow
    BY <1>3, RequestOwn DEF Limits!Request
  <2>5. lWindow' \in [Limits!Key -> [until : Nat, asked : 0..MaxAsked, admitted : Nat,
                                     evicted : BOOLEAN]]
    BY <2>2, <2>3
  <2>6. Limits!TypeOK'
    BY <2>1, <2>4, <2>5 DEF LimitsInv, Limits!TypeOK, Table
  <2> QED BY <2>1, <2>2, <2>4, <2>6 DEF LimitsInv
<1> QED BY <1>1, <1>2, <1>3 DEF Limits!Next

LEMMA LimitsInitInv == Limits!Init => LimitsInv
<1> SUFFICES ASSUME Limits!Init PROVE LimitsInv
  OBVIOUS
<1>1. lBuckets = <<>> /\ lBuckets \in Seq(Limits!Bucket) /\ Len(lBuckets) = 0
  BY EmptySeq DEF Limits!Init
<1>2. BucketsIn(lBuckets) = {} /\ Table(lBuckets) /\ Len(lBuckets) <= MaxBuckets
  BY <1>1, LimitsAssumption DEF BucketsIn, Table
<1>3. Limits!TypeOK /\ Limits!RefusedBeyondLimit
  BY <1>1, LimitsAssumption DEF Limits!Init, Limits!TypeOK, Limits!Closed, Limits!NoKey,
     Limits!RefusedBeyondLimit
<1>4. ASSUME NEW k \in Limits!Key
      PROVE  ClientInv(k)
  BY <1>2, LimitsTyped DEF Limits!Init, Limits!Closed, ClientInv
<1> QED BY <1>2, <1>3, <1>4 DEF LimitsInv

\* Whatever the limits, the windows, the size of the table and the clients: one
\* that was never evicted has at most its limit of requests admitted in a
\* window, a refused one has used its limit up, and the table stays bounded.
THEOREM LimitsAlwaysHold == MCSpec => []LimitsHold
<1>1. Limits!Spec => []LimitsInv
  BY LimitsInitInv, LimitsNextInv, PTL DEF Limits!Spec
<1>2. LimitsInv => LimitsHold
  <2> SUFFICES ASSUME LimitsInv PROVE Limits!LimitHolds /\ Limits!TableBounded
    BY DEF LimitsInv, LimitsHold
  <2>1. Limits!TableBounded
    BY DEF LimitsInv, Table, Limits!TableBounded
  <2>2. ASSUME NEW k \in Limits!Key, ~lWindow[k].evicted
        PROVE  lWindow[k].admitted <= Limits!Limit(k)
    <3>1. lWindow[k].asked \in Nat
      BY DEF LimitsInv, Limits!TypeOK
    <3>2. lWindow[k].admitted =
            IF lWindow[k].asked < Limits!Limit(k) THEN lWindow[k].asked ELSE Limits!Limit(k)
      BY <2>2 DEF LimitsInv, ClientInv
    <3> QED BY <3>1, <3>2, LimitsTyped
  <2> QED BY <2>1, <2>2 DEF Limits!LimitHolds
<1> QED BY <1>1, <1>2, LimitsRun, PTL

-----------------------------------------------------------------------------
(* The invariant, part by part.                                            *)

\* What a call is about, wherever it stands.  An answer holds cards of its
\* organization, each once; the server knows the reaction it has confirmed.
CallFits(i) ==
    /\ dCall[i].kind = "none" => dCall[i].state = "done"
    /\ dCall[i].epoch <= dEpoch
    /\ dCall[i].epoch = dEpoch => dCall[i].org = dSlug
    /\ dCall[i].kind # "none" => dCall[i].org \in dVisited
    /\ ~dAgain /\ dCall[i].kind # "none" /\ dCall[i].org = dSlug => dCall[i].epoch = dEpoch
    /\ dCall[i].kind = "react" => dCall[i].card[1] = dCall[i].org
    /\ dCall[i].state = "ok" =>
         /\ Deck!IsInjective(dCall[i].cards)
         /\ \A n \in DOMAIN dCall[i].cards : dCall[i].cards[n][1] = dCall[i].org
    /\ dCall[i].kind = "react" /\ dCall[i].state = "ok" =>
         dServer[dCall[i].org].reacted[dCall[i].card[2]] # "NONE"

\* The calls under way that fill the screen of this visit, and the selections
\* asked for the organization on screen.
Loads(i) ==
    dCall[i].kind \in {"load", "first"} /\ Deck!InFlight(i) /\ dCall[i].epoch = dEpoch

Selects(i) == dCall[i].kind = "generate" /\ Deck!InFlight(i) /\ dCall[i].org = dSlug

Resets(i) == dCall[i].kind = "reset" /\ Deck!InFlight(i) /\ dCall[i].org = dSlug

FlagsFit ==
    /\ dUi.loading => \E i \in Deck!Calls : Loads(i)
    /\ \A i \in Deck!Calls : Loads(i) => dUi.loading
    /\ \A i, j \in Deck!Calls : Loads(i) /\ Loads(j) => i = j
    /\ dUi.generating => \E i \in Deck!Calls : Selects(i) \/ (Loads(i) /\ dCall[i].kind = "first")
    /\ dUi.resetting => \E i \in Deck!Calls : Resets(i)

\* Nothing is sent before the first answer, or without a feed.
EmptyFits ==
    /\ dUi.loading => dPending = {} /\ dDone = {}
    /\ dUi.loading /\ ~dAgain => dFeed = Deck!NoFeed
    /\ ~dFeed.there => dFeed = Deck!NoFeed /\ dPending = {} /\ dSeen = {}

\* A selection of this visit is alone, and asked for an empty deck.
SelectionFits ==
    ~dAgain =>
        /\ \A i \in Deck!Calls : Selects(i) =>
             /\ dUi.generating /\ ~dUi.loading
             /\ dFeed.cards = <<>> /\ dPending = {}
             /\ dCall[i].state = "ok" => Deck!Range(dCall[i].cards) \cap dDone = {}
        /\ \A i, j \in Deck!Calls : Selects(i) /\ Selects(j) => i = j

\* The reactions under way are about different cards.
LiveFits ==
    /\ Deck!CountIsPending
    /\ \A i, j \in Deck!Live : dCall[i].card = dCall[j].card => i = j

\* A card of the deck belongs to the organization on screen, and stands once;
\* a confirmed reaction is known to the server.
CardsFit ==
    /\ Deck!IsInjective(dFeed.cards)
    /\ \A n \in DOMAIN dFeed.cards : dFeed.cards[n][1] = dSlug
    /\ \A c \in dDone : dServer[c[1]].reacted[c[2]] # "NONE"
    /\ ~dAgain =>
         /\ dSeen \subseteq Deck!Range(dFeed.cards) \cup dPending \cup dDone
         /\ Deck!Range(dFeed.cards) \cap (dPending \cup dDone) = {}
         /\ dPending \cap dDone = {}
    /\ Deck!ReasonsForTopCard

UpTo(v, w) == v = w \/ Deck!Before(v, w)

\* Unless something was lost or crossed, the calls under way are of this
\* visit, a call that is no reaction is alone and brings what the server has,
\* and the profile on screen is that of the server or an answer brings it.
ProfilesFit ==
    ~dBlurred =>
        /\ \A i \in Deck!Calls : Deck!InFlight(i) => dCall[i].epoch = dEpoch
        /\ \A i, j \in Deck!Calls :
             Deck!InFlight(i) /\ Deck!InFlight(j) /\ i # j => dCall[i].kind = "react"
        /\ \A i \in Deck!Calls : Deck!InFlight(i) /\ dCall[i].kind # "react" =>
             /\ dCall[i].state = "ok" => dCall[i].profile = dServer[dSlug].profile
             /\ dCall[i].kind = "first" => dCall[i].held = dServer[dSlug].profile
        /\ \A i \in Deck!Calls : dCall[i].state = "ok" => UpTo(dCall[i].profile, dServer[dSlug].profile)
        /\ dFeed.there =>
             /\ UpTo(dFeed.profile, dServer[dSlug].profile)
             /\ \/ dFeed.profile = dServer[dSlug].profile
                \/ \E i \in Deck!Calls :
                     /\ dCall[i].state = "ok" /\ dCall[i].kind \in {"react", "reset"}
                     /\ dCall[i].profile = dServer[dSlug].profile

DeckInv ==
    /\ Deck!TypeOK
    /\ \A i \in Deck!Calls : CallFits(i)
    /\ dSlug \in dVisited
    /\ FlagsFit /\ EmptyFits /\ SelectionFits /\ LiveFits /\ CardsFit /\ ProfilesFit

DeckTypes ==
    /\ Deck!TypeOK
    /\ \A i \in Deck!Calls : CallFits(i)

\* Every member of a finite set of numbers below another is counted down.
LEMMA CountedDown ==
  ASSUME NEW o, NEW S \in SUBSET (1..Batch)
  PROVE  /\ Cardinality(S) \in Nat
         /\ \E f \in [1..Cardinality(S) -> {o} \X S] :
              \A i, j \in DOMAIN f : i < j => f[i][2] > f[j][2]
<1> DEFINE Down(f) == \A i, j \in DOMAIN f : i < j => f[i][2] > f[j][2]
           Bad == {n \in Nat : \E T \in SUBSET (1..Batch) :
                     Cardinality(T) = n /\ ~\E f \in [1..n -> {o} \X T] : Down(f)}
<1>0. IsFiniteSet(1..Batch)
  BY FS_Interval, DeckAssumption
<1>1. \A T \in SUBSET (1..Batch) : IsFiniteSet(T) /\ Cardinality(T) \in Nat
  BY <1>0, FS_Subset, FS_CardinalityType
<1>2. Bad = {}
  <2> SUFFICES ASSUME Bad # {} PROVE FALSE
    OBVIOUS
  <2>1. PICK n \in Bad : \A m \in Bad : ~(<<m, n>> \in OpToRel(<, Nat))
    BY NatLessThanWellFounded, WFMin
  <2>2. n \in Nat /\ \A m \in Nat : m < n => m \notin Bad
    BY <2>1 DEF OpToRel
  <2>3. PICK T \in SUBSET (1..Batch) :
          Cardinality(T) = n /\ ~\E f \in [1..n -> {o} \X T] : Down(f)
    OBVIOUS
  <2>4. T # {}
    <3> SUFFICES ASSUME T = {} PROVE FALSE
      OBVIOUS
    <3>1. n = 0
      BY <2>3, FS_EmptySet
    <3>2. [i \in 1..0 |-> <<o, i>>] \in [1..n -> {o} \X T] /\ Down([i \in 1..0 |-> <<o, i>>])
      BY <3>1
    <3> QED BY <2>3, <3>2
  <2>5. PICK t \in T : \A u \in T : t <= u
    <3>1. T \subseteq Nat
      BY DeckAssumption
    <3>2. PICK t \in T : \A u \in T : ~(<<u, t>> \in OpToRel(<, Nat))
      BY <2>4, <3>1, NatLessThanWellFounded, WFMin
    <3>3. ASSUME NEW u \in T PROVE t <= u
      <4>1. u \in Nat /\ t \in Nat /\ ~(<<u, t>> \in OpToRel(<, Nat))
        BY <3>1, <3>2
      <4>2. u \in Nat /\ t \in Nat
        BY <4>1
      <4>3. ~(u < t)
        BY <4>1 DEF OpToRel
      <4> QED BY <4>2, <4>3
    <3> QED BY <3>3
  <2> DEFINE U == T \ {t}
  <2>6. Cardinality(U) = n - 1 /\ n - 1 \in Nat /\ U \in SUBSET (1..Batch)
    <3>1. IsFiniteSet(T) /\ t \in T
      BY <1>1
    <3>2. Cardinality(U) = Cardinality(T) - 1 /\ U \in SUBSET (1..Batch)
      BY <3>1, FS_RemoveElement
    <3>3. Cardinality(U) \in Nat
      BY <1>1, <3>2
    <3> QED BY <2>3, <3>2, <3>3
  <2>7. PICK g \in [1..(n - 1) -> {o} \X U] : Down(g)
    <3>1. n - 1 \notin Bad
      BY <2>2, <2>6
    <3> QED BY <2>6, <3>1
  <2> DEFINE f == [i \in 1..n |-> IF i < n THEN g[i] ELSE <<o, t>>]
  <2>8. f \in [1..n -> {o} \X T]
    <3>1. ASSUME NEW i \in 1..n PROVE f[i] \in {o} \X T
      <4>1. CASE i < n
        <5>1. i \in 1..(n - 1)
          BY <2>2, <4>1
        <5>2. g[i] \in {o} \X U
          BY <5>1
        <5> QED BY <4>1, <5>2
      <4>2. CASE ~(i < n)
        BY <4>2
      <4> QED BY <4>1, <4>2
    <3> QED BY <3>1
  <2>9. Down(f)
    <3> SUFFICES ASSUME NEW i \in 1..n, NEW j \in 1..n, i < j PROVE f[i][2] > f[j][2]
      OBVIOUS
    <3>1. i \in 1..(n - 1) /\ f[i] = g[i] /\ g[i] \in {o} \X U
      BY <2>2
    <3>2. g[i][2] \in U /\ U \subseteq Nat /\ T \subseteq Nat
      BY <3>1, DeckAssumption
    <3>3. CASE j < n
      <4>1. j \in 1..(n - 1) /\ f[j] = g[j]
        BY <2>2, <3>3
      <4> QED BY <2>7, <3>1, <4>1
    <3>4. CASE ~(j < n)
      <4>1. f[j] = <<o, t>>
        BY <3>4
      <4>2. g[i][2] # t /\ t <= g[i][2] /\ t \in Nat
        <5>1. g[i][2] \in T /\ g[i][2] # t /\ t \in T
          BY <3>2
        <5> QED BY <2>5, <3>2, <5>1
      <4>3. g[i][2] > t
        <5>1. g[i][2] \in Nat
          BY <3>2
        <5> QED BY <4>2, <5>1
      <4>4. f[i] = g[i] /\ f[j][2] = t
        BY <3>1, <4>1
      <4> HIDE DEF f
      <4> QED BY <4>3, <4>4
    <3> QED BY <3>3, <3>4
  <2> QED BY <2>3, <2>8, <2>9
<1>3. Cardinality(S) \notin Bad
  BY <1>2
<1> QED BY <1>1, <1>3

\* What the server answers: cards of the organization that nobody reacted to,
\* none of them twice.
LEMMA FeedOfProperties ==
  ASSUME NEW o \in Org, NEW s,
         s.made \in 0..Batch, s.reacted \in [1..Batch -> Reaction \cup {"NONE"}]
  PROVE  /\ Deck!FeedOf(o, s) \in Seq(Deck!Card)
         /\ Deck!IsInjective(Deck!FeedOf(o, s))
         /\ \A n \in DOMAIN Deck!FeedOf(o, s) :
              /\ Deck!FeedOf(o, s)[n][1] = o
              /\ s.reacted[Deck!FeedOf(o, s)[n][2]] = "NONE"
<1> DEFINE left == {n \in 1..s.made : s.reacted[n] = "NONE"}
           k == Cardinality(left)
           cards == Deck!FeedOf(o, s)
<1>1. left \in SUBSET (1..Batch)
  BY DeckAssumption
<1>2. k \in Nat /\ \E f \in [1..k -> {o} \X left] :
                      \A i, j \in DOMAIN f : i < j => f[i][2] > f[j][2]
  BY <1>1, CountedDown
<1>3. Deck!FeedOf(o, s) = CHOOSE f \in [1..k -> {o} \X left] :
                      \A i, j \in DOMAIN f : i < j => f[i][2] > f[j][2]
  BY DEF Deck!FeedOf, Deck!Cardinality, Cardinality
<1>4. /\ cards \in [1..k -> {o} \X left]
      /\ \A i, j \in DOMAIN cards : i < j => cards[i][2] > cards[j][2]
  BY <1>2, <1>3
<1> HIDE DEF k, cards
<1>5. \A n \in 1..k : cards[n] \in {o} \X left
  BY <1>4
<1>6. \A n \in 1..k : cards[n][1] = o /\ cards[n][2] \in left /\ cards[n] \in Deck!Card
  BY <1>1, <1>5 DEF Deck!Card
<1>7. cards \in Seq(Deck!Card)
  BY <1>2, <1>4, <1>6, IsASeq
<1>8. Deck!IsInjective(cards)
  <2> SUFFICES ASSUME NEW i \in 1..k, NEW j \in 1..k, cards[i] = cards[j] PROVE i = j
    BY <1>4 DEF Deck!IsInjective
  <2>1. cards[i][2] \in 1..Batch /\ cards[i][2] = cards[j][2]
    BY <1>1, <1>6
  <2>2. cards[i][2] \in Int /\ ~(cards[i][2] > cards[j][2]) /\ ~(cards[j][2] > cards[i][2])
    BY <2>1, DeckAssumption
  <2>3. DOMAIN cards = 1..k
    BY <1>4
  <2>4. ~(i < j) /\ ~(j < i)
    BY <1>4, <2>2, <2>3
  <2> QED BY <2>4
<1> QED BY <1>4, <1>6, <1>7, <1>8 DEF cards

\* The card on top is taken away.
LEMMA WithoutTop ==
  ASSUME NEW cards \in Seq(Deck!Card), cards # <<>>
  PROVE  Deck!Without(cards, Head(cards)) = Tail(cards)
<1>1. Len(cards) \in Nat \ {0} /\ cards[1] = Head(cards) /\ 1 \in 1..Len(cards)
  BY HeadTailProperties, EmptySeq, LenProperties
<1> DEFINE First(i) == cards[i] = Head(cards) /\ \A j \in 1..(i - 1) : cards[j] # Head(cards)
<1>2. First(1)
  BY <1>1
<1>3. ASSUME NEW i \in 1..Len(cards), First(i) PROVE i = 1
  <2>1. i \in Int /\ i >= 1
    BY <1>1
  <2>2. i > 1 => 1 \in 1..(i - 1)
    BY <2>1
  <2> QED BY <1>1, <1>3, <2>1, <2>2
<1> DEFINE top == CHOOSE i \in 1..Len(cards) : First(i)
<1>4. top = 1
  <2> HIDE DEF First
  <2> QED BY <1>1, <1>2, <1>3
<1>5. Deck!Without(cards, Head(cards)) =
        SubSeq(cards, 1, top - 1) \o SubSeq(cards, top + 1, Len(cards))
  BY Zenon DEF Deck!Without
<1> HIDE DEF top
<1>6. Deck!Without(cards, Head(cards)) =
        SubSeq(cards, 1, 0) \o SubSeq(cards, 2, Len(cards))
  BY <1>4, <1>5
<1>7. SubSeq(cards, 1, 0) = <<>> /\ SubSeq(cards, 2, Len(cards)) = Tail(cards)
  BY <1>1, SubSeqEmpty, TailIsSubSeq
<1>8. Tail(cards) \in Seq(Deck!Card)
  BY <1>1
<1> QED BY <1>6, <1>7, <1>8, ConcatEmptySeq
-----------------------------------------------------------------------------
(* Calls.                                                                  *)

LEMMA NoCallTyped ==
  ASSUME dSlug \in Org
  PROVE  /\ Deck!NoCall \in Deck!Call
         /\ Deck!NoCall.kind = "none" /\ Deck!NoCall.state = "done" /\ Deck!NoCall.epoch = 0
         /\ Deck!NoCall.cards = <<>> /\ Deck!NoCall.card \in Deck!Card
         /\ Deck!NoCall.reaction \in Reaction
<1>1. (CHOOSE o \in Org : TRUE) \in Org /\ (CHOOSE r \in Reaction : TRUE) \in Reaction
  BY DeckAssumption
<1>2. (CHOOSE c \in Deck!Card : TRUE) \in Deck!Card
  <2>1. <<dSlug, 1>> \in Deck!Card
    BY DeckAssumption DEF Deck!Card
  <2> QED BY <2>1
<1>3. Deck!NoVersion \in Deck!Version
  BY DEF Deck!NoVersion, Deck!Version
<1>4. <<>> \in Seq(Deck!Card)
  BY EmptySeq
<1> DEFINE o == CHOOSE o \in Org : TRUE
           c == CHOOSE c \in Deck!Card : TRUE
           r == CHOOSE r \in Reaction : TRUE
<1>5. Deck!NoCall = [kind |-> "none", org |-> o, epoch |-> 0, card |-> c, reaction |-> r,
                     state |-> "done", cards |-> <<>>, profile |-> Deck!NoVersion,
                     held |-> Deck!NoVersion]
  BY DEF Deck!NoCall
<1> HIDE DEF o, c, r
<1> QED BY <1>1, <1>2, <1>3, <1>4, <1>5 DEF Deck!Call, o, c, r

LEMMA NewCallTyped ==
  ASSUME dSlug \in Org,
         NEW kind \in {"load", "first", "generate", "react", "reset"}, NEW o \in Org,
         NEW e \in Nat, NEW card \in Deck!Card, NEW r \in Reaction
  PROVE  /\ Deck!NewCall(kind, o, e, card, r) \in Deck!Call
         /\ Deck!NewCall(kind, o, e, card, r).kind = kind
         /\ Deck!NewCall(kind, o, e, card, r).org = o
         /\ Deck!NewCall(kind, o, e, card, r).epoch = e
         /\ Deck!NewCall(kind, o, e, card, r).card = card
         /\ Deck!NewCall(kind, o, e, card, r).reaction = r
         /\ Deck!NewCall(kind, o, e, card, r).state = "sent"
BY NoCallTyped DEF Deck!NewCall, Deck!Call

\* What never changes of a call.
SameCall(c, d) ==
    /\ d.kind = c.kind /\ d.org = c.org /\ d.epoch = c.epoch
    /\ d.card = c.card /\ d.reaction = c.reaction /\ d.held = c.held

\* A call as it was, or lost, or received.
Follows(c, d) ==
    \/ d = c
    \/ SameCall(c, d) /\ c.state # "done" /\ d.state \in {"error", "done"}

\* The reactions the server has it keeps.
ReactionsKept ==
    \A o \in Org : \A n \in 1..Batch :
        dServer[o].reacted[n] # "NONE" => dServer'[o].reacted[n] # "NONE"

LEMMA CallTyped ==
  ASSUME Deck!TypeOK, NEW i \in Deck!Calls
  PROVE  /\ dCall[i] \in Deck!Call /\ dCall[i].org \in Org /\ dCall[i].epoch \in Nat
         /\ dCall[i].card \in Deck!Card /\ dCall[i].card[2] \in 1..Batch
         /\ dCall[i].card[1] \in Org /\ dCall[i].reaction \in Reaction
         /\ dCall[i].cards \in Seq(Deck!Card)
         /\ dCall[i].profile \in Deck!Version /\ dCall[i].held \in Deck!Version
BY DEF Deck!TypeOK, Deck!Call, Deck!Card

LEMMA CallKept ==
  ASSUME DeckTypes, NEW i \in Deck!Calls, Follows(dCall[i], dCall'[i]), ReactionsKept,
         UNCHANGED <<dSlug, dEpoch, dVisited, dAgain>>
  PROVE  CallFits(i)'
<1>1. CallFits(i) /\ Deck!TypeOK
  BY DEF DeckTypes
<1>2. dCall[i].org \in Org /\ dCall[i].card[2] \in 1..Batch
  BY <1>1, CallTyped
<1>3. CASE dCall'[i] = dCall[i]
  BY <1>1, <1>2, <1>3 DEF CallFits, ReactionsKept
<1>4. CASE /\ SameCall(dCall[i], dCall'[i]) /\ dCall[i].state # "done"
           /\ dCall'[i].state \in {"error", "done"}
  BY <1>1, <1>2, <1>4 DEF CallFits, SameCall
<1> QED BY <1>3, <1>4 DEF Follows

LEMMA CallNew ==
  ASSUME NEW i \in Deck!Calls, dCall'[i].kind # "none", dCall'[i].state = "sent",
         dCall'[i].org = dSlug', dCall'[i].epoch = dEpoch', dEpoch' \in Nat, dSlug' \in dVisited',
         dCall'[i].kind = "react" => dCall'[i].card[1] = dSlug'
  PROVE  CallFits(i)'
BY DEF CallFits

\* One call is received, or lost.
LEMMA CallSet ==
  ASSUME Deck!TypeOK, NEW i \in Deck!Calls, NEW s \in {"error", "done"},
         dCall[i].state # "done"
  PROVE  /\ [dCall EXCEPT ![i].state = s] \in [Deck!Calls -> Deck!Call]
         /\ [dCall EXCEPT ![i].state = s][i].state = s
         /\ SameCall(dCall[i], [dCall EXCEPT ![i].state = s][i])
         /\ [dCall EXCEPT ![i].state = s][i].profile = dCall[i].profile
         /\ Follows(dCall[i], [dCall EXCEPT ![i].state = s][i])
         /\ \A j \in Deck!Calls \ {i} : [dCall EXCEPT ![i].state = s][j] = dCall[j]
<1> DEFINE c == [dCall[i] EXCEPT !.state = s]
<1>1. dCall \in [Deck!Calls -> Deck!Call] /\ dCall[i] \in Deck!Call
  BY DEF Deck!TypeOK
<1>2. c \in Deck!Call /\ c.state = s /\ SameCall(dCall[i], c) /\ c.profile = dCall[i].profile
  BY <1>1 DEF Deck!Call, SameCall
<1>3. [dCall EXCEPT ![i].state = s] = [dCall EXCEPT ![i] = c]
  BY <1>1
<1> HIDE DEF c
<1> QED BY <1>1, <1>2, <1>3 DEF Follows

\* A call is added where there was none.
LEMMA CallSent ==
  ASSUME NEW table \in [Deck!Calls -> Deck!Call], NEW c \in Deck!Call, Deck!Sends(table, c)
  PROVE  /\ dCall' \in [Deck!Calls -> Deck!Call]
         /\ \E k \in Deck!Calls :
              /\ table[k].kind = "none" /\ dCall'[k] = c
              /\ \A j \in Deck!Calls \ {k} : dCall'[j] = table[j]
BY DEF Deck!Sends
-----------------------------------------------------------------------------
(* The server.                                                             *)

LEMMA AnswerSet ==
  ASSUME Deck!TypeOK, NEW i \in Deck!Calls, NEW cards \in Seq(Deck!Card),
         NEW v \in Deck!Version, Deck!Answers(i, cards, v)
  PROVE  /\ dCall' \in [Deck!Calls -> Deck!Call]
         /\ \A j \in Deck!Calls \ {i} : dCall'[j] = dCall[j]
         /\ SameCall(dCall[i], dCall'[i])
         /\ dCall'[i].state = "ok" /\ dCall'[i].cards = cards /\ dCall'[i].profile = v
<1> DEFINE c == [dCall[i] EXCEPT !.state = "ok", !.cards = cards, !.profile = v]
<1>1. dCall \in [Deck!Calls -> Deck!Call] /\ dCall[i] \in Deck!Call
  BY DEF Deck!TypeOK
<1>2. c \in Deck!Call /\ SameCall(dCall[i], c)
      /\ c.state = "ok" /\ c.cards = cards /\ c.profile = v
  BY <1>1 DEF Deck!Call, SameCall
<1>3. dCall' = [dCall EXCEPT ![i] = c]
  BY <1>1 DEF Deck!Answers
<1> HIDE DEF c
<1> QED BY <1>1, <1>2, <1>3

ServerType == [profile : Deck!Version, made : 0..Batch,
               reacted : [1..Batch -> Reaction \cup {"NONE"}]]

\* What serving a call brings about.
Answered(i) ==
    /\ dCall' \in [Deck!Calls -> Deck!Call]
    /\ \A j \in Deck!Calls \ {i} : dCall'[j] = dCall[j]
    /\ SameCall(dCall[i], dCall'[i])
    /\ dCall'[i].state \in {"ok", "error"}
    /\ dServer' \in [Org -> ServerType]
    /\ \A o \in Org \ {dCall[i].org} : dServer'[o] = dServer[o]
    /\ \A n \in 1..Batch :
         dServer[dCall[i].org].reacted[n] # "NONE" => dServer'[dCall[i].org].reacted[n] # "NONE"
    /\ UpTo(dServer[dCall[i].org].profile, dServer'[dCall[i].org].profile)
    /\ dCall[i].kind \notin {"react", "reset"} \/ dCall'[i].state = "error" =>
         dServer'[dCall[i].org].profile = dServer[dCall[i].org].profile
    /\ dCall'[i].state = "ok" =>
         /\ dCall'[i].profile = dServer'[dCall[i].org].profile
         /\ Deck!IsInjective(dCall'[i].cards)
         /\ \A n \in DOMAIN dCall'[i].cards :
              /\ dCall'[i].cards[n][1] = dCall[i].org
              /\ dServer'[dCall[i].org].reacted[dCall'[i].cards[n][2]] = "NONE"
         /\ dCall[i].kind = "react" => dServer'[dCall[i].org].reacted[dCall[i].card[2]] # "NONE"

LEMMA ServerTyped ==
  ASSUME Deck!TypeOK, NEW o \in Org
  PROVE  /\ dServer \in [Org -> ServerType] /\ dServer[o] \in ServerType
         /\ dServer[o].profile \in Deck!Version
         /\ dServer[o].made \in 0..Batch /\ dServer[o].made \in Nat
         /\ dServer[o].reacted \in [1..Batch -> Reaction \cup {"NONE"}]
BY DeckAssumption DEF Deck!TypeOK, ServerType

LEMMA NoCards ==
  /\ <<>> \in Seq(Deck!Card) /\ Deck!IsInjective(<<>>) /\ DOMAIN <<>> = {}
BY EmptySeq DEF Deck!IsInjective

LEMMA ServeLoadAnswered ==
  ASSUME Deck!TypeOK, NEW i \in Deck!Calls, Deck!ServeLoad(i)
  PROVE  Answered(i)
<1> DEFINE o == dCall[i].org
           cards == Deck!FeedOf(o, dServer[o])
<1>1. o \in Org
  BY CallTyped
<1>2. dServer[o] \in ServerType /\ dServer[o].profile \in Deck!Version /\ dServer \in [Org -> ServerType]
  BY <1>1, ServerTyped
<1>3. /\ cards \in Seq(Deck!Card) /\ Deck!IsInjective(cards)
      /\ \A n \in DOMAIN cards : cards[n][1] = o /\ dServer[o].reacted[cards[n][2]] = "NONE"
  BY <1>1, ServerTyped, FeedOfProperties
<1>4. /\ Deck!Answers(i, cards, dServer[o].profile) /\ dServer' = dServer
      /\ dCall[i].kind = "load"
  BY DEF Deck!ServeLoad
<1> HIDE DEF o, cards
<1>5. /\ dCall' \in [Deck!Calls -> Deck!Call]
      /\ \A j \in Deck!Calls \ {i} : dCall'[j] = dCall[j]
      /\ SameCall(dCall[i], dCall'[i])
      /\ dCall'[i].state = "ok" /\ dCall'[i].cards = cards
      /\ dCall'[i].profile = dServer[o].profile
  BY <1>2, <1>3, <1>4, AnswerSet
<1> QED BY <1>2, <1>3, <1>4, <1>5 DEF Answered, UpTo, o

LEMMA ServeGenerateAnswered ==
  ASSUME Deck!TypeOK, NEW i \in Deck!Calls, Deck!ServeGenerate(i)
  PROVE  Answered(i)
<1> DEFINE o == dCall[i].org
           s == [dServer[o] EXCEPT !.made = @ + 1]
           cards == Deck!FeedOf(o, s)
<1>1. o \in Org
  BY CallTyped
<1>2. dServer[o] \in ServerType /\ dServer[o].profile \in Deck!Version /\ dServer \in [Org -> ServerType]
  BY <1>1, ServerTyped
<1>3. /\ Deck!Answers(i, cards, s.profile) /\ dServer' = [dServer EXCEPT ![o] = s]
      /\ dServer[o].made < Batch /\ dCall[i].kind \in {"first", "generate"}
  BY DEF Deck!ServeGenerate
<1>4. /\ s \in ServerType /\ s.profile = dServer[o].profile /\ s.reacted = dServer[o].reacted
      /\ s.made \in 0..Batch /\ s.reacted \in [1..Batch -> Reaction \cup {"NONE"}]
  <2>1. dServer[o].made + 1 \in 0..Batch
    BY <1>2, <1>3, DeckAssumption DEF ServerType
  <2> QED BY <1>2, <2>1 DEF ServerType
<1> HIDE DEF o, s
<1>5. /\ cards \in Seq(Deck!Card) /\ Deck!IsInjective(cards)
      /\ \A n \in DOMAIN cards : cards[n][1] = o /\ s.reacted[cards[n][2]] = "NONE"
  BY <1>1, <1>4, FeedOfProperties
<1> HIDE DEF cards
<1>6. /\ dCall' \in [Deck!Calls -> Deck!Call]
      /\ \A j \in Deck!Calls \ {i} : dCall'[j] = dCall[j]
      /\ SameCall(dCall[i], dCall'[i])
      /\ dCall'[i].state = "ok" /\ dCall'[i].cards = cards
      /\ dCall'[i].profile = s.profile
  BY <1>2, <1>3, <1>4, <1>5, AnswerSet
<1>7. /\ dServer' \in [Org -> ServerType] /\ dServer'[o] = s
      /\ \A q \in Org \ {o} : dServer'[q] = dServer[q]
  BY <1>1, <1>2, <1>3, <1>4
<1> QED BY <1>2, <1>3, <1>4, <1>5, <1>6, <1>7 DEF Answered, UpTo, o

LEMMA ServeReactionAnswered ==
  ASSUME Deck!TypeOK, NEW i \in Deck!Calls, Deck!InFlight(i), Deck!ServeReaction(i)
  PROVE  Answered(i)
<1> DEFINE o == dCall[i].org
           n == dCall[i].card[2]
           r == dCall[i].reaction
           l == IF dServer[o].reacted[n] = "NONE" /\ Deck!Learns(r)
                THEN dServer[o].profile.learned + 1 ELSE dServer[o].profile.learned
           v == [dServer[o].profile EXCEPT !.learned = l]
           s == [dServer[o] EXCEPT !.reacted = [dServer[o].reacted EXCEPT ![n] = r], !.profile = v]
<1>1. o \in Org /\ n \in 1..Batch /\ r \in Reaction /\ r # "NONE"
  BY CallTyped, DeckAssumption
<1>2. /\ dServer[o] \in ServerType /\ dServer[o].profile \in Deck!Version
      /\ dServer \in [Org -> ServerType]
      /\ dServer[o].reacted \in [1..Batch -> Reaction \cup {"NONE"}]
  BY <1>1, ServerTyped
<1>3. dCall[i].kind = "react"
  BY DEF Deck!ServeReaction
<1>4. CASE dServer[o].reacted[n] \in {"NONE", r}
  <2>1. dServer' = [dServer EXCEPT ![o] = s] /\ Deck!Answers(i, <<>>, s.profile)
    BY <1>1, <1>2, <1>4 DEF Deck!ServeReaction, ServerType, Deck!Version
  <2>2. dServer[o].profile.learned \in Nat /\ dServer[o].profile.reset \in Nat
    BY <1>2 DEF Deck!Version
  <2>3. l \in Nat /\ dServer[o].profile.learned <= l
    BY <2>2
  <2> HIDE DEF l
  <2>4. v \in Deck!Version /\ UpTo(dServer[o].profile, v)
    <3>1. v \in Deck!Version /\ v.reset = dServer[o].profile.reset /\ v.learned = l
      BY <1>2, <2>3 DEF Deck!Version
    <3>2. l = dServer[o].profile.learned => v = dServer[o].profile
      BY <1>2 DEF Deck!Version
    <3> HIDE DEF v
    <3> QED BY <2>2, <2>3, <3>1, <3>2 DEF UpTo, Deck!Before
  <2> HIDE DEF v
  <2>5. /\ s \in ServerType /\ s.profile = v /\ s.reacted[n] = r
        /\ \A m \in 1..Batch : m # n => s.reacted[m] = dServer[o].reacted[m]
    BY <1>1, <1>2, <2>4 DEF ServerType
  <2> HIDE DEF o, s, n, r
  <2>6. /\ dCall' \in [Deck!Calls -> Deck!Call]
        /\ \A j \in Deck!Calls \ {i} : dCall'[j] = dCall[j]
        /\ SameCall(dCall[i], dCall'[i])
        /\ dCall'[i].state = "ok" /\ dCall'[i].cards = <<>> /\ dCall'[i].profile = v
    <3>1. Deck!Answers(i, <<>>, v)
      BY <2>1, <2>5
    <3> QED BY <2>4, <3>1, NoCards, AnswerSet
  <2>7. /\ dServer' \in [Org -> ServerType] /\ dServer'[o] = s
        /\ \A q \in Org \ {o} : dServer'[q] = dServer[q]
    BY <1>1, <1>2, <2>1, <2>5
  <2>8. \A m \in 1..Batch : dServer[o].reacted[m] # "NONE" => s.reacted[m] # "NONE"
    BY <1>1, <2>5
  <2>9. s.reacted[n] # "NONE"
    BY <1>1, <2>5
  <2> QED BY <1>3, <2>4, <2>5, <2>6, <2>7, <2>8, <2>9, NoCards DEF Answered, o, n
<1>5. CASE dServer[o].reacted[n] \notin {"NONE", r}
  <2>1. Deck!Errors(i) /\ dServer' = dServer
    BY <1>5 DEF Deck!ServeReaction
  <2>2. dCall' = [dCall EXCEPT ![i].state = "error"] /\ dCall[i].state # "done"
    BY <2>1 DEF Deck!Errors, Deck!InFlight
  <2>3. /\ dCall' \in [Deck!Calls -> Deck!Call]
        /\ \A j \in Deck!Calls \ {i} : dCall'[j] = dCall[j]
        /\ SameCall(dCall[i], dCall'[i]) /\ dCall'[i].state = "error"
    BY <2>2, CallSet
  <2> QED BY <1>2, <2>1, <2>3 DEF Answered, UpTo
<1> QED BY <1>4, <1>5

LEMMA ServeResetAnswered ==
  ASSUME Deck!TypeOK, NEW i \in Deck!Calls, Deck!ServeReset(i)
  PROVE  Answered(i)
<1> DEFINE o == dCall[i].org
           v == [reset |-> dServer[o].profile.reset + 1, learned |-> 0]
           s == [dServer[o] EXCEPT !.profile = v]
<1>1. o \in Org
  BY CallTyped
<1>2. dServer[o] \in ServerType /\ dServer[o].profile \in Deck!Version /\ dServer \in [Org -> ServerType]
  BY <1>1, ServerTyped
<1>3. /\ Deck!Answers(i, <<>>, v) /\ dServer' = [dServer EXCEPT ![o] = s]
      /\ dCall[i].kind = "reset"
  BY <1>1, <1>2 DEF Deck!ServeReset, ServerType
<1>4. v \in Deck!Version /\ UpTo(dServer[o].profile, v)
  BY <1>2 DEF Deck!Version, UpTo, Deck!Before
<1> HIDE DEF v
<1>5. s \in ServerType /\ s.profile = v /\ s.reacted = dServer[o].reacted
  BY <1>2, <1>4 DEF ServerType
<1> HIDE DEF o, s
<1>6. /\ dCall' \in [Deck!Calls -> Deck!Call]
      /\ \A j \in Deck!Calls \ {i} : dCall'[j] = dCall[j]
      /\ SameCall(dCall[i], dCall'[i])
      /\ dCall'[i].state = "ok" /\ dCall'[i].cards = <<>> /\ dCall'[i].profile = v
  BY <1>3, <1>4, NoCards, AnswerSet
<1>7. /\ dServer' \in [Org -> ServerType] /\ dServer'[o] = s
      /\ \A q \in Org \ {o} : dServer'[q] = dServer[q]
  BY <1>1, <1>2, <1>3, <1>5
<1> QED BY <1>3, <1>4, <1>5, <1>6, <1>7, NoCards DEF Answered, o

LEMMA ServeAnswered ==
  ASSUME Deck!TypeOK, NEW i \in Deck!Calls, Deck!Serve(i)
  PROVE  /\ Answered(i) /\ dCall[i].state = "sent" /\ Deck!InFlight(i)
         /\ UNCHANGED <<dSlug, dEpoch, dFeed, dPending, dCount, dUi, dSeen, dDone, dVisited,
                        dAgain, dBlurred>>
<1>1. /\ dCall[i].state = "sent" /\ Deck!InFlight(i)
      /\ UNCHANGED <<dSlug, dEpoch, dFeed, dPending, dCount, dUi, dSeen, dDone, dVisited,
                     dAgain, dBlurred>>
  BY DEF Deck!Serve, Deck!screen, Deck!InFlight
<1>2. Deck!ServeLoad(i) \/ Deck!ServeGenerate(i) \/ Deck!ServeReaction(i) \/ Deck!ServeReset(i)
  BY DEF Deck!Serve
<1> QED BY <1>1, <1>2, ServeLoadAnswered, ServeGenerateAnswered, ServeReactionAnswered,
           ServeResetAnswered
-----------------------------------------------------------------------------
(* Steps that leave the screen alone.                                      *)

LEMMA UpToTransitive ==
  ASSUME NEW u \in Deck!Version, NEW v \in Deck!Version, NEW w \in Deck!Version,
         UpTo(u, v), UpTo(v, w)
  PROVE  UpTo(u, w)
<1>1. /\ u.reset \in Nat /\ u.learned \in Nat /\ v.reset \in Nat /\ v.learned \in Nat
      /\ w.reset \in Nat /\ w.learned \in Nat
  BY DEF Deck!Version
<1> QED BY <1>1 DEF UpTo, Deck!Before

LEMMA UpToTotal ==
  ASSUME NEW u \in Deck!Version, NEW v \in Deck!Version, UpTo(u, v), ~Deck!Before(u, v)
  PROVE  u = v
BY DEF UpTo

LEMMA UpToIrreflexive ==
  ASSUME NEW u \in Deck!Version, NEW v \in Deck!Version, UpTo(u, v)
  PROVE  ~Deck!Before(v, u)
<1>1. u.reset \in Nat /\ u.learned \in Nat /\ v.reset \in Nat /\ v.learned \in Nat
  BY DEF Deck!Version
<1> QED BY <1>1 DEF UpTo, Deck!Before

\* The calls stay under way or over, and the screen stays as it is.
LEMMA InPlace ==
  ASSUME DeckInv,
         \A j \in Deck!Calls : SameCall(dCall[j], dCall'[j]),
         \A j \in Deck!Calls : Deck!InFlight(j)' <=> Deck!InFlight(j),
         ReactionsKept,
         UNCHANGED <<dSlug, dEpoch, dFeed, dPending, dCount, dUi, dSeen, dDone, dAgain>>
  PROVE  FlagsFit' /\ EmptyFits' /\ LiveFits' /\ CardsFit'
<1>1. FlagsFit'
  <2>1. \A j \in Deck!Calls : (Loads(j)' <=> Loads(j)) /\ (Selects(j)' <=> Selects(j))
                              /\ (Resets(j)' <=> Resets(j)) /\ dCall'[j].kind = dCall[j].kind
    BY DEF SameCall, Loads, Selects, Resets
  <2> QED BY <2>1 DEF DeckInv, FlagsFit
<1>2. EmptyFits'
  BY DEF DeckInv, EmptyFits
<1>3. LiveFits'
  <2>1. /\ Deck!Live' = Deck!Live
        /\ \A j \in Deck!Calls : dCall'[j].card = dCall[j].card
    BY DEF Deck!Live, SameCall
  <2>2. Deck!Live \subseteq Deck!Calls
    BY DEF Deck!Live
  <2>3. {dCall'[i].card : i \in Deck!Live} = {dCall[i].card : i \in Deck!Live}
    BY <2>1, <2>2
  <2>4. Deck!CountIsPending'
    BY <2>1, <2>3 DEF DeckInv, LiveFits, Deck!CountIsPending
  <2>5. \A i, j \in Deck!Live' : dCall'[i].card = dCall'[j].card => i = j
    BY <2>1, <2>2 DEF DeckInv, LiveFits
  <2> QED BY <2>4, <2>5 DEF LiveFits
<1>4. CardsFit'
  <2>1. \A c \in dDone : c[1] \in Org /\ c[2] \in 1..Batch
    BY DEF DeckInv, Deck!TypeOK, Deck!Card
  <2>2. \A c \in dDone : dServer'[c[1]].reacted[c[2]] # "NONE"
    BY <2>1 DEF DeckInv, CardsFit, ReactionsKept
  <2>3. Deck!ReasonsForTopCard'
    BY DEF DeckInv, CardsFit, Deck!ReasonsForTopCard
  <2> QED BY <2>2, <2>3 DEF DeckInv, CardsFit
<1> QED BY <1>1, <1>2, <1>3, <1>4

LEMMA ServeInv ==
  ASSUME DeckInv, NEW i \in Deck!Calls, Deck!Serve(i)
  PROVE  DeckInv'
<1>1. DeckTypes /\ Deck!TypeOK
  BY DEF DeckInv, DeckTypes
<1>2. /\ Answered(i) /\ dCall[i].state = "sent" /\ Deck!InFlight(i)
      /\ UNCHANGED <<dSlug, dEpoch, dFeed, dPending, dCount, dUi, dSeen, dDone, dVisited,
                     dAgain, dBlurred>>
  BY <1>1, ServeAnswered
<1> DEFINE o == dCall[i].org
<1>3. o \in Org /\ dCall[i].card[2] \in 1..Batch /\ dSlug \in Org
  BY <1>1, CallTyped DEF Deck!TypeOK
<1>4. ReactionsKept
  BY <1>2, <1>3 DEF Answered, ReactionsKept
<1>5. Deck!TypeOK'
  BY <1>1, <1>2 DEF Answered, Deck!TypeOK, ServerType
<1>6. \A j \in Deck!Calls : CallFits(j)'
  <2>1. ASSUME NEW j \in Deck!Calls, j # i PROVE CallFits(j)'
    BY <1>1, <1>2, <1>4, <2>1, CallKept DEF Answered, Follows
  <2>2. CallFits(i)'
    BY <1>1, <1>2, <1>3 DEF Answered, SameCall, DeckTypes, CallFits
  <2> QED BY <2>1, <2>2
<1>7. \A j \in Deck!Calls : SameCall(dCall[j], dCall'[j])
  BY <1>2 DEF Answered, SameCall
<1>8. \A j \in Deck!Calls : Deck!InFlight(j)' <=> Deck!InFlight(j)
  BY <1>2 DEF Answered, Deck!InFlight
<1>9. FlagsFit' /\ EmptyFits' /\ LiveFits' /\ CardsFit'
  BY <1>2, <1>4, <1>7, <1>8, InPlace
<1>10. SelectionFits'
  <2>1. \A j \in Deck!Calls : Selects(j)' <=> Selects(j)
    BY <1>2, <1>7, <1>8 DEF Selects, SameCall
  <2>2. dCall'[i].state = "ok" => Deck!Range(dCall'[i].cards) \cap dDone = {}
    <3> SUFFICES ASSUME dCall'[i].state = "ok", NEW n \in DOMAIN dCall'[i].cards,
                        dCall'[i].cards[n] \in dDone
                 PROVE  FALSE
      BY DEF Deck!Range
    <3> DEFINE c == dCall'[i].cards[n]
    <3>1. c[1] = o /\ dServer'[o].reacted[c[2]] = "NONE"
      BY <1>2 DEF Answered
    <3>2. dServer'[c[1]].reacted[c[2]] # "NONE"
      BY <1>2, <1>9 DEF CardsFit
    <3> QED BY <3>1, <3>2
  <2>3. \A j \in Deck!Calls : j # i => dCall'[j] = dCall[j]
    BY <1>2 DEF Answered
  <2> QED BY <1>2, <2>1, <2>2, <2>3 DEF DeckInv, SelectionFits
<1>11. ProfilesFit'
  <2> SUFFICES ASSUME ~dBlurred PROVE ProfilesFit'
    BY <1>2 DEF ProfilesFit
  <2>1. ProfilesFit /\ \A j \in Deck!Calls : CallFits(j)
    BY DEF DeckInv
  <2>2. o = dSlug /\ dCall[i].epoch = dEpoch
    BY <1>2, <2>1 DEF ProfilesFit, CallFits
  <2> DEFINE P == dServer[dSlug].profile
             Q == dServer'[dSlug].profile
  <2>3. UpTo(P, Q) /\ P \in Deck!Version /\ Q \in Deck!Version
    BY <1>2, <1>3, <1>1, <2>2, ServerTyped DEF Answered, ServerType
  <2>4. \A j \in Deck!Calls : Deck!InFlight(j) => dCall'[j].epoch = dEpoch
    BY <1>7, <2>1 DEF ProfilesFit, SameCall
  <2>5. \A j, k \in Deck!Calls : Deck!InFlight(j) /\ Deck!InFlight(k) /\ j # k => dCall'[j].kind = "react"
    BY <1>7, <2>1 DEF ProfilesFit, SameCall
  <2>6. ASSUME NEW j \in Deck!Calls, Deck!InFlight(j), dCall'[j].kind # "react"
        PROVE  /\ dCall'[j].state = "ok" => dCall'[j].profile = Q
               /\ dCall'[j].kind = "first" => dCall'[j].held = Q
    <3>1. j = i
      BY <1>2, <2>5, <2>6
    <3>2. dCall'[i].kind = "first" => dCall'[i].held = P /\ Q = P
      BY <1>2, <1>7, <2>1, <2>2 DEF ProfilesFit, SameCall, Answered
    <3> QED BY <1>2, <2>2, <3>1, <3>2 DEF Answered
  <2>7. ASSUME NEW j \in Deck!Calls, dCall'[j].state = "ok"
        PROVE  UpTo(dCall'[j].profile, Q)
    <3>1. CASE j = i
      BY <1>2, <2>2, <2>7, <3>1 DEF Answered, UpTo
    <3>2. CASE j # i
      <4>1. dCall'[j] = dCall[j] /\ dCall[j].profile \in Deck!Version
        BY <1>1, <1>2, <3>2, CallTyped DEF Answered
      <4>2. UpTo(dCall[j].profile, P)
        BY <2>1, <2>7, <4>1 DEF ProfilesFit
      <4> QED BY <2>3, <4>1, <4>2, UpToTransitive
    <3> QED BY <3>1, <3>2
  <2>8. ASSUME dFeed.there
        PROVE  /\ UpTo(dFeed.profile, Q)
               /\ \/ dFeed.profile = Q
                  \/ \E j \in Deck!Calls : /\ dCall'[j].state = "ok"
                                           /\ dCall'[j].kind \in {"react", "reset"}
                                           /\ dCall'[j].profile = Q
    <3>1. UpTo(dFeed.profile, P) /\ dFeed.profile \in Deck!Version
      BY <1>1, <2>1, <2>8 DEF ProfilesFit, Deck!TypeOK
    <3>2. UpTo(dFeed.profile, Q)
      BY <2>3, <3>1, UpToTransitive
    <3>3. CASE dCall'[i].state = "ok" /\ dCall[i].kind \in {"react", "reset"}
      BY <1>2, <1>7, <2>2, <3>2, <3>3 DEF Answered, SameCall
    <3>4. CASE ~(dCall'[i].state = "ok" /\ dCall[i].kind \in {"react", "reset"})
      <4>1. Q = P
        BY <1>2, <2>2, <3>4 DEF Answered
      <4>2. \A j \in Deck!Calls : dCall[j].state = "ok" => dCall'[j] = dCall[j]
        BY <1>2 DEF Answered
      <4> QED BY <2>1, <2>8, <3>2, <4>1, <4>2 DEF ProfilesFit
    <3> QED BY <3>3, <3>4
  <2> QED BY <1>2, <1>8, <2>4, <2>5, <2>6, <2>7, <2>8 DEF ProfilesFit
<1> QED BY <1>2, <1>5, <1>6, <1>9, <1>10, <1>11 DEF DeckInv

LEMMA LosesInv ==
  ASSUME DeckInv, NEW i \in Deck!Calls, Deck!Loses(i)
  PROVE  DeckInv'
<1>1. DeckTypes /\ Deck!TypeOK
  BY DEF DeckInv, DeckTypes
<1>2. /\ dCall' = [dCall EXCEPT ![i].state = "error"]
      /\ dCall[i].state \in {"sent", "ok"}
      /\ dBlurred' = (dBlurred \/ (dCall[i].state = "ok" /\ dCall[i].kind \in {"react", "reset"}))
      /\ UNCHANGED <<dSlug, dEpoch, dFeed, dPending, dCount, dUi, dServer, dSeen, dDone,
                     dVisited, dAgain>>
  BY DEF Deck!Loses, Deck!Errors, Deck!screen
<1>3. /\ dCall' \in [Deck!Calls -> Deck!Call] /\ dCall'[i].state = "error"
      /\ SameCall(dCall[i], dCall'[i]) /\ Follows(dCall[i], dCall'[i])
      /\ \A j \in Deck!Calls \ {i} : dCall'[j] = dCall[j]
  BY <1>1, <1>2, CallSet
<1>4. ReactionsKept
  BY <1>2 DEF ReactionsKept
<1>5. Deck!TypeOK'
  BY <1>1, <1>2, <1>3 DEF Deck!TypeOK
<1>6. \A j \in Deck!Calls : CallFits(j)'
  BY <1>1, <1>2, <1>3, <1>4, CallKept DEF Follows
<1>7. \A j \in Deck!Calls : SameCall(dCall[j], dCall'[j])
  BY <1>3 DEF SameCall
<1>8. \A j \in Deck!Calls : Deck!InFlight(j)' <=> Deck!InFlight(j)
  BY <1>2, <1>3 DEF Deck!InFlight
<1>9. FlagsFit' /\ EmptyFits' /\ LiveFits' /\ CardsFit'
  BY <1>2, <1>4, <1>7, <1>8, InPlace
<1>10. \A j \in Deck!Calls : dCall'[j].state = "ok" => j # i /\ dCall'[j] = dCall[j]
  BY <1>3
<1>11. SelectionFits'
  <2>1. \A j \in Deck!Calls : Selects(j)' <=> Selects(j)
    BY <1>2, <1>7, <1>8 DEF Selects, SameCall
  <2> QED BY <1>2, <1>10, <2>1 DEF DeckInv, SelectionFits
<1>12. ProfilesFit'
  <2> SUFFICES ASSUME ~dBlurred' PROVE ProfilesFit'
    BY DEF ProfilesFit
  <2>1. /\ ProfilesFit /\ ~dBlurred
        /\ ~(dCall[i].state = "ok" /\ dCall[i].kind \in {"react", "reset"})
    BY <1>2 DEF DeckInv
  <2>2. \A j \in Deck!Calls :
          dCall[j].state = "ok" /\ dCall[j].kind \in {"react", "reset"} => dCall'[j] = dCall[j]
    BY <1>3, <2>1
  <2> QED BY <1>2, <1>7, <1>8, <1>10, <2>1, <2>2 DEF ProfilesFit, SameCall
<1> QED BY <1>2, <1>5, <1>6, <1>9, <1>11, <1>12 DEF DeckInv
-----------------------------------------------------------------------------
(* Answers.                                                                *)

\* A call is over, and the table is otherwise as it was.
Over(i) ==
    /\ dCall' \in [Deck!Calls -> Deck!Call]
    /\ dCall'[i].state = "done" /\ SameCall(dCall[i], dCall'[i])
    /\ \A j \in Deck!Calls \ {i} : dCall'[j] = dCall[j]

LEMMA ReceivedOver ==
  ASSUME Deck!TypeOK, NEW i \in Deck!Calls, dCall[i].state \in {"ok", "error"}
  PROVE  /\ Deck!Received(i) \in [Deck!Calls -> Deck!Call]
         /\ dCall' = Deck!Received(i) => Over(i)
<1>1. dCall[i].state # "done" /\ "done" \in {"error", "done"}
  OBVIOUS
<1> DEFINE t == Deck!Received(i)
<1>2. /\ t \in [Deck!Calls -> Deck!Call]
      /\ t[i].state = "done" /\ SameCall(dCall[i], t[i])
      /\ \A j \in Deck!Calls \ {i} : t[j] = dCall[j]
  BY <1>1, CallSet DEF Deck!Received
<1> HIDE DEF t
<1>3. dCall' = t => Over(i)
  BY <1>2 DEF Over
<1> QED BY <1>2, <1>3 DEF t

LEMMA OverCalls ==
  ASSUME DeckTypes, NEW i \in Deck!Calls, Over(i), dCall[i].state \in {"ok", "error"},
         UNCHANGED <<dSlug, dEpoch, dVisited, dAgain, dServer>>
  PROVE  /\ \A j \in Deck!Calls : CallFits(j)'
         /\ \A j \in Deck!Calls : dCall'[j].kind = dCall[j].kind /\ SameCall(dCall[j], dCall'[j])
         /\ \A j \in Deck!Calls : Deck!InFlight(j)' <=> Deck!InFlight(j) /\ j # i
         /\ \A j \in Deck!Calls : Loads(j)' <=> Loads(j) /\ j # i
         /\ \A j \in Deck!Calls : Selects(j)' <=> Selects(j) /\ j # i
         /\ \A j \in Deck!Calls : Resets(j)' <=> Resets(j) /\ j # i
         /\ Deck!Live' = Deck!Live \ {i}
         /\ Deck!InFlight(i)
<1>1. \A j \in Deck!Calls : Follows(dCall[j], dCall'[j]) /\ SameCall(dCall[j], dCall'[j])
                            /\ dCall'[j].kind = dCall[j].kind
  BY DEF Over, Follows, SameCall
<1>2. ReactionsKept
  BY DEF ReactionsKept
<1>3. \A j \in Deck!Calls : CallFits(j)'
  BY <1>1, <1>2, CallKept
<1>4. \A j \in Deck!Calls : Deck!InFlight(j)' <=> Deck!InFlight(j) /\ j # i
  BY DEF Over, Deck!InFlight
<1>5. \A j \in Deck!Calls : /\ Loads(j)' <=> Loads(j) /\ j # i
                            /\ Selects(j)' <=> Selects(j) /\ j # i
                            /\ Resets(j)' <=> Resets(j) /\ j # i
  BY <1>1, <1>4 DEF Loads, Selects, Resets, SameCall
<1>6. Deck!Live' = Deck!Live \ {i}
  BY <1>1, <1>4 DEF Deck!Live, SameCall
<1> QED BY <1>1, <1>3, <1>4, <1>5, <1>6 DEF Deck!InFlight

\* The reactions under way stay what they are.
LEMMA LiveKept ==
  ASSUME LiveFits, Deck!Live' = Deck!Live, UNCHANGED <<dPending, dCount>>,
         \A j \in Deck!Live : dCall'[j].card = dCall[j].card
  PROVE  LiveFits'
<1>1. {dCall'[i].card : i \in Deck!Live} = {dCall[i].card : i \in Deck!Live}
  OBVIOUS
<1>2. Deck!CountIsPending'
  BY <1>1 DEF LiveFits, Deck!CountIsPending
<1>3. \A i, j \in Deck!Live' : dCall'[i].card = dCall'[j].card => i = j
  BY DEF LiveFits
<1> QED BY <1>2, <1>3 DEF LiveFits

\* An answer fills the deck, which is empty unless the organization was chosen twice.
LEMMA TakesFits ==
  ASSUME DeckInv, NEW cards \in Seq(Deck!Card), NEW v \in Deck!Version,
         dFeed' = [there |-> TRUE, cards |-> cards, profile |-> v],
         dSeen' = dSeen \cup Deck!Range(cards),
         UNCHANGED <<dSlug, dPending, dDone, dServer, dAgain>>,
         dUi'.rejecting = dUi.rejecting,
         dUi'.loading => dUi.loading /\ dAgain,
         Deck!IsInjective(cards), \A n \in DOMAIN cards : cards[n][1] = dSlug,
         ~dAgain => dFeed.cards = <<>> /\ dPending = {} /\ Deck!Range(cards) \cap dDone = {}
  PROVE  CardsFit' /\ EmptyFits'
<1>1. dFeed'.there = TRUE /\ dFeed'.cards = cards
  OBVIOUS
<1>2. EmptyFits'
  BY <1>1 DEF DeckInv, EmptyFits
<1>3. Deck!ReasonsForTopCard'
  BY DEF DeckInv, CardsFit, Deck!ReasonsForTopCard
<1>4. ASSUME ~dAgain
      PROVE  /\ dSeen' \subseteq Deck!Range(cards) \cup dPending \cup dDone
             /\ Deck!Range(cards) \cap (dPending \cup dDone) = {}
             /\ dPending \cap dDone = {}
  <2>1. Deck!Range(<<>>) = {}
    BY NoCards DEF Deck!Range
  <2> QED BY <1>4, <2>1 DEF DeckInv, CardsFit
<1>5. \A c \in dDone : dServer[c[1]].reacted[c[2]] # "NONE"
  BY DEF DeckInv, CardsFit
<1> QED BY <1>1, <1>2, <1>3, <1>4, <1>5 DEF CardsFit

LEMMA FeedTyped ==
  ASSUME NEW cards \in Seq(Deck!Card), NEW v \in Deck!Version
  PROVE  /\ [there |-> TRUE, cards |-> cards, profile |-> v] \in
              [there : BOOLEAN, cards : Seq(Deck!Card), profile : Deck!Version]
         /\ Deck!Range(cards) \in SUBSET Deck!Card
<1>1. \A n \in DOMAIN cards : cards[n] \in Deck!Card
  BY ElementOfSeq
<1> QED BY <1>1 DEF Deck!Range

\* When a call that is no reaction is answered, no other is under way, unless
\* something was lost or crossed.
LEMMA AloneFits ==
  ASSUME DeckInv, NEW i \in Deck!Calls, Deck!InFlight(i), dCall[i].kind # "react", ~dBlurred
  PROVE  /\ \A j \in Deck!Calls : Deck!InFlight(j) => j = i
         /\ dCall[i].epoch = dEpoch /\ dCall[i].org = dSlug
         /\ dCall[i].state = "ok" => dCall[i].profile = dServer[dSlug].profile
         /\ dCall[i].kind = "first" => dCall[i].held = dServer[dSlug].profile
         /\ dFeed.there /\ ~(dCall[i].state = "ok" /\ dCall[i].kind = "reset") =>
              dFeed.profile = dServer[dSlug].profile
<1>1. \A j \in Deck!Calls : Deck!InFlight(j) => j = i
  BY DEF DeckInv, ProfilesFit
<1>2. \A j \in Deck!Calls : dCall[j].state = "ok" => Deck!InFlight(j)
  BY DEF Deck!InFlight
<1>3. dCall[i].epoch = dEpoch /\ dCall[i].org = dSlug
  BY DEF DeckInv, ProfilesFit, CallFits
<1> QED BY <1>1, <1>2, <1>3 DEF DeckInv, ProfilesFit

\* Nothing is under way, and what the screen shows is what the server has.
LEMMA RestFits ==
  ASSUME ~dBlurred' => /\ \A j \in Deck!Calls : ~Deck!InFlight(j)'
                       /\ dFeed'.there => dFeed'.profile = dServer'[dSlug'].profile
  PROVE  ProfilesFit'
<1>1. \A j \in Deck!Calls : dCall'[j].state = "ok" => Deck!InFlight(j)'
  BY DEF Deck!InFlight
<1> QED BY <1>1 DEF ProfilesFit, UpTo

\* The calls of this visit that fill the screen are at most one: with it the
\* screen stops to load.
LEMMA LoadedFlags ==
  ASSUME DeckInv, NEW i \in Deck!Calls, Loads(i), Over(i), dCall[i].state \in {"ok", "error"},
         UNCHANGED <<dSlug, dEpoch, dVisited, dAgain, dServer>>,
         ~dUi'.loading, dUi'.resetting = dUi.resetting,
         dUi'.generating => dUi.generating /\ dCall[i].kind = "load"
  PROVE  FlagsFit'
<1>1. DeckTypes
  BY DEF DeckInv, DeckTypes
<1>2. \A j \in Deck!Calls : ~Loads(j)'
  BY <1>1, OverCalls DEF DeckInv, FlagsFit
<1>3. dUi'.generating => \E j \in Deck!Calls : Selects(j)'
  BY <1>1, OverCalls DEF DeckInv, FlagsFit, Loads, Selects
<1>4. dUi'.resetting => \E j \in Deck!Calls : Resets(j)'
  BY <1>1, OverCalls DEF DeckInv, FlagsFit, Loads, Resets
<1> QED BY <1>2, <1>3, <1>4 DEF FlagsFit

LEMMA NoSelection ==
  ASSUME DeckInv, dUi.loading, ~dAgain, NEW j \in Deck!Calls
  PROVE  ~Selects(j)
BY DEF DeckInv, SelectionFits

LEMMA LoadAnswerInv ==
  ASSUME DeckInv, NEW i \in Deck!Calls, Deck!LoadAnswer(i)
  PROVE  DeckInv'
<1>1. DeckTypes /\ Deck!TypeOK
  BY DEF DeckInv, DeckTypes
<1>2. /\ dCall[i].kind = "load" /\ dCall[i].state \in {"ok", "error"} /\ Deck!InFlight(i)
      /\ UNCHANGED <<dSlug, dEpoch, dPending, dCount, dServer, dDone, dVisited, dAgain, dBlurred>>
  BY DEF Deck!LoadAnswer, Deck!InFlight
<1>3. i \notin Deck!Live /\ ~Selects(i) /\ ~Resets(i)
  BY <1>2 DEF Deck!Live, Selects, Resets
<1>4. CASE dCall[i].epoch # dEpoch
  <2>1. dCall' = Deck!Received(i) /\ UNCHANGED <<dFeed, dUi, dSeen>>
    BY <1>4 DEF Deck!LoadAnswer, Deck!IsMounted
  <2>2. Over(i)
    BY <1>1, <1>2, <2>1, ReceivedOver
  <2>3. ~Loads(i)
    BY <1>4 DEF Loads
  <2>4. FlagsFit'
    BY <1>1, <1>2, <1>3, <2>1, <2>2, <2>3, OverCalls DEF DeckInv, FlagsFit
  <2>5. EmptyFits' /\ CardsFit'
    BY <1>2, <2>1 DEF DeckInv, EmptyFits, CardsFit, Deck!ReasonsForTopCard
  <2>6. \A j \in Deck!Calls : Selects(j)' => Selects(j) /\ j # i
    BY <1>1, <1>2, <2>2, OverCalls
  <2>7. SelectionFits'
    BY <1>2, <2>1, <2>2, <2>6 DEF DeckInv, SelectionFits, Over
  <2>8. LiveFits'
    BY <1>1, <1>2, <1>3, <2>2, OverCalls, LiveKept DEF DeckInv, SameCall, Deck!Live
  <2>9. ProfilesFit'
    BY <1>2, <1>4, AloneFits DEF ProfilesFit
  <2>10. Deck!TypeOK'
    BY <1>1, <1>2, <2>1, <2>2 DEF Deck!TypeOK, Over
  <2> QED BY <1>1, <1>2, <2>2, <2>4, <2>5, <2>7, <2>8, <2>9, <2>10, OverCalls DEF DeckInv
<1>5. CASE dCall[i].epoch = dEpoch
  <2>1. Loads(i) /\ dUi.loading /\ dCall[i].org = dSlug
    BY <1>1, <1>2, <1>5 DEF Loads, DeckInv, FlagsFit, CallFits
  <2>2. dPending = {} /\ dDone = {} /\ (~dAgain => dFeed = Deck!NoFeed /\ dFeed.cards = <<>>)
    BY <2>1 DEF DeckInv, EmptyFits, Deck!NoFeed
  <2>3. CASE /\ dCall[i].state = "error"
             /\ dUi' = [dUi EXCEPT !.loading = FALSE]
             /\ dCall' = Deck!Received(i)
             /\ UNCHANGED <<dFeed, dSeen>>
    <3>1. Over(i)
      BY <1>1, <1>2, <2>3, ReceivedOver
    <3>2. /\ ~dUi'.loading /\ dUi'.generating = dUi.generating
          /\ dUi'.resetting = dUi.resetting /\ dUi'.rejecting = dUi.rejecting
          /\ dUi'.picked = dUi.picked
      BY <1>1, <2>3 DEF Deck!TypeOK
    <3>3. FlagsFit'
      BY <1>2, <2>1, <3>1, <3>2, LoadedFlags
    <3>4. EmptyFits' /\ CardsFit'
      BY <1>2, <2>3, <3>2 DEF DeckInv, EmptyFits, CardsFit, Deck!ReasonsForTopCard
    <3>5. SelectionFits'
      BY <1>1, <1>2, <2>1, <3>1, OverCalls, NoSelection DEF SelectionFits
    <3>6. LiveFits'
      BY <1>1, <1>2, <1>3, <3>1, OverCalls, LiveKept DEF DeckInv, SameCall, Deck!Live
    <3>7. ProfilesFit'
      <4>1. \A j \in Deck!Calls : Deck!InFlight(j)' <=> Deck!InFlight(j) /\ j # i
        BY <1>1, <1>2, <3>1, OverCalls
      <4>2. ~dBlurred => (\A j \in Deck!Calls : Deck!InFlight(j) => j = i)
                         /\ (dFeed.there => dFeed.profile = dServer[dSlug].profile)
        BY <1>2, AloneFits
      <4> QED BY <1>2, <2>3, <4>1, <4>2, RestFits
    <3>8. Deck!TypeOK'
      BY <1>1, <1>2, <2>3, <3>1 DEF Deck!TypeOK, Over
    <3> QED BY <1>1, <1>2, <3>1, <3>3, <3>4, <3>5, <3>6, <3>7, <3>8, OverCalls DEF DeckInv
  <2>4. CASE /\ dCall[i].state = "ok" /\ dCall[i].cards # <<>>
             /\ dUi' = [dUi EXCEPT !.loading = FALSE]
             /\ dCall' = Deck!Received(i)
             /\ Deck!Takes(i)
    <3>1. Over(i)
      BY <1>1, <1>2, <2>4, ReceivedOver
    <3>2. /\ ~dUi'.loading /\ dUi'.generating = dUi.generating
          /\ dUi'.resetting = dUi.resetting /\ dUi'.rejecting = dUi.rejecting
          /\ dUi'.picked = dUi.picked
      BY <1>1, <2>4 DEF Deck!TypeOK
    <3> DEFINE cards == dCall[i].cards
               v == dCall[i].profile
    <3>3. /\ cards \in Seq(Deck!Card) /\ v \in Deck!Version
          /\ Deck!IsInjective(cards) /\ \A n \in DOMAIN cards : cards[n][1] = dSlug
      BY <1>1, <2>1, <2>4, CallTyped DEF DeckInv, CallFits
    <3>4. /\ dFeed' = [there |-> TRUE, cards |-> cards, profile |-> v]
          /\ dSeen' = dSeen \cup Deck!Range(cards)
      BY <2>4 DEF Deck!Takes, Deck!Shows
    <3>5. v = dCall[i].profile
      OBVIOUS
    <3> HIDE DEF cards, v
    <3>6. FlagsFit'
      BY <1>2, <2>1, <3>1, <3>2, LoadedFlags
    <3>7. EmptyFits' /\ CardsFit'
      BY <1>2, <2>2, <3>2, <3>3, <3>4, TakesFits
    <3>8. SelectionFits'
      BY <1>1, <1>2, <2>1, <3>1, OverCalls, NoSelection DEF SelectionFits
    <3>9. LiveFits'
      BY <1>1, <1>2, <1>3, <3>1, OverCalls, LiveKept DEF DeckInv, SameCall, Deck!Live
    <3>10. ProfilesFit'
      <4>1. \A j \in Deck!Calls : Deck!InFlight(j)' <=> Deck!InFlight(j) /\ j # i
        BY <1>1, <1>2, <3>1, OverCalls
      <4>2. ~dBlurred => (\A j \in Deck!Calls : Deck!InFlight(j) => j = i)
                         /\ v = dServer[dSlug].profile
        BY <1>2, <2>4, <3>5, AloneFits
      <4>3. dFeed'.profile = v
        BY <3>4
      <4> QED BY <1>2, <4>1, <4>2, <4>3, RestFits
    <3>11. dFeed' \in [there : BOOLEAN, cards : Seq(Deck!Card), profile : Deck!Version]
           /\ dSeen' \in SUBSET Deck!Card
      BY <1>1, <3>3, <3>4, FeedTyped DEF Deck!TypeOK
    <3>12. Deck!TypeOK'
      BY <1>1, <1>2, <2>4, <3>1, <3>11 DEF Deck!TypeOK, Over
    <3> QED BY <1>1, <1>2, <3>1, <3>6, <3>7, <3>8, <3>9, <3>10, <3>12, OverCalls DEF DeckInv
  <2>5. CASE /\ dCall[i].state = "ok" /\ dCall[i].cards = <<>>
             /\ dUi' = [dUi EXCEPT !.generating = TRUE]
             /\ Deck!Sends(Deck!Received(i),
                  [Deck!NewCall("first", dSlug, dEpoch, Deck!NoCall.card, Deck!NoCall.reaction)
                     EXCEPT !.held = dCall[i].profile])
             /\ UNCHANGED <<dFeed, dSeen>>
    <3> DEFINE c == [Deck!NewCall("first", dSlug, dEpoch, Deck!NoCall.card, Deck!NoCall.reaction)
                       EXCEPT !.held = dCall[i].profile]
               t == Deck!Received(i)
    <3>1. dSlug \in Org /\ dEpoch \in Nat /\ dCall[i].profile \in Deck!Version
      BY <1>1, CallTyped DEF Deck!TypeOK
    <3>2. /\ c \in Deck!Call /\ c.kind = "first" /\ c.org = dSlug /\ c.epoch = dEpoch
          /\ c.state = "sent" /\ c.held = dCall[i].profile
      BY <3>1, NoCallTyped, NewCallTyped DEF Deck!Call
    <3>3. /\ t \in [Deck!Calls -> Deck!Call]
          /\ t[i].state = "done" /\ SameCall(dCall[i], t[i])
          /\ \A j \in Deck!Calls \ {i} : t[j] = dCall[j]
      BY <1>1, <1>2, CallSet DEF Deck!Received
    <3>4. Deck!Sends(t, c)
      BY <2>5
    <3> HIDE DEF c, t
    <3>5. PICK k \in Deck!Calls : /\ t[k].kind = "none" /\ dCall'[k] = c
                                  /\ \A j \in Deck!Calls \ {k} : dCall'[j] = t[j]
      BY <3>2, <3>3, <3>4, CallSent
    <3>6. dCall' \in [Deck!Calls -> Deck!Call]
      BY <3>2, <3>3, <3>4, CallSent
    <3>7. k # i /\ dCall[k].kind = "none" /\ dCall[k].state = "done"
      BY <1>2, <3>3, <3>5 DEF SameCall, DeckInv, CallFits
    <3>8. /\ \A j \in Deck!Calls \ {k} : Follows(dCall[j], dCall'[j]) /\ SameCall(dCall[j], dCall'[j])
          /\ \A j \in Deck!Calls \ {i, k} : dCall'[j] = dCall[j]
          /\ dCall'[i].state = "done"
      BY <1>2, <3>3, <3>5, <3>7 DEF Follows, SameCall
    <3>9. \A j \in Deck!Calls : CallFits(j)'
      <4>1. ASSUME NEW j \in Deck!Calls, j # k PROVE CallFits(j)'
        <5>1. ReactionsKept
          BY <1>2 DEF ReactionsKept
        <5> QED BY <1>1, <1>2, <3>8, <4>1, <5>1, CallKept
      <4>2. CallFits(k)'
        <5>1. dSlug \in dVisited
          BY <1>2, <2>1 DEF DeckInv, CallFits
        <5> QED BY <1>2, <3>1, <3>2, <3>5, <5>1, CallNew
      <4> QED BY <4>1, <4>2
    <3>10. /\ \A j \in Deck!Calls : Deck!InFlight(j)' <=> j = k \/ (Deck!InFlight(j) /\ j # i)
           /\ Deck!InFlight(k)' /\ ~Deck!InFlight(k)
      BY <3>2, <3>5, <3>7, <3>8 DEF Deck!InFlight
    <3>11. \A j \in Deck!Calls : Loads(j)' <=> j = k
      <4>1. \A j \in Deck!Calls : Loads(j) => j = i
        BY <2>1 DEF DeckInv, FlagsFit
      <4> QED BY <1>2, <3>2, <3>5, <3>8, <3>10, <4>1 DEF Loads, SameCall
    <3>12. \A j \in Deck!Calls : (Selects(j)' => Selects(j)) /\ (Resets(j) => Resets(j)')
      BY <1>2, <3>2, <3>5, <3>7, <3>8, <3>10 DEF Selects, Resets, SameCall
    <3>13. /\ dUi'.loading = dUi.loading /\ dUi'.generating /\ dUi'.resetting = dUi.resetting
           /\ dUi'.rejecting = dUi.rejecting /\ dUi'.picked = dUi.picked
      BY <1>1, <2>5 DEF Deck!TypeOK
    <3>14. FlagsFit'
      <4>1. dCall'[k].kind = "first"
        BY <3>2, <3>5
      <4>2. dUi'.resetting => \E j \in Deck!Calls : Resets(j)'
        BY <3>12, <3>13 DEF DeckInv, FlagsFit
      <4> QED BY <2>1, <3>11, <3>13, <4>1, <4>2 DEF FlagsFit
    <3>15. EmptyFits' /\ CardsFit'
      BY <1>2, <2>5, <3>13 DEF DeckInv, EmptyFits, CardsFit, Deck!ReasonsForTopCard
    <3>16. SelectionFits'
      BY <1>2, <2>1, <3>12, NoSelection DEF SelectionFits
    <3>17. LiveFits'
      <4>1. Deck!Live' = Deck!Live
        BY <1>2, <1>3, <3>2, <3>5, <3>7, <3>8, <3>10 DEF Deck!Live, SameCall
      <4>2. \A j \in Deck!Live : dCall'[j].card = dCall[j].card
        BY <3>7, <3>8 DEF Deck!Live, SameCall
      <4> QED BY <1>2, <4>1, <4>2, LiveKept DEF DeckInv
    <3>18. ProfilesFit'
      <4> SUFFICES ASSUME ~dBlurred PROVE ProfilesFit'
        BY <1>2 DEF ProfilesFit
      <4>1. /\ \A j \in Deck!Calls : Deck!InFlight(j) => j = i
            /\ dCall[i].profile = dServer[dSlug].profile
            /\ dFeed.there => dFeed.profile = dServer[dSlug].profile
        BY <1>2, <2>5, AloneFits
      <4>2. \A j \in Deck!Calls : Deck!InFlight(j)' => j = k
        BY <3>10, <4>1
      <4>3. \A j \in Deck!Calls : dCall'[j].state # "ok"
        BY <3>2, <3>5, <4>2 DEF Deck!InFlight
      <4>4. dCall'[k].held = dServer[dSlug].profile /\ dCall'[k].epoch = dEpoch
        BY <3>2, <3>5, <4>1
      <4>5. dFeed'.there => dFeed'.profile = dServer'[dSlug'].profile
        BY <1>2, <2>5, <4>1
      <4> QED BY <1>2, <4>2, <4>3, <4>4, <4>5 DEF ProfilesFit, UpTo
    <3>19. Deck!TypeOK'
      BY <1>1, <1>2, <2>5, <3>6 DEF Deck!TypeOK
    <3> QED BY <1>2, <3>9, <3>14, <3>15, <3>16, <3>17, <3>18, <3>19 DEF DeckInv
  <2> QED BY <1>5, <2>3, <2>4, <2>5 DEF Deck!LoadAnswer, Deck!IsMounted
<1> QED BY <1>4, <1>5

\* An answer of an earlier visit changes nothing on screen.
LEMMA IgnoredInv ==
  ASSUME DeckInv, NEW i \in Deck!Calls, dCall[i].state \in {"ok", "error"},
         dCall' = Deck!Received(i),
         ~Loads(i), ~Selects(i), ~Resets(i), i \notin Deck!Live, dCall[i].epoch # dEpoch,
         UNCHANGED <<dSlug, dEpoch, dFeed, dPending, dCount, dUi, dServer, dSeen, dDone,
                     dVisited, dAgain, dBlurred>>
  PROVE  DeckInv'
<1>1. DeckTypes /\ Deck!TypeOK /\ Over(i)
  BY ReceivedOver DEF DeckInv, DeckTypes
<1>2. FlagsFit'
  BY <1>1, OverCalls DEF DeckInv, FlagsFit
<1>3. EmptyFits' /\ CardsFit'
  BY DEF DeckInv, EmptyFits, CardsFit, Deck!ReasonsForTopCard
<1>4. \A j \in Deck!Calls : Selects(j)' => Selects(j) /\ j # i
  BY <1>1, OverCalls
<1>5. SelectionFits'
  BY <1>1, <1>4 DEF DeckInv, SelectionFits, Over
<1>6. LiveFits'
  BY <1>1, OverCalls, LiveKept DEF DeckInv, SameCall, Deck!Live
<1>7. ProfilesFit'
  <2>1. Deck!InFlight(i)
    BY DEF Deck!InFlight
  <2> QED BY <2>1 DEF DeckInv, ProfilesFit
<1>8. Deck!TypeOK'
  BY <1>1 DEF Deck!TypeOK, Over
<1> QED BY <1>1, <1>2, <1>3, <1>5, <1>6, <1>7, <1>8, OverCalls DEF DeckInv

LEMMA FirstAnswerInv ==
  ASSUME DeckInv, NEW i \in Deck!Calls, Deck!FirstAnswer(i)
  PROVE  DeckInv'
<1>1. DeckTypes /\ Deck!TypeOK
  BY DEF DeckInv, DeckTypes
<1>2. /\ dCall[i].kind = "first" /\ dCall[i].state \in {"ok", "error"} /\ Deck!InFlight(i)
      /\ dCall' = Deck!Received(i)
      /\ UNCHANGED <<dSlug, dEpoch, dPending, dCount, dServer, dDone, dVisited, dAgain, dBlurred>>
  BY DEF Deck!FirstAnswer, Deck!InFlight
<1>3. i \notin Deck!Live /\ ~Selects(i) /\ ~Resets(i)
  BY <1>2 DEF Deck!Live, Selects, Resets
<1>4. CASE dCall[i].epoch # dEpoch
  <2>1. UNCHANGED <<dFeed, dUi, dSeen>>
    BY <1>4 DEF Deck!FirstAnswer, Deck!IsMounted
  <2>2. ~Loads(i)
    BY <1>4 DEF Loads
  <2> QED BY <1>2, <1>3, <1>4, <2>1, <2>2, IgnoredInv
<1>5. CASE dCall[i].epoch = dEpoch
  <2>1. Loads(i) /\ dUi.loading /\ dCall[i].org = dSlug
    BY <1>1, <1>2, <1>5 DEF Loads, DeckInv, FlagsFit, CallFits
  <2>2. dPending = {} /\ dDone = {} /\ (~dAgain => dFeed = Deck!NoFeed /\ dFeed.cards = <<>>)
    BY <2>1 DEF DeckInv, EmptyFits, Deck!NoFeed
  <2>3. /\ dUi' = [dUi EXCEPT !.loading = FALSE, !.generating = FALSE]
        /\ Deck!Takes(i)
    BY <1>5 DEF Deck!FirstAnswer, Deck!IsMounted
  <2>4. Over(i)
    BY <1>1, <1>2, ReceivedOver
  <2>5. /\ ~dUi'.loading /\ ~dUi'.generating
        /\ dUi'.resetting = dUi.resetting /\ dUi'.rejecting = dUi.rejecting
        /\ dUi'.picked = dUi.picked
    BY <1>1, <2>3 DEF Deck!TypeOK
  <2>6. PICK cards \in Seq(Deck!Card), v \in Deck!Version :
          /\ dFeed' = [there |-> TRUE, cards |-> cards, profile |-> v]
          /\ Deck!IsInjective(cards) /\ \A n \in DOMAIN cards : cards[n][1] = dSlug
          /\ \/ dCall[i].state = "ok" /\ cards = dCall[i].cards /\ v = dCall[i].profile
             \/ cards = <<>> /\ v = dCall[i].held
    <3>1. CASE dCall[i].state = "ok"
      <4>1. /\ dCall[i].cards \in Seq(Deck!Card) /\ dCall[i].profile \in Deck!Version
            /\ Deck!IsInjective(dCall[i].cards)
            /\ \A n \in DOMAIN dCall[i].cards : dCall[i].cards[n][1] = dSlug
        BY <1>1, <2>1, <3>1, CallTyped DEF DeckInv, CallFits
      <4>2. dFeed' = [there |-> TRUE, cards |-> dCall[i].cards, profile |-> dCall[i].profile]
        BY <2>3, <3>1 DEF Deck!Takes, Deck!Shows
      <4> QED BY <3>1, <4>1, <4>2
    <3>2. CASE dCall[i].state # "ok"
      <4>1. dFeed' = [there |-> TRUE, cards |-> <<>>, profile |-> dCall[i].held]
        BY <2>3, <3>2 DEF Deck!Takes, Deck!Shows
      <4>2. dCall[i].held \in Deck!Version
        BY <1>1, CallTyped
      <4> QED BY <4>1, <4>2, NoCards
    <3> QED BY <3>1, <3>2
  <2>7. dSeen' = dSeen \cup Deck!Range(cards)
    BY <2>3, <2>6 DEF Deck!Takes
  <2>8. FlagsFit'
    BY <1>2, <2>1, <2>4, <2>5, LoadedFlags
  <2>9. EmptyFits' /\ CardsFit'
    BY <1>2, <2>2, <2>5, <2>6, <2>7, TakesFits
  <2>10. SelectionFits'
    BY <1>1, <1>2, <2>1, <2>4, OverCalls, NoSelection DEF SelectionFits
  <2>11. LiveFits'
    BY <1>1, <1>2, <1>3, <2>4, OverCalls, LiveKept DEF DeckInv, SameCall, Deck!Live
  <2>12. ProfilesFit'
    <3>1. \A j \in Deck!Calls : Deck!InFlight(j)' <=> Deck!InFlight(j) /\ j # i
      BY <1>1, <1>2, <2>4, OverCalls
    <3>2. ~dBlurred => (\A j \in Deck!Calls : Deck!InFlight(j) => j = i)
                       /\ v = dServer[dSlug].profile
      BY <1>2, <2>6, AloneFits
    <3>3. dFeed'.profile = v
      BY <2>6
    <3> QED BY <1>2, <3>1, <3>2, <3>3, RestFits
  <2>13. dFeed' \in [there : BOOLEAN, cards : Seq(Deck!Card), profile : Deck!Version]
         /\ dSeen' \in SUBSET Deck!Card
    BY <1>1, <2>6, <2>7, FeedTyped DEF Deck!TypeOK
  <2>14. Deck!TypeOK'
    BY <1>1, <1>2, <2>3, <2>4, <2>13 DEF Deck!TypeOK, Over
  <2> QED BY <1>1, <1>2, <2>4, <2>8, <2>9, <2>10, <2>11, <2>12, <2>14, OverCalls DEF DeckInv
<1> QED BY <1>4, <1>5

LEMMA GenerateAnswerInv ==
  ASSUME DeckInv, NEW i \in Deck!Calls, Deck!GenerateAnswer(i)
  PROVE  DeckInv'
<1>1. DeckTypes /\ Deck!TypeOK
  BY DEF DeckInv, DeckTypes
<1>2. /\ dCall[i].kind = "generate" /\ dCall[i].state \in {"ok", "error"} /\ Deck!InFlight(i)
      /\ dCall' = Deck!Received(i)
      /\ UNCHANGED <<dSlug, dEpoch, dPending, dCount, dServer, dDone, dVisited, dAgain, dBlurred>>
  BY DEF Deck!GenerateAnswer, Deck!InFlight
<1>3. i \notin Deck!Live /\ ~Loads(i) /\ ~Resets(i)
  BY <1>2 DEF Deck!Live, Loads, Resets
<1>4. CASE dCall[i].org # dSlug
  <2>1. UNCHANGED <<dFeed, dUi, dSeen>>
    BY <1>4 DEF Deck!GenerateAnswer, Deck!OnScreen
  <2>2. ~Selects(i) /\ dCall[i].epoch # dEpoch
    BY <1>4 DEF Selects, DeckInv, CallFits
  <2> QED BY <1>2, <1>3, <2>1, <2>2, IgnoredInv
<1>5. CASE dCall[i].org = dSlug
  <2>1. Selects(i)
    BY <1>2, <1>5 DEF Selects
  <2>2. ~dAgain => /\ ~dUi.loading /\ dFeed.cards = <<>> /\ dPending = {}
                   /\ dCall[i].state = "ok" => Deck!Range(dCall[i].cards) \cap dDone = {}
                   /\ \A j \in Deck!Calls : Selects(j) => j = i
    BY <2>1 DEF DeckInv, SelectionFits
  <2>3. dUi' = [dUi EXCEPT !.generating = FALSE]
    BY <1>5 DEF Deck!GenerateAnswer, Deck!OnScreen
  <2>4. Over(i)
    BY <1>1, <1>2, ReceivedOver
  <2>5. /\ dUi'.loading = dUi.loading /\ ~dUi'.generating /\ dUi.loading \in BOOLEAN
        /\ dUi'.resetting = dUi.resetting /\ dUi'.rejecting = dUi.rejecting
        /\ dUi'.picked = dUi.picked
    BY <1>1, <2>3 DEF Deck!TypeOK
  <2>6. FlagsFit'
    BY <1>1, <1>2, <1>3, <2>4, <2>5, OverCalls DEF DeckInv, FlagsFit
  <2>7. SelectionFits'
    BY <1>1, <1>2, <2>2, <2>4, OverCalls DEF SelectionFits
  <2>8. LiveFits'
    BY <1>1, <1>2, <1>3, <2>4, OverCalls, LiveKept DEF DeckInv, SameCall, Deck!Live
  <2>9. \A j \in Deck!Calls : Deck!InFlight(j)' <=> Deck!InFlight(j) /\ j # i
    BY <1>1, <1>2, <2>4, OverCalls
  <2>10. CASE dCall[i].state = "ok"
    <3> DEFINE cards == dCall[i].cards
               v == dCall[i].profile
    <3>1. /\ cards \in Seq(Deck!Card) /\ v \in Deck!Version
          /\ Deck!IsInjective(cards) /\ \A n \in DOMAIN cards : cards[n][1] = dSlug
      BY <1>1, <1>5, <2>10, CallTyped DEF DeckInv, CallFits
    <3>2. /\ dFeed' = [there |-> TRUE, cards |-> cards, profile |-> v]
          /\ dSeen' = dSeen \cup Deck!Range(cards)
      BY <1>5, <2>10 DEF Deck!GenerateAnswer, Deck!OnScreen, Deck!Takes, Deck!Shows
    <3>3. ~dAgain => Deck!Range(cards) \cap dDone = {}
      BY <2>2, <2>10
    <3>4. ~dBlurred => v = dServer[dSlug].profile /\ \A j \in Deck!Calls : Deck!InFlight(j) => j = i
      BY <1>2, <2>10, AloneFits
    <3> HIDE DEF cards, v
    <3>5. EmptyFits' /\ CardsFit'
      BY <1>2, <2>2, <2>5, <3>1, <3>2, <3>3, TakesFits
    <3>6. ProfilesFit'
      <4>1. dFeed'.profile = v
        BY <3>2
      <4> QED BY <1>2, <2>9, <3>4, <4>1, RestFits
    <3>7. dFeed' \in [there : BOOLEAN, cards : Seq(Deck!Card), profile : Deck!Version]
          /\ dSeen' \in SUBSET Deck!Card
      BY <1>1, <3>1, <3>2, FeedTyped DEF Deck!TypeOK
    <3>8. Deck!TypeOK'
      BY <1>1, <1>2, <2>3, <2>4, <3>7 DEF Deck!TypeOK, Over
    <3> QED BY <1>1, <1>2, <2>4, <2>6, <2>7, <2>8, <3>5, <3>6, <3>8, OverCalls DEF DeckInv
  <2>11. CASE dCall[i].state # "ok"
    <3>1. UNCHANGED <<dFeed, dSeen>>
      BY <1>5, <2>11 DEF Deck!GenerateAnswer, Deck!OnScreen
    <3>2. EmptyFits' /\ CardsFit'
      BY <1>2, <2>5, <3>1 DEF DeckInv, EmptyFits, CardsFit, Deck!ReasonsForTopCard
    <3>3. ProfilesFit'
      <4>1. ~dBlurred => (\A j \in Deck!Calls : Deck!InFlight(j) => j = i)
                         /\ (dFeed.there => dFeed.profile = dServer[dSlug].profile)
        BY <1>2, AloneFits
      <4> QED BY <1>2, <2>9, <3>1, <4>1, RestFits
    <3>4. Deck!TypeOK'
      BY <1>1, <1>2, <2>3, <2>4, <3>1 DEF Deck!TypeOK, Over
    <3> QED BY <1>1, <1>2, <2>4, <2>6, <2>7, <2>8, <3>2, <3>3, <3>4, OverCalls DEF DeckInv
  <2> QED BY <2>10, <2>11
<1> QED BY <1>4, <1>5

LEMMA ResetAnswerInv ==
  ASSUME DeckInv, NEW i \in Deck!Calls, Deck!ResetAnswer(i)
  PROVE  DeckInv'
<1>1. DeckTypes /\ Deck!TypeOK
  BY DEF DeckInv, DeckTypes
<1>2. /\ dCall[i].kind = "reset" /\ dCall[i].state \in {"ok", "error"} /\ Deck!InFlight(i)
      /\ dCall' = Deck!Received(i)
      /\ UNCHANGED <<dSlug, dEpoch, dPending, dCount, dServer, dSeen, dDone, dVisited, dAgain,
                     dBlurred>>
  BY DEF Deck!ResetAnswer, Deck!InFlight
<1>3. i \notin Deck!Live /\ ~Loads(i) /\ ~Selects(i)
  BY <1>2 DEF Deck!Live, Loads, Selects
<1>4. CASE dCall[i].org # dSlug
  <2>1. UNCHANGED <<dFeed, dUi>>
    BY <1>4 DEF Deck!ResetAnswer, Deck!OnScreen
  <2>2. ~Resets(i) /\ dCall[i].epoch # dEpoch
    BY <1>4 DEF Resets, DeckInv, CallFits
  <2> QED BY <1>2, <1>3, <2>1, <2>2, IgnoredInv
<1>5. CASE dCall[i].org = dSlug
  <2>1. /\ dUi' = [dUi EXCEPT !.resetting = FALSE]
        /\ dFeed' = IF dCall[i].state = "ok" /\ dFeed.there
                    THEN [dFeed EXCEPT !.profile = dCall[i].profile] ELSE dFeed
    BY <1>5 DEF Deck!ResetAnswer, Deck!OnScreen
  <2>2. Over(i)
    BY <1>1, <1>2, ReceivedOver
  <2>3. /\ dUi'.loading = dUi.loading /\ dUi'.generating = dUi.generating
        /\ ~dUi'.resetting /\ dUi'.rejecting = dUi.rejecting /\ dUi'.picked = dUi.picked
    BY <1>1, <2>1 DEF Deck!TypeOK
  <2>4. dCall[i].profile \in Deck!Version
    BY <1>1, CallTyped
  <2>5. /\ dFeed' \in [there : BOOLEAN, cards : Seq(Deck!Card), profile : Deck!Version]
        /\ dFeed'.there = dFeed.there /\ dFeed'.cards = dFeed.cards
        /\ ~dFeed.there => dFeed' = dFeed
        /\ dFeed'.there => dFeed'.profile = IF dCall[i].state = "ok" THEN dCall[i].profile
                                                                    ELSE dFeed.profile
    BY <1>1, <2>1, <2>4 DEF Deck!TypeOK
  <2>6. FlagsFit'
    BY <1>1, <1>2, <1>3, <2>2, <2>3, OverCalls DEF DeckInv, FlagsFit
  <2>7. \A j \in Deck!Calls : Selects(j)' => Selects(j) /\ j # i
    BY <1>1, <1>2, <2>2, OverCalls
  <2>8. SelectionFits'
    BY <1>2, <2>2, <2>3, <2>5, <2>7 DEF DeckInv, SelectionFits, Over
  <2>9. EmptyFits'
    <3>1. ~Deck!NoFeed.there
      BY DEF Deck!NoFeed
    <3> QED BY <1>2, <2>3, <2>5, <3>1 DEF DeckInv, EmptyFits
  <2>10. CardsFit'
    BY <1>2, <2>3, <2>5 DEF DeckInv, CardsFit, Deck!ReasonsForTopCard
  <2>11. LiveFits'
    BY <1>1, <1>2, <1>3, <2>2, OverCalls, LiveKept DEF DeckInv, SameCall, Deck!Live
  <2>12. ProfilesFit'
    <3>1. \A j \in Deck!Calls : Deck!InFlight(j)' <=> Deck!InFlight(j) /\ j # i
      BY <1>1, <1>2, <2>2, OverCalls
    <3>2. ~dBlurred => (\A j \in Deck!Calls : Deck!InFlight(j) => j = i)
                       /\ (dFeed'.there => dFeed'.profile = dServer[dSlug].profile)
      BY <1>2, <2>5, AloneFits
    <3> QED BY <1>2, <3>1, <3>2, RestFits
  <2>13. Deck!TypeOK'
    BY <1>1, <1>2, <2>1, <2>2, <2>5 DEF Deck!TypeOK, Over
  <2> QED BY <1>1, <1>2, <2>2, <2>6, <2>8, <2>9, <2>10, <2>11, <2>12, <2>13, OverCalls DEF DeckInv
<1> QED BY <1>4, <1>5

\* The reaction that is answered is one less under way, and its card is on its
\* way no longer.
LEMMA LiveLess ==
  ASSUME LiveFits, Deck!TypeOK, NEW i \in Deck!Live, Deck!Live' = Deck!Live \ {i},
         \A j \in Deck!Calls : dCall'[j].card = dCall[j].card,
         dPending' = dPending \ {dCall[i].card},
         dCount' = IF dCount = 0 THEN 0 ELSE dCount - 1
  PROVE  LiveFits'
<1>1. Deck!Live \subseteq Deck!Calls /\ IsFiniteSet(Deck!Live)
  <2>1. IsFiniteSet(1..MaxCalls)
    BY FS_Interval, DeckAssumption
  <2> QED BY <2>1, FS_Subset DEF Deck!Live, Deck!Calls
<1>2. /\ dCount = Cardinality(Deck!Live) /\ dCount \in Nat
      /\ dPending = {dCall[j].card : j \in Deck!Live}
      /\ Cardinality(dPending) = dCount
      /\ \A j, k \in Deck!Live : dCall[j].card = dCall[k].card => j = k
  BY DEF LiveFits, Deck!CountIsPending, Deck!TypeOK, Deck!Cardinality, Cardinality
<1>3. Cardinality(Deck!Live') = dCount - 1 /\ Cardinality(Deck!Live') \in Nat
  <2>1. Cardinality(Deck!Live \ {i}) = Cardinality(Deck!Live) - 1
    BY <1>1, FS_RemoveElement
  <2>2. IsFiniteSet(Deck!Live \ {i})
    BY <1>1, FS_Subset
  <2>3. Cardinality(Deck!Live \ {i}) \in Nat
    BY <2>2, FS_CardinalityType
  <2> QED BY <1>2, <2>1, <2>3
<1>4. dCount' = dCount - 1
  BY <1>2, <1>3
<1>5. dPending' = {dCall'[j].card : j \in Deck!Live'}
  <2>1. \A j \in Deck!Live : dCall[j].card = dCall[i].card <=> j = i
    BY <1>2
  <2> QED BY <1>1, <1>2, <2>1
<1>6. Cardinality(dPending') = dCount'
  <2>1. IsFiniteSet(dPending)
    <3> DEFINE f == [j \in Deck!Live |-> dCall[j].card]
    <3>1. f \in Surjection(Deck!Live, dPending)
      BY <1>2 DEF Surjection
    <3> QED BY <1>1, <3>1, FS_Surjection
  <2>2. dCall[i].card \in dPending
    BY <1>2
  <2>3. Cardinality(dPending \ {dCall[i].card}) = Cardinality(dPending) - 1
    BY <2>1, <2>2, FS_RemoveElement
  <2> QED BY <1>2, <1>4, <2>3
<1>7. \A j, k \in Deck!Live' : dCall'[j].card = dCall'[k].card => j = k
  BY <1>1, <1>2
<1> QED BY <1>3, <1>4, <1>5, <1>6, <1>7
        DEF LiveFits, Deck!CountIsPending, Deck!Cardinality, Cardinality

\* A card that is given back stands on top of the others.
LEMMA RestoredProperties ==
  ASSUME NEW cards \in Seq(Deck!Card), NEW card \in Deck!Card,
         Deck!IsInjective(cards), card \notin Deck!Range(cards)
  PROVE  /\ Deck!Restored(cards, card) \in Seq(Deck!Card)
         /\ Deck!IsInjective(Deck!Restored(cards, card))
         /\ Deck!Range(Deck!Restored(cards, card)) = Deck!Range(cards) \cup {card}
         /\ Deck!Restored(cards, card) # <<>> /\ Head(Deck!Restored(cards, card)) = card
<1> DEFINE s == <<card>> \o cards
<1>1. Deck!Restored(cards, card) = s
  BY DEF Deck!Restored
<1>2. /\ s \in Seq(Deck!Card) /\ Len(s) = Len(cards) + 1 /\ Len(cards) \in Nat
      /\ s[1] = card /\ \A n \in 1..Len(cards) : s[n + 1] = cards[n]
  OBVIOUS
<1>3. DOMAIN s = 1..(Len(cards) + 1) /\ DOMAIN cards = 1..Len(cards)
  BY <1>2
<1> HIDE DEF s
<1>4. \A n \in DOMAIN s : n = 1 \/ (n - 1 \in DOMAIN cards /\ s[n] = cards[n - 1])
  <2> SUFFICES ASSUME NEW n \in DOMAIN s, n # 1
               PROVE  n - 1 \in DOMAIN cards /\ s[n] = cards[n - 1]
    OBVIOUS
  <2>1. n - 1 \in 1..Len(cards) /\ (n - 1) + 1 = n
    BY <1>2, <1>3
  <2> QED BY <1>2, <1>3, <2>1
<1>5. \A n \in DOMAIN cards : cards[n] # card
  BY DEF Deck!Range
<1>6. Deck!IsInjective(s)
  <2> SUFFICES ASSUME NEW m \in DOMAIN s, NEW n \in DOMAIN s, s[m] = s[n] PROVE m = n
    BY DEF Deck!IsInjective
  <2>1. CASE m = 1 \/ n = 1
    BY <1>2, <1>4, <1>5, <2>1
  <2>2. CASE m # 1 /\ n # 1
    <3>1. m - 1 = n - 1
      BY <1>4, <2>2 DEF Deck!IsInjective
    <3>2. m \in Int /\ n \in Int
      BY <1>2, <1>3
    <3> QED BY <3>1, <3>2
  <2> QED BY <2>1, <2>2
<1>7. Deck!Range(s) = Deck!Range(cards) \cup {card}
  <2>1. ASSUME NEW n \in DOMAIN s PROVE s[n] \in Deck!Range(cards) \cup {card}
    BY <1>2, <1>4 DEF Deck!Range
  <2>2. ASSUME NEW n \in DOMAIN cards PROVE cards[n] \in Deck!Range(s)
    <3>1. n + 1 \in DOMAIN s /\ s[n + 1] = cards[n]
      BY <1>2, <1>3
    <3> QED BY <3>1 DEF Deck!Range
  <2>3. card \in Deck!Range(s)
    <3>1. 1 \in DOMAIN s
      BY <1>2, <1>3
    <3> QED BY <1>2, <3>1 DEF Deck!Range
  <2> QED BY <2>1, <2>2, <2>3 DEF Deck!Range
<1>8. s # <<>> /\ Head(s) = card
  BY <1>2
<1> QED BY <1>1, <1>2, <1>6, <1>7, <1>8

LEMMA FeedbackAnswerInv ==
  ASSUME DeckInv, NEW i \in Deck!Calls, Deck!FeedbackAnswer(i)
  PROVE  DeckInv'
<1>1. DeckTypes /\ Deck!TypeOK
  BY DEF DeckInv, DeckTypes
<1>2. /\ dCall[i].kind = "react" /\ dCall[i].state \in {"ok", "error"} /\ Deck!InFlight(i)
      /\ dCall' = Deck!Received(i)
      /\ UNCHANGED <<dSlug, dEpoch, dServer, dSeen, dVisited, dAgain, dBlurred>>
  BY DEF Deck!FeedbackAnswer, Deck!InFlight
<1>3. ~Loads(i) /\ ~Selects(i) /\ ~Resets(i)
  BY <1>2 DEF Loads, Selects, Resets
<1>4. CASE ~Deck!Concerns(i)
  <2>1. UNCHANGED <<dFeed, dUi, dDone, dPending, dCount>>
    BY <1>4 DEF Deck!FeedbackAnswer
  <2>2. dCall[i].epoch # dEpoch /\ i \notin Deck!Live
    BY <1>4 DEF Deck!Concerns, DeckInv, CallFits, Deck!Live
  <2> QED BY <1>2, <1>3, <2>1, <2>2, IgnoredInv
<1>5. CASE Deck!Concerns(i)
  <2> DEFINE card == dCall[i].card
             v == dCall[i].profile
  <2>1. i \in Deck!Live /\ dCall[i].org = dSlug /\ dCall[i].epoch = dEpoch
    BY <1>2, <1>5 DEF Deck!Concerns, Deck!Live
  <2>2. card \in dPending /\ card \in Deck!Card /\ card[1] = dSlug /\ v \in Deck!Version
    BY <1>1, <1>2, <2>1, CallTyped DEF DeckInv, LiveFits, Deck!CountIsPending, CallFits
  <2>3. ~dUi.loading /\ dFeed.there
    BY <2>2 DEF DeckInv, EmptyFits
  <2>4. ~dAgain => \A j \in Deck!Calls : ~Selects(j)
    BY <2>2 DEF DeckInv, SelectionFits
  <2>5. Over(i)
    BY <1>1, <1>2, ReceivedOver
  <2>6. /\ dPending' = dPending \ {card}
        /\ dCount' = IF dCount = 0 THEN 0 ELSE dCount - 1
    BY <1>5 DEF Deck!FeedbackAnswer
  <2>7. /\ dUi'.loading = dUi.loading /\ dUi'.generating = dUi.generating
        /\ dUi'.resetting = dUi.resetting
        /\ dUi' \in [loading : BOOLEAN, generating : BOOLEAN, resetting : BOOLEAN,
                     rejecting : BOOLEAN, picked : Deck!Card \cup {Deck!NoCard}]
    <3>1. CASE dCall[i].state = "error"
      <4>1. dUi' = [dUi EXCEPT !.rejecting = Deck!ReasonsReopen(i),
                               !.picked = IF dCall[i].reaction = "REASON"
                                          THEN dCall[i].card ELSE Deck!NoCard]
        BY <1>5, <3>1 DEF Deck!FeedbackAnswer
      <4>2. Deck!ReasonsReopen(i) \in BOOLEAN
        BY DEF Deck!ReasonsReopen
      <4> QED BY <1>1, <2>2, <4>1, <4>2 DEF Deck!TypeOK
    <3>2. CASE dCall[i].state # "error"
      <4>1. dUi' = dUi
        BY <1>5, <3>2 DEF Deck!FeedbackAnswer
      <4> QED BY <1>1, <4>1 DEF Deck!TypeOK
    <3> QED BY <3>1, <3>2
  <2>8. /\ \A j \in Deck!Calls : CallFits(j)'
        /\ \A j \in Deck!Calls : dCall'[j].kind = dCall[j].kind /\ dCall'[j].card = dCall[j].card
        /\ \A j \in Deck!Calls : Deck!InFlight(j)' <=> Deck!InFlight(j) /\ j # i
        /\ \A j \in Deck!Calls : (Loads(j)' <=> Loads(j)) /\ (Selects(j)' <=> Selects(j))
                                 /\ (Resets(j)' <=> Resets(j))
        /\ Deck!Live' = Deck!Live \ {i}
    BY <1>1, <1>2, <1>3, <2>5, OverCalls DEF SameCall
  <2>9. FlagsFit'
    BY <2>7, <2>8 DEF DeckInv, FlagsFit
  <2>10. SelectionFits'
    BY <1>2, <2>4, <2>8 DEF SelectionFits
  <2>11. LiveFits'
    BY <1>1, <2>1, <2>6, <2>8, LiveLess DEF DeckInv
  <2>12. /\ Deck!IsInjective(dFeed.cards) /\ \A n \in DOMAIN dFeed.cards : dFeed.cards[n][1] = dSlug
         /\ dFeed.cards \in Seq(Deck!Card)
         /\ dFeed \in [there : BOOLEAN, cards : Seq(Deck!Card), profile : Deck!Version]
         /\ dFeed.profile \in Deck!Version
    BY <1>1 DEF Deck!TypeOK, DeckInv, CardsFit
  <2>13. /\ dPending' \in SUBSET Deck!Card /\ dCount' \in Nat
    BY <1>1, <2>6 DEF Deck!TypeOK
  <2>14. CASE dCall[i].state = "error"
    <3> DEFINE cards == Deck!Restored(dFeed.cards, card)
    <3>1. dFeed' = [dFeed EXCEPT !.cards = cards] /\ dDone' = dDone
      BY <1>5, <2>3, <2>14 DEF Deck!FeedbackAnswer
    <3>2. /\ dUi'.rejecting = (dCall[i].reaction = "REASON")
          /\ dCall[i].reaction = "REASON" => dUi'.picked = card
      <4>1. dUi' = [dUi EXCEPT !.rejecting = Deck!ReasonsReopen(i),
                               !.picked = IF dCall[i].reaction = "REASON"
                                          THEN dCall[i].card ELSE Deck!NoCard]
        BY <1>5, <2>14 DEF Deck!FeedbackAnswer
      <4> QED BY <1>1, <4>1 DEF Deck!TypeOK, Deck!ReasonsReopen
    <3>3. /\ cards \in Seq(Deck!Card) /\ Deck!IsInjective(cards)
          /\ \A n \in DOMAIN cards : cards[n][1] = dSlug
          /\ card \notin Deck!Range(dFeed.cards) =>
               /\ Deck!Range(cards) = Deck!Range(dFeed.cards) \cup {card}
               /\ cards # <<>> /\ Head(cards) = card
      <4>1. CASE card \in Deck!Range(dFeed.cards)
        BY <2>12, <4>1 DEF Deck!Restored
      <4>2. CASE card \notin Deck!Range(dFeed.cards)
        <5>1. /\ cards \in Seq(Deck!Card) /\ Deck!IsInjective(cards)
              /\ Deck!Range(cards) = Deck!Range(dFeed.cards) \cup {card}
              /\ cards # <<>> /\ Head(cards) = card
          BY <2>2, <2>12, <4>2, RestoredProperties
        <5>2. \A c \in Deck!Range(dFeed.cards) : c[1] = dSlug
          BY <2>12 DEF Deck!Range
        <5>3. \A n \in DOMAIN cards : cards[n] \in Deck!Range(cards)
          BY DEF Deck!Range
        <5> QED BY <2>2, <5>1, <5>2, <5>3
      <4> QED BY <4>1, <4>2
    <3> HIDE DEF cards, card
    <3>4. /\ dFeed' \in [there : BOOLEAN, cards : Seq(Deck!Card), profile : Deck!Version]
          /\ dFeed'.there = dFeed.there /\ dFeed'.cards = cards /\ dFeed'.profile = dFeed.profile
      BY <2>12, <3>1, <3>3
    <3>5. EmptyFits'
      BY <2>3, <2>7, <3>4 DEF EmptyFits
    <3>6. ~dAgain => card \notin Deck!Range(dFeed.cards)
      BY <2>2 DEF DeckInv, CardsFit
    <3>7. CardsFit'
      <4>1. ASSUME ~dAgain
            PROVE  /\ dSeen' \subseteq Deck!Range(cards) \cup dPending' \cup dDone'
                   /\ Deck!Range(cards) \cap (dPending' \cup dDone') = {}
                   /\ dPending' \cap dDone' = {}
        <5>1. Deck!Range(cards) = Deck!Range(dFeed.cards) \cup {card}
          BY <3>3, <3>6, <4>1
        <5>2. /\ dSeen \subseteq Deck!Range(dFeed.cards) \cup dPending \cup dDone
              /\ Deck!Range(dFeed.cards) \cap (dPending \cup dDone) = {}
              /\ dPending \cap dDone = {}
          BY <4>1 DEF DeckInv, CardsFit
        <5> QED BY <1>2, <2>2, <2>6, <3>1, <5>1, <5>2
      <4>2. Deck!ReasonsForTopCard'
        BY <1>2, <3>2, <3>3, <3>4, <3>6 DEF Deck!ReasonsForTopCard
      <4>3. \A c \in dDone' : dServer'[c[1]].reacted[c[2]] # "NONE"
        BY <1>2, <3>1 DEF DeckInv, CardsFit
      <4> QED BY <1>2, <3>3, <3>4, <4>1, <4>2, <4>3 DEF CardsFit
    <3>8. ProfilesFit'
      <4>1. \A j \in Deck!Calls : dCall[j].state = "ok" => dCall'[j] = dCall[j]
        BY <2>5, <2>14 DEF Over
      <4>2. \A j \in Deck!Calls : dCall'[j].state = "ok" => dCall'[j] = dCall[j]
        BY <2>5 DEF Over
      <4>3. \A j \in Deck!Calls : Deck!InFlight(j)' => dCall'[j] = dCall[j]
        BY <2>5 DEF Over, Deck!InFlight
      <4> QED BY <1>2, <2>8, <3>4, <4>1, <4>2, <4>3 DEF DeckInv, ProfilesFit
    <3>9. Deck!TypeOK'
      BY <1>1, <1>2, <2>5, <2>7, <2>13, <3>1, <3>4 DEF Deck!TypeOK, Over
    <3> QED BY <1>2, <2>8, <2>9, <2>10, <2>11, <3>5, <3>7, <3>8, <3>9 DEF DeckInv
  <2>15. CASE dCall[i].state = "ok"
    <3> DEFINE w == Deck!Merged(dFeed.profile, v)
    <3>1. dFeed' = [dFeed EXCEPT !.profile = w] /\ dDone' = dDone \cup {card} /\ dUi' = dUi
      BY <1>5, <2>15, <2>12 DEF Deck!FeedbackAnswer
    <3>2. w \in Deck!Version
      BY <2>2, <2>12 DEF Deck!Merged
    <3>3. dServer[card[1]].reacted[card[2]] # "NONE"
      BY <1>2, <2>1, <2>2, <2>15 DEF DeckInv, CallFits
    <3>4. w \in {v, dFeed.profile} /\ (Deck!Before(v, dFeed.profile) => w = dFeed.profile)
          /\ (~Deck!Before(v, dFeed.profile) => w = v)
      BY DEF Deck!Merged, Deck!IsOlder
    <3>5. v = dCall[i].profile
      OBVIOUS
    <3> HIDE DEF w, card, v
    <3>6. /\ dFeed' \in [there : BOOLEAN, cards : Seq(Deck!Card), profile : Deck!Version]
          /\ dFeed'.there = dFeed.there /\ dFeed'.cards = dFeed.cards /\ dFeed'.profile = w
      BY <2>12, <3>1, <3>2
    <3>7. EmptyFits'
      BY <2>3, <2>7, <3>6 DEF EmptyFits
    <3>8. CardsFit'
      <4>1. ASSUME ~dAgain
            PROVE  /\ dSeen' \subseteq Deck!Range(dFeed.cards) \cup dPending' \cup dDone'
                   /\ Deck!Range(dFeed.cards) \cap (dPending' \cup dDone') = {}
                   /\ dPending' \cap dDone' = {}
        <5>1. /\ dSeen \subseteq Deck!Range(dFeed.cards) \cup dPending \cup dDone
              /\ Deck!Range(dFeed.cards) \cap (dPending \cup dDone) = {}
              /\ dPending \cap dDone = {}
          BY <4>1 DEF DeckInv, CardsFit
        <5> QED BY <1>2, <2>2, <2>6, <3>1, <5>1
      <4>2. Deck!ReasonsForTopCard'
        BY <1>2, <3>1, <3>6 DEF DeckInv, CardsFit, Deck!ReasonsForTopCard
      <4>3. \A c \in dDone' : dServer'[c[1]].reacted[c[2]] # "NONE"
        BY <1>2, <3>1, <3>3 DEF DeckInv, CardsFit
      <4> QED BY <1>2, <2>12, <3>6, <4>1, <4>2, <4>3 DEF CardsFit
    <3>9. ProfilesFit'
      <4> SUFFICES ASSUME ~dBlurred PROVE ProfilesFit'
        BY <1>2 DEF ProfilesFit
      <4> DEFINE P == dServer[dSlug].profile
      <4>1. P \in Deck!Version
        BY <1>1, ServerTyped DEF Deck!TypeOK
      <4>2. UpTo(v, P) /\ UpTo(dFeed.profile, P)
        BY <2>3, <2>15, <3>5 DEF DeckInv, ProfilesFit
      <4>3. UpTo(w, P)
        BY <3>4, <4>2
      <4>4. v = P \/ dFeed.profile = P => w = P
        <5>1. CASE v = P
          <6>1. ~Deck!Before(v, dFeed.profile)
            BY <2>12, <4>1, <4>2, <5>1, UpToIrreflexive
          <6> QED BY <3>4, <5>1, <6>1
        <5>2. CASE dFeed.profile = P
          BY <3>4, <4>2, <5>2 DEF UpTo
        <5> QED BY <5>1, <5>2
      <4>5. \/ dFeed.profile = P
            \/ \E j \in Deck!Calls : /\ dCall[j].state = "ok" /\ dCall[j].kind \in {"react", "reset"}
                                     /\ dCall[j].profile = P
        BY <2>3 DEF DeckInv, ProfilesFit
      <4>6. \/ w = P
            \/ \E j \in Deck!Calls : /\ dCall'[j].state = "ok" /\ dCall'[j].kind \in {"react", "reset"}
                                     /\ dCall'[j].profile = P
        BY <2>5, <3>5, <4>4, <4>5 DEF Over
      <4>7. \A j \in Deck!Calls : dCall'[j].state = "ok" => dCall'[j] = dCall[j]
        BY <2>5 DEF Over
      <4>8. \A j \in Deck!Calls : Deck!InFlight(j)' => dCall'[j] = dCall[j]
        BY <2>5 DEF Over, Deck!InFlight
      <4> QED BY <1>2, <2>8, <3>6, <4>3, <4>6, <4>7, <4>8 DEF DeckInv, ProfilesFit
    <3>10. Deck!TypeOK'
      BY <1>1, <1>2, <2>2, <2>5, <2>13, <3>1, <3>6 DEF Deck!TypeOK, Over, card
    <3> QED BY <1>2, <2>8, <2>9, <2>10, <2>11, <3>7, <3>8, <3>9, <3>10 DEF DeckInv
  <2> QED BY <1>2, <2>14, <2>15
<1> QED BY <1>4, <1>5
-----------------------------------------------------------------------------
(* Calls that are made.                                                    *)

\* A call is added: where, and what it adds to those under way.
Added(k, c) ==
    /\ dCall' \in [Deck!Calls -> Deck!Call]
    /\ dCall[k].kind = "none" /\ dCall[k].state = "done" /\ dCall'[k] = c
    /\ \A j \in Deck!Calls \ {k} : dCall'[j] = dCall[j]
    /\ \A j \in Deck!Calls : Deck!InFlight(j)' <=> j = k \/ Deck!InFlight(j)
    /\ ~Deck!InFlight(k)

LEMMA SentAdded ==
  ASSUME DeckTypes, NEW c \in Deck!Call, c.state = "sent", Deck!Sends(dCall, c)
  PROVE  \E k \in Deck!Calls : Added(k, c)
<1>1. dCall \in [Deck!Calls -> Deck!Call]
  BY DEF DeckTypes, Deck!TypeOK
<1>2. PICK k \in Deck!Calls : /\ dCall[k].kind = "none" /\ dCall'[k] = c
                              /\ \A j \in Deck!Calls \ {k} : dCall'[j] = dCall[j]
  BY <1>1, CallSent
<1>3. dCall' \in [Deck!Calls -> Deck!Call]
  BY <1>1, CallSent
<1>4. dCall[k].state = "done"
  BY <1>2 DEF DeckTypes, CallFits
<1>5. Added(k, c)
  BY <1>2, <1>3, <1>4 DEF Added, Deck!InFlight
<1> QED BY <1>5

\* A call of this visit is added, and the visit goes on.
LEMMA AddedCalls ==
  ASSUME DeckTypes, NEW k \in Deck!Calls, NEW c \in Deck!Call, Added(k, c),
         c.kind # "none", c.state = "sent", c.org = dSlug, c.epoch = dEpoch,
         c.kind = "react" => c.card[1] = dSlug, dSlug \in dVisited,
         UNCHANGED <<dSlug, dEpoch, dVisited, dAgain, dServer>>
  PROVE  /\ \A j \in Deck!Calls : CallFits(j)'
         /\ \A j \in Deck!Calls : Loads(j)' <=> Loads(j) \/ (j = k /\ c.kind \in {"load", "first"})
         /\ \A j \in Deck!Calls : Selects(j)' <=> Selects(j) \/ (j = k /\ c.kind = "generate")
         /\ \A j \in Deck!Calls : Resets(j)' <=> Resets(j) \/ (j = k /\ c.kind = "reset")
         /\ \A j \in Deck!Calls : Loads(j) \/ Selects(j) \/ Resets(j) \/ j \in Deck!Live => j # k
         /\ Deck!Live' = IF c.kind = "react" THEN Deck!Live \cup {k} ELSE Deck!Live
<1>1. \A j \in Deck!Calls : Loads(j) \/ Selects(j) \/ Resets(j) \/ j \in Deck!Live => j # k
  BY DEF Added, Loads, Selects, Resets, Deck!Live
<1>2. \A j \in Deck!Calls : /\ Loads(j)' <=> Loads(j) \/ (j = k /\ c.kind \in {"load", "first"})
                            /\ Selects(j)' <=> Selects(j) \/ (j = k /\ c.kind = "generate")
                            /\ Resets(j)' <=> Resets(j) \/ (j = k /\ c.kind = "reset")
  BY <1>1 DEF Added, Loads, Selects, Resets
<1>3. Deck!Live' = IF c.kind = "react" THEN Deck!Live \cup {k} ELSE Deck!Live
  BY <1>1 DEF Added, Deck!Live
<1>4. \A j \in Deck!Calls : CallFits(j)'
  <2>1. ASSUME NEW j \in Deck!Calls, j # k PROVE CallFits(j)'
    <3>1. ReactionsKept /\ Follows(dCall[j], dCall'[j])
      BY <2>1 DEF ReactionsKept, Added, Follows
    <3> QED BY <3>1, CallKept
  <2>2. CallFits(k)'
    <3>1. dEpoch' \in Nat
      BY DEF DeckTypes, Deck!TypeOK
    <3> QED BY <3>1, CallNew DEF Added
  <2> QED BY <2>1, <2>2
<1> QED BY <1>1, <1>2, <1>3, <1>4

LEMMA SwitchInv ==
  ASSUME DeckInv, NEW o \in Org, Deck!Switch(o)
  PROVE  DeckInv'
<1>1. DeckTypes /\ Deck!TypeOK /\ dSlug \in dVisited
  BY DEF DeckInv, DeckTypes
<1> DEFINE c == Deck!NewCall("load", o, dEpoch + 1, Deck!NoCall.card, Deck!NoCall.reaction)
<1>2. /\ o # dSlug /\ dSlug' = o /\ dEpoch' = dEpoch + 1
      /\ dFeed' = Deck!NoFeed /\ dPending' = {} /\ dCount' = 0 /\ dUi' = Deck!Clear
      /\ Deck!Sends(dCall, c) /\ dSeen' = {} /\ dDone' = {}
      /\ dVisited' = dVisited \cup {o} /\ dAgain' = (dAgain \/ o \in dVisited)
      /\ dBlurred' = (dBlurred \/ ~Deck!Quiet) /\ dServer' = dServer
  BY DEF Deck!Switch
<1>3. dEpoch \in Nat /\ dEpoch + 1 \in Nat /\ dSlug \in Org
  BY <1>1 DEF Deck!TypeOK
<1>4. /\ c \in Deck!Call /\ c.kind = "load" /\ c.org = o /\ c.epoch = dEpoch + 1
      /\ c.state = "sent"
  BY <1>3, NoCallTyped, NewCallTyped
<1> HIDE DEF c
<1>5. PICK k \in Deck!Calls : Added(k, c)
  BY <1>1, <1>2, <1>4, SentAdded
<1>6. ASSUME NEW j \in Deck!Calls, j # k
      PROVE  /\ dCall'[j] = dCall[j] /\ dCall'[j].epoch < dEpoch' /\ dCall'[j].epoch # dEpoch'
             /\ ~dAgain' => dCall'[j].kind = "none" \/ dCall'[j].org # dSlug'
  <2>1. dCall'[j] = dCall[j] /\ CallFits(j) /\ dCall[j].epoch \in Nat
    BY <1>1, <1>5, <1>6, CallTyped DEF Added, DeckInv
  <2>2. dCall'[j].epoch < dEpoch' /\ dCall'[j].epoch # dEpoch'
    <3>1. dCall[j].epoch <= dEpoch
      BY <2>1 DEF CallFits
    <3> QED BY <1>2, <1>3, <2>1, <3>1
  <2>3. ~dAgain' => dCall[j].kind = "none" \/ dCall[j].org # o
    BY <1>2, <2>1 DEF CallFits
  <2> QED BY <1>2, <2>1, <2>2, <2>3
<1>7. \A j \in Deck!Calls : CallFits(j)'
  <2>1. ASSUME NEW j \in Deck!Calls, j # k PROVE CallFits(j)'
    <3>1. CallFits(j) /\ dCall'[j].epoch <= dEpoch'
      <4>1. dCall[j].epoch \in Nat /\ CallFits(j) /\ dCall'[j] = dCall[j]
        BY <1>1, <1>6, <2>1, CallTyped DEF DeckInv
      <4> QED BY <1>2, <1>3, <4>1 DEF CallFits
    <3> QED BY <1>2, <1>6, <2>1, <3>1 DEF CallFits
  <2>2. CallFits(k)'
    BY <1>2, <1>3, <1>4, <1>5, CallNew DEF Added
  <2> QED BY <2>1, <2>2
<1>8. \A j \in Deck!Calls : Loads(j)' <=> j = k
  BY <1>2, <1>4, <1>5, <1>6 DEF Added, Loads
<1>9. ~dAgain' => \A j \in Deck!Calls : ~Selects(j)'
  BY <1>4, <1>5, <1>6 DEF Added, Selects, Deck!InFlight, DeckInv, CallFits
<1>10. Deck!Live' = {}
  BY <1>4, <1>5, <1>6 DEF Added, Deck!Live
<1>11. /\ dUi'.loading /\ ~dUi'.generating /\ ~dUi'.resetting /\ ~dUi'.rejecting
       /\ dFeed'.cards = <<>> /\ ~dFeed'.there
  BY <1>2 DEF Deck!Clear, Deck!NoFeed
<1>12. FlagsFit'
  BY <1>8, <1>11 DEF FlagsFit
<1>13. EmptyFits'
  BY <1>2 DEF EmptyFits
<1>14. SelectionFits'
  BY <1>9 DEF SelectionFits
<1>15. LiveFits'
  <2>1. Cardinality({}) = 0
    BY FS_EmptySet
  <2> QED BY <1>2, <1>10, <2>1
          DEF LiveFits, Deck!CountIsPending, Deck!Cardinality, Cardinality
<1>16. CardsFit'
  <2>1. Deck!IsInjective(dFeed'.cards) /\ DOMAIN dFeed'.cards = {} /\ Deck!Range(dFeed'.cards) = {}
    BY <1>11, NoCards DEF Deck!Range
  <2> QED BY <1>2, <1>11, <2>1 DEF CardsFit, Deck!ReasonsForTopCard
<1>17. ProfilesFit'
  <2> SUFFICES ASSUME ~dBlurred' PROVE ProfilesFit'
    BY DEF ProfilesFit
  <2>1. \A j \in Deck!Calls : Deck!InFlight(j)' => j = k
    BY <1>2, <1>5 DEF Added, Deck!Quiet
  <2>2. \A j \in Deck!Calls : dCall'[j].state # "ok"
    BY <1>4, <1>5, <2>1 DEF Added, Deck!InFlight
  <2>3. dCall'[k].epoch = dEpoch' /\ dCall'[k].kind = "load"
    BY <1>2, <1>4, <1>5 DEF Added
  <2> QED BY <1>11, <2>1, <2>2, <2>3 DEF ProfilesFit
<1>18. Deck!TypeOK'
  <2>1. dFeed' \in [there : BOOLEAN, cards : Seq(Deck!Card), profile : Deck!Version]
    BY <1>2, NoCards DEF Deck!NoFeed, Deck!NoVersion, Deck!Version
  <2>2. dUi' \in [loading : BOOLEAN, generating : BOOLEAN, resetting : BOOLEAN,
                  rejecting : BOOLEAN, picked : Deck!Card \cup {Deck!NoCard}]
    BY <1>2 DEF Deck!Clear
  <2> QED BY <1>1, <1>2, <1>3, <1>5, <2>1, <2>2 DEF Deck!TypeOK, Added
<1> QED BY <1>2, <1>7, <1>12, <1>13, <1>14, <1>15, <1>16, <1>17, <1>18 DEF DeckInv

LEMMA GenerateInv ==
  ASSUME DeckInv, Deck!GenerateNewSelection
  PROVE  DeckInv'
<1>1. DeckTypes /\ Deck!TypeOK /\ dSlug \in dVisited
  BY DEF DeckInv, DeckTypes
<1> DEFINE c == Deck!NewCall("generate", dSlug, dEpoch, Deck!NoCall.card, Deck!NoCall.reaction)
<1>2. /\ ~dUi.loading /\ dFeed.cards = <<>> /\ ~dUi.generating /\ dCount = 0
      /\ dUi' = [dUi EXCEPT !.generating = TRUE, !.rejecting = FALSE, !.picked = Deck!NoCard]
      /\ Deck!Sends(dCall, c) /\ dBlurred' = (dBlurred \/ ~Deck!Quiet)
      /\ UNCHANGED <<dSlug, dEpoch, dFeed, dPending, dCount, dServer, dSeen, dDone, dVisited,
                     dAgain>>
  BY DEF Deck!GenerateNewSelection, Deck!Asks
<1>3. dEpoch \in Nat /\ dSlug \in Org
  BY <1>1 DEF Deck!TypeOK
<1>4. /\ c \in Deck!Call /\ c.kind = "generate" /\ c.org = dSlug /\ c.epoch = dEpoch
      /\ c.state = "sent"
  BY <1>3, NoCallTyped, NewCallTyped
<1> HIDE DEF c
<1>5. PICK k \in Deck!Calls : Added(k, c)
  BY <1>1, <1>2, <1>4, SentAdded
<1>6. /\ \A j \in Deck!Calls : CallFits(j)'
      /\ \A j \in Deck!Calls : Loads(j)' <=> Loads(j)
      /\ \A j \in Deck!Calls : Selects(j)' <=> Selects(j) \/ j = k
      /\ \A j \in Deck!Calls : Resets(j)' <=> Resets(j)
      /\ Deck!Live' = Deck!Live
      /\ \A j \in Deck!Live : j # k
  BY <1>1, <1>2, <1>4, <1>5, AddedCalls
<1>7. /\ dUi'.loading = dUi.loading /\ dUi'.generating /\ dUi'.resetting = dUi.resetting
      /\ ~dUi'.rejecting
      /\ dUi' \in [loading : BOOLEAN, generating : BOOLEAN, resetting : BOOLEAN,
                    rejecting : BOOLEAN, picked : Deck!Card \cup {Deck!NoCard}]
  BY <1>1, <1>2 DEF Deck!TypeOK
<1>8. FlagsFit'
  <2>1. \A j \in Deck!Calls : ~Loads(j)'
    BY <1>2, <1>6 DEF DeckInv, FlagsFit
  <2>2. dUi'.resetting => \E j \in Deck!Calls : Resets(j)'
    BY <1>6, <1>7 DEF DeckInv, FlagsFit
  <2> QED BY <1>2, <1>6, <1>7, <2>1, <2>2 DEF FlagsFit
<1>9. EmptyFits'
  BY <1>2, <1>7 DEF DeckInv, EmptyFits
<1>10. dPending = {}
  <2>1. IsFiniteSet(Deck!Live) /\ Cardinality(Deck!Live) = 0
    <3>1. IsFiniteSet(1..MaxCalls)
      BY FS_Interval, DeckAssumption
    <3>2. IsFiniteSet(Deck!Live)
      BY <3>1, FS_Subset DEF Deck!Live, Deck!Calls
    <3> QED BY <1>2, <3>2
            DEF DeckInv, LiveFits, Deck!CountIsPending, Deck!Cardinality, Cardinality
  <2>2. Deck!Live = {}
    BY <2>1, FS_EmptySet
  <2> QED BY <2>2 DEF DeckInv, LiveFits, Deck!CountIsPending
<1>11. SelectionFits'
  <2> SUFFICES ASSUME ~dAgain PROVE SelectionFits'
    BY <1>2 DEF SelectionFits
  <2>1. \A j \in Deck!Calls : Selects(j)' <=> j = k
    BY <1>2, <1>6 DEF DeckInv, SelectionFits
  <2>2. dCall'[k].state = "sent"
    BY <1>4, <1>5 DEF Added
  <2> QED BY <1>2, <1>7, <1>10, <2>1, <2>2 DEF SelectionFits
<1>12. LiveFits'
  <2>1. \A j \in Deck!Live : dCall'[j].card = dCall[j].card
    BY <1>5, <1>6 DEF Added, Deck!Live
  <2> QED BY <1>2, <1>6, <2>1, LiveKept DEF DeckInv
<1>13. CardsFit'
  BY <1>2, <1>7 DEF DeckInv, CardsFit, Deck!ReasonsForTopCard
<1>14. ProfilesFit'
  <2> SUFFICES ASSUME ~dBlurred' PROVE ProfilesFit'
    BY DEF ProfilesFit
  <2>1. ~dBlurred /\ \A j \in Deck!Calls : ~Deck!InFlight(j)
    BY <1>2 DEF Deck!Quiet
  <2>2. \A j \in Deck!Calls : Deck!InFlight(j)' => j = k
    BY <1>5, <2>1 DEF Added
  <2>3. \A j \in Deck!Calls : dCall'[j].state # "ok" /\ dCall[j].state # "ok"
    BY <1>4, <1>5, <2>1, <2>2 DEF Added, Deck!InFlight
  <2>4. dCall'[k].epoch = dEpoch' /\ dCall'[k].kind = "generate"
    BY <1>2, <1>4, <1>5 DEF Added
  <2>5. dFeed'.there => dFeed'.profile = dServer'[dSlug'].profile
    BY <1>2, <2>1, <2>3 DEF DeckInv, ProfilesFit
  <2> QED BY <2>2, <2>3, <2>4, <2>5 DEF ProfilesFit, UpTo
<1>15. Deck!TypeOK'
  <2>1. dBlurred' \in BOOLEAN
    BY <1>1, <1>2 DEF Deck!TypeOK
  <2> QED BY <1>1, <1>2, <1>5, <1>7, <2>1 DEF Deck!TypeOK, Added
<1> QED BY <1>1, <1>2, <1>6, <1>8, <1>9, <1>11, <1>12, <1>13, <1>14, <1>15 DEF DeckInv

LEMMA ResetInv ==
  ASSUME DeckInv, Deck!ResetPreferences
  PROVE  DeckInv'
<1>1. DeckTypes /\ Deck!TypeOK /\ dSlug \in dVisited
  BY DEF DeckInv, DeckTypes
<1> DEFINE c == Deck!NewCall("reset", dSlug, dEpoch, Deck!NoCall.card, Deck!NoCall.reaction)
<1>2. /\ ~dUi.loading /\ dFeed.there
      /\ dUi' = [dUi EXCEPT !.resetting = TRUE]
      /\ Deck!Sends(dCall, c) /\ dBlurred' = (dBlurred \/ ~Deck!Quiet)
      /\ UNCHANGED <<dSlug, dEpoch, dFeed, dPending, dCount, dServer, dSeen, dDone, dVisited,
                     dAgain>>
  BY DEF Deck!ResetPreferences, Deck!Asks
<1>3. dEpoch \in Nat /\ dSlug \in Org
  BY <1>1 DEF Deck!TypeOK
<1>4. /\ c \in Deck!Call /\ c.kind = "reset" /\ c.org = dSlug /\ c.epoch = dEpoch
      /\ c.state = "sent"
  BY <1>3, NoCallTyped, NewCallTyped
<1> HIDE DEF c
<1>5. PICK k \in Deck!Calls : Added(k, c)
  BY <1>1, <1>2, <1>4, SentAdded
<1>6. /\ \A j \in Deck!Calls : CallFits(j)'
      /\ \A j \in Deck!Calls : Loads(j)' <=> Loads(j)
      /\ \A j \in Deck!Calls : Selects(j)' <=> Selects(j)
      /\ \A j \in Deck!Calls : Resets(j)' <=> Resets(j) \/ j = k
      /\ Deck!Live' = Deck!Live
      /\ \A j \in Deck!Calls : Loads(j) \/ Selects(j) \/ j \in Deck!Live => j # k
  BY <1>1, <1>2, <1>4, <1>5, AddedCalls
<1>7. /\ dUi'.loading = dUi.loading /\ dUi'.generating = dUi.generating
      /\ dUi'.rejecting = dUi.rejecting /\ dUi'.picked = dUi.picked
      /\ dUi' \in [loading : BOOLEAN, generating : BOOLEAN, resetting : BOOLEAN,
                    rejecting : BOOLEAN, picked : Deck!Card \cup {Deck!NoCard}]
  BY <1>1, <1>2 DEF Deck!TypeOK
<1>8. FlagsFit'
  <2>1. \A j \in Deck!Calls : Loads(j) => dCall'[j].kind = dCall[j].kind
    BY <1>5, <1>6 DEF Added
  <2>2. dUi'.generating => \E j \in Deck!Calls : Selects(j)' \/ (Loads(j)' /\ dCall'[j].kind = "first")
    BY <1>6, <1>7, <2>1 DEF DeckInv, FlagsFit
  <2>3. \A i, j \in Deck!Calls : Loads(i)' /\ Loads(j)' => i = j
    BY <1>6 DEF DeckInv, FlagsFit
  <2>4. \A j \in Deck!Calls : ~Loads(j)'
    BY <1>2, <1>6 DEF DeckInv, FlagsFit
  <2> QED BY <1>2, <1>6, <1>7, <2>2, <2>3, <2>4 DEF FlagsFit
<1>9. EmptyFits'
  BY <1>2, <1>7 DEF DeckInv, EmptyFits
<1>10. SelectionFits'
  <2>1. \A j \in Deck!Calls : Selects(j) => dCall'[j] = dCall[j]
    BY <1>5, <1>6 DEF Added
  <2> QED BY <1>2, <1>6, <1>7, <2>1 DEF DeckInv, SelectionFits
<1>11. LiveFits'
  <2>1. \A j \in Deck!Live : dCall'[j].card = dCall[j].card
    BY <1>5, <1>6 DEF Added, Deck!Live
  <2> QED BY <1>2, <1>6, <2>1, LiveKept DEF DeckInv
<1>12. CardsFit'
  BY <1>2, <1>7 DEF DeckInv, CardsFit, Deck!ReasonsForTopCard
<1>13. ProfilesFit'
  <2> SUFFICES ASSUME ~dBlurred' PROVE ProfilesFit'
    BY DEF ProfilesFit
  <2>1. ~dBlurred /\ \A j \in Deck!Calls : ~Deck!InFlight(j)
    BY <1>2 DEF Deck!Quiet
  <2>2. \A j \in Deck!Calls : Deck!InFlight(j)' => j = k
    BY <1>5, <2>1 DEF Added
  <2>3. \A j \in Deck!Calls : dCall'[j].state # "ok" /\ dCall[j].state # "ok"
    BY <1>4, <1>5, <2>1, <2>2 DEF Added, Deck!InFlight
  <2>4. dCall'[k].epoch = dEpoch' /\ dCall'[k].kind = "reset"
    BY <1>2, <1>4, <1>5 DEF Added
  <2>5. dFeed'.there => dFeed'.profile = dServer'[dSlug'].profile
    BY <1>2, <2>1, <2>3 DEF DeckInv, ProfilesFit
  <2> QED BY <2>2, <2>3, <2>4, <2>5 DEF ProfilesFit, UpTo
<1>14. Deck!TypeOK'
  <2>1. dBlurred' \in BOOLEAN
    BY <1>1, <1>2 DEF Deck!TypeOK
  <2> QED BY <1>1, <1>2, <1>5, <1>7, <2>1 DEF Deck!TypeOK, Added
<1> QED BY <1>1, <1>2, <1>6, <1>8, <1>9, <1>10, <1>11, <1>12, <1>13, <1>14 DEF DeckInv

\* One more reaction is under way, about a card that was not on its way.
LEMMA LiveMore ==
  ASSUME LiveFits, Deck!TypeOK, NEW k \in Deck!Calls, k \notin Deck!Live,
         Deck!Live' = Deck!Live \cup {k},
         NEW card, dCall'[k].card = card, card \notin dPending,
         \A j \in Deck!Live : dCall'[j].card = dCall[j].card,
         dPending' = dPending \cup {card}, dCount' = dCount + 1
  PROVE  LiveFits'
<1>1. Deck!Live \subseteq Deck!Calls /\ IsFiniteSet(Deck!Live)
  <2>1. IsFiniteSet(1..MaxCalls)
    BY FS_Interval, DeckAssumption
  <2> QED BY <2>1, FS_Subset DEF Deck!Live, Deck!Calls
<1>2. /\ dCount = Cardinality(Deck!Live) /\ dCount \in Nat
      /\ dPending = {dCall[j].card : j \in Deck!Live}
      /\ Cardinality(dPending) = dCount
      /\ \A i, j \in Deck!Live : dCall[i].card = dCall[j].card => i = j
  BY DEF LiveFits, Deck!CountIsPending, Deck!TypeOK, Deck!Cardinality, Cardinality
<1>3. Cardinality(Deck!Live') = dCount'
  BY <1>1, <1>2, FS_AddElement
<1>4. dPending' = {dCall'[j].card : j \in Deck!Live'}
  BY <1>2
<1>5. Cardinality(dPending') = dCount'
  <2>1. IsFiniteSet(dPending)
    <3> DEFINE f == [j \in Deck!Live |-> dCall[j].card]
    <3>1. f \in Surjection(Deck!Live, dPending)
      BY <1>2 DEF Surjection
    <3> QED BY <1>1, <3>1, FS_Surjection
  <2>2. Cardinality(dPending \cup {card}) = Cardinality(dPending) + 1
    BY <2>1, FS_AddElement
  <2> QED BY <1>2, <2>2
<1>6. \A i, j \in Deck!Live' : dCall'[i].card = dCall'[j].card => i = j
  BY <1>2
<1> QED BY <1>3, <1>4, <1>5, <1>6
        DEF LiveFits, Deck!CountIsPending, Deck!Cardinality, Cardinality

\* The deck without its top.
LEMMA TopTaken ==
  ASSUME NEW cards \in Seq(Deck!Card), cards # <<>>, Deck!IsInjective(cards)
  PROVE  /\ Head(cards) \in Deck!Card /\ 1 \in DOMAIN cards /\ Head(cards) = cards[1]
         /\ Tail(cards) \in Seq(Deck!Card) /\ Deck!IsInjective(Tail(cards))
         /\ \A n \in DOMAIN Tail(cards) : n + 1 \in DOMAIN cards /\ Tail(cards)[n] = cards[n + 1]
         /\ Deck!Range(cards) = Deck!Range(Tail(cards)) \cup {Head(cards)}
         /\ Head(cards) \notin Deck!Range(Tail(cards))
<1> DEFINE t == Tail(cards)
<1>1. /\ Len(cards) \in Nat \ {0} /\ t \in Seq(Deck!Card) /\ Len(t) = Len(cards) - 1
      /\ Head(cards) = cards[1] /\ \A n \in 1..Len(t) : t[n] = cards[n + 1]
  BY EmptySeq, LenProperties, HeadTailProperties
<1>2. DOMAIN cards = 1..Len(cards) /\ DOMAIN t = 1..(Len(cards) - 1)
  BY <1>1, LenProperties
<1>3. Head(cards) \in Deck!Card
  BY <1>1, ElementOfSeq
<1> HIDE DEF t
<1>4. \A n \in DOMAIN t : n + 1 \in DOMAIN cards /\ t[n] = cards[n + 1] /\ n \in Int /\ n + 1 # 1
  BY <1>1, <1>2
<1>5. Deck!IsInjective(t)
  <2> SUFFICES ASSUME NEW m \in DOMAIN t, NEW n \in DOMAIN t, t[m] = t[n] PROVE m = n
    BY DEF Deck!IsInjective
  <2>1. m + 1 = n + 1
    BY <1>4 DEF Deck!IsInjective
  <2> QED BY <1>4, <2>1
<1>6. 1 \in DOMAIN cards
  BY <1>1, <1>2
<1>7. Head(cards) \notin Deck!Range(t)
  BY <1>1, <1>4, <1>6 DEF Deck!IsInjective, Deck!Range
<1>8. Deck!Range(cards) = Deck!Range(t) \cup {Head(cards)}
  <2>1. ASSUME NEW n \in DOMAIN cards PROVE n = 1 \/ cards[n] \in Deck!Range(t)
    <3> SUFFICES ASSUME n # 1 PROVE cards[n] \in Deck!Range(t)
      OBVIOUS
    <3>1. n - 1 \in DOMAIN t /\ (n - 1) + 1 = n
      BY <1>1, <1>2
    <3>2. t[n - 1] = cards[n]
      BY <1>4, <3>1
    <3> QED BY <3>1, <3>2 DEF Deck!Range
  <2>2. \A n \in DOMAIN t : t[n] \in Deck!Range(cards)
    BY <1>4 DEF Deck!Range
  <2>3. Head(cards) \in Deck!Range(cards)
    BY <1>1, <1>6 DEF Deck!Range
  <2> QED BY <1>1, <2>1, <2>2, <2>3 DEF Deck!Range
<1> QED BY <1>1, <1>3, <1>4, <1>5, <1>6, <1>7, <1>8 DEF t

LEMMA SendFeedbackInv ==
  ASSUME DeckInv, NEW r \in Reaction, Deck!SendFeedback(r)
  PROVE  DeckInv'
<1>1. DeckTypes /\ Deck!TypeOK /\ dSlug \in dVisited
  BY DEF DeckInv, DeckTypes
<1> DEFINE card == Head(dFeed.cards)
           rest == Tail(dFeed.cards)
           c == Deck!NewCall("react", dSlug, dEpoch, card, r)
<1>2. /\ dEpoch \in Nat /\ dSlug \in Org /\ dFeed.cards \in Seq(Deck!Card)
      /\ dFeed \in [there : BOOLEAN, cards : Seq(Deck!Card), profile : Deck!Version]
  BY <1>1 DEF Deck!TypeOK
<1>3. dFeed.cards # <<>> /\ Deck!Without(dFeed.cards, card) = rest
  BY <1>2, WithoutTop DEF Deck!SendFeedback
<1>4. /\ ~dUi.loading /\ card \notin dPending
      /\ dPending' = dPending \cup {card} /\ dCount' = dCount + 1
      /\ dFeed' = [dFeed EXCEPT !.cards = rest]
      /\ Deck!Sends(dCall, c)
      /\ dUi' = [dUi EXCEPT !.rejecting = FALSE, !.picked = Deck!NoCard]
      /\ dBlurred' = (dBlurred \/ \E i \in Deck!Calls : Deck!InFlight(i) /\ dCall[i].kind # "react")
      /\ UNCHANGED <<dSlug, dEpoch, dServer, dSeen, dDone, dVisited, dAgain>>
  BY <1>3 DEF Deck!SendFeedback, Deck!MayReact, Deck!Asks
<1>5. /\ card \in Deck!Card /\ 1 \in DOMAIN dFeed.cards /\ card = dFeed.cards[1]
      /\ rest \in Seq(Deck!Card) /\ Deck!IsInjective(rest)
      /\ \A n \in DOMAIN rest : n + 1 \in DOMAIN dFeed.cards /\ rest[n] = dFeed.cards[n + 1]
      /\ Deck!Range(dFeed.cards) = Deck!Range(rest) \cup {card}
      /\ card \notin Deck!Range(rest)
  BY <1>2, <1>3, TopTaken DEF DeckInv, CardsFit
<1>6. card[1] = dSlug /\ \A n \in DOMAIN rest : rest[n][1] = dSlug
  BY <1>5 DEF DeckInv, CardsFit
<1>7. /\ c \in Deck!Call /\ c.kind = "react" /\ c.org = dSlug /\ c.epoch = dEpoch
      /\ c.state = "sent" /\ c.card = card
  BY <1>2, <1>5, NewCallTyped
<1> HIDE DEF c, card, rest
<1>8. PICK k \in Deck!Calls : Added(k, c)
  BY <1>1, <1>4, <1>7, SentAdded
<1>9. /\ \A j \in Deck!Calls : CallFits(j)'
      /\ \A j \in Deck!Calls : Loads(j)' <=> Loads(j)
      /\ \A j \in Deck!Calls : Selects(j)' <=> Selects(j)
      /\ \A j \in Deck!Calls : Resets(j)' <=> Resets(j)
      /\ Deck!Live' = Deck!Live \cup {k}
      /\ \A j \in Deck!Calls : Loads(j) \/ Selects(j) \/ j \in Deck!Live => j # k
  BY <1>1, <1>4, <1>6, <1>7, <1>8, AddedCalls
<1>10. /\ dUi'.loading = dUi.loading /\ dUi'.generating = dUi.generating
       /\ dUi'.resetting = dUi.resetting /\ ~dUi'.rejecting
       /\ dUi' \in [loading : BOOLEAN, generating : BOOLEAN, resetting : BOOLEAN,
                    rejecting : BOOLEAN, picked : Deck!Card \cup {Deck!NoCard}]
  BY <1>1, <1>4 DEF Deck!TypeOK
<1>11. /\ dFeed' \in [there : BOOLEAN, cards : Seq(Deck!Card), profile : Deck!Version]
       /\ dFeed'.there = dFeed.there /\ dFeed'.cards = rest /\ dFeed'.profile = dFeed.profile
  BY <1>2, <1>4, <1>5
<1>12. dFeed.there
  <2>1. Deck!NoFeed.cards = <<>>
    BY DEF Deck!NoFeed
  <2> QED BY <1>3, <2>1 DEF DeckInv, EmptyFits
<1>13. FlagsFit'
  <2>1. \A j \in Deck!Calls : ~Loads(j)'
    BY <1>4, <1>9 DEF DeckInv, FlagsFit
  <2>2. dUi'.generating => \E j \in Deck!Calls : Selects(j)'
    BY <1>4, <1>9, <1>10 DEF DeckInv, FlagsFit
  <2>3. dUi'.resetting => \E j \in Deck!Calls : Resets(j)'
    BY <1>9, <1>10 DEF DeckInv, FlagsFit
  <2> QED BY <1>4, <1>10, <2>1, <2>2, <2>3 DEF FlagsFit
<1>14. EmptyFits'
  BY <1>4, <1>10, <1>11, <1>12 DEF EmptyFits
<1>15. SelectionFits'
  BY <1>3, <1>4, <1>9 DEF DeckInv, SelectionFits
<1>16. LiveFits'
  <2>1. k \notin Deck!Live /\ \A j \in Deck!Live : dCall'[j].card = dCall[j].card
    BY <1>8, <1>9 DEF Added, Deck!Live
  <2>2. dCall'[k].card = card
    BY <1>7, <1>8 DEF Added
  <2> QED BY <1>1, <1>4, <1>9, <2>1, <2>2, LiveMore DEF DeckInv
<1>17. CardsFit'
  <2>1. ASSUME ~dAgain
        PROVE  /\ dSeen \subseteq Deck!Range(rest) \cup dPending' \cup dDone
               /\ Deck!Range(rest) \cap (dPending' \cup dDone) = {}
               /\ dPending' \cap dDone = {}
    <3>1. /\ dSeen \subseteq Deck!Range(dFeed.cards) \cup dPending \cup dDone
          /\ Deck!Range(dFeed.cards) \cap (dPending \cup dDone) = {}
          /\ dPending \cap dDone = {}
      BY <2>1 DEF DeckInv, CardsFit
    <3> QED BY <1>4, <1>5, <3>1
  <2>2. \A d \in dDone : dServer[d[1]].reacted[d[2]] # "NONE"
    BY DEF DeckInv, CardsFit
  <2> QED BY <1>4, <1>5, <1>6, <1>10, <1>11, <2>1, <2>2 DEF CardsFit, Deck!ReasonsForTopCard
<1>18. ProfilesFit'
  <2> SUFFICES ASSUME ~dBlurred' PROVE ProfilesFit'
    BY DEF ProfilesFit
  <2>1. /\ ~dBlurred /\ ProfilesFit
        /\ \A j \in Deck!Calls : Deck!InFlight(j) => dCall[j].kind = "react"
    BY <1>4 DEF DeckInv
  <2>2. \A j \in Deck!Calls : Deck!InFlight(j)' => dCall'[j].kind = "react" /\ dCall'[j].epoch = dEpoch
    BY <1>7, <1>8, <2>1 DEF Added, ProfilesFit
  <2>3. \A j \in Deck!Calls : dCall'[j].state = "ok" => dCall'[j] = dCall[j]
    BY <1>7, <1>8 DEF Added
  <2>4. \A j \in Deck!Calls : dCall[j].state = "ok" => dCall'[j] = dCall[j]
    BY <1>8 DEF Added
  <2> QED BY <1>4, <1>11, <2>1, <2>2, <2>3, <2>4 DEF ProfilesFit
<1>19. Deck!TypeOK'
  <2>1. dBlurred' \in BOOLEAN
    BY <1>1, <1>4 DEF Deck!TypeOK
  <2>2. dPending' \in SUBSET Deck!Card /\ dCount' \in Nat
    BY <1>1, <1>4, <1>5 DEF Deck!TypeOK
  <2> QED BY <1>1, <1>4, <1>8, <1>10, <1>11, <2>1, <2>2 DEF Deck!TypeOK, Added
<1> QED BY <1>1, <1>4, <1>9, <1>13, <1>14, <1>15, <1>16, <1>17, <1>18, <1>19 DEF DeckInv

\* The reasons are shown, or put away.
LEMMA ReasonsInv ==
  ASSUME DeckInv, Deck!OpenReasons \/ Deck!CancelReasons
  PROVE  DeckInv'
<1>1. /\ ~dUi.loading /\ dFeed.cards # <<>>
      /\ \/ dUi' = [dUi EXCEPT !.rejecting = TRUE, !.picked = Head(dFeed.cards)]
         \/ dUi' = [dUi EXCEPT !.rejecting = FALSE, !.picked = Deck!NoCard]
      /\ UNCHANGED <<dSlug, dEpoch, dFeed, dPending, dCount, dCall, dServer, dSeen, dDone,
                     dVisited, dAgain, dBlurred>>
  BY DEF Deck!OpenReasons, Deck!CancelReasons
<1>2. Deck!TypeOK /\ dFeed.cards \in Seq(Deck!Card)
  BY DEF DeckInv, Deck!TypeOK
<1>3. Head(dFeed.cards) \in Deck!Card
  BY <1>1, <1>2, TopTaken DEF DeckInv, CardsFit
<1>4. /\ dUi'.loading = dUi.loading /\ dUi'.generating = dUi.generating
      /\ dUi'.resetting = dUi.resetting
      /\ dUi'.rejecting => dUi'.picked = Head(dFeed.cards)
      /\ dUi' \in [loading : BOOLEAN, generating : BOOLEAN, resetting : BOOLEAN,
                   rejecting : BOOLEAN, picked : Deck!Card \cup {Deck!NoCard}]
  BY <1>1, <1>2, <1>3 DEF Deck!TypeOK
<1>5. /\ \A j \in Deck!Calls : CallFits(j)'
      /\ \A j \in Deck!Calls : (Loads(j)' <=> Loads(j)) /\ (Selects(j)' <=> Selects(j))
                               /\ (Resets(j)' <=> Resets(j))
      /\ Deck!Live' = Deck!Live
  BY <1>1 DEF DeckInv, CallFits, Loads, Selects, Resets, Deck!InFlight, Deck!Live
<1>6. FlagsFit' /\ EmptyFits' /\ SelectionFits'
  BY <1>1, <1>4, <1>5 DEF DeckInv, FlagsFit, EmptyFits, SelectionFits
<1>7. LiveFits'
  BY <1>1, <1>5, LiveKept DEF DeckInv
<1>8. CardsFit'
  BY <1>1, <1>4 DEF DeckInv, CardsFit, Deck!ReasonsForTopCard
<1>9. ProfilesFit'
  BY <1>1 DEF DeckInv, ProfilesFit, Deck!InFlight
<1>10. Deck!TypeOK'
  BY <1>1, <1>2, <1>4 DEF Deck!TypeOK
<1> QED BY <1>1, <1>5, <1>6, <1>7, <1>8, <1>9, <1>10 DEF DeckInv

LEMMA DeckNextInv == DeckInv /\ [Deck!Next]_Deck!vars => DeckInv'
<1> SUFFICES ASSUME DeckInv, [Deck!Next]_Deck!vars PROVE DeckInv'
  OBVIOUS
<1>1. CASE UNCHANGED Deck!vars
  <2>1. UNCHANGED <<dSlug, dEpoch, dFeed, dPending, dCount, dUi, dCall, dServer, dSeen, dDone,
                    dVisited, dAgain, dBlurred>>
    BY <1>1 DEF Deck!vars
  <2>2. /\ \A j \in Deck!Calls : CallFits(j)'
        /\ \A j \in Deck!Calls : (Loads(j)' <=> Loads(j)) /\ (Selects(j)' <=> Selects(j))
                                 /\ (Resets(j)' <=> Resets(j))
        /\ Deck!Live' = Deck!Live
    BY <2>1 DEF DeckInv, CallFits, Loads, Selects, Resets, Deck!InFlight, Deck!Live
  <2>3. FlagsFit' /\ EmptyFits' /\ SelectionFits'
    BY <2>1, <2>2 DEF DeckInv, FlagsFit, EmptyFits, SelectionFits
  <2>4. LiveFits'
    BY <2>1, <2>2, LiveKept DEF DeckInv
  <2>5. CardsFit'
    BY <2>1 DEF DeckInv, CardsFit, Deck!ReasonsForTopCard
  <2>6. ProfilesFit'
    BY <2>1 DEF DeckInv, ProfilesFit, Deck!InFlight
  <2>7. Deck!TypeOK'
    BY <2>1 DEF DeckInv, Deck!TypeOK
  <2> QED BY <2>1, <2>2, <2>3, <2>4, <2>5, <2>6, <2>7 DEF DeckInv
<1>2. CASE \E o \in Org : Deck!Switch(o)
  BY <1>2, SwitchInv
<1>3. CASE \E i \in Deck!Calls : Deck!Serve(i) \/ Deck!Loses(i)
  BY <1>3, ServeInv, LosesInv
<1>4. CASE \E i \in Deck!Calls :
             Deck!LoadAnswer(i) \/ Deck!FirstAnswer(i) \/ Deck!GenerateAnswer(i)
  BY <1>4, LoadAnswerInv, FirstAnswerInv, GenerateAnswerInv
<1>5. CASE \E i \in Deck!Calls : Deck!FeedbackAnswer(i) \/ Deck!ResetAnswer(i)
  BY <1>5, FeedbackAnswerInv, ResetAnswerInv
<1>6. CASE Deck!GenerateNewSelection
  BY <1>6, GenerateInv
<1>7. CASE Deck!OpenReasons \/ Deck!CancelReasons
  BY <1>7, ReasonsInv
<1>8. CASE Deck!ResetPreferences
  BY <1>8, ResetInv
<1>9. CASE \E r \in Reaction : Deck!SendFeedback(r)
  BY <1>9, SendFeedbackInv
<1> QED BY <1>1, <1>2, <1>3, <1>4, <1>5, <1>6, <1>7, <1>8, <1>9 DEF Deck!Next

LEMMA DeckInitInv == Deck!Init => DeckInv
<1> SUFFICES ASSUME Deck!Init PROVE DeckInv
  OBVIOUS
<1> DEFINE c == Deck!NewCall("load", dSlug, 1, Deck!NoCall.card, Deck!NoCall.reaction)
<1>1. /\ dSlug \in Org /\ dEpoch = 1
      /\ dFeed = Deck!NoFeed /\ dPending = {} /\ dCount = 0 /\ dUi = Deck!Clear
      /\ dCall = [[i \in Deck!Calls |-> Deck!NoCall] EXCEPT ![1] = c]
      /\ \E n \in 0..Batch :
           dServer = [o \in Org |-> [profile |-> Deck!NoVersion, made |-> n,
                                     reacted |-> [m \in 1..Batch |-> "NONE"]]]
      /\ dSeen = {} /\ dDone = {} /\ dVisited = {dSlug} /\ dAgain = FALSE /\ dBlurred = FALSE
  BY DEF Deck!Init
<1>2. /\ c \in Deck!Call /\ c.kind = "load" /\ c.org = dSlug /\ c.epoch = 1 /\ c.state = "sent"
  BY <1>1, NoCallTyped, NewCallTyped
<1> HIDE DEF c
<1>3. /\ Deck!NoCall \in Deck!Call /\ Deck!NoCall.kind = "none" /\ Deck!NoCall.state = "done"
      /\ Deck!NoCall.epoch = 0
  BY <1>1, NoCallTyped
<1>4. 1 \in Deck!Calls /\ Deck!Calls \subseteq Int
  BY DeckAssumption DEF Deck!Calls
<1>5. /\ dCall \in [Deck!Calls -> Deck!Call] /\ dCall[1] = c
      /\ \A j \in Deck!Calls : j # 1 => dCall[j] = Deck!NoCall
  BY <1>1, <1>2, <1>3, <1>4
<1>6. Deck!NoVersion \in Deck!Version
  BY DEF Deck!NoVersion, Deck!Version
<1>7. dServer \in [Org -> ServerType]
  <2>1. PICK n \in 0..Batch :
          dServer = [o \in Org |-> [profile |-> Deck!NoVersion, made |-> n,
                                    reacted |-> [m \in 1..Batch |-> "NONE"]]]
    BY <1>1
  <2> QED BY <1>6, <2>1 DEF ServerType
<1>8. /\ dUi.loading /\ ~dUi.generating /\ ~dUi.resetting /\ ~dUi.rejecting
      /\ dUi \in [loading : BOOLEAN, generating : BOOLEAN, resetting : BOOLEAN,
                  rejecting : BOOLEAN, picked : Deck!Card \cup {Deck!NoCard}]
  BY <1>1 DEF Deck!Clear
<1>9. /\ dFeed.cards = <<>> /\ ~dFeed.there
      /\ dFeed \in [there : BOOLEAN, cards : Seq(Deck!Card), profile : Deck!Version]
  BY <1>1, <1>6, NoCards DEF Deck!NoFeed
<1>10. Deck!TypeOK
  BY <1>1, <1>5, <1>7, <1>8, <1>9 DEF Deck!TypeOK, ServerType
<1>11. \A j \in Deck!Calls : CallFits(j)
  BY <1>1, <1>2, <1>3, <1>5 DEF CallFits
<1>12. \A j \in Deck!Calls : /\ Deck!InFlight(j) <=> j = 1
                             /\ Loads(j) <=> j = 1
                             /\ ~Selects(j) /\ dCall[j].state # "ok"
  BY <1>1, <1>2, <1>3, <1>5 DEF Deck!InFlight, Loads, Selects
<1>13. Deck!Live = {}
  BY <1>2, <1>5, <1>12 DEF Deck!Live
<1>14. FlagsFit /\ EmptyFits /\ SelectionFits
  BY <1>1, <1>4, <1>8, <1>12 DEF FlagsFit, EmptyFits, SelectionFits
<1>15. LiveFits
  <2>1. Cardinality({}) = 0
    BY FS_EmptySet
  <2> QED BY <1>1, <1>13, <2>1
          DEF LiveFits, Deck!CountIsPending, Deck!Cardinality, Cardinality
<1>16. CardsFit
  <2>1. Deck!IsInjective(dFeed.cards) /\ DOMAIN dFeed.cards = {} /\ Deck!Range(dFeed.cards) = {}
    BY <1>9, NoCards DEF Deck!Range
  <2> QED BY <1>1, <1>8, <2>1 DEF CardsFit, Deck!ReasonsForTopCard
<1>17. ProfilesFit
  BY <1>1, <1>2, <1>5, <1>9, <1>12 DEF ProfilesFit
<1> QED BY <1>1, <1>10, <1>11, <1>14, <1>15, <1>16, <1>17 DEF DeckInv

LEMMA DeckRun == MCSpec => []DeckInv
<1>1. MCInit => Deck!Init
  BY DEF MCInit
<1>2. [MCNext]_all => [Deck!Next]_Deck!vars
  BY DEF MCNext, LeasesNext, FeedsNext, RecommendationsNext, LimitsNext, DeckNext, all,
         dVars, Deck!vars
<1> QED BY <1>1, <1>2, DeckInitInv, DeckNextInv, PTL DEF MCSpec

\* Whatever the organizations, the cards, the reactions and the order of the
\* answers: every card shown is in the deck, on its way or confirmed, and in one
\* of them only; the reactions under way are counted; the open reasons are about
\* the card on top; and the screen waits only for a call that is under way.
THEOREM DeckAlwaysExact == MCSpec => []DeckIsExact
<1>1. DeckInv => DeckIsExact
  <2> SUFFICES ASSUME DeckInv
               PROVE  /\ Deck!TypeOK /\ Deck!EachCardOnce /\ Deck!CountIsPending
                      /\ Deck!ReasonsForTopCard /\ Deck!WaitsForCall
    BY DEF DeckIsExact
  <2>1. Deck!EachCardOnce
    BY DEF DeckInv, CardsFit, Deck!EachCardOnce
  <2>2. Deck!WaitsForCall
    BY DEF DeckInv, FlagsFit, Loads, Selects, Resets, Deck!WaitsForCall, Deck!IsMounted, CallFits
  <2> QED BY <2>1, <2>2 DEF DeckInv, LiveFits, CardsFit
<1> QED BY <1>1, DeckRun, PTL

\* Whatever the order of the answers: once none is awaited, and unless one was
\* lost or a reset or a selection crossed another call, the profile on screen is
\* the one the server has.
THEOREM ProfileAlwaysServers == MCSpec => []ShownIsServers
<1>1. DeckInv => ShownIsServers
  <2> SUFFICES ASSUME DeckInv, Deck!Quiet, dFeed.there, ~dBlurred
               PROVE  dFeed.profile = dServer[dSlug].profile
    BY DEF ShownIsServers, Deck!ShownIsServers
  <2>1. \A j \in Deck!Calls : dCall[j].state # "ok"
    BY DEF Deck!Quiet, Deck!InFlight
  <2> QED BY <2>1 DEF DeckInv, ProfilesFit
<1> QED BY <1>1, DeckRun, PTL
=============================================================================
