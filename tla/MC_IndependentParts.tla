------------------------- MODULE MC_IndependentParts -------------------------
(***************************************************************************)
(* Five parts of the same state: the leases of replicas that keep their    *)
(* deadlines, the feeds, the recommendations, the rate limits, and the     *)
(* deck of ideas in a browser.  They share nothing, so a behaviour is      *)
(* about one part, chosen at the start, and the others stay as they are.   *)
(*                                                                         *)
(* Leases: two replicas, the clock of the second one unit ahead; buckets   *)
(* of 3 units, leases of 6 and renewals every 2: the proportions of the 15 *)
(* minute jobs.  Feeds: two, of which one is followed, that may carry the  *)
(* same two pages, one of them refused; a scheduler and a member.          *)
(* Recommendations: three targets for a window of two.  Limits: three keys *)
(* for two buckets.  Deck: two organizations with up to two cards, five    *)
(* calls.                                                                  *)
(***************************************************************************)
EXTENDS ScheduledJobsOnTime

CONSTANTS
    p1, p2,
    Feed, Page, Caller, Scheduler, Barred, Tag, MaxTroubles, MaxByHand,    \* of CurationFeeds
    Followed,   \* the feeds that are followed at the start
    Target, Runner, MaxRead, MaxFails, MaxEdits,    \* of Recommendations
    AuthKey, ApiKey, LimitOf, WindowOf, MaxBuckets, MaxTime, MaxAsked,      \* of RateLimiter
    Org, Batch, Reaction, MaxCalls, FirstOrg        \* of DiscoveryDeck

\* The tables are about something, and the bounds of the model are numbers.
ASSUME FeedsAssumption ==
    /\ Feed # {} /\ Page # {}
    /\ MaxTroubles \in Nat /\ MaxByHand \in Nat

ASSUME TargetsAssumption ==
    /\ Target # {} /\ IsFiniteSet(Target)
    /\ MaxRead \in Nat /\ MaxFails \in Nat /\ MaxEdits \in Nat

ASSUME LimitsAssumption ==
    /\ LimitOf \in [{"auth", "api"} -> Nat \ {0}] /\ WindowOf \in [{"auth", "api"} -> Nat \ {0}]
    /\ MaxBuckets \in Nat \ {0} /\ MaxTime \in Nat /\ MaxAsked \in Nat
    /\ "none" \notin AuthKey \cup ApiKey

ASSUME DeckAssumption ==
    /\ Batch \in Nat \ {0} /\ MaxCalls \in Nat \ {0}
    /\ Reaction # {} /\ Reaction \subseteq {"LIKE", "SKIP", "DISLIKE", "REASON"}

TwoProcs == {p1, p2}
AheadByOne == [p \in TwoProcs |-> IF p = p1 THEN 0 ELSE 1]
SmallLimits == [auth |-> 1, api |-> 2]
ShortWindows == [auth |-> 2, api |-> 3]

VARIABLES
    part,
    cFeed, cResource, cTags, cLease, cReq, cStored, cFailed, cTroubles, cByHand,
    nByAge, nWanting, nStatus, nGiven, nInserted, nReq, nFails, nEdits,
    lNow, lBuckets, lWindow, lRefused,
    dSlug, dEpoch, dFeed, dPending, dCount, dUi, dCall, dServer, dSeen, dDone, dVisited,
    dAgain, dBlurred

Feeds == INSTANCE CurationFeeds WITH
    Proc <- Caller, Replica <- Scheduler, Refused <- Barred,
    feed <- cFeed, resource <- cResource, tags <- cTags, lease <- cLease, req <- cReq,
    stored <- cStored, failed <- cFailed, troubles <- cTroubles, byHand <- cByHand

Recommendations == INSTANCE Recommendations WITH
    Proc <- Runner, Window <- MaxRead,
    byAge <- nByAge, wanting <- nWanting, status <- nStatus, given <- nGiven,
    inserted <- nInserted, req <- nReq, fails <- nFails, edits <- nEdits

Limits == INSTANCE RateLimiter WITH
    Auth <- AuthKey, Api <- ApiKey,
    now <- lNow, buckets <- lBuckets, window <- lWindow, refused <- lRefused

Deck == INSTANCE DiscoveryDeck WITH
    slug <- dSlug, epoch <- dEpoch, feed <- dFeed, pending <- dPending, count <- dCount,
    ui <- dUi, call <- dCall, server <- dServer, seen <- dSeen, done <- dDone,
    visited <- dVisited, again <- dAgain, blurred <- dBlurred

cVars == <<cFeed, cResource, cTags, cLease, cReq, cStored, cFailed, cTroubles, cByHand>>
nVars == <<nByAge, nWanting, nStatus, nGiven, nInserted, nReq, nFails, nEdits>>
lVars == <<lNow, lBuckets, lWindow, lRefused>>
dVars == <<dSlug, dEpoch, dFeed, dPending, dCount, dUi, dCall, dServer, dSeen, dDone,
           dVisited, dAgain, dBlurred>>
all == <<part, vars, cVars, nVars, lVars, dVars>>

MCInit ==
    /\ part \in {"leases", "feeds", "recommendations", "limits", "deck"}
    /\ Init
    /\ Feeds!Init
    /\ cFeed = [f \in Feed |-> IF f \in Followed THEN Feeds!NewFeed ELSE Feeds!NoFeed]
    /\ Recommendations!Init
    /\ Limits!Init
    /\ Deck!Init /\ dSlug = FirstOrg
    /\ part # "deck" => dServer[FirstOrg].made = 0

LeasesNext ==
    /\ part = "leases" /\ TimelyNext
    /\ UNCHANGED <<part, cVars, nVars, lVars, dVars>>

FeedsNext ==
    /\ part = "feeds" /\ Feeds!Next /\ cTroubles' + cByHand' <= 3
    /\ UNCHANGED <<part, vars, nVars, lVars, dVars>>

RecommendationsNext ==
    /\ part = "recommendations" /\ Recommendations!Next
    /\ UNCHANGED <<part, vars, cVars, lVars, dVars>>

LimitsNext ==
    /\ part = "limits" /\ Limits!Next
    /\ UNCHANGED <<part, vars, cVars, nVars, dVars>>

\* The organization is changed twice.
DeckNext ==
    /\ part = "deck" /\ Deck!Next /\ dEpoch' <= 3
    /\ UNCHANGED <<part, vars, cVars, nVars, lVars>>

MCNext == LeasesNext \/ FeedsNext \/ RecommendationsNext \/ LimitsNext \/ DeckNext

MCSpec == MCInit /\ [][MCNext]_all

-----------------------------------------------------------------------------

\* Imports that overlap, die or lose their lease store each page once; a feed
\* that reports success has all its items stored; failures in a row are
\* counted (CurationFeeds).
FeedsAreExact ==
    part = "feeds" =>
        Feeds!TypeOK /\ Feeds!StoredOnce /\ Feeds!SuccessHasAll /\ Feeds!FailuresCounted

\* One recommendation for a target, the member's answer stands, and a run
\* leaves no target of its window without a row (Recommendations).
RecommendedOnce ==
    part = "recommendations" =>
        /\ Recommendations!TypeOK
        /\ Recommendations!AnswerStands
        /\ Recommendations!RunCoversWindow

\* A key passes its limit in a window only after an eviction; a refused client
\* has used up its limit; the table stays within its size (RateLimiter).
LimitsHold ==
    part = "limits" =>
        Limits!TypeOK /\ Limits!LimitHolds /\ Limits!RefusedBeyondLimit /\ Limits!TableBounded

\* Every card shown is in one place, the reactions under way are counted, the
\* open reasons are about the card on top, and the screen waits only for a
\* call under way (DiscoveryDeck).
DeckIsExact ==
    part = "deck" =>
        /\ Deck!TypeOK /\ Deck!EachCardOnce /\ Deck!CountIsPending
        /\ Deck!ReasonsForTopCard /\ Deck!WaitsForCall

\* At rest the profile on screen is that of the server (DiscoveryDeck).
ShownIsServers == part = "deck" => Deck!ShownIsServers
=============================================================================
