---------------------------- MODULE RateLimiter ----------------------------
(***************************************************************************)
(* The table of rate limit buckets of one replica of the API               *)
(* (apps/api/src/config/security.middleware.ts).  A key is a client and    *)
(* one of the two kinds of routes, each with its limit and its window.     *)
(* Buckets are kept in the order in which they were inserted; when the     *)
(* table is full the first one goes, whatever is left of its window.       *)
(***************************************************************************)
EXTENDS Integers, Sequences

CONSTANTS
    Auth, Api,      \* keys of the two kinds of routes
    LimitOf,        \* [auth |-> 30, api |-> 600]
    WindowOf,       \* [auth |-> 60 s, api |-> 15 min]
    MaxBuckets,     \* maxBuckets
    MaxTime,        \* bound of the model on the clock
    MaxAsked        \* bound of the model on the requests of a key in a window

VARIABLES
    now,        \* the clock
    buckets,    \* the Map, oldest insertion first
    window,     \* history: the window of each key, opened by its first request
                \* after the last one ended, its requests, those admitted, and
                \* whether its bucket was ever evicted before the end
    refused     \* history: the key of the last request, if it was refused

vars == <<now, buckets, window, refused>>

Key == Auth \cup Api

KindOf(k) == IF k \in Auth THEN "auth" ELSE "api"

Limit(k) == LimitOf[KindOf(k)]

Window(k) == WindowOf[KindOf(k)]

Bucket == [key : Key, count : Nat, resetAt : Nat]

NoKey == "none"

Closed == [until |-> 0, asked |-> 0, admitted |-> 0, evicted |-> FALSE]

TypeOK ==
    /\ now \in 0..MaxTime
    /\ buckets \in Seq(Bucket)
    /\ window \in [Key -> [until : Nat, asked : 0..MaxAsked, admitted : Nat, evicted : BOOLEAN]]
    /\ refused \in Key \cup {NoKey}

Init ==
    /\ now = 0
    /\ buckets = <<>>
    /\ window = [k \in Key |-> Closed]
    /\ refused = NoKey

-----------------------------------------------------------------------------

\* Mutant of IsOver: the last unit of a window is left out.
IsOver_Early(b) == b.resetAt <= now + 1

IsOver(b) == b.resetAt <= now

\* evictExpiredOldestBucket
WithoutExpiredOldest(s) == IF s # <<>> /\ IsOver(Head(s)) THEN Tail(s) ELSE s

Holds(s, k) == \E i \in 1..Len(s) : s[i].key = k

PlaceOf(s, k) == CHOOSE i \in 1..Len(s) : s[i].key = k

BucketOf(s, k) == s[PlaceOf(s, k)]

WithoutKey(s, k) ==
    SubSeq(s, 1, PlaceOf(s, k) - 1) \o SubSeq(s, PlaceOf(s, k) + 1, Len(s))

\* The bucket of the key, deleted if its window is over.
WithoutOver(s, k) == IF Holds(s, k) /\ IsOver(BucketOf(s, k)) THEN WithoutKey(s, k) ELSE s

IsFull(s) == Len(s) >= MaxBuckets

\* evictOldestBucket
WithRoom(s, k) == IF ~Holds(s, k) /\ IsFull(s) THEN Tail(s) ELSE s

Ready(k) == WithRoom(WithoutOver(WithoutExpiredOldest(buckets), k), k)

\* The request counted: in its bucket, where it stands, or in a new one.
Counted(s, k) ==
    IF Holds(s, k)
    THEN [i \in 1..Len(s) |-> IF s[i].key = k THEN [s[i] EXCEPT !.count = @ + 1] ELSE s[i]]
    ELSE Append(s, [key |-> k, count |-> 1, resetAt |-> now + Window(k)])

Passes(k, count) == count <= Limit(k)

\* The window that the client lives in, whatever happens to its bucket.
WindowOfClient(k) ==
    IF window[k].until <= now
    THEN [Closed EXCEPT !.until = now + Window(k), !.evicted = window[k].evicted]
    ELSE window[k]

Request(k) ==
    /\ WindowOfClient(k).asked < MaxAsked
    /\ buckets' = Counted(Ready(k), k)
    /\ LET ok == Passes(k, BucketOf(buckets', k).count)
           lost == {j \in Key \ {k} : /\ Holds(buckets, j) /\ ~Holds(buckets', j)
                                      /\ ~IsOver(BucketOf(buckets, j))}
       IN  /\ refused' = IF ok THEN NoKey ELSE k
           /\ window' = [j \in Key |->
                IF j = k THEN [WindowOfClient(k) EXCEPT !.asked = @ + 1,
                                                        !.admitted = IF ok THEN @ + 1 ELSE @]
                ELSE [window[j] EXCEPT !.evicted = @ \/ j \in lost]]
    /\ UNCHANGED now

Tick ==
    /\ now < MaxTime
    /\ now' = now + 1
    /\ UNCHANGED <<buckets, window, refused>>

Next == Tick \/ \E k \in Key : Request(k)

Spec == Init /\ [][Next]_vars

-----------------------------------------------------------------------------
(* Properties.                                                             *)

\* A key passes its limit in a window that its first request opens only if
\* its bucket was evicted to make room for another.
LimitHolds ==
    \A k \in Key : ~window[k].evicted => window[k].admitted <= Limit(k)

\* A refused client has used up its limit in this window: nothing of an
\* earlier window or of another key counts against it.
RefusedBeyondLimit ==
    refused # NoKey /\ ~window[refused].evicted => window[refused].admitted = Limit(refused)

\* The table stays within its size, with one bucket for a key.
TableBounded ==
    /\ Len(buckets) <= MaxBuckets
    /\ \A i, j \in 1..Len(buckets) : buckets[i].key = buckets[j].key => i = j
=============================================================================
