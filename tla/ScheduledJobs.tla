---------------------------- MODULE ScheduledJobs ----------------------------
(***************************************************************************)
(* ScheduledJobsService (apps/api/src/common/jobs): the replicas of the    *)
(* API run periodic jobs (and exclusive ones: a feed import) under a lease *)
(* kept in the table scheduled_job_runs.  One behaviour is the life of one *)
(* job key, the statements of the service all being restricted to a key.   *)
(*                                                                         *)
(* A process is one call of runOncePerBucket or runWithLease.  It reads    *)
(* its replica's clock, fails the expired runs, inserts its own run, runs  *)
(* the handler while a timer renews the lease, and records the outcome:    *)
(* each of these is a statement of its own, so each is an action.  A       *)
(* renewal is computed when it is sent and takes effect when it reaches    *)
(* the database, which may be late, after the sender's death, or never.    *)
(*                                                                         *)
(* runWithLease uses the millisecond as its bucket: BucketLen = 1.         *)
(***************************************************************************)
EXTENDS Integers, FiniteSets

CONSTANTS
    Proc,       \* calls of the service, on all the replicas
    BucketLen,  \* bucketMilliseconds
    Lease,      \* leaseMilliseconds, as executeWithLease receives it
    MinBeat,    \* the 1_000 ms floor of the heartbeat period
    Skew,       \* how far the clock of each process's replica is ahead
    MaxDelay,   \* bound on a step of a call when the system is on time
    MaxClock,   \* bound of the model on the real time
    MaxInFlight \* bound of the model on the renewals under way

ASSUME ParameterAssumption ==
    /\ BucketLen \in Nat \ {0}
    /\ Lease \in Nat \ {0}
    /\ MinBeat \in Nat \ {0}
    /\ MaxDelay \in Nat
    /\ MaxClock \in Nat
    /\ MaxInFlight \in Nat
    /\ Skew \in [Proc -> Nat]

Beat == IF MinBeat > Lease \div 3 THEN MinBeat ELSE Lease \div 3

VARIABLES
    now,        \* real time
    run,        \* the rows of the job key, by bucket
    pc,         \* where each call stands
    at,         \* the clock each call has read at its start
    nextBeat,   \* the real time at which the timer of a call fires next
    inFlight,   \* renewals sent and not yet executed by the database
    starts      \* history: how many times a bucket's handler was started

vars == <<now, run, pc, at, nextBeat, inFlight, starts>>

\* The clock of the replica of p: Date.now() as that replica sees it.
Clock(p) == now + Skew[p]

BucketOf(t) == t \div BucketLen

\* Every bucket some clock reaches within the bound on the time.
Bucket == UNION {{BucketOf(t + Skew[p]) : t \in 0..MaxClock} : p \in Proc}

Mine(p) == BucketOf(at[p])

\* No row has been inserted for the bucket.
NoRun == [status |-> "NONE", owner |-> {}, expires |-> 0]

Run == [status : {"NONE", "RUNNING", "SUCCEEDED", "FAILED"},
        owner : SUBSET Proc,
        expires : Nat]

Renewal == [bucket : Bucket, owner : Proc, expires : Nat]

\* The call has inserted its run and has not returned: its timer is set.
Active(p) == pc[p] \in {"handler", "success", "failure"}

TypeOK ==
    /\ now \in 0..MaxClock
    /\ run \in [Bucket -> Run]
    /\ pc \in [Proc -> {"idle", "reap", "create", "handler", "success", "failure"}]
    /\ at \in [Proc -> Nat]
    /\ nextBeat \in [Proc -> Nat]
    /\ inFlight \subseteq Renewal
    /\ starts \in [Bucket -> Nat]

Init ==
    /\ now = 0
    /\ run = [b \in Bucket |-> NoRun]
    /\ pc = [p \in Proc |-> "idle"]
    /\ at = [p \in Proc |-> 0]
    /\ nextBeat = [p \in Proc |-> 0]
    /\ inFlight = {}
    /\ starts = [b \in Bucket |-> 0]

-----------------------------------------------------------------------------

\* The call returns or dies: its local variables and its timer are gone.
Leaves(p) ==
    /\ pc' = [pc EXCEPT ![p] = "idle"]
    /\ at' = [at EXCEPT ![p] = 0]
    /\ nextBeat' = [nextBeat EXCEPT ![p] = 0]

\* Mutants of Expiry: a deadline in the past, half a lease.
Expiry_Half(t) == t + Lease \div 2

\* new Date(now.getTime() + leaseMilliseconds)
Expiry(t) == t + Lease

\* The scheduler's timer, or a user's request, calls the service.
Begin(p) ==
    /\ pc[p] = "idle"
    /\ pc' = [pc EXCEPT ![p] = "reap"]
    /\ at' = [at EXCEPT ![p] = Clock(p)]
    /\ UNCHANGED <<now, run, nextBeat, inFlight, starts>>

\* Mutant of Expired: no sweep at all.
Expired_NoSweep(r, t) == FALSE

Expired(r, t) == r.status = "RUNNING" /\ r.expires <= t

\* The runs of the key whose lease is over at the time read are failed.
Reap(p) ==
    /\ pc[p] = "reap"
    /\ run' = [b \in Bucket |-> IF Expired(run[b], at[p])
                                THEN [run[b] EXCEPT !.status = "FAILED"]
                                ELSE run[b]]
    /\ pc' = [pc EXCEPT ![p] = "create"]
    /\ UNCHANGED <<now, at, nextBeat, inFlight, starts>>

\* Mutants of IndexesAllow: one of the two indexes is missing.
IndexesAllow_OnlyActiveKey(b) == \A c \in Bucket : run[c].status # "RUNNING"
IndexesAllow_OnlyBucket(b) == run[b].status = "NONE"

\* The two unique indexes: (job_key, bucket_at), and (job_key) over the
\* running rows.
IndexesAllow(b) ==
    /\ run[b].status = "NONE"
    /\ \A c \in Bucket : run[c].status # "RUNNING"

Acquire(p) ==
    /\ pc[p] = "create"
    /\ IndexesAllow(Mine(p))
    /\ run' = [run EXCEPT ![Mine(p)] = [status |-> "RUNNING", owner |-> {p},
                                        expires |-> Expiry(at[p])]]
    /\ nextBeat' = [nextBeat EXCEPT ![p] = now + Beat]
    /\ starts' = [starts EXCEPT ![Mine(p)] = @ + 1]
    /\ pc' = [pc EXCEPT ![p] = "handler"]
    /\ UNCHANGED <<now, at, inFlight>>

\* P2002: another call holds the key or has had the bucket.
NotAcquired(p) ==
    /\ pc[p] = "create"
    /\ ~IndexesAllow(Mine(p))
    /\ Leaves(p)
    /\ UNCHANGED <<now, run, inFlight, starts>>

\* The interval timer fires and sends a renewal.
SendBeat(p) ==
    /\ Active(p)
    /\ now >= nextBeat[p]
    /\ Cardinality(inFlight) < MaxInFlight
    /\ inFlight' = inFlight \cup {[bucket |-> Mine(p), owner |-> p,
                                   expires |-> Expiry(Clock(p))]}
    /\ nextBeat' = [nextBeat EXCEPT ![p] = now + Beat]
    /\ UNCHANGED <<now, run, pc, at, starts>>

\* Mutant of Renews: the status is not in the where.
Renews_AnyStatus(m) == run[m.bucket].owner = {m.owner}

\* The database executes a renewal: it reaches the row of its sender while
\* that row is running.
Renews(m) ==
    /\ run[m.bucket].status = "RUNNING"
    /\ run[m.bucket].owner = {m.owner}

LandBeat(m) ==
    /\ run' = IF Renews(m) THEN [run EXCEPT ![m.bucket].expires = m.expires] ELSE run
    /\ inFlight' = inFlight \ {m}
    /\ UNCHANGED <<now, pc, at, nextBeat, starts>>

\* The renewal fails; the error is swallowed.
LoseBeat(m) ==
    /\ inFlight' = inFlight \ {m}
    /\ UNCHANGED <<now, run, pc, at, nextBeat, starts>>

\* The handler resolves or rejects.
HandlerEnds(p) ==
    /\ pc[p] = "handler"
    /\ \E o \in {"success", "failure"} : pc' = [pc EXCEPT ![p] = o]
    /\ UNCHANGED <<now, run, at, nextBeat, inFlight, starts>>

\* The outcome is written by the id of the run, whatever its status is now.
RecordSuccess(p) ==
    /\ pc[p] = "success"
    /\ run' = [run EXCEPT ![Mine(p)].status = "SUCCEEDED"]
    /\ Leaves(p)
    /\ UNCHANGED <<now, inFlight, starts>>

RecordFailure(p) ==
    /\ pc[p] = "failure"
    /\ run' = [run EXCEPT ![Mine(p)].status = "FAILED"]
    /\ Leaves(p)
    /\ UNCHANGED <<now, inFlight, starts>>

\* The write of a success is inside the try: if it fails, or takes effect
\* and its answer is lost, the run is recorded as a failure, although its
\* handler has done its work.
SuccessNotRecorded(p) ==
    /\ pc[p] = "success"
    /\ run' \in {run, [run EXCEPT ![Mine(p)].status = "SUCCEEDED"]}
    /\ pc' = [pc EXCEPT ![p] = "failure"]
    /\ UNCHANGED <<now, at, nextBeat, inFlight, starts>>

\* The replica dies, or the write of a failure fails and its error is
\* rethrown: the row and the renewals already sent stay behind.
Abandon(p) ==
    /\ pc[p] # "idle"
    /\ Leaves(p)
    /\ UNCHANGED <<now, run, inFlight, starts>>

Tick ==
    /\ now < MaxClock
    /\ now' = now + 1
    /\ UNCHANGED <<run, pc, at, nextBeat, inFlight, starts>>

Step(p) ==
    \/ Begin(p)
    \/ Reap(p)
    \/ Acquire(p)
    \/ NotAcquired(p)
    \/ SendBeat(p)
    \/ HandlerEnds(p)
    \/ RecordSuccess(p)
    \/ RecordFailure(p)
    \/ SuccessNotRecorded(p)
    \/ Abandon(p)

Next ==
    \/ \E p \in Proc : Step(p)
    \/ \E m \in inFlight : LandBeat(m) \/ LoseBeat(m)
    \/ Tick

Spec == Init /\ [][Next]_vars

(***************************************************************************)
(* Fairness.  Real time passes.  The timers of the replicas keep calling   *)
(* the service, a call that is not killed makes its next statement, and    *)
(* handlers end: their network calls have timeouts.  The first statement   *)
(* of a call needs strong fairness, for a replica that restarts in a loop  *)
(* is assumed not to die every time before it.                             *)
(***************************************************************************)
Fairness ==
    /\ WF_vars(Tick)
    /\ \A p \in Proc :
        /\ WF_vars(Begin(p))
        /\ SF_vars(Reap(p))
        /\ WF_vars(Acquire(p) \/ NotAcquired(p))
        /\ WF_vars(HandlerEnds(p))
        /\ WF_vars(RecordSuccess(p) \/ RecordFailure(p) \/ SuccessNotRecorded(p))

FairSpec == Spec /\ Fairness

-----------------------------------------------------------------------------

\* The handler of a bucket is started at most once, whatever crashes, late
\* renewals and restarts happen (executeWithLease, the P2002 branch).
StartedOncePerBucket == \A b \in Bucket : starts[b] <= 1

\* The call that owns the row of b writes its outcome over it.
OwnCallWrites(b, outcome, status) ==
    /\ \E p \in Proc : pc[p] = outcome /\ run[b].owner = {p}
    /\ run'[b] = [run[b] EXCEPT !.status = status]

\* Nobody but its own call changes the row of a finished run: no late
\* renewal and no reaper touches it.  A failure becomes a success when the
\* call ends after it was declared dead; a success becomes a failure when
\* the call has not had the answer to its own write.
FinishedRowStays ==
    \A b \in Bucket :
         /\ run[b].status = "SUCCEEDED" =>
              run'[b] = run[b] \/ OwnCallWrites(b, "failure", "FAILED")
         /\ run[b].status = "FAILED" =>
              run'[b] = run[b] \/ OwnCallWrites(b, "success", "SUCCEEDED")

\* A run is failed by a reaper only when its lease is over on the clock of
\* the reaper: the status is lost to no one while the lease holds.
ReapsOnlyExpired ==
    \A b \in Bucket :
         run[b].status = "RUNNING" /\ run'[b].status = "FAILED" =>
            \E p \in Proc :
               \/ pc[p] = "reap" /\ run[b].expires <= Clock(p)
               \/ pc[p] = "failure" /\ run[b].owner = {p}

RowsOfOthersStay == [][FinishedRowStays /\ ReapsOnlyExpired]_vars

\* docs/operations/production.md:42: a single replica handles each execution,
\* "meme entre deux buckets".
NoOverlap == \A p, q \in Proc : pc[p] = "handler" /\ pc[q] = "handler" => p = q

\* The run of a dead call whose lease ends within the horizon of the model:
\* nothing renews it any more.
Abandoned(b) ==
    /\ run[b].status = "RUNNING"
    /\ run[b].expires <= MaxClock
    /\ \A p \in Proc : Active(p) => Mine(p) # b
    /\ \A m \in inFlight : m.bucket # b

\* A crash does not block the job for ever: the run it leaves behind is
\* failed by a later call, which frees the key.
AbandonedRunIsFailed ==
    \A b \in Bucket : Abandoned(b) ~> run[b].status # "RUNNING"
=============================================================================
