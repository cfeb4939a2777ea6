------------------------ MODULE BackgroundJobs_proofs ------------------------
(***************************************************************************)
(* Proofs about the leases (ScheduledJobs) and the reminders (Reminders)   *)
(* that MC_BackgroundJobs runs, and about the leases of replicas that keep *)
(* their deadlines (ScheduledJobsOnTime).  Leases: for every number of     *)
(* replicas, every bucket and lease length and all clock differences.      *)
(* Reminders: for any number of plans, members and runs.                   *)
(***************************************************************************)
EXTENDS MC_BackgroundJobs, ScheduledJobsOnTime, TLAPS

-----------------------------------------------------------------------------
(* Leases (ScheduledJobs).                                                 *)

LEMMA BeatIsNat == Beat \in Nat
  BY ParameterAssumption DEF Beat

\* A call under way has read its replica's clock, in the past.
ReadInThePast == \A p \in Proc : pc[p] # "idle" => at[p] >= Skew[p] /\ at[p] <= Clock(p)

\* A row exists exactly when the handler of its bucket was started, once.
RowPerStart == \A b \in Bucket : starts[b] = IF run[b].status = "NONE" THEN 0 ELSE 1

\* The row of a call that has inserted one exists.
ActiveHasRow == \A p \in Proc : Active(p) => run[Mine(p)].status # "NONE"

OnceInv == TypeOK /\ ReadInThePast /\ RowPerStart /\ ActiveHasRow

\* The bucket of a time that a clock has shown is one of Bucket.
LEMMA MineIsBucket ==
  ASSUME NEW p \in Proc, NEW t \in Nat, now \in 0..MaxClock, t >= Skew[p], t <= Clock(p)
  PROVE  BucketOf(t) \in Bucket
<1> DEFINE s == t - Skew[p]
<1>1. s \in 0..MaxClock /\ t = s + Skew[p]
  BY ParameterAssumption DEF Clock
<1>2. BucketOf(t) \in {BucketOf(u + Skew[p]) : u \in 0..MaxClock}
  BY <1>1
<1> QED BY <1>2 DEF Bucket

LEMMA InitOnce == Init => OnceInv
<1> SUFFICES ASSUME Init PROVE OnceInv
  OBVIOUS
<1>1. TypeOK
  BY ParameterAssumption DEF Init, TypeOK, NoRun, Run
<1>2. ReadInThePast /\ RowPerStart /\ ActiveHasRow
  BY DEF Init, ReadInThePast, RowPerStart, ActiveHasRow, NoRun, Active
<1> QED BY <1>1, <1>2 DEF OnceInv

LEMMA StepOnce ==
  ASSUME OnceInv, NEW p \in Proc, Step(p)
  PROVE  OnceInv'
<1> USE ParameterAssumption DEF OnceInv
<1>0. \A q \in Proc : pc[q] # "idle" => Mine(q) \in Bucket
  BY MineIsBucket DEF TypeOK, ReadInThePast, Mine
<1>1. CASE Begin(p)
  <2>1. TypeOK'
    BY <1>1 DEF Begin, TypeOK, Clock
  <2>2. ReadInThePast'
    BY <1>1 DEF Begin, TypeOK, ReadInThePast, Clock
  <2>3. RowPerStart'
    BY <1>1 DEF Begin, RowPerStart
  <2>4. ActiveHasRow'
    BY <1>1 DEF Begin, TypeOK, ActiveHasRow, Active, Mine
  <2> QED BY <2>1, <2>2, <2>3, <2>4
<1>2. CASE Reap(p)
  <2>0. \A b \in Bucket : /\ run'[b] \in Run
                          /\ run'[b].status = "NONE" <=> run[b].status = "NONE"
    BY <1>2 DEF Reap, TypeOK, Expired, Run
  <2>1. TypeOK'
    BY <1>2, <2>0 DEF Reap, TypeOK
  <2>2. ReadInThePast'
    BY <1>2 DEF Reap, TypeOK, ReadInThePast, Clock
  <2>3. RowPerStart'
    BY <1>2, <2>0 DEF Reap, RowPerStart
  <2>4. ActiveHasRow'
    BY <1>0, <1>2, <2>0 DEF Reap, TypeOK, ActiveHasRow, Active, Mine
  <2> QED BY <2>1, <2>2, <2>3, <2>4
<1>3. CASE Acquire(p)
  <2>0. Mine(p) \in Bucket /\ run[Mine(p)].status = "NONE"
    BY <1>0, <1>3 DEF Acquire, IndexesAllow
  <2>1. TypeOK'
    <3>1. [status |-> "RUNNING", owner |-> {p}, expires |-> Expiry(at[p])] \in Run
      BY DEF Run, Expiry, TypeOK
    <3>2. run' \in [Bucket -> Run]
      BY <1>3, <2>0, <3>1 DEF Acquire, TypeOK
    <3>3. nextBeat' \in [Proc -> Nat]
      BY <1>3, BeatIsNat DEF Acquire, TypeOK
    <3>4. starts' \in [Bucket -> Nat]
      BY <1>3, <2>0 DEF Acquire, TypeOK
    <3> QED BY <1>3, <3>2, <3>3, <3>4 DEF Acquire, TypeOK
  <2>2. ReadInThePast'
    BY <1>3 DEF Acquire, TypeOK, ReadInThePast, Clock
  <2>3. RowPerStart'
    BY <1>3, <2>0 DEF Acquire, RowPerStart, TypeOK
  <2>4. ActiveHasRow'
    BY <1>0, <1>3, <2>0 DEF Acquire, TypeOK, ActiveHasRow, Active, Mine
  <2> QED BY <2>1, <2>2, <2>3, <2>4
<1>4. CASE NotAcquired(p) \/ Abandon(p)
  <2>1. TypeOK'
    BY <1>4 DEF NotAcquired, Abandon, Leaves, TypeOK
  <2>2. ReadInThePast'
    BY <1>4 DEF NotAcquired, Abandon, Leaves, TypeOK, ReadInThePast, Clock
  <2>3. RowPerStart'
    BY <1>4 DEF NotAcquired, Abandon, RowPerStart
  <2>4. ActiveHasRow'
    BY <1>4 DEF NotAcquired, Abandon, Leaves, TypeOK, ActiveHasRow, Active, Mine
  <2> QED BY <2>1, <2>2, <2>3, <2>4
<1>5. CASE SendBeat(p)
  <2>1. TypeOK'
    <3>1. [bucket |-> Mine(p), owner |-> p, expires |-> Expiry(Clock(p))] \in Renewal
      BY <1>0, <1>5 DEF Renewal, Expiry, Clock, SendBeat, Active, TypeOK
    <3>2. nextBeat' \in [Proc -> Nat]
      BY <1>5, BeatIsNat DEF SendBeat, TypeOK
    <3> QED BY <1>5, <3>1, <3>2 DEF SendBeat, TypeOK
  <2>2. ReadInThePast'
    BY <1>5 DEF SendBeat, TypeOK, ReadInThePast, Clock
  <2>3. RowPerStart'
    BY <1>5 DEF SendBeat, RowPerStart
  <2>4. ActiveHasRow'
    BY <1>5 DEF SendBeat, ActiveHasRow, Active, Mine
  <2> QED BY <2>1, <2>2, <2>3, <2>4
<1>6. CASE HandlerEnds(p) \/ SuccessNotRecorded(p)
  <2>0. \A b \in Bucket : /\ run'[b] \in Run
                          /\ run'[b].status = "NONE" <=> run[b].status = "NONE"
    BY <1>0, <1>6 DEF HandlerEnds, SuccessNotRecorded, TypeOK, Run, ActiveHasRow, Active
  <2>1. TypeOK'
    <3>1. run' \in [Bucket -> Run]
      BY <1>6, <2>0 DEF HandlerEnds, SuccessNotRecorded, TypeOK
    <3> QED BY <1>6, <3>1 DEF HandlerEnds, SuccessNotRecorded, TypeOK
  <2>2. ReadInThePast'
    BY <1>6 DEF HandlerEnds, SuccessNotRecorded, TypeOK, ReadInThePast, Clock
  <2>3. RowPerStart'
    BY <1>6, <2>0 DEF HandlerEnds, SuccessNotRecorded, RowPerStart
  <2>4. ActiveHasRow'
    <3>1. \A q \in Proc : Active(q)' => Active(q) /\ Mine(q)' = Mine(q)
      BY <1>6 DEF HandlerEnds, SuccessNotRecorded, TypeOK, Active, Mine
    <3>2. \A q \in Proc : Active(q) => Mine(q) \in Bucket /\ run[Mine(q)].status # "NONE"
      BY <1>0 DEF ActiveHasRow, Active
    <3> QED BY <2>0, <3>1, <3>2 DEF ActiveHasRow
  <2> QED BY <2>1, <2>2, <2>3, <2>4
<1>7. CASE RecordSuccess(p) \/ RecordFailure(p)
  <2>0. Mine(p) \in Bucket /\ run[Mine(p)].status # "NONE"
    BY <1>0, <1>7 DEF RecordSuccess, RecordFailure, ActiveHasRow, Active
  <2>1. \A b \in Bucket : /\ run'[b] \in Run
                          /\ run'[b].status = "NONE" <=> run[b].status = "NONE"
    <3>1. PICK st \in {"SUCCEEDED", "FAILED"} : run' = [run EXCEPT ![Mine(p)].status = st]
      BY <1>7 DEF RecordSuccess, RecordFailure
    <3>2. \A b \in Bucket : run'[b] = IF b = Mine(p) THEN [run[b] EXCEPT !.status = st] ELSE run[b]
      BY <3>1 DEF TypeOK
    <3> QED BY <2>0, <3>2, ZenonT(60) DEF TypeOK, Run
  <2>2. TypeOK'
    BY <1>7, <2>1 DEF RecordSuccess, RecordFailure, Leaves, TypeOK
  <2>3. ReadInThePast'
    BY <1>7 DEF RecordSuccess, RecordFailure, Leaves, TypeOK, ReadInThePast, Clock
  <2>4. RowPerStart'
    BY <1>7, <2>1 DEF RecordSuccess, RecordFailure, RowPerStart
  <2>5. ActiveHasRow'
    BY <1>0, <1>7, <2>1 DEF RecordSuccess, RecordFailure, Leaves, TypeOK, ActiveHasRow, Active, Mine
  <2> QED BY <2>2, <2>3, <2>4, <2>5
<1> QED BY <1>1, <1>2, <1>3, <1>4, <1>5, <1>6, <1>7 DEF Step

LEMMA RenewalOnce ==
  ASSUME OnceInv, NEW m \in inFlight, LandBeat(m) \/ LoseBeat(m)
  PROVE  OnceInv'
<1> USE DEF OnceInv
<1>0. m.bucket \in Bucket /\ m.expires \in Nat
  BY DEF TypeOK, Renewal
<1>1. \A b \in Bucket : run'[b] \in Run /\ run'[b].status = run[b].status
  BY <1>0 DEF LandBeat, LoseBeat, TypeOK, Run
<1>2. TypeOK'
  BY <1>0, <1>1 DEF LandBeat, LoseBeat, TypeOK
<1>3. ReadInThePast'
  BY DEF LandBeat, LoseBeat, ReadInThePast, Clock
<1>4. RowPerStart'
  BY <1>1 DEF LandBeat, LoseBeat, RowPerStart
<1>5. \A q \in Proc : pc[q] # "idle" => Mine(q) \in Bucket
  BY MineIsBucket DEF TypeOK, ReadInThePast, Mine
<1>6. ActiveHasRow'
  BY <1>1, <1>5 DEF LandBeat, LoseBeat, ActiveHasRow, Active, Mine
<1> QED BY <1>2, <1>3, <1>4, <1>6

LEMMA TickOnce ==
  ASSUME OnceInv, Tick
  PROVE  OnceInv'
<1> USE ParameterAssumption DEF OnceInv
<1>1. TypeOK'
  BY DEF Tick, TypeOK
<1>2. ReadInThePast'
  BY DEF Tick, TypeOK, ReadInThePast, Clock
<1>3. RowPerStart' /\ ActiveHasRow'
  BY DEF Tick, RowPerStart, ActiveHasRow, Active, Mine
<1> QED BY <1>1, <1>2, <1>3

LEMMA NextOnce == OnceInv /\ [Next]_vars => OnceInv'
<1> SUFFICES ASSUME OnceInv, [Next]_vars PROVE OnceInv'
  OBVIOUS
<1>1. CASE Next
  BY <1>1, StepOnce, RenewalOnce, TickOnce DEF Next
<1>2. CASE UNCHANGED vars
  BY <1>2 DEF vars, OnceInv, TypeOK, ReadInThePast, RowPerStart, ActiveHasRow, Active, Mine, Clock
<1> QED BY <1>1, <1>2

LEMMA OnceInvHolds == Spec => []OnceInv
  BY InitOnce, NextOnce, PTL DEF Spec

\* Type correctness of the lease table and of the calls.
THEOREM TypeCorrect == Spec => []TypeOK
<1>1. OnceInv => TypeOK
  BY DEF OnceInv
<1> QED BY <1>1, OnceInvHolds, PTL

\* The handler of a bucket is started at most once, on whatever replica and
\* whatever crashes, late renewals and clock differences there are.
THEOREM BucketStartedOnce == Spec => []StartedOncePerBucket
<1>1. OnceInv => StartedOncePerBucket
  BY DEF OnceInv, RowPerStart, StartedOncePerBucket, TypeOK
<1> QED BY <1>1, OnceInvHolds, PTL

\* The row that a call has inserted is its own until the call is over.
HolderOwns ==
    \A p \in Proc : Active(p) =>
        run[Mine(p)].owner = {p} /\ run[Mine(p)].status # "NONE"

OwnedInv == OnceInv /\ HolderOwns

LEMMA ActiveInBucket ==
  ASSUME OnceInv, NEW p \in Proc, pc[p] # "idle"
  PROVE  Mine(p) \in Bucket
  BY MineIsBucket DEF OnceInv, TypeOK, ReadInThePast, Mine

\* A step after which the active calls are some of those before, with their
\* rows still their own.
LEMMA OwnersKept ==
  ASSUME OwnedInv,
         \A p \in Proc : Active(p)' => Active(p) /\ at'[p] = at[p],
         \A p \in Proc : Active(p)' =>
            /\ run'[Mine(p)].owner = run[Mine(p)].owner
            /\ run'[Mine(p)].status \in {run[Mine(p)].status, "FAILED", "SUCCEEDED"}
  PROVE  HolderOwns'
  BY DEF OwnedInv, HolderOwns, Mine

LEMMA StepOwned ==
  ASSUME OwnedInv, NEW p \in Proc, Step(p)
  PROVE  HolderOwns'
<1>0. TypeOK /\ OnceInv
  BY DEF OwnedInv, OnceInv
<1>1. CASE Begin(p) \/ NotAcquired(p) \/ SendBeat(p) \/ HandlerEnds(p) \/ Abandon(p)
  <2>1. \A q \in Proc : Active(q)' => Active(q) /\ at'[q] = at[q]
    BY <1>0, <1>1 DEF Begin, NotAcquired, SendBeat, HandlerEnds, Abandon, Leaves, Active, TypeOK
  <2>2. run' = run
    BY <1>1 DEF Begin, NotAcquired, SendBeat, HandlerEnds, Abandon
  <2> QED BY <2>1, <2>2, OwnersKept
<1>5. CASE SuccessNotRecorded(p)
  <2>1. \A q \in Proc : Active(q)' => Active(q) /\ at'[q] = at[q]
    BY <1>0, <1>5 DEF SuccessNotRecorded, Active, TypeOK
  <2>2. \A b \in Bucket : /\ run'[b].owner = run[b].owner
                          /\ run'[b].status \in {run[b].status, "SUCCEEDED"}
    BY <1>0, <1>5 DEF SuccessNotRecorded, TypeOK, Run
  <2>3. \A q \in Proc : Active(q)' => Mine(q) \in Bucket
    BY <1>0, <2>1, ActiveInBucket DEF Active
  <2> QED BY <2>1, <2>2, <2>3, OwnersKept
<1>2. CASE Reap(p)
  <2>1. \A q \in Proc : Active(q)' => Active(q) /\ at'[q] = at[q]
    BY <1>0, <1>2 DEF Reap, Active, TypeOK
  <2>2. \A b \in Bucket : /\ run'[b].owner = run[b].owner
                          /\ run'[b].status \in {run[b].status, "FAILED"}
    BY <1>0, <1>2 DEF Reap, TypeOK, Run
  <2>3. \A q \in Proc : Active(q)' => Mine(q) \in Bucket
    BY <1>0, <2>1, ActiveInBucket DEF Active
  <2> QED BY <2>1, <2>2, <2>3, OwnersKept
<1>3. CASE Acquire(p)
  <2>1. Mine(p) \in Bucket /\ run[Mine(p)].status = "NONE"
    BY <1>0, <1>3, ActiveInBucket DEF Acquire, IndexesAllow
  <2>2. /\ run'[Mine(p)].owner = {p} /\ run'[Mine(p)].status = "RUNNING"
        /\ at' = at
    BY <1>0, <1>3, <2>1 DEF Acquire, TypeOK
  <2>3. ASSUME NEW q \in Proc \ {p}, Active(q)'
        PROVE  run'[Mine(q)] = run[Mine(q)] /\ Active(q)
    <3>1. Active(q) /\ Mine(q) \in Bucket
      BY <1>0, <1>3, <2>3, ActiveInBucket DEF Acquire, Active, TypeOK
    <3>2. Mine(q) # Mine(p)
      BY <2>1, <3>1 DEF OwnedInv, HolderOwns
    <3> QED BY <1>0, <1>3, <3>1, <3>2 DEF Acquire, TypeOK
  <2> QED BY <2>2, <2>3 DEF OwnedInv, HolderOwns, Mine
<1>4. CASE RecordSuccess(p) \/ RecordFailure(p)
  <2>1. Active(p) /\ Mine(p) \in Bucket
    BY <1>0, <1>4, ActiveInBucket DEF RecordSuccess, RecordFailure, Active
  <2>2. \A q \in Proc : Active(q)' => q # p /\ Active(q) /\ at'[q] = at[q]
    BY <1>0, <1>4 DEF RecordSuccess, RecordFailure, Leaves, Active, TypeOK
  <2>3. \A b \in Bucket : b # Mine(p) => run'[b] = run[b]
    BY <1>0, <1>4 DEF RecordSuccess, RecordFailure, TypeOK
  <2>4. \A q \in Proc : Active(q)' => run'[Mine(q)] = run[Mine(q)]
    <3> SUFFICES ASSUME NEW q \in Proc, Active(q)' PROVE run'[Mine(q)] = run[Mine(q)]
      OBVIOUS
    <3>1. Active(q) /\ q # p /\ Mine(q) \in Bucket
      BY <1>0, <2>2, ActiveInBucket DEF Active
    <3>2. Mine(q) # Mine(p)
      BY <2>1, <3>1 DEF OwnedInv, HolderOwns
    <3> QED BY <2>3, <3>1, <3>2
  <2> QED BY <2>2, <2>4, OwnersKept
<1> QED BY <1>1, <1>2, <1>3, <1>4, <1>5 DEF Step

LEMMA NextOwned == OwnedInv /\ [Next]_vars => OwnedInv'
<1> SUFFICES ASSUME OwnedInv, [Next]_vars PROVE OwnedInv'
  OBVIOUS
<1>0. OnceInv /\ OnceInv' /\ TypeOK
  BY NextOnce DEF OwnedInv, OnceInv
<1>1. ASSUME NEW m \in inFlight, LandBeat(m) \/ LoseBeat(m)
      PROVE  HolderOwns'
  <2>1. \A q \in Proc : Active(q)' => Active(q) /\ at'[q] = at[q]
    BY <1>1 DEF LandBeat, LoseBeat, Active
  <2>2. \A b \in Bucket : run'[b].owner = run[b].owner /\ run'[b].status = run[b].status
    BY <1>0, <1>1 DEF LandBeat, LoseBeat, TypeOK, Run, Renewal
  <2>3. \A q \in Proc : Active(q)' => Mine(q) \in Bucket
    BY <1>0, <2>1, ActiveInBucket DEF Active
  <2> QED BY <2>1, <2>2, <2>3, OwnersKept
<1>2. ASSUME Tick \/ UNCHANGED vars
      PROVE  HolderOwns'
  <2>1. run' = run /\ pc' = pc /\ at' = at
    BY <1>2 DEF Tick, vars
  <2>2. \A q \in Proc : Active(q)' => Active(q) /\ at'[q] = at[q]
    BY <2>1 DEF Active
  <2>3. \A q \in Proc : Active(q)' => /\ run'[Mine(q)].owner = run[Mine(q)].owner
                                      /\ run'[Mine(q)].status \in {run[Mine(q)].status, "FAILED"}
    BY <2>1
  <2> QED BY <2>2, <2>3, OwnersKept
<1> QED BY <1>0, <1>1, <1>2, StepOwned DEF Next, OwnedInv

LEMMA OwnedHolds == Spec => []OwnedInv
<1>1. Init => OwnedInv
  BY InitOnce DEF Init, OwnedInv, HolderOwns, Active
<1> QED BY <1>1, NextOwned, PTL DEF Spec

\* The row of a bucket, after one step of anybody.
RowKept(b) ==
    /\ run[b].status = "SUCCEEDED" =>
         run'[b] = run[b] \/ OwnCallWrites(b, "failure", "FAILED")
    /\ run[b].status = "FAILED" =>
         run'[b] = run[b] \/ OwnCallWrites(b, "success", "SUCCEEDED")
    /\ run[b].status = "RUNNING" /\ run'[b].status = "FAILED" =>
         \E p \in Proc :
            \/ pc[p] = "reap" /\ run[b].expires <= Clock(p)
            \/ pc[p] = "failure" /\ run[b].owner = {p}

LEMMA RowsKeptByStep ==
  ASSUME OwnedInv, NEW p \in Proc, Step(p), NEW b \in Bucket
  PROVE  RowKept(b)
<1>0. TypeOK /\ OnceInv /\ run[b] \in Run
  BY DEF OwnedInv, OnceInv, TypeOK
<1>1. CASE Begin(p) \/ NotAcquired(p) \/ SendBeat(p) \/ HandlerEnds(p) \/ Abandon(p)
  <2>1. run' = run
    BY <1>1 DEF Begin, NotAcquired, SendBeat, HandlerEnds, Abandon
  <2> QED BY <2>1 DEF RowKept
<1>2. CASE Reap(p)
  <2>1. CASE Expired(run[b], at[p])
    <3>1. run[b].status = "RUNNING" /\ run[b].expires <= at[p] /\ pc[p] = "reap"
      BY <1>2, <2>1 DEF Expired, Reap
    <3>2. run[b].expires <= Clock(p)
      <4>1. at[p] <= Clock(p)
        BY <3>1 DEF OwnedInv, OnceInv, ReadInThePast
      <4>2. run[b].expires \in Nat /\ at[p] \in Nat /\ Clock(p) \in Nat
        BY <1>0, ParameterAssumption DEF TypeOK, Run, Clock
      <4> QED BY <3>1, <4>1, <4>2
    <3> QED BY <3>1, <3>2 DEF RowKept
  <2>2. CASE ~Expired(run[b], at[p])
    <3>1. run'[b] = run[b]
      BY <1>2, <2>2 DEF Reap
    <3> QED BY <3>1 DEF RowKept
  <2> QED BY <2>1, <2>2
<1>3. CASE Acquire(p)
  <2>1. CASE b = Mine(p)
    BY <1>3, <2>1 DEF Acquire, IndexesAllow, RowKept
  <2>2. CASE b # Mine(p)
    <3>1. run'[b] = run[b]
      BY <1>0, <1>3, <2>2 DEF Acquire, TypeOK
    <3> QED BY <3>1 DEF RowKept
  <2> QED BY <2>1, <2>2
<1>4. CASE RecordSuccess(p) \/ RecordFailure(p) \/ SuccessNotRecorded(p)
  <2>1. Active(p)
    BY <1>4 DEF RecordSuccess, RecordFailure, SuccessNotRecorded, Active
  <2>2. CASE b = Mine(p)
    <3>1. run[b].owner = {p}
      BY <2>1, <2>2 DEF OwnedInv, HolderOwns
    <3>2. CASE RecordSuccess(p) \/ (SuccessNotRecorded(p) /\ run' # run)
      <4>1. pc[p] = "success" /\ run'[b] = [run[b] EXCEPT !.status = "SUCCEEDED"]
        BY <1>0, <2>2, <3>2 DEF RecordSuccess, SuccessNotRecorded, TypeOK
      <4>2. run'[b].status = "SUCCEEDED" /\ (run[b].status = "SUCCEEDED" => run'[b] = run[b])
        BY <1>0, <4>1 DEF Run
      <4> QED BY <3>1, <4>1, <4>2 DEF RowKept, OwnCallWrites
    <3>4. CASE run' = run
      BY <3>4 DEF RowKept
    <3>3. CASE RecordFailure(p)
      <4>1. pc[p] = "failure" /\ run'[b] = [run[b] EXCEPT !.status = "FAILED"]
        BY <1>0, <2>2, <3>3 DEF RecordFailure, TypeOK
      <4>2. run[b].status = "FAILED" => run'[b] = run[b]
        BY <1>0, <4>1 DEF Run
      <4> QED BY <3>1, <4>1, <4>2 DEF RowKept, OwnCallWrites
    <3> QED BY <1>4, <3>2, <3>3, <3>4
  <2>3. CASE b # Mine(p)
    <3>1. run'[b] = run[b]
      BY <1>0, <1>4, <2>3 DEF RecordSuccess, RecordFailure, SuccessNotRecorded, TypeOK
    <3> QED BY <3>1 DEF RowKept
  <2> QED BY <2>2, <2>3
<1> QED BY <1>1, <1>2, <1>3, <1>4 DEF Step

LEMMA RowsKeptByNext ==
  ASSUME OwnedInv, [Next]_vars, NEW b \in Bucket
  PROVE  RowKept(b)
<1>1. ASSUME NEW m \in inFlight, LandBeat(m) \/ LoseBeat(m)
      PROVE  RowKept(b)
  <2>1. TypeOK /\ m.bucket \in Bucket
    BY DEF OwnedInv, OnceInv, TypeOK, Renewal
  <2>2. run'[b] = run[b] \/ (run[b].status = "RUNNING" /\ run'[b].status = "RUNNING")
    BY <1>1, <2>1 DEF LandBeat, LoseBeat, Renews, TypeOK, Run
  <2> QED BY <2>2 DEF RowKept
<1>2. CASE Tick \/ UNCHANGED vars
  <2>1. run'[b] = run[b]
    BY <1>2 DEF Tick, vars
  <2> QED BY <2>1 DEF RowKept
<1> QED BY <1>1, <1>2, RowsKeptByStep DEF Next

\* Only its own call changes the row of a finished run, and only its own
\* call or a reaper after its lease fails a running one, whatever late
\* renewals, deaths, lost answers and clock differences there are
\* (executeWithLease: every write names the run).
THEOREM RowsStay == Spec => RowsOfOthersStay
<1>1. OwnedInv /\ [Next]_vars => [FinishedRowStays /\ ReapsOnlyExpired]_vars
  BY RowsKeptByNext DEF RowKept, FinishedRowStays, ReapsOnlyExpired
<1> QED BY <1>1, OwnedHolds, PTL DEF Spec, RowsOfOthersStay

-----------------------------------------------------------------------------
(* Reminders (Reminders): a notice exists exactly when it was inserted.    *)

\* A notice exists exactly when it was inserted once.
InsertedOnce == \A n \in Reminders!Notice : rTold[n] = IF rNotice[n] = "NONE" THEN 0 ELSE 1

Exists(n) == rNotice[n] # "NONE"

NoticeOfPlan(p, u, x) == <<u, x, Reminders!TriggerAt(p, x)>>

\* A run has read the members of the plans it has left to do.
Reading(p) == rReq[p].stage \in {"members", "muted"}

Walking(p) == rReq[p].stage \in {"find", "create", "again", "look", "insert"}

PlanAtHand(p) == rReq[p].stage \in {"create", "again", "look", "insert"}

\* The plans left to do are among those that the run has read.
TodoIsSeen(p) ==
    /\ Reading(p) => \A x \in Plan : x \in rReq[p].todo <=> rReq[p].seen[x] # -1
    /\ Walking(p) => \A x \in rReq[p].todo : rReq[p].seen[x] # -1
    /\ PlanAtHand(p) => rReq[p].x \in rReq[p].todo

\* Members of the plans that the run is done with have their notices, and so
\* have those of the plan at hand that it is done with.
DoneIsTold(p) ==
    /\ Walking(p) =>
        \A x \in Plan \ rReq[p].todo : rReq[p].seen[x] # -1 =>
            \A u \in rReq[p].to : Exists(NoticeOfPlan(p, u, x))
    /\ PlanAtHand(p) =>
         \A u \in rReq[p].to \ rReq[p].left : Exists(NoticeOfPlan(p, u, rReq[p].x))

\* The part of TypeOK that the walk of a run needs.
RunTypes ==
    /\ rPlan \in [Plan -> Reminders!PlanRow]
    /\ rRule \in [active : BOOLEAN, hours : Hours]
    /\ rNotice \in [Reminders!Notice -> {"NONE", "UNREAD", "READ"}]
    /\ rTold \in [Reminders!Notice -> Nat]
    /\ rReq \in [Sender -> Reminders!Run]

WalkInv ==
    /\ RunTypes
    /\ InsertedOnce
    /\ \A p \in Sender : TodoIsSeen(p) /\ DoneIsTold(p)

-----------------------------------------------------------------------------

LEMMA InitWalk ==
  ASSUME Reminders!Init
  PROVE  WalkInv
<1>1. Reminders!Idle \in Reminders!Run
  BY RemindersAssumption DEF Reminders!Idle, Reminders!Run, Reminders!SomeHours
<1>2. RunTypes
  BY <1>1 DEF Reminders!Init, RunTypes, Reminders!PlanRow
<1>3. InsertedOnce
  BY DEF Reminders!Init, InsertedOnce
<1>4. \A p \in Sender : TodoIsSeen(p) /\ DoneIsTold(p)
  BY DEF Reminders!Init, Reminders!Idle, TodoIsSeen, DoneIsTold, Reading, Walking, PlanAtHand
<1> QED BY <1>2, <1>3, <1>4 DEF WalkInv

\* The notice of a plan that was read is one of Notice.
LEMMA NoticeIsOne ==
  ASSUME RunTypes, NEW p \in Sender, NEW u \in Member, NEW x \in Plan, rReq[p].seen[x] # -1
  PROVE  NoticeOfPlan(p, u, x) \in Reminders!Notice
<1>1. rReq[p].seen[x] \in Reminders!Time /\ rReq[p].hours \in Hours
  BY DEF RunTypes, Reminders!Run
<1>2. Reminders!TriggerAt(p, x) \in Reminders!Trigger
  BY <1>1 DEF Reminders!Trigger, Reminders!TriggerAt
<1> QED BY <1>2 DEF Reminders!Notice, NoticeOfPlan

\* A run that is left as it is keeps what it has done, since no notice goes.
LEMMA OthersKeep ==
  ASSUME RunTypes, NEW p \in Sender, TodoIsSeen(p), DoneIsTold(p), rReq'[p] = rReq[p],
         \A n \in Reminders!Notice : Exists(n) => Exists(n)'
  PROVE  TodoIsSeen(p)' /\ DoneIsTold(p)'
<1>1. /\ (Reading(p)' <=> Reading(p)) /\ (Walking(p)' <=> Walking(p))
      /\ (PlanAtHand(p)' <=> PlanAtHand(p))
  BY DEF Reading, Walking, PlanAtHand
<1>2. \A u, x : NoticeOfPlan(p, u, x)' = NoticeOfPlan(p, u, x)
  BY DEF NoticeOfPlan, Reminders!TriggerAt
<1>3. \A u \in Member, x \in Plan :
        rReq[p].seen[x] # -1 => NoticeOfPlan(p, u, x) \in Reminders!Notice
  BY NoticeIsOne
<1>4. rReq[p].to \subseteq Member /\ rReq[p].x \in Plan
  BY DEF RunTypes, Reminders!Run
<1>5. TodoIsSeen(p)'
  BY <1>1 DEF TodoIsSeen
<1>6. DoneIsTold(p)'
  <2>1. ASSUME Walking(p), NEW x \in Plan \ rReq[p].todo, rReq[p].seen[x] # -1,
               NEW u \in rReq[p].to
        PROVE  Exists(NoticeOfPlan(p, u, x))'
    <3>1. Exists(NoticeOfPlan(p, u, x)) /\ NoticeOfPlan(p, u, x) \in Reminders!Notice
      BY <2>1, <1>3, <1>4 DEF DoneIsTold
    <3> QED BY <3>1, <1>2 DEF Exists
  <2>2. ASSUME PlanAtHand(p), NEW u \in rReq[p].to \ rReq[p].left
        PROVE  Exists(NoticeOfPlan(p, u, rReq[p].x))'
    <3>1. Exists(NoticeOfPlan(p, u, rReq[p].x))
      BY <2>2 DEF DoneIsTold
    <3>2. NoticeOfPlan(p, u, rReq[p].x) \in Reminders!Notice
      BY <2>2, <1>3, <1>4 DEF TodoIsSeen, PlanAtHand, Walking
    <3> QED BY <3>1, <3>2, <1>2 DEF Exists
  <2> QED BY <2>1, <2>2, <1>1 DEF DoneIsTold
<1> QED BY <1>5, <1>6

-----------------------------------------------------------------------------
(* The statements of a run.                                                *)

Moves(p) == Reminders!Start(p) \/ Reminders!Step(p) \/ Reminders!Fails(p)

NoticesStay == \A n \in Reminders!Notice : Exists(n) => Exists(n)'

LEMMA MovesOne ==
  ASSUME RunTypes, NEW p \in Sender, Moves(p)
  PROVE  \E r : rReq' = [rReq EXCEPT ![p] = r]
<1>1. CASE \/ Reminders!Start(p) \/ Reminders!ReadPlans(p) \/ Reminders!ReadMembers(p)
           \/ Reminders!ReadOptedOut(p)
  BY <1>1
     DEF Reminders!Start, Reminders!ReadPlans, Reminders!ReadMembers, Reminders!ReadOptedOut,
         Reminders!Goes
<1>2. CASE \/ Reminders!ReadRule(p) \/ Reminders!CreateReminder(p)
           \/ Reminders!FindReminderAgain(p) \/ Reminders!PlanDone(p)
  BY <1>2
     DEF Reminders!ReadRule, Reminders!CreateReminder, Reminders!FindReminderAgain,
         Reminders!PlanDone, Reminders!Goes, Reminders!Ends, Reminders!Refused
<1>3. CASE Reminders!FindReminder(p)
  BY <1>3 DEF Reminders!FindReminder
<1>4. CASE Reminders!FindNotice(p) \/ Reminders!InsertNotice(p)
  BY <1>4 DEF Reminders!FindNotice, Reminders!InsertNotice
<1>5. CASE Reminders!Finish(p) \/ Reminders!RowIsGone(p) \/ Reminders!Fails(p)
  BY <1>5 DEF Reminders!Finish, Reminders!RowIsGone, Reminders!Fails, Reminders!Ends
<1> QED BY <1>1, <1>2, <1>3, <1>4, <1>5 DEF Moves, Reminders!Step

LEMMA OwnRun ==
  ASSUME RunTypes, NEW p \in Sender, Moves(p)
  PROVE  rReq'[p] \in Reminders!Run
<1>0. rReq[p] \in Reminders!Run /\ rRule.hours \in Hours /\ Reminders!Idle \in Reminders!Run
  BY DEF RunTypes, Reminders!Idle, Reminders!Run, Reminders!SomeHours
<1> USE DEF Reminders!Run
<1>1. CASE \/ Reminders!Start(p) \/ Reminders!ReadMembers(p) \/ Reminders!ReadOptedOut(p)
           \/ Reminders!ReadRule(p)
  <2> DEFINE active == {u \in Member : rTeam[u].active}
             told == {u \in rReq[p].to : rTeam[u].wants}
  <2>1. \/ rReq'[p] = Reminders!Idle
        \/ rReq'[p] = [rReq[p] EXCEPT !.stage = "rule"]
        \/ rReq'[p] = [rReq[p] EXCEPT !.stage = "plans", !.hours = rRule.hours]
        \/ rReq'[p] = [rReq[p] EXCEPT !.stage = "muted", !.to = active]
        \/ rReq'[p] = [rReq[p] EXCEPT !.stage = "find", !.to = told]
    BY <1>1
       DEF Reminders!Start, Reminders!ReadMembers, Reminders!ReadOptedOut, Reminders!ReadRule,
           Reminders!Goes, Reminders!Ends, RunTypes
  <2>2. active \in SUBSET Member /\ told \in SUBSET Member
    BY <1>0
  <2> HIDE DEF active, told
  <2> QED BY <1>0, <2>1, <2>2
<1>2. CASE Reminders!ReadPlans(p)
  BY <1>0, <1>2 DEF Reminders!ReadPlans, RunTypes, Reminders!PlanRow
<1>3. CASE Reminders!FindReminder(p)
  <2>1. PICK x \in rReq[p].todo, s \in {"look", "create"} :
          rReq' = [rReq EXCEPT ![p].x = x, ![p].left = rReq[p].to, ![p].stage = s]
    BY <1>3 DEF Reminders!FindReminder, Reminders!LeftFor
  <2>2. rReq'[p] = [rReq[p] EXCEPT !.x = x, !.left = rReq[p].to, !.stage = s]
    BY <2>1 DEF RunTypes
  <2>3. x \in Plan
    BY <1>0
  <2> QED BY <1>0, <2>2, <2>3
<1>4. CASE \/ Reminders!CreateReminder(p) \/ Reminders!FindReminderAgain(p)
           \/ Reminders!PlanDone(p)
  <2>1. CASE Reminders!CreateReminder(p) \/ Reminders!FindReminderAgain(p)
    <3>1. \E s \in {"look", "again"} : rReq'[p] = [rReq[p] EXCEPT !.stage = s]
      BY <2>1
         DEF Reminders!CreateReminder, Reminders!FindReminderAgain, Reminders!Goes,
             Reminders!Refused, RunTypes
    <3> QED BY <1>0, <3>1
  <2>2. CASE Reminders!PlanDone(p)
    <3>1. rReq'[p] = [rReq[p] EXCEPT !.stage = "find", !.todo = rReq[p].todo \ {rReq[p].x}]
      BY <2>2 DEF Reminders!PlanDone, RunTypes
    <3> QED BY <1>0, <3>1, ZenonT(60)
  <2> QED BY <1>4, <2>1, <2>2
<1>5. CASE Reminders!FindNotice(p)
  <2>1. PICK u \in rReq[p].left :
          IF Exists(Reminders!NoticeOf(p, u))
          THEN rReq' = [rReq EXCEPT ![p].left = rReq[p].left \ {u}]
          ELSE rReq' = [rReq EXCEPT ![p].stage = "insert", ![p].u = u]
    BY <1>5 DEF Reminders!FindNotice, Exists
  <2>2. u \in Member
    BY <1>0
  <2>3. CASE rReq' = [rReq EXCEPT ![p].left = rReq[p].left \ {u}]
    <3>1. rReq'[p] = [rReq[p] EXCEPT !.left = rReq[p].left \ {u}]
      BY <2>3 DEF RunTypes
    <3> QED BY <1>0, <3>1
  <2>4. CASE rReq' = [rReq EXCEPT ![p].stage = "insert", ![p].u = u]
    <3>1. rReq'[p] = [rReq[p] EXCEPT !.stage = "insert", !.u = u]
      BY <2>4 DEF RunTypes
    <3> QED BY <1>0, <2>2, <3>1
  <2> QED BY <2>1, <2>3, <2>4
<1>6. CASE Reminders!InsertNotice(p)
  <2>1. rReq'[p] = [rReq[p] EXCEPT !.stage = "look", !.left = rReq[p].left \ {rReq[p].u}]
    BY <1>6 DEF Reminders!InsertNotice, RunTypes
  <2> QED BY <1>0, <2>1
<1>7. CASE Reminders!Finish(p) \/ Reminders!RowIsGone(p) \/ Reminders!Fails(p)
  BY <1>0, <1>7
     DEF Reminders!Finish, Reminders!RowIsGone, Reminders!Fails, Reminders!Ends, RunTypes
<1> QED BY <1>1, <1>2, <1>3, <1>4, <1>5, <1>6, <1>7 DEF Moves, Reminders!Step

\* Only an insert changes a notice, and only one that was not there.
LEMMA MovesInsert ==
  ASSUME RunTypes, InsertedOnce, NEW p \in Sender, Moves(p)
  PROVE  /\ rPlan' = rPlan /\ rRule' = rRule
         /\ rNotice' \in [Reminders!Notice -> {"NONE", "UNREAD", "READ"}]
         /\ rTold' \in [Reminders!Notice -> Nat]
         /\ InsertedOnce' /\ NoticesStay
<1>1. rPlan' = rPlan /\ rRule' = rRule
  BY DEF Moves, Reminders!Step, Reminders!Start, Reminders!ReadRule, Reminders!ReadPlans,
         Reminders!ReadMembers, Reminders!ReadOptedOut, Reminders!FindReminder,
         Reminders!CreateReminder, Reminders!FindReminderAgain, Reminders!PlanDone,
         Reminders!FindNotice, Reminders!InsertNotice, Reminders!Finish, Reminders!RowIsGone,
         Reminders!Fails, Reminders!people
<1>2. CASE Reminders!InsertNotice(p) /\ Reminders!NoticeIsNew(p)
  <2> DEFINE m == Reminders!NoticeOf(p, rReq[p].u)
  <2>1. /\ rNotice' = [rNotice EXCEPT ![m] = "UNREAD"] /\ rTold' = [rTold EXCEPT ![m] = @ + 1]
        /\ rNotice[m] = "NONE"
    BY <1>2 DEF Reminders!InsertNotice, Reminders!NoticeIsNew
  <2> HIDE DEF m
  <2>2. /\ rNotice' \in [Reminders!Notice -> {"NONE", "UNREAD", "READ"}]
        /\ rTold' \in [Reminders!Notice -> Nat]
    <3>1. \A n \in Reminders!Notice : rTold'[n] = IF n = m THEN rTold[n] + 1 ELSE rTold[n]
      BY <2>1 DEF RunTypes
    <3>2. \A n \in Reminders!Notice : rTold'[n] \in Nat
      BY <3>1 DEF RunTypes
    <3>3. rNotice' \in [Reminders!Notice -> {"NONE", "UNREAD", "READ"}]
      BY <2>1 DEF RunTypes
    <3>4. rTold' = [n \in Reminders!Notice |-> rTold'[n]]
      BY <2>1 DEF RunTypes
    <3> QED BY <3>2, <3>3, <3>4
  <2>3. InsertedOnce' /\ NoticesStay
    BY <2>1 DEF InsertedOnce, NoticesStay, Exists, RunTypes
  <2> QED BY <1>1, <2>2, <2>3
<1>3. CASE ~(Reminders!InsertNotice(p) /\ Reminders!NoticeIsNew(p))
  <2>1. rNotice' = rNotice /\ rTold' = rTold
    BY <1>3
       DEF Moves, Reminders!Step, Reminders!Start, Reminders!ReadRule, Reminders!ReadPlans,
           Reminders!ReadMembers, Reminders!ReadOptedOut, Reminders!FindReminder,
           Reminders!CreateReminder, Reminders!FindReminderAgain, Reminders!PlanDone,
           Reminders!FindNotice, Reminders!InsertNotice, Reminders!Finish, Reminders!RowIsGone,
           Reminders!Fails
  <2> QED BY <1>1, <2>1 DEF RunTypes, InsertedOnce, NoticesStay, Exists
<1> QED BY <1>2, <1>3

\* A statement that changes no notice keeps those that exist, for every date.
LEMMA SameNotices ==
  ASSUME NEW p \in Sender, NEW x \in Plan, NEW u \in Member,
         rReq'[p].seen = rReq[p].seen, rReq'[p].hours = rReq[p].hours, rNotice' = rNotice
  PROVE  Exists(NoticeOfPlan(p, u, x))' <=> Exists(NoticeOfPlan(p, u, x))
  BY DEF Exists, NoticeOfPlan, Reminders!TriggerAt

\* The run itself, after one of its statements.
LEMMA OwnWalk ==
  ASSUME WalkInv, NEW p \in Sender, Moves(p)
  PROVE  TodoIsSeen(p)' /\ DoneIsTold(p)'
<1> USE DEF WalkInv
<1>0. /\ RunTypes /\ TodoIsSeen(p) /\ DoneIsTold(p) /\ rReq[p] \in Reminders!Run
      /\ rReq[p].to \subseteq Member /\ rReq[p].todo \subseteq Plan /\ rReq[p].x \in Plan
  BY DEF RunTypes, Reminders!Run
<1>1. CASE \/ Reminders!Start(p) \/ Reminders!ReadRule(p) \/ Reminders!Finish(p)
           \/ Reminders!RowIsGone(p) \/ Reminders!Fails(p)
  <2>1. rReq'[p].stage \in {"idle", "rule", "plans"}
    BY <1>0, <1>1
       DEF Reminders!Start, Reminders!ReadRule, Reminders!Finish, Reminders!RowIsGone,
           Reminders!Fails, Reminders!Goes, Reminders!Ends, Reminders!Idle, RunTypes,
           Reminders!Run
  <2> QED BY <2>1 DEF TodoIsSeen, DoneIsTold, Reading, Walking, PlanAtHand
<1>2. CASE Reminders!ReadPlans(p)
  <2> DEFINE due == {x \in Plan : Reminders!InWindow(x, rReq[p].hours)}
  <2>1. /\ rReq'[p].stage = "members" /\ rReq'[p].todo = due
        /\ rReq'[p].seen = [x \in Plan |-> IF x \in due THEN rPlan[x].date ELSE -1]
    BY <1>0, <1>2 DEF Reminders!ReadPlans, RunTypes, Reminders!Run
  <2>2. \A x \in due : rPlan[x].date # -1
    BY <1>0 DEF RunTypes, Reminders!PlanRow, Reminders!Time
  <2> HIDE DEF due
  <2>3. \A x \in Plan : x \in rReq'[p].todo <=> rReq'[p].seen[x] # -1
    BY <2>1, <2>2
  <2> QED BY <2>1, <2>3 DEF TodoIsSeen, DoneIsTold, Reading, Walking, PlanAtHand
<1>3. CASE Reminders!ReadMembers(p)
  <2>1. /\ rReq[p].stage = "members" /\ rReq'[p].stage = "muted"
        /\ rReq'[p].todo = rReq[p].todo /\ rReq'[p].seen = rReq[p].seen
    BY <1>0, <1>3 DEF Reminders!ReadMembers, Reminders!At, RunTypes, Reminders!Run
  <2> QED BY <1>0, <2>1 DEF TodoIsSeen, DoneIsTold, Reading, Walking, PlanAtHand
<1>4. CASE Reminders!ReadOptedOut(p)
  <2>1. /\ rReq[p].stage = "muted" /\ rReq'[p].stage = "find"
        /\ rReq'[p].todo = rReq[p].todo /\ rReq'[p].seen = rReq[p].seen
    BY <1>0, <1>4 DEF Reminders!ReadOptedOut, Reminders!At, RunTypes, Reminders!Run
  <2> QED BY <1>0, <2>1 DEF TodoIsSeen, DoneIsTold, Reading, Walking, PlanAtHand
<1>5. CASE Reminders!FindReminder(p)
  <2>1. PICK x \in rReq[p].todo, s \in {"look", "create"} :
          rReq' = [rReq EXCEPT ![p].x = x, ![p].left = rReq[p].to, ![p].stage = s]
    BY <1>5 DEF Reminders!FindReminder, Reminders!LeftFor
  <2>2. /\ rReq[p].stage = "find" /\ rNotice' = rNotice
        /\ rReq'[p] = [rReq[p] EXCEPT !.x = x, !.left = rReq[p].to, !.stage = s]
    BY <1>0, <1>5, <2>1 DEF Reminders!FindReminder, Reminders!At, RunTypes
  <2>3. /\ rReq'[p].stage = s /\ rReq'[p].x = x /\ rReq'[p].left = rReq[p].to
        /\ rReq'[p].todo = rReq[p].todo /\ rReq'[p].seen = rReq[p].seen
        /\ rReq'[p].to = rReq[p].to /\ rReq'[p].hours = rReq[p].hours
    BY <1>0, <2>2 DEF Reminders!Run
  <2>4. TodoIsSeen(p)'
    BY <1>0, <2>1, <2>2, <2>3 DEF TodoIsSeen, Reading, Walking, PlanAtHand
  <2>5. DoneIsTold(p)'
    BY <1>0, <2>2, <2>3, SameNotices DEF DoneIsTold, Walking, PlanAtHand
  <2> QED BY <2>4, <2>5
<1>6. CASE Reminders!CreateReminder(p) \/ Reminders!FindReminderAgain(p)
  <2>1. PICK s \in {"look", "again"} : rReq'[p] = [rReq[p] EXCEPT !.stage = s]
    BY <1>0, <1>6
       DEF Reminders!CreateReminder, Reminders!FindReminderAgain, Reminders!Goes,
           Reminders!Refused, RunTypes
  <2>2. rReq[p].stage \in {"create", "again"} /\ rNotice' = rNotice
    BY <1>6 DEF Reminders!CreateReminder, Reminders!FindReminderAgain, Reminders!At
  <2>3. /\ rReq'[p].stage = s /\ rReq'[p].x = rReq[p].x /\ rReq'[p].left = rReq[p].left
        /\ rReq'[p].todo = rReq[p].todo /\ rReq'[p].seen = rReq[p].seen
        /\ rReq'[p].to = rReq[p].to /\ rReq'[p].hours = rReq[p].hours
    BY <1>0, <2>1 DEF Reminders!Run
  <2>4. TodoIsSeen(p)'
    BY <1>0, <2>1, <2>2, <2>3 DEF TodoIsSeen, Reading, Walking, PlanAtHand
  <2>5. DoneIsTold(p)'
    BY <1>0, <2>2, <2>3, SameNotices DEF DoneIsTold, Walking, PlanAtHand
  <2> QED BY <2>4, <2>5
<1>7. CASE Reminders!PlanDone(p)
  <2>1. /\ rReq[p].stage = "look" /\ rReq[p].left = {} /\ rNotice' = rNotice
        /\ rReq'[p] = [rReq[p] EXCEPT !.stage = "find", !.todo = rReq[p].todo \ {rReq[p].x}]
    BY <1>0, <1>7 DEF Reminders!PlanDone, Reminders!At, RunTypes
  <2>2. /\ rReq'[p].stage = "find" /\ rReq'[p].todo = rReq[p].todo \ {rReq[p].x}
        /\ rReq'[p].seen = rReq[p].seen /\ rReq'[p].to = rReq[p].to
        /\ rReq'[p].hours = rReq[p].hours
    BY <1>0, <2>1 DEF Reminders!Run
  <2>3. TodoIsSeen(p)'
    BY <1>0, <2>1, <2>2 DEF TodoIsSeen, Reading, Walking, PlanAtHand
  <2>4. \A u \in rReq[p].to : Exists(NoticeOfPlan(p, u, rReq[p].x))
    BY <1>0, <2>1 DEF DoneIsTold, PlanAtHand
  <2>5. DoneIsTold(p)'
    BY <1>0, <2>1, <2>2, <2>4, SameNotices DEF DoneIsTold, Walking, PlanAtHand
  <2> QED BY <2>3, <2>5
<1>8. CASE Reminders!FindNotice(p)
  <2>1. PICK u \in rReq[p].left :
          IF Exists(Reminders!NoticeOf(p, u))
          THEN rReq' = [rReq EXCEPT ![p].left = rReq[p].left \ {u}]
          ELSE rReq' = [rReq EXCEPT ![p].stage = "insert", ![p].u = u]
    BY <1>8 DEF Reminders!FindNotice, Exists
  <2>2. rReq[p].stage = "look" /\ rNotice' = rNotice
    BY <1>8 DEF Reminders!FindNotice, Reminders!At
  <2>3. /\ rReq'[p].stage \in {"look", "insert"} /\ rReq'[p].x = rReq[p].x
        /\ rReq'[p].todo = rReq[p].todo /\ rReq'[p].seen = rReq[p].seen
        /\ rReq'[p].to = rReq[p].to /\ rReq'[p].hours = rReq[p].hours
        /\ \/ rReq'[p].left = rReq[p].left
           \/ rReq'[p].left = rReq[p].left \ {u} /\ Exists(NoticeOfPlan(p, u, rReq[p].x))
    <3>1. CASE Exists(Reminders!NoticeOf(p, u))
      <4>1. rReq'[p] = [rReq[p] EXCEPT !.left = rReq[p].left \ {u}]
        BY <1>0, <2>1, <3>1 DEF RunTypes
      <4> QED BY <1>0, <2>2, <3>1, <4>1 DEF Reminders!Run, Reminders!NoticeOf, NoticeOfPlan
    <3>2. CASE ~Exists(Reminders!NoticeOf(p, u))
      <4>1. rReq'[p] = [rReq[p] EXCEPT !.stage = "insert", !.u = u]
        BY <1>0, <2>1, <3>2 DEF RunTypes
      <4> QED BY <1>0, <4>1 DEF Reminders!Run
    <3> QED BY <3>1, <3>2
  <2>4. TodoIsSeen(p)'
    BY <1>0, <2>2, <2>3 DEF TodoIsSeen, Reading, Walking, PlanAtHand
  <2>5. DoneIsTold(p)'
    BY <1>0, <2>2, <2>3, SameNotices DEF DoneIsTold, Walking, PlanAtHand
  <2> QED BY <2>4, <2>5

<1>9. CASE Reminders!InsertNotice(p)
  <2>1. /\ rReq[p].stage = "insert"
        /\ rReq'[p] = [rReq[p] EXCEPT !.stage = "look", !.left = rReq[p].left \ {rReq[p].u}]
    BY <1>0, <1>9 DEF Reminders!InsertNotice, Reminders!At, RunTypes
  <2>2. /\ rReq'[p].stage = "look" /\ rReq'[p].x = rReq[p].x /\ rReq'[p].u = rReq[p].u
        /\ rReq'[p].left = rReq[p].left \ {rReq[p].u}
        /\ rReq'[p].todo = rReq[p].todo /\ rReq'[p].seen = rReq[p].seen
        /\ rReq'[p].to = rReq[p].to /\ rReq'[p].hours = rReq[p].hours
    BY <1>0, <2>1 DEF Reminders!Run
  <2>3. TodoIsSeen(p)'
    BY <1>0, <2>1, <2>2 DEF TodoIsSeen, Reading, Walking, PlanAtHand
  <2>4. NoticesStay
    BY <1>0, MovesInsert
  <2>5. ASSUME NEW u \in Member, NEW x \in Plan, rReq[p].seen[x] # -1,
               Exists(NoticeOfPlan(p, u, x))
        PROVE  Exists(NoticeOfPlan(p, u, x))'
    BY <1>0, <2>2, <2>4, <2>5, NoticeIsOne
       DEF NoticesStay, Exists, NoticeOfPlan, Reminders!TriggerAt
  <2>6. Exists(NoticeOfPlan(p, rReq[p].u, rReq[p].x))'
    <3> DEFINE m == NoticeOfPlan(p, rReq[p].u, rReq[p].x)
    <3>1. m \in Reminders!Notice
      BY <1>0, <2>1, NoticeIsOne DEF Reminders!Run, TodoIsSeen, Walking, PlanAtHand
    <3>2. Reminders!NoticeOf(p, rReq[p].u) = m
      BY DEF Reminders!NoticeOf, NoticeOfPlan
    <3>3. rNotice'[m] # "NONE"
      BY <1>0, <1>9, <3>1, <3>2 DEF Reminders!InsertNotice, Reminders!NoticeIsNew, RunTypes
    <3> QED BY <2>2, <3>3 DEF Exists, NoticeOfPlan, Reminders!TriggerAt
  <2>7. DoneIsTold(p)'
    BY <1>0, <2>1, <2>2, <2>5, <2>6 DEF DoneIsTold, TodoIsSeen, Walking, PlanAtHand
  <2> QED BY <2>3, <2>7
<1> QED BY <1>1, <1>2, <1>3, <1>4, <1>5, <1>6, <1>7, <1>8, <1>9 DEF Moves, Reminders!Step

LEMMA MoveWalk ==
  ASSUME WalkInv, NEW p \in Sender, Moves(p)
  PROVE  WalkInv'
<1>1. PICK r : rReq' = [rReq EXCEPT ![p] = r]
  BY MovesOne DEF WalkInv
<1>2. r = rReq'[p] /\ \A q \in Sender \ {p} : rReq'[q] = rReq[q]
  BY <1>1 DEF WalkInv, RunTypes
<1>3. rReq' \in [Sender -> Reminders!Run]
  BY <1>1, <1>2, OwnRun DEF WalkInv, RunTypes
<1>4. RunTypes' /\ InsertedOnce' /\ NoticesStay
  BY <1>3, MovesInsert DEF WalkInv, RunTypes
<1>5. \A q \in Sender : TodoIsSeen(q)' /\ DoneIsTold(q)'
  <2> SUFFICES ASSUME NEW q \in Sender PROVE TodoIsSeen(q)' /\ DoneIsTold(q)'
    OBVIOUS
  <2>1. CASE q = p
    BY <2>1, OwnWalk
  <2>2. CASE q # p
    BY <2>2, <1>2, <1>4, OthersKeep DEF WalkInv, NoticesStay
  <2> QED BY <2>1, <2>2
<1> QED BY <1>4, <1>5 DEF WalkInv

-----------------------------------------------------------------------------
(* Everybody else.                                                         *)

LEMMA OthersWalk ==
  ASSUME WalkInv, Reminders!Others
  PROVE  WalkInv'
<1> USE DEF WalkInv
<1>1. rReq' = rReq
  BY DEF Reminders!Others, Reminders!Tick, Reminders!UpdateRule, Reminders!UpdatePlan,
         Reminders!DeletePlan, Reminders!UpdatePreferences, Reminders!ChangeMembership,
         Reminders!MarkAllAsRead, Reminders!MarkAsRead
<1>2. rRule' \in [active : BOOLEAN, hours : Hours]
  BY DEF RunTypes, Reminders!Others, Reminders!Tick, Reminders!UpdateRule, Reminders!UpdatePlan,
         Reminders!DeletePlan, Reminders!UpdatePreferences, Reminders!ChangeMembership,
         Reminders!MarkAllAsRead, Reminders!MarkAsRead, Reminders!people
<1>3. rPlan' \in [Plan -> Reminders!PlanRow]
  <2>1. CASE \E x \in Plan : Reminders!UpdatePlan(x)
    <3>1. PICK x \in Plan, d \in Reminders!Time, on \in BOOLEAN :
            rPlan' = [rPlan EXCEPT ![x] = [there |-> TRUE, planned |-> on, date |-> d]]
      BY <2>1 DEF Reminders!UpdatePlan
    <3>2. [there |-> TRUE, planned |-> on, date |-> d] \in Reminders!PlanRow
      BY DEF Reminders!PlanRow
    <3> QED BY <3>1, <3>2 DEF RunTypes
  <2>2. CASE \E x \in Plan : Reminders!DeletePlan(x)
    <3>1. PICK x \in Plan : rPlan' = [rPlan EXCEPT ![x].there = FALSE]
      BY <2>2 DEF Reminders!DeletePlan
    <3>2. rPlan[x] \in Reminders!PlanRow
      BY DEF RunTypes
    <3>3. [rPlan[x] EXCEPT !.there = FALSE] \in Reminders!PlanRow
      BY <3>2 DEF Reminders!PlanRow
    <3> QED BY <3>1, <3>3 DEF RunTypes
  <2>3. CASE ~(\E x \in Plan : Reminders!UpdatePlan(x) \/ Reminders!DeletePlan(x))
    BY <2>3
       DEF RunTypes, Reminders!Others, Reminders!Tick, Reminders!UpdateRule,
           Reminders!UpdatePreferences, Reminders!ChangeMembership, Reminders!MarkAllAsRead,
           Reminders!MarkAsRead, Reminders!people
  <2> QED BY <2>1, <2>2, <2>3
<1>4. rTold' = rTold
  BY DEF Reminders!Others, Reminders!Tick, Reminders!UpdateRule, Reminders!UpdatePlan,
         Reminders!DeletePlan, Reminders!UpdatePreferences, Reminders!ChangeMembership,
         Reminders!MarkAllAsRead, Reminders!MarkAsRead
<1>5. /\ rNotice' \in [Reminders!Notice -> {"NONE", "UNREAD", "READ"}]
      /\ \A n \in Reminders!Notice : Exists(n)' <=> Exists(n)
  <2>1. CASE \E u \in Member : Reminders!MarkAllAsRead(u)
    BY <2>1 DEF RunTypes, Reminders!MarkAllAsRead, Exists
  <2>2. CASE \E n \in Reminders!Notice : Reminders!MarkAsRead(n)
    BY <2>2 DEF RunTypes, Reminders!MarkAsRead, Exists
  <2>3. CASE ~(\/ \E u \in Member : Reminders!MarkAllAsRead(u)
               \/ \E n \in Reminders!Notice : Reminders!MarkAsRead(n))
    BY <2>3
       DEF RunTypes, Reminders!Others, Reminders!Tick, Reminders!UpdateRule,
           Reminders!UpdatePlan, Reminders!DeletePlan, Reminders!UpdatePreferences,
           Reminders!ChangeMembership, Exists
  <2> QED BY <2>1, <2>2, <2>3
<1>6. RunTypes' /\ InsertedOnce'
  BY <1>1, <1>2, <1>3, <1>4, <1>5 DEF RunTypes, InsertedOnce, Exists
<1>7. \A p \in Sender : TodoIsSeen(p)' /\ DoneIsTold(p)'
  BY <1>1, <1>5, OthersKeep
<1> QED BY <1>6, <1>7

LEMMA StutterWalk ==
  ASSUME WalkInv, UNCHANGED Reminders!vars
  PROVE  WalkInv'
<1>1. rReq' = rReq /\ rNotice' = rNotice /\ RunTypes' /\ InsertedOnce'
  BY DEF WalkInv, Reminders!vars, RunTypes, InsertedOnce
<1> QED BY <1>1, OthersKeep DEF WalkInv, Exists

LEMMA NextWalk ==
  ASSUME WalkInv, [Reminders!Next]_Reminders!vars
  PROVE  WalkInv'
<1>1. CASE \E p \in Sender : Reminders!Start(p) \/ Reminders!Step(p) \/ Reminders!Fails(p)
  BY <1>1, MoveWalk DEF Moves
<1>2. CASE Reminders!Others
  BY <1>2, OthersWalk
<1>3. CASE UNCHANGED Reminders!vars
  BY <1>3, StutterWalk
<1> QED BY <1>1, <1>2, <1>3 DEF Reminders!Next

-----------------------------------------------------------------------------
(* The rest of the types.                                                  *)

RestTypes ==
    /\ rNow \in Reminders!Time
    /\ rTeam \in [Member -> [active : BOOLEAN, wants : BOOLEAN]]
    /\ rReminder \in SUBSET (Plan \X Reminders!Trigger)
    /\ rFails \in 0..MaxFails /\ rChanges \in 0..MaxChanges

ReminderInv == WalkInv /\ RestTypes

LEMMA MoveRest ==
  ASSUME ReminderInv, NEW p \in Sender, Moves(p)
  PROVE  RestTypes'
<1>1. rNow' = rNow /\ rTeam' = rTeam /\ rChanges' = rChanges
  BY DEF Moves, Reminders!Step, Reminders!Start, Reminders!ReadRule, Reminders!ReadPlans,
         Reminders!ReadMembers, Reminders!ReadOptedOut, Reminders!FindReminder,
         Reminders!CreateReminder, Reminders!FindReminderAgain, Reminders!PlanDone,
         Reminders!FindNotice, Reminders!InsertNotice, Reminders!Finish, Reminders!RowIsGone,
         Reminders!Fails, Reminders!people
<1>2. rFails' \in 0..MaxFails
  <2>1. rFails' = rFails \/ (rFails' = rFails + 1 /\ rFails < MaxFails)
    BY DEF Moves, Reminders!Step, Reminders!Start, Reminders!ReadRule, Reminders!ReadPlans,
           Reminders!ReadMembers, Reminders!ReadOptedOut, Reminders!FindReminder,
           Reminders!CreateReminder, Reminders!FindReminderAgain, Reminders!PlanDone,
           Reminders!FindNotice, Reminders!InsertNotice, Reminders!Finish,
           Reminders!RowIsGone, Reminders!Fails
  <2> QED BY <2>1, RemindersAssumption DEF ReminderInv, RestTypes
<1>3. rReminder' \in SUBSET (Plan \X Reminders!Trigger)
  <2>1. rReminder' = rReminder
          \/ (Reminders!At(p, "create") /\ rReminder' = rReminder \cup {Reminders!AtHand(p)})
    BY DEF Moves, Reminders!Step, Reminders!Start, Reminders!ReadRule, Reminders!ReadPlans,
           Reminders!ReadMembers, Reminders!ReadOptedOut, Reminders!FindReminder,
           Reminders!CreateReminder, Reminders!FindReminderAgain, Reminders!PlanDone,
           Reminders!FindNotice, Reminders!InsertNotice, Reminders!Finish,
           Reminders!RowIsGone, Reminders!Fails
  <2>2. ASSUME Reminders!At(p, "create")
        PROVE  Reminders!AtHand(p) \in Plan \X Reminders!Trigger
    <3>1. rReq[p] \in Reminders!Run /\ rReq[p].stage = "create"
      BY <2>2 DEF ReminderInv, WalkInv, RunTypes, Reminders!At
    <3>2. rReq[p].x \in Plan /\ rReq[p].hours \in Hours
          /\ rReq[p].seen \in [Plan -> Reminders!Time \cup {-1}]
      BY <3>1 DEF Reminders!Run
    <3>3. rReq[p].seen[rReq[p].x] # -1
      BY <3>1 DEF ReminderInv, WalkInv, TodoIsSeen, Walking, PlanAtHand
    <3>4. Reminders!TriggerAt(p, rReq[p].x) \in Reminders!Trigger
      BY <3>2, <3>3 DEF Reminders!TriggerAt, Reminders!Trigger
    <3> QED BY <3>2, <3>4 DEF Reminders!AtHand
  <2> QED BY <2>1, <2>2 DEF ReminderInv, RestTypes
<1> QED BY <1>1, <1>2, <1>3 DEF ReminderInv, RestTypes

LEMMA OthersRest ==
  ASSUME ReminderInv, Reminders!Others
  PROVE  RestTypes'
<1>1. rFails' = rFails
  BY DEF Reminders!Others, Reminders!Tick, Reminders!UpdateRule, Reminders!UpdatePlan,
         Reminders!DeletePlan, Reminders!UpdatePreferences, Reminders!ChangeMembership,
         Reminders!MarkAllAsRead, Reminders!MarkAsRead
<1>2. rNow' \in Reminders!Time
  <2>1. rNow' = rNow \/ (rNow' = rNow + 1 /\ rNow < MaxTime)
    BY DEF Reminders!Others, Reminders!Tick, Reminders!UpdateRule, Reminders!UpdatePlan,
           Reminders!DeletePlan, Reminders!UpdatePreferences, Reminders!ChangeMembership,
           Reminders!MarkAllAsRead, Reminders!MarkAsRead
  <2> QED BY <2>1, RemindersAssumption DEF ReminderInv, RestTypes, Reminders!Time
<1>3. rChanges' \in 0..MaxChanges
  <2>1. rChanges' = rChanges \/ (rChanges' = rChanges + 1 /\ rChanges < MaxChanges)
    BY DEF Reminders!Others, Reminders!Tick, Reminders!UpdateRule, Reminders!UpdatePlan,
           Reminders!DeletePlan, Reminders!UpdatePreferences, Reminders!ChangeMembership,
           Reminders!MarkAllAsRead, Reminders!MarkAsRead, Reminders!Change, Reminders!people
  <2> QED BY <2>1, RemindersAssumption DEF ReminderInv, RestTypes
<1>4. rReminder' \in SUBSET (Plan \X Reminders!Trigger)
  <2>1. rReminder' \in SUBSET rReminder
    BY DEF Reminders!Others, Reminders!Tick, Reminders!UpdateRule, Reminders!UpdatePlan,
           Reminders!DeletePlan, Reminders!UpdatePreferences, Reminders!ChangeMembership,
           Reminders!MarkAllAsRead, Reminders!MarkAsRead
  <2> QED BY <2>1 DEF ReminderInv, RestTypes
<1>5. rTeam' \in [Member -> [active : BOOLEAN, wants : BOOLEAN]]
  <2>0. rTeam \in [Member -> [active : BOOLEAN, wants : BOOLEAN]]
    BY DEF ReminderInv, RestTypes
  <2>1. CASE rTeam' = rTeam
    BY <2>0, <2>1
  <2>2. ASSUME NEW u \in Member, Reminders!UpdatePreferences(u) \/ Reminders!ChangeMembership(u)
        PROVE  rTeam' \in [Member -> [active : BOOLEAN, wants : BOOLEAN]]
    <3> DEFINE member == rTeam[u]
    <3>1. member \in [active : BOOLEAN, wants : BOOLEAN]
      BY <2>0
    <3>2. /\ [member EXCEPT !.wants = ~member.wants] \in [active : BOOLEAN, wants : BOOLEAN]
          /\ [member EXCEPT !.active = ~member.active] \in [active : BOOLEAN, wants : BOOLEAN]
      BY <3>1
    <3>3. \/ rTeam' = [rTeam EXCEPT ![u] = [member EXCEPT !.wants = ~member.wants]]
          \/ rTeam' = [rTeam EXCEPT ![u] = [member EXCEPT !.active = ~member.active]]
      BY <2>2 DEF Reminders!UpdatePreferences, Reminders!ChangeMembership
    <3> HIDE DEF member
    <3> QED BY <2>0, <3>2, <3>3
  <2>3. ASSUME ~\E u \in Member : Reminders!UpdatePreferences(u) \/ Reminders!ChangeMembership(u)
        PROVE  rTeam' = rTeam
    BY <2>3 DEF Reminders!Others, Reminders!Tick, Reminders!UpdateRule, Reminders!UpdatePlan,
           Reminders!DeletePlan, Reminders!MarkAllAsRead, Reminders!MarkAsRead, Reminders!people
  <2> QED BY <2>1, <2>2, <2>3
<1> QED BY <1>1, <1>2, <1>3, <1>4, <1>5 DEF ReminderInv, RestTypes

LEMMA NextReminders == ReminderInv /\ [Reminders!Next]_Reminders!vars => ReminderInv'
<1> SUFFICES ASSUME ReminderInv, [Reminders!Next]_Reminders!vars PROVE ReminderInv'
  OBVIOUS
<1>1. WalkInv'
  BY NextWalk DEF ReminderInv
<1>2. CASE UNCHANGED Reminders!vars
  BY <1>1, <1>2 DEF Reminders!vars, ReminderInv, RestTypes
<1>3. CASE Reminders!Next
  BY <1>1, <1>3, MoveRest, OthersRest DEF Reminders!Next, Moves, ReminderInv
<1> QED BY <1>2, <1>3

LEMMA InitReminders == Reminders!Init => ReminderInv
<1> SUFFICES ASSUME Reminders!Init PROVE ReminderInv
  OBVIOUS
<1>1. WalkInv
  BY InitWalk
<1>2. rTeam \in [Member -> [active : BOOLEAN, wants : BOOLEAN]]
  BY DEF Reminders!Init
<1>3. rNow \in Reminders!Time /\ rReminder = {} /\ rFails \in 0..MaxFails
      /\ rChanges \in 0..MaxChanges
  BY RemindersAssumption DEF Reminders!Init, Reminders!Time
<1> QED BY <1>1, <1>2, <1>3 DEF ReminderInv, RestTypes

\* The composition: the reminders make their own steps or none.
LEMMA RemindersRun == MCSpec => Reminders!Spec
<1>1. MCInit => Reminders!Init
  BY DEF MCInit
<1>2. [MCNext]_all => [Reminders!Next]_Reminders!vars
  BY DEF MCNext, LeasesNext, RemindersNext, FeedsNext, all, rVars, Reminders!vars
<1> QED BY <1>1, <1>2, PTL DEF MCSpec, Reminders!Spec

\* The job of any replica and any administrator may process the reminders at
\* once and again: no member is told twice of a plan and a trigger date, and a
\* run that goes on leaves out none of the members that it has read, also when
\* another has created the reminder and not come to them, or its inserts were
\* refused (processPublicationRemindersForOrganization, the two catch branches).
THEOREM MembersToldOnce == MCSpec => []MembersAreTold
<1>1. ReminderInv => MembersAreTold
  <2> SUFFICES ASSUME ReminderInv
               PROVE  Reminders!TypeOK /\ Reminders!ToldOnce /\ Reminders!RunTellsAll
    BY DEF MembersAreTold
  <2>1. Reminders!TypeOK
    BY DEF ReminderInv, RestTypes, WalkInv, RunTypes, Reminders!TypeOK
  <2>2. Reminders!ToldOnce
    BY DEF ReminderInv, WalkInv, InsertedOnce, Reminders!ToldOnce
  <2>3. Reminders!RunTellsAll
    <3> SUFFICES ASSUME NEW p \in Sender, rReq[p].stage = "find", NEW x \in Plan,
                        rReq[p].seen[x] # -1, x \notin rReq[p].todo, NEW u \in rReq[p].to
                 PROVE  rTold[<<u, x, Reminders!TriggerAt(p, x)>>] >= 1
      BY DEF Reminders!RunTellsAll
    <3>1. Exists(NoticeOfPlan(p, u, x))
      BY DEF ReminderInv, WalkInv, DoneIsTold, Walking
    <3>2. NoticeOfPlan(p, u, x) \in Reminders!Notice
      BY NoticeIsOne DEF ReminderInv, WalkInv, RunTypes, Reminders!Run
    <3>3. rTold[NoticeOfPlan(p, u, x)] = 1
      BY <3>1, <3>2 DEF ReminderInv, WalkInv, InsertedOnce, Exists
    <3> QED BY <3>3 DEF NoticeOfPlan
  <2> QED BY <2>1, <2>2, <2>3
<1>2. Reminders!Spec => []ReminderInv
  BY InitReminders, NextReminders, PTL DEF Reminders!Spec
<1> QED BY <1>1, <1>2, RemindersRun, PTL

-----------------------------------------------------------------------------
(* Leases when the deadlines are kept (ScheduledJobsOnTime).  The lease is *)
(* mutual exclusion: no reaper ever finds the run of a live call expired,  *)
(* because the deadline in its row stays ahead of every replica's clock by *)
(* what TimingAssumption leaves.  Hence the service implements             *)
(* ExclusiveJob.                                                           *)

Pending(p) == {m \in inFlight : m.bucket = Mine(p)}

\* The deadlines that OnTime makes the clock wait for.
StepsOnTime ==
    /\ \A p \in Proc : pc[p] \in {"reap", "create"} => Clock(p) <= at[p] + MaxDelay
    /\ \A p \in Proc : Active(p) => now <= nextBeat[p]
    /\ \A m \in inFlight : Clock(m.owner) + Lease <= m.expires + MaxDelay

RenewalHasRow == \A m \in inFlight : run[m.bucket].status # "NONE"

\* At most one renewal of a live call is under way, the one sent last.
LastRenewal ==
    \A p \in Proc : Active(p) =>
        \A m \in Pending(p) :
            m.owner = p /\ m.expires = Skew[p] + Lease + nextBeat[p] - Beat

\* The deadline in a running row was computed no earlier than the last
\* renewal that has landed, or the one before it.
RowIsFresh ==
    \A p \in Proc : Active(p) /\ run[Mine(p)].status = "RUNNING" =>
        /\ run[Mine(p)].expires >= Skew[p] + Lease + nextBeat[p] - 2 * Beat - MaxDelay
        /\ Pending(p) = {} =>
             run[Mine(p)].expires >= Skew[p] + Lease + nextBeat[p] - Beat - MaxDelay

LeaseInv ==
    /\ OnceInv
    /\ HolderKeepsRow
    /\ StepsOnTime
    /\ RenewalHasRow
    /\ LastRenewal
    /\ RowIsFresh

LEMMA TimelyIsNext == TimelyNext => Next
  BY DEF TimelyNext, Next, TimelyTick

\* What the invariant gives to the reaper's comparison.
LEMMA HolderNotExpired ==
  ASSUME LeaseInv, NEW p \in Proc, NEW q \in Proc, Active(p), pc[q] # "idle",
         run[Mine(p)].status = "RUNNING"
  PROVE  at[q] < run[Mine(p)].expires
<1> USE ParameterAssumption, TimingAssumption, BeatIsNat
<1>1. at[q] <= now + Skew[q] /\ at[q] \in Nat /\ now \in Nat
  BY DEF LeaseInv, OnceInv, ReadInThePast, Clock, TypeOK
<1>2. now <= nextBeat[p] /\ nextBeat[p] \in Nat
  BY DEF LeaseInv, OnceInv, TypeOK, StepsOnTime
<1>3. Mine(p) \in Bucket
  BY MineIsBucket DEF LeaseInv, OnceInv, TypeOK, ReadInThePast, Mine, Active
<1>4. run[Mine(p)].expires \in Nat
  BY <1>3 DEF LeaseInv, OnceInv, TypeOK, Run
<1>5. Beat + 2 * MaxDelay + Skew[q] < Lease + Skew[p]
  OBVIOUS
<1>6. CASE Pending(p) = {}
  <2>1. run[Mine(p)].expires >= Skew[p] + Lease + nextBeat[p] - Beat - MaxDelay
    BY <1>6 DEF LeaseInv, RowIsFresh
  <2> QED BY <2>1, <1>1, <1>2, <1>4, <1>5
<1>7. CASE Pending(p) # {}
  <2>1. PICK m \in Pending(p) : TRUE
    BY <1>7
  <2>2. m.owner = p /\ m.expires = Skew[p] + Lease + nextBeat[p] - Beat
    BY DEF LeaseInv, LastRenewal
  <2>3. now + Skew[p] + Lease <= m.expires + MaxDelay
    BY <2>2 DEF LeaseInv, StepsOnTime, Pending, Clock
  <2>4. run[Mine(p)].expires >= Skew[p] + Lease + nextBeat[p] - 2 * Beat - MaxDelay
    BY DEF LeaseInv, RowIsFresh
  <2> QED BY <2>2, <2>3, <2>4, <1>1, <1>2, <1>4, <1>5
<1> QED BY <1>6, <1>7

LEMMA InitLease == Init => LeaseInv
<1> SUFFICES ASSUME Init PROVE LeaseInv
  OBVIOUS
<1>1. OnceInv
  BY InitOnce
<1>2. HolderKeepsRow /\ StepsOnTime /\ RenewalHasRow /\ LastRenewal /\ RowIsFresh
  BY DEF Init, HolderKeepsRow, StepsOnTime, RenewalHasRow, LastRenewal, RowIsFresh, Active, Pending
<1> QED BY <1>1, <1>2 DEF LeaseInv

LEMMA StepLease ==
  ASSUME LeaseInv, NEW p \in Proc, Step(p)
  PROVE  LeaseInv'
<1> USE ParameterAssumption, TimingAssumption, BeatIsNat
<1>0. OnceInv' /\ OnceInv
  BY StepOnce DEF LeaseInv
<1>a. \A q \in Proc : pc[q] # "idle" => Mine(q) \in Bucket
  BY <1>0, MineIsBucket DEF OnceInv, TypeOK, ReadInThePast, Mine
<1>t. TypeOK /\ TypeOK'
  BY <1>0 DEF OnceInv
<1>b. \A q \in Proc : Active(q) => /\ pc[q] # "idle" 
                                   /\ run[Mine(q)].status \in {"RUNNING", "SUCCEEDED"}
                                   /\ run[Mine(q)].owner = {q}
                                   /\ Mine(q) \in Bucket
  BY <1>a DEF LeaseInv, HolderKeepsRow, Active
<1>c. \A q, r \in Proc : Active(q) /\ Active(r) /\ Mine(q) = Mine(r) => q = r
  BY <1>b
\* A step that leaves the rows and the renewals alone, and makes no call active.
<1>d. ASSUME UNCHANGED <<now, run, inFlight>>,
             \A q \in Proc : Active(q)' => /\ Active(q)
                                           /\ pc[q] = "failure" => pc'[q] = "failure"
                                           /\ Mine(q)' = Mine(q)
                                           /\ nextBeat'[q] = nextBeat[q],
             \A q \in Proc : pc'[q] \in {"reap", "create"} =>
                                \/ pc[q] \in {"reap", "create"} /\ at'[q] = at[q]
                                \/ at'[q] = Clock(q)
      PROVE LeaseInv'
  <2>1. HolderKeepsRow' /\ RenewalHasRow'
    BY <1>d DEF LeaseInv, HolderKeepsRow, RenewalHasRow
  <2>2. StepsOnTime'
    BY <1>d, <1>t DEF LeaseInv, StepsOnTime, Clock, TypeOK
  <2>3. LastRenewal' /\ RowIsFresh'
    BY <1>d DEF LeaseInv, LastRenewal, RowIsFresh, Pending
  <2> QED BY <1>0, <2>1, <2>2, <2>3 DEF LeaseInv
<1>1. CASE Begin(p)
  BY <1>1, <1>d, <1>t DEF Begin, Active, Mine, TypeOK, Clock
<1>2. CASE Reap(p)
  <2>1. \A q \in Proc : Active(q) => run'[Mine(q)] = run[Mine(q)]
    <3> SUFFICES ASSUME NEW q \in Proc, Active(q) PROVE run'[Mine(q)] = run[Mine(q)]
      OBVIOUS
    <3>1. run[Mine(q)].status = "RUNNING" => at[p] < run[Mine(q)].expires
      BY <1>2, HolderNotExpired DEF Reap
    <3>2. run[Mine(q)].expires \in Nat /\ at[p] \in Nat
      BY <1>b, <1>t DEF TypeOK, Run
    <3>3. ~ Expired(run[Mine(q)], at[p])
      BY <3>1, <3>2 DEF Expired
    <3> QED BY <1>2, <1>b, <3>3 DEF Reap
  <2>2. \A q \in Proc : Active(q)' = Active(q) /\ Mine(q)' = Mine(q) /\ Pending(q)' = Pending(q)
    BY <1>2, <1>t DEF Reap, Active, Mine, TypeOK, Pending
  <2>3. HolderKeepsRow'
    <3>1. pc[p] = "reap" /\ \A q \in Proc : q # p => pc'[q] = pc[q]
      BY <1>2, <1>t DEF Reap, TypeOK
    <3>2. ~ Active(p)
      BY <3>1 DEF Active
    <3> QED BY <2>1, <2>2, <3>1, <3>2 DEF LeaseInv, HolderKeepsRow
  <2>4. StepsOnTime'
    BY <1>2, <1>t, <2>2 DEF Reap, LeaseInv, StepsOnTime, Clock, TypeOK
  <2>5. RenewalHasRow'
    <3>1. \A b \in Bucket : run'[b].status = "NONE" => run[b].status = "NONE"
      BY <1>2, <1>t DEF Reap, Expired, TypeOK, Run
    <3> QED BY <3>1, <1>2, <1>t DEF Reap, LeaseInv, RenewalHasRow, TypeOK, Renewal
  <2>6. LastRenewal' /\ RowIsFresh'
    <3>1. nextBeat' = nextBeat
      BY <1>2 DEF Reap
    <3>2. LastRenewal'
      BY <2>2, <3>1 DEF LeaseInv, LastRenewal
    <3>3. RowIsFresh'
      BY <2>1, <2>2, <3>1 DEF LeaseInv, RowIsFresh
    <3> QED BY <3>2, <3>3
  <2> QED BY <1>0, <2>3, <2>4, <2>5, <2>6 DEF LeaseInv
<1>3. CASE Acquire(p)
  <2>0. Mine(p) \in Bucket /\ run[Mine(p)].status = "NONE" /\ pc[p] = "create"
    BY <1>a, <1>3 DEF Acquire, IndexesAllow
\* The other active calls have finished without knowing it.
  <2>1. \A q \in Proc : Active(q) => /\ run[Mine(q)].status = "SUCCEEDED"
                                    /\ pc[q] = "failure"
    BY <1>3, <1>b DEF Acquire, IndexesAllow, LeaseInv, HolderKeepsRow
  <2>2. \A q \in Proc : Active(q)' /\ q # p =>
            /\ Active(q) /\ Mine(q)' = Mine(q) /\ nextBeat'[q] = nextBeat[q]
            /\ Pending(q)' = Pending(q) /\ pc'[q] = pc[q]
            /\ run'[Mine(q)] = run[Mine(q)]
    <3> SUFFICES ASSUME NEW q \in Proc, Active(q)', q # p
                 PROVE  /\ Active(q) /\ Mine(q)' = Mine(q) /\ nextBeat'[q] = nextBeat[q]
                        /\ Pending(q)' = Pending(q) /\ pc'[q] = pc[q]
                        /\ run'[Mine(q)] = run[Mine(q)]
      OBVIOUS
    <3>1. /\ Active(q) /\ Mine(q)' = Mine(q) /\ nextBeat'[q] = nextBeat[q]
          /\ Pending(q)' = Pending(q) /\ pc'[q] = pc[q]
      BY <1>3, <1>t DEF Acquire, Active, Mine, Pending, TypeOK
    <3>2. Mine(q) # Mine(p)
      BY <2>0, <2>1, <3>1
    <3> QED BY <1>3, <1>t, <3>1, <3>2 DEF Acquire, TypeOK
  <2>3. Mine(p)' = Mine(p) /\ Pending(p)' = {}
    BY <1>3, <2>0 DEF Acquire, Mine, Pending, LeaseInv, RenewalHasRow
  <2>4. run'[Mine(p)] = [status |-> "RUNNING", owner |-> {p}, expires |-> at[p] + Lease]
    BY <1>3, <1>t, <2>0 DEF Acquire, TypeOK, Expiry
  <2>5. nextBeat'[p] = now + Beat
    BY <1>3, <1>t DEF Acquire, TypeOK
  <2>6. HolderKeepsRow'
    BY <2>2, <2>3, <2>4 DEF LeaseInv, HolderKeepsRow
  <2>7. StepsOnTime'
    <3>1. \A q \in Proc : Active(q)' => now' <= nextBeat'[q]
      BY <1>3, <1>t, <2>2, <2>5 DEF Acquire, LeaseInv, StepsOnTime, TypeOK
    <3>2. \A q \in Proc : pc'[q] \in {"reap", "create"} => pc[q] \in {"reap", "create"}
      BY <1>3, <1>t DEF Acquire, TypeOK
    <3> QED BY <1>3, <3>1, <3>2 DEF Acquire, LeaseInv, StepsOnTime, Clock
  <2>8. RenewalHasRow'
    BY <1>3, <1>t, <2>0, <2>4 DEF Acquire, LeaseInv, RenewalHasRow, TypeOK, Renewal
  <2>9. LastRenewal'
    BY <2>2, <2>3 DEF LeaseInv, LastRenewal
  <2>10. RowIsFresh'
    <3>1. now + Skew[p] <= at[p] + MaxDelay
      BY <2>0 DEF LeaseInv, StepsOnTime, Clock
    <3>2. at[p] + Lease >= Skew[p] + Lease + nextBeat'[p] - Beat - MaxDelay
      BY <3>1, <2>5, <1>t DEF TypeOK
    <3>3. at[p] + Lease >= Skew[p] + Lease + nextBeat'[p] - 2 * Beat - MaxDelay
      BY <3>1, <2>5, <1>t DEF TypeOK
    <3> QED BY <3>2, <3>3, <2>1, <2>2, <2>3, <2>4 DEF RowIsFresh
  <2> QED BY <1>0, <2>6, <2>7, <2>8, <2>9, <2>10 DEF LeaseInv
<1>4. CASE NotAcquired(p) \/ Abandon(p)
  BY <1>4, <1>d, <1>t DEF NotAcquired, Abandon, Leaves, Active, Mine, TypeOK
<1>5. CASE HandlerEnds(p)
  BY <1>5, <1>d, <1>t DEF HandlerEnds, Active, Mine, TypeOK
<1>8. CASE SuccessNotRecorded(p) /\ run' = run
  BY <1>8, <1>d, <1>t DEF SuccessNotRecorded, Active, Mine, TypeOK
<1>9. CASE SuccessNotRecorded(p) /\ run' # run
  <2>0. Active(p) /\ Mine(p) \in Bucket
    BY <1>9, <1>b DEF SuccessNotRecorded, Active
  <2>1. /\ run' = [run EXCEPT ![Mine(p)].status = "SUCCEEDED"]
        /\ pc' = [pc EXCEPT ![p] = "failure"]
        /\ UNCHANGED <<now, at, nextBeat, inFlight>>
    BY <1>9 DEF SuccessNotRecorded
  <2>2. \A q \in Proc : Active(q)' = Active(q) /\ Mine(q)' = Mine(q) /\ Pending(q)' = Pending(q)
    BY <2>0, <2>1, <1>t DEF Active, Mine, Pending, TypeOK
  <2>3. run'[Mine(p)].status = "SUCCEEDED" /\ run'[Mine(p)].owner = run[Mine(p)].owner
    BY <2>0, <2>1, <1>t DEF TypeOK, Run
  <2>4. \A b \in Bucket : b # Mine(p) => run'[b] = run[b]
    BY <2>1, <1>t DEF TypeOK
  <2>5. \A q \in Proc : Active(q) /\ q # p => run'[Mine(q)] = run[Mine(q)]
    BY <2>0, <2>4, <1>b, <1>c
  <2>6. pc'[p] = "failure" /\ \A q \in Proc : q # p => pc'[q] = pc[q]
    BY <2>1, <1>t DEF TypeOK
  <2>7. HolderKeepsRow'
    BY <2>2, <2>3, <2>5, <2>6 DEF LeaseInv, HolderKeepsRow
  <2>8. StepsOnTime'
    BY <2>1, <2>2, <2>6 DEF LeaseInv, StepsOnTime, Clock
  <2>9. RenewalHasRow'
    BY <2>1, <2>3, <2>4, <1>t DEF LeaseInv, RenewalHasRow, TypeOK, Renewal
  <2>10. LastRenewal'
    BY <2>1, <2>2 DEF LeaseInv, LastRenewal
  <2>11. RowIsFresh'
    BY <2>1, <2>2, <2>3, <2>5 DEF LeaseInv, RowIsFresh
  <2> QED BY <1>0, <2>7, <2>8, <2>9, <2>10, <2>11 DEF LeaseInv
<1>6. CASE SendBeat(p)
  <2> DEFINE new == [bucket |-> Mine(p), owner |-> p, expires |-> Expiry(Clock(p))]
  <2>0. Active(p) /\ now = nextBeat[p] /\ nextBeat'[p] = now + Beat
    <3>1. Active(p) /\ now >= nextBeat[p] /\ nextBeat' = [nextBeat EXCEPT ![p] = now + Beat]
      BY <1>6 DEF SendBeat
    <3>2. now <= nextBeat[p]
      BY <3>1 DEF LeaseInv, StepsOnTime
    <3>3. now \in Nat /\ nextBeat \in [Proc -> Nat]
      BY <1>t DEF TypeOK
    <3> QED BY <3>1, <3>2, <3>3
  <2>1. Pending(p) = {}
    <3> SUFFICES ASSUME NEW m \in Pending(p) PROVE FALSE
      OBVIOUS
    <3>1. m.owner = p /\ m.expires = Skew[p] + Lease + nextBeat[p] - Beat
      BY <2>0 DEF LeaseInv, LastRenewal
    <3>2. now + Skew[p] + Lease <= m.expires + MaxDelay
      BY <3>1 DEF LeaseInv, StepsOnTime, Pending, Clock
    <3> QED BY <2>0, <3>1, <3>2, <1>t DEF TypeOK
  <2>2. \A q \in Proc : Active(q)' = Active(q) /\ Mine(q)' = Mine(q)
    BY <1>6 DEF SendBeat, Active, Mine
  <2>3. Pending(p)' = {new}
    BY <1>6, <2>1, <2>2 DEF SendBeat, Pending
  <2>4. \A q \in Proc : Active(q) /\ q # p => Pending(q)' = Pending(q) /\ nextBeat'[q] = nextBeat[q]
    BY <1>6, <1>t, <1>c, <2>0, <2>2 DEF SendBeat, Pending, TypeOK
  <2>5. new.expires = now + Skew[p] + Lease /\ new.owner = p
    BY DEF Expiry, Clock
  <2>6. HolderKeepsRow'
    BY <1>6, <2>2 DEF SendBeat, LeaseInv, HolderKeepsRow
  <2>7. StepsOnTime'
    <3>1. \A q \in Proc : Active(q)' => now' <= nextBeat'[q]
      BY <1>6, <1>t, <2>0, <2>2 DEF SendBeat, LeaseInv, StepsOnTime, TypeOK
    <3>2. \A m \in inFlight' : Clock(m.owner)' + Lease <= m.expires + MaxDelay
      BY <1>6, <1>t, <2>5 DEF SendBeat, LeaseInv, StepsOnTime, Clock, TypeOK
    <3> QED BY <1>6, <3>1, <3>2 DEF SendBeat, LeaseInv, StepsOnTime, Clock
  <2>8. RenewalHasRow'
    BY <1>6, <1>b, <2>0 DEF SendBeat, LeaseInv, RenewalHasRow
  <2>9. LastRenewal'
    BY <1>6, <1>t, <2>0, <2>2, <2>3, <2>4, <2>5 DEF LeaseInv, LastRenewal, TypeOK
  <2>10. RowIsFresh'
    <3>1. run[Mine(p)].status = "RUNNING" =>
            run[Mine(p)].expires >= Skew[p] + Lease + nextBeat[p] - Beat - MaxDelay
      BY <2>0, <2>1 DEF LeaseInv, RowIsFresh
    <3>2. run[Mine(p)].status = "RUNNING" =>
            run[Mine(p)].expires >= Skew[p] + Lease + nextBeat'[p] - 2 * Beat - MaxDelay
      BY <3>1, <2>0, <1>t DEF TypeOK
    <3>3. run' = run
      BY <1>6 DEF SendBeat
    <3> QED BY <2>2, <2>3, <2>4, <3>2, <3>3 DEF LeaseInv, RowIsFresh
  <2> QED BY <1>0, <2>6, <2>7, <2>8, <2>9, <2>10 DEF LeaseInv
<1>7. CASE RecordSuccess(p) \/ RecordFailure(p)
  <2>0. Active(p) /\ ~ Active(p)'
    BY <1>7, <1>t DEF RecordSuccess, RecordFailure, Leaves, Active, TypeOK
  <2>1. \A q \in Proc : Active(q)' => /\ Active(q) /\ q # p /\ Mine(q)' = Mine(q)
                                      /\ nextBeat'[q] = nextBeat[q]
                                      /\ Pending(q)' = Pending(q)
    BY <1>7, <1>t, <2>0 DEF RecordSuccess, RecordFailure, Leaves, Active, Mine, TypeOK, Pending
  <2>2. \A b \in Bucket : b # Mine(p) => run'[b] = run[b]
    BY <1>7, <1>t DEF RecordSuccess, RecordFailure, TypeOK
  <2>3. \A q \in Proc : Active(q)' => run'[Mine(q)] = run[Mine(q)]
    BY <2>0, <2>1, <2>2, <1>b, <1>c
  <2>4. HolderKeepsRow' /\ LastRenewal' /\ RowIsFresh'
    <3>1. \A q \in Proc : q # p => pc'[q] = pc[q]
      BY <1>7, <1>t DEF RecordSuccess, RecordFailure, Leaves, TypeOK
    <3> QED BY <2>1, <2>3, <3>1 DEF LeaseInv, HolderKeepsRow, LastRenewal, RowIsFresh
  <2>5. StepsOnTime'
    <3>1. \A q \in Proc : pc'[q] \in {"reap", "create"} => pc[q] \in {"reap", "create"} /\ at'[q] = at[q]
      BY <1>7, <1>t DEF RecordSuccess, RecordFailure, Leaves, TypeOK
    <3> QED BY <1>7, <2>1, <3>1 DEF RecordSuccess, RecordFailure, LeaseInv, StepsOnTime, Clock
  <2>6. RenewalHasRow'
    <3>1. run'[Mine(p)].status # "NONE"
      BY <1>7, <1>t, <1>b, <2>0 DEF RecordSuccess, RecordFailure, TypeOK, Run
    <3> QED BY <1>7, <1>t, <2>2, <3>1 DEF RecordSuccess, RecordFailure, LeaseInv, RenewalHasRow, TypeOK, Renewal
  <2> QED BY <1>0, <2>4, <2>5, <2>6 DEF LeaseInv
<1> QED BY <1>1, <1>2, <1>3, <1>4, <1>5, <1>6, <1>7, <1>8, <1>9 DEF Step

LEMMA RenewalLease ==
  ASSUME LeaseInv, NEW m \in inFlight, LandBeat(m)
  PROVE  LeaseInv'
<1> USE ParameterAssumption, TimingAssumption, BeatIsNat
<1>0. OnceInv' /\ OnceInv
  BY RenewalOnce DEF LeaseInv
<1>t. TypeOK /\ TypeOK'
  BY <1>0 DEF OnceInv
<1>a. \A q \in Proc : Active(q) => Mine(q) \in Bucket
  BY <1>0, MineIsBucket DEF OnceInv, TypeOK, ReadInThePast, Mine, Active
<1>b. m.bucket \in Bucket /\ m.expires \in Nat /\ m.owner \in Proc
  BY <1>t DEF TypeOK, Renewal
<1>1. \A q \in Proc : /\ Active(q)' = Active(q) /\ Mine(q)' = Mine(q) /\ nextBeat'[q] = nextBeat[q]
                      /\ Pending(q)' = Pending(q) \ {m}
  BY DEF LandBeat, Active, Mine, Pending
<1>2. \A b \in Bucket : /\ run'[b].status = run[b].status /\ run'[b].owner = run[b].owner
                        /\ b # m.bucket => run'[b] = run[b]
  BY <1>b, <1>t DEF LandBeat, TypeOK, Run
<1>3. HolderKeepsRow'
  BY <1>a, <1>1, <1>2 DEF LandBeat, LeaseInv, HolderKeepsRow
<1>4. StepsOnTime'
  BY <1>1 DEF LandBeat, LeaseInv, StepsOnTime, Clock
<1>5. RenewalHasRow'
  BY <1>2, <1>t DEF LandBeat, LeaseInv, RenewalHasRow, TypeOK, Renewal
<1>6. LastRenewal'
  BY <1>1 DEF LeaseInv, LastRenewal
<1>7. RowIsFresh'
  <2> SUFFICES ASSUME NEW p \in Proc, Active(p)', run'[Mine(p)].status = "RUNNING"
               PROVE  /\ run'[Mine(p)].expires >= Skew[p] + Lease + nextBeat[p] - 2 * Beat - MaxDelay
                      /\ Pending(p)' = {} =>
                           run'[Mine(p)].expires >= Skew[p] + Lease + nextBeat[p] - Beat - MaxDelay
    BY <1>1 DEF RowIsFresh
  <2>0. Active(p) /\ Mine(p) \in Bucket /\ run[Mine(p)].status = "RUNNING"
    BY <1>1, <1>2, <1>a
  <2>1. CASE m.bucket = Mine(p)
    <3>1. m \in Pending(p)
      BY <2>1 DEF Pending
    <3>2. m.owner = p /\ m.expires = Skew[p] + Lease + nextBeat[p] - Beat
      BY <2>0, <3>1 DEF LeaseInv, LastRenewal
    <3>3. Renews(m)
      BY <2>0, <2>1, <3>2 DEF LeaseInv, HolderKeepsRow, Renews
    <3>4. run'[Mine(p)].expires = m.expires
      BY <2>0, <2>1, <3>3, <1>t DEF LandBeat, TypeOK, Run
    <3> QED BY <3>2, <3>4, <1>t DEF TypeOK
  <2>2. CASE m.bucket # Mine(p)
    <3>1. run'[Mine(p)] = run[Mine(p)] /\ Pending(p)' = Pending(p)
      BY <2>0, <2>2, <1>1, <1>2 DEF Pending
    <3> QED BY <2>0, <3>1 DEF LeaseInv, RowIsFresh
  <2> QED BY <2>1, <2>2
<1> QED BY <1>0, <1>3, <1>4, <1>5, <1>6, <1>7 DEF LeaseInv

LEMMA TickLease ==
  ASSUME LeaseInv, TimelyTick
  PROVE  LeaseInv'
<1> USE ParameterAssumption
<1>0. OnceInv' /\ OnceInv
  BY TickOnce DEF LeaseInv, TimelyTick
<1>1. StepsOnTime'
  <2>1. TypeOK
    BY <1>0 DEF OnceInv
  <2> QED BY <2>1 DEF TimelyTick, Tick, OnTime, StepsOnTime, Clock, Active, TypeOK, Renewal
<1>2. HolderKeepsRow' /\ RenewalHasRow' /\ LastRenewal' /\ RowIsFresh'
  BY DEF TimelyTick, Tick, LeaseInv, HolderKeepsRow, RenewalHasRow, LastRenewal, RowIsFresh,
         Active, Mine, Pending
<1> QED BY <1>0, <1>1, <1>2 DEF LeaseInv

LEMMA NextLease == LeaseInv /\ [TimelyNext]_vars => LeaseInv'
<1> SUFFICES ASSUME LeaseInv, [TimelyNext]_vars PROVE LeaseInv'
  OBVIOUS
<1>1. CASE TimelyNext
  BY <1>1, StepLease, RenewalLease, TickLease DEF TimelyNext
<1>2. CASE UNCHANGED vars
  <2>1. OnceInv'
    BY <1>2, NextOnce DEF LeaseInv
  <2>2. HolderKeepsRow' /\ StepsOnTime' /\ RenewalHasRow' /\ LastRenewal' /\ RowIsFresh'
    BY <1>2 DEF vars, LeaseInv, HolderKeepsRow, StepsOnTime, RenewalHasRow, LastRenewal,
                RowIsFresh, Active, Mine, Pending, Clock
  <2> QED BY <2>1, <2>2 DEF LeaseInv
<1> QED BY <1>1, <1>2

LEMMA LeaseInvHolds == TimelySpec => []LeaseInv
  BY InitLease, NextLease, PTL DEF TimelySpec

\* A call whose handler runs still owns the running row of its bucket: its
\* lease is never taken from it (executeWithLease, the sweep and the renewal).
THEOREM HolderIsSafe == TimelySpec => []HolderKeepsRow
<1>1. LeaseInv => HolderKeepsRow
  BY DEF LeaseInv
<1> QED BY <1>1, LeaseInvHolds, PTL

\* The service keeps the promise of ExclusiveJob: over all replicas one
\* handler of a job at a time, and each bucket once.
THEOREM LeaseIsExclusive == TimelySpec => ImplementsExclusiveJob
<1>1. Init => Promise!Init
  BY DEF Init, Promise!Init
<1>2. LeaseInv /\ LeaseInv' /\ [TimelyNext]_vars => [Promise!Next]_(Promise!vars)
  <2> SUFFICES ASSUME LeaseInv, LeaseInv', [TimelyNext]_vars
               PROVE  [Promise!Next]_(Promise!vars)
    OBVIOUS
  <2> DEFINE ex == {p \in Proc : pc[p] = "handler"}
             st == {b \in Bucket : starts[b] > 0}
  <2>t. TypeOK /\ TypeOK'
    BY DEF LeaseInv, OnceInv
  <2>0. ASSUME ex' = ex, starts' = starts PROVE UNCHANGED Promise!vars
    BY <2>0 DEF Promise!vars
  <2>1. ASSUME NEW p \in Proc, Acquire(p) PROVE Promise!Next
    <3>1. Mine(p) \in Bucket /\ run[Mine(p)].status = "NONE"
      BY <2>1, MineIsBucket DEF LeaseInv, OnceInv, TypeOK, ReadInThePast, Mine, Acquire, IndexesAllow
    <3>2. ex = {}
      <4> SUFFICES ASSUME NEW q \in ex PROVE FALSE
        OBVIOUS
      <4>1. Active(q) /\ Mine(q) \in Bucket /\ run[Mine(q)].status = "RUNNING"
        BY MineIsBucket DEF LeaseInv, OnceInv, TypeOK, ReadInThePast, Mine, Active, HolderKeepsRow
      <4> QED BY <2>1, <4>1 DEF Acquire, IndexesAllow
    <3>3. starts[Mine(p)] = 0
      BY <3>1 DEF LeaseInv, OnceInv, RowPerStart
    <3>4. ex' = {p}
      BY <2>1, <2>t, <3>2 DEF Acquire, TypeOK
    <3>5. st' = st \cup {Mine(p)}
      BY <2>1, <2>t, <3>1, <3>3 DEF Acquire, TypeOK
    <3>6. Mine(p) \notin st
      BY <3>3
    <3> QED BY <3>1, <3>2, <3>4, <3>5, <3>6 DEF Promise!Start, Promise!Next
  <2>2. ASSUME NEW p \in Proc, pc[p] = "handler", pc' = [pc EXCEPT ![p] = "idle"]
                                  \/ \E o \in {"success", "failure"} : pc' = [pc EXCEPT ![p] = o],
               starts' = starts
        PROVE  Promise!Next
    <3>1. ex' = ex \ {p} /\ p \in ex /\ st' = st
      BY <2>2, <2>t DEF TypeOK
    <3>2. Promise!Stop(p)
      BY <3>1 DEF Promise!Stop
    <3> QED BY <3>2 DEF Promise!Next
  <2>3. ASSUME NEW p \in Proc, Step(p) PROVE [Promise!Next]_(Promise!vars)
    <3>1. CASE Begin(p) \/ Reap(p) \/ NotAcquired(p) \/ SendBeat(p)
      <4>1. ex' = ex /\ starts' = starts
        BY <3>1, <2>t DEF Begin, Reap, NotAcquired, SendBeat, Leaves, TypeOK
      <4> QED BY <4>1, <2>0
    <3>2. CASE RecordSuccess(p) \/ RecordFailure(p) \/ SuccessNotRecorded(p)
      <4>1. ex' = ex /\ starts' = starts
        BY <3>2, <2>t DEF RecordSuccess, RecordFailure, SuccessNotRecorded, Leaves, TypeOK
      <4> QED BY <4>1, <2>0
    <3>3. CASE Acquire(p)
      BY <3>3, <2>1
    <3>4. CASE HandlerEnds(p)
      BY <3>4, <2>2 DEF HandlerEnds
    <3>5. CASE Abandon(p)
      <4>1. CASE pc[p] = "handler"
        BY <3>5, <4>1, <2>2 DEF Abandon, Leaves
      <4>2. CASE pc[p] # "handler"
        <5>1. ex' = ex /\ starts' = starts
          BY <3>5, <4>2, <2>t DEF Abandon, Leaves, TypeOK
        <5> QED BY <5>1, <2>0
      <4> QED BY <4>1, <4>2
    <3> QED BY <2>3, <3>1, <3>2, <3>3, <3>4, <3>5 DEF Step
  <2>4. ASSUME NEW m \in inFlight, LandBeat(m) PROVE UNCHANGED Promise!vars
    BY <2>4, <2>0 DEF LandBeat
  <2>5. ASSUME TimelyTick PROVE UNCHANGED Promise!vars
    BY <2>5, <2>0 DEF TimelyTick, Tick
  <2>6. ASSUME UNCHANGED vars PROVE UNCHANGED Promise!vars
    BY <2>6, <2>0 DEF vars
  <2> QED BY <2>3, <2>4, <2>5, <2>6 DEF TimelyNext
<1> QED BY <1>1, <1>2, LeaseInvHolds, PTL DEF TimelySpec, ImplementsExclusiveJob, Promise!Spec
=============================================================================
