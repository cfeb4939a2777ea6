------------------------- MODULE ScheduledJobsOnTime -------------------------
(***************************************************************************)
(* The scheduled jobs of a deployment that keeps its deadlines: a call     *)
(* inserts its run within MaxDelay of reading its clock, the timers of the *)
(* renewals fire when due, and a renewal reaches the database within       *)
(* MaxDelay.  Replicas may still die at any time and handlers may last as  *)
(* long as they like.  Under TimingAssumption the lease is then mutual     *)
(* exclusion, and the service implements ExclusiveJob.                     *)
(***************************************************************************)
EXTENDS ScheduledJobs

\* How much of a lease (leaseMilliseconds, renewed every third of it) the
\* delays and the differences between the clocks may use up.
ASSUME TimingAssumption ==
    /\ MaxDelay < Beat
    /\ \A p, q \in Proc : Beat + 2 * MaxDelay + Skew[q] < Lease + Skew[p]

\* Nothing that is due now is still to be done.
OnTime ==
    /\ \A p \in Proc : pc[p] \in {"reap", "create"} => Clock(p) < at[p] + MaxDelay
    /\ \A p \in Proc : Active(p) => now < nextBeat[p]
    /\ \A m \in inFlight : Clock(m.owner) + Lease < m.expires + MaxDelay

TimelyTick == OnTime /\ Tick

TimelyNext ==
    \/ \E p \in Proc : Step(p)
    \/ \E m \in inFlight : LandBeat(m)
    \/ TimelyTick

TimelySpec == Init /\ [][TimelyNext]_vars

-----------------------------------------------------------------------------

\* A call that runs its handler, or is about to record its outcome, still
\* holds the lease: its row is running and is its own.  The one exception
\* is a call whose success was recorded without its having the answer: it
\* is about to write a failure over it.
HolderKeepsRow ==
    \A p \in Proc : Active(p) =>
        /\ run[Mine(p)].owner = {p}
        /\ \/ run[Mine(p)].status = "RUNNING"
           \/ pc[p] = "failure" /\ run[Mine(p)].status = "SUCCEEDED"

\* The promise of the lease, as the rest of the application relies on it.
Promise == INSTANCE ExclusiveJob WITH
    executing <- {p \in Proc : pc[p] = "handler"},
    started <- {b \in Bucket : starts[b] > 0}

\* The service implements ExclusiveJob: one handler at a time over all the
\* replicas and all the buckets, each bucket once (production.md:42).
ImplementsExclusiveJob == Promise!Spec
=============================================================================
