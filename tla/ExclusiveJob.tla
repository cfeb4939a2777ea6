---------------------------- MODULE ExclusiveJob ----------------------------
(***************************************************************************)
(* What the scheduled jobs promise to the rest of the application: the     *)
(* executions of one job never overlap, and the execution of a time bucket *)
(* is started at most once, by whichever replica gets there first.         *)
(* docs/operations/production.md:42 words the promise; ScheduledJobs       *)
(* shows under which timing the lease table keeps it.                      *)
(***************************************************************************)

CONSTANTS
    Proc,       \* the calls that may run the job, on every replica
    Bucket      \* the time buckets of the job

VARIABLES
    executing,  \* the processes whose handler is running
    started     \* the buckets whose handler has been started

vars == <<executing, started>>

Init ==
    /\ executing = {}
    /\ started = {}

Start(p, b) ==
    /\ executing = {}
    /\ b \notin started
    /\ executing' = {p}
    /\ started' = started \cup {b}

\* The handler returns, throws, or dies with its replica.
Stop(p) ==
    /\ p \in executing
    /\ executing' = executing \ {p}
    /\ UNCHANGED started

Next ==
    \/ \E p \in Proc, b \in Bucket : Start(p, b)
    \/ \E p \in Proc : Stop(p)

Spec == Init /\ [][Next]_vars
=============================================================================
