-------------------------- MODULE MC_BackgroundJobs --------------------------
(***************************************************************************)
(* The work the schedulers start, in three parts of the same state: the    *)
(* leases (ScheduledJobs), the reminders and the feeds.  They share no     *)
(* row, so a behaviour is about one part, chosen at the start, and the     *)
(* others stay as they are.                                                *)
(*                                                                         *)
(* Leases: two replicas, their clocks together or the second one unit      *)
(* ahead; buckets and leases of 2 units, so that a lease can end in the    *)
(* bucket after its own.                                                   *)
(***************************************************************************)
EXTENDS ScheduledJobs

CONSTANTS
    p1, p2,
    Plan, Member, Sender, Hours, MaxTime, MaxFails, MaxChanges,     \* of Reminders
    Feed, Page, Caller, Scheduler, Barred, Tag, MaxTroubles, MaxByHand,    \* of CurationFeeds
    Followed    \* the feeds that are followed at the start

\* There is somebody to tell and something to tell of, and the bounds of the
\* model are numbers.
ASSUME RemindersAssumption ==
    /\ Plan # {} /\ Member # {} /\ Hours # {} /\ Hours \subseteq Nat
    /\ MaxTime \in Nat /\ MaxFails \in Nat /\ MaxChanges \in Nat

TwoProcs == {p1, p2}
AheadByOne == [p \in TwoProcs |-> IF p = p1 THEN 0 ELSE 1]
SameClock == [p \in TwoProcs |-> 0]

VARIABLES
    part,
    rNow, rRule, rPlan, rTeam, rReminder, rNotice, rReq, rTold, rFails, rChanges,
    cFeed, cResource, cTags, cLease, cReq, cStored, cFailed, cTroubles, cByHand

\* Runs of the reminders, of jobs and of administrators.
Reminders == INSTANCE Reminders WITH
    Proc <- Sender,
    now <- rNow, rule <- rRule, plan <- rPlan, team <- rTeam, reminder <- rReminder,
    notice <- rNotice, req <- rReq, told <- rTold, fails <- rFails, changes <- rChanges

\* Feeds that may carry the same pages; schedulers and members.
Feeds == INSTANCE CurationFeeds WITH
    Proc <- Caller, Replica <- Scheduler, Refused <- Barred,
    feed <- cFeed, resource <- cResource, tags <- cTags, lease <- cLease, req <- cReq,
    stored <- cStored, failed <- cFailed, troubles <- cTroubles, byHand <- cByHand

rVars == <<rNow, rRule, rPlan, rTeam, rReminder, rNotice, rReq, rTold, rFails, rChanges>>
cVars == <<cFeed, cResource, cTags, cLease, cReq, cStored, cFailed, cTroubles, cByHand>>
all == <<part, vars, rVars, cVars>>

\* What comes near is due at the same time, and its members want to be told.
MCInit ==
    /\ part \in {"leases", "reminders", "feeds"}
    /\ Init
    /\ Reminders!Init /\ (\A x \in Plan : rPlan[x].date = 1) /\ (\A u \in Member : rTeam[u].wants)
    /\ Feeds!Init
    /\ cFeed = [f \in Feed |-> IF f \in Followed THEN Feeds!NewFeed ELSE Feeds!NoFeed]

LeasesNext ==
    /\ part = "leases" /\ Next
    /\ UNCHANGED <<part, rVars, cVars>>

\* A run fails or somebody changes something: one of the two.
RemindersNext ==
    /\ part = "reminders" /\ Reminders!Next /\ rFails' + rChanges' <= 1
    /\ UNCHANGED <<part, vars, cVars>>

FeedsNext ==
    /\ part = "feeds" /\ Feeds!Next /\ cTroubles' + cByHand' <= 2
    /\ UNCHANGED <<part, vars, rVars>>

MCNext == LeasesNext \/ RemindersNext \/ FeedsNext

\* The fairness of each part, in the behaviours that are about it.
MCFairness ==
    /\ WF_vars(part = "leases" /\ Tick)
    /\ \A p \in Proc :
        /\ WF_vars(part = "leases" /\ Begin(p))
        /\ SF_vars(part = "leases" /\ Reap(p))
        /\ WF_vars(part = "leases" /\ (Acquire(p) \/ NotAcquired(p)))
        /\ WF_vars(part = "leases" /\ HandlerEnds(p))
        /\ WF_vars(part = "leases"
                    /\ (RecordSuccess(p) \/ RecordFailure(p) \/ SuccessNotRecorded(p)))
    /\ \A p \in Sender :
        WF_rVars(part = "reminders" /\ (Reminders!Start(p) \/ Reminders!Step(p)))
    /\ WF_cVars(part = "feeds" /\ Feeds!Tick)
    /\ \A p \in Caller :
        WF_cVars(part = "feeds" /\ (Feeds!ReadDueFeeds(p) \/ Feeds!Step(p)))

MCSpec == MCInit /\ [][MCNext]_all /\ MCFairness

-----------------------------------------------------------------------------

\* Runs of the reminders that cross, fail and start again tell each member
\* once of a plan and a trigger date, and leave nobody of their window out
\* (Reminders).
MembersAreTold ==
    part = "reminders" => Reminders!TypeOK /\ Reminders!ToldOnce /\ Reminders!RunTellsAll

\* A publication that comes near is announced in the end (Reminders).
NearIsTold ==
    \A u \in Member, x \in Plan : []<>(part = "reminders" => ~Reminders!WaitsUntold(u, x))

\* A feed in error comes back (CurationFeeds).
ErrorRecovers == Feeds!ErrorRecovers
=============================================================================
