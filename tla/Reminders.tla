----------------------------- MODULE Reminders -----------------------------
(***************************************************************************)
(* Publication reminders and the notices they send to members              *)
(* (apps/api/src/automations).  A process is one run of                    *)
(* processPublicationReminders for an organization: the job of any replica *)
(* or an administrator who asks for it, both at once if they want.  A run  *)
(* reads the rule, the plans, the members and their preferences in four    *)
(* statements, then walks through the plans with what it has read.         *)
(*                                                                         *)
(* A reminder is the row of a plan and a trigger date, a notice the row of *)
(* a member and a reminder; each pair has a unique index.                  *)
(***************************************************************************)
EXTENDS Integers

CONSTANTS
    Plan,       \* ids of publication plans, used once
    Member,     \* users who are or may become members
    Proc,       \* runs under way
    Hours,      \* values of reminderHoursBefore
    MaxTime,    \* bound of the model on the clock, in hours
    MaxFails,   \* bound of the model on the runs that fail
    MaxChanges  \* bound of the model on what people change meanwhile

VARIABLES
    now,        \* the clock
    rule,       \* the rule PUBLICATION_REMINDER
    plan,       \* the plans: present, to be published, and when
    team,       \* the members, and whether they want notices in the product
    reminder,   \* the rows of the reminders
    notice,     \* the status of each notice
    req,        \* the runs
    told,       \* history: how many times each notice was inserted
    fails,      \* runs that failed
    changes     \* changes made by people

vars == <<now, rule, plan, team, reminder, notice, req, told, fails, changes>>

Time == 0..MaxTime

Trigger == {d - h : d \in Time, h \in Hours}

Notice == Member \X Plan \X Trigger

\* planned: the status is DRAFT or SCHEDULED.
PlanRow == [there : BOOLEAN, planned : BOOLEAN, date : Time]

\* seen: the date of each plan that the run has read, none for the others.
\* todo: those it has not come to yet.  to: the members it notifies.
\* x, left, u: the plan and the members at hand.
Run == [stage : {"idle", "rule", "plans", "members", "muted", "find", "create", "again",
                 "look", "insert"},
        hours : Hours, seen : [Plan -> Time \cup {-1}], todo : SUBSET Plan,
        to : SUBSET Member, x : Plan, left : SUBSET Member, u : Member]

SomeHours == CHOOSE h \in Hours : TRUE

Idle == [stage |-> "idle", hours |-> SomeHours, seen |-> [x \in Plan |-> -1], todo |-> {},
         to |-> {}, x |-> CHOOSE x \in Plan : TRUE, left |-> {},
         u |-> CHOOSE u \in Member : TRUE]

TypeOK ==
    /\ now \in Time
    /\ rule \in [active : BOOLEAN, hours : Hours]
    /\ plan \in [Plan -> PlanRow]
    /\ team \in [Member -> [active : BOOLEAN, wants : BOOLEAN]]
    /\ reminder \in SUBSET (Plan \X Trigger)
    /\ notice \in [Notice -> {"NONE", "UNREAD", "READ"}]
    /\ req \in [Proc -> Run]
    /\ told \in [Notice -> Nat]
    /\ fails \in 0..MaxFails
    /\ changes \in 0..MaxChanges

Init ==
    /\ now = 0
    /\ rule \in [active : {TRUE}, hours : Hours]
    /\ plan \in [Plan -> [there : {TRUE}, planned : {TRUE}, date : Time]]
    /\ team \in [Member -> [active : {TRUE}, wants : BOOLEAN]]
    /\ reminder = {}
    /\ notice = [n \in Notice |-> "NONE"]
    /\ req = [p \in Proc |-> Idle]
    /\ told = [n \in Notice |-> 0]
    /\ fails = 0
    /\ changes = 0

-----------------------------------------------------------------------------

people == <<rule, plan, team, changes>>

At(p, stage) == req[p].stage = stage

Goes(p, stage) == req' = [req EXCEPT ![p].stage = stage]

Ends(p) == req' = [req EXCEPT ![p] = Idle]

\* triggerAt: the date of the plan as read, less the hours of the rule as read.

TriggerAt(p, x) == req[p].seen[x] - req[p].hours

\* The reminder at hand.
AtHand(p) == <<req[p].x, TriggerAt(p, req[p].x)>>

\* The timers of the job, or POST /automations/reminders/process.
Start(p) ==
    /\ At(p, "idle")
    /\ Goes(p, "rule")
    /\ UNCHANGED <<now, people, reminder, notice, told, fails>>

ReadRule(p) ==
    /\ At(p, "rule")
    /\ IF rule.active
       THEN req' = [req EXCEPT ![p].stage = "plans", ![p].hours = rule.hours]
       ELSE Ends(p)
    /\ UNCHANGED <<now, people, reminder, notice, told, fails>>

\* The plans still to be published between now and the end of the window.
InWindow(x, hours) ==
    /\ plan[x].there /\ plan[x].planned
    /\ now <= plan[x].date /\ plan[x].date <= now + hours

ReadPlans(p) ==
    /\ At(p, "plans")
    /\ LET due == {x \in Plan : InWindow(x, req[p].hours)}
       IN  req' = [req EXCEPT ![p].stage = "members", ![p].todo = due,
                     ![p].seen = [x \in Plan |-> IF x \in due THEN plan[x].date ELSE -1]]
    /\ UNCHANGED <<now, people, reminder, notice, told, fails>>

ReadMembers(p) ==
    /\ At(p, "members")
    /\ req' = [req EXCEPT ![p].stage = "muted", ![p].to = {u \in Member : team[u].active}]
    /\ UNCHANGED <<now, people, reminder, notice, told, fails>>

\* listOptedOutUsers.
ReadOptedOut(p) ==
    /\ At(p, "muted")
    /\ req' = [req EXCEPT ![p].stage = "find",
                          ![p].to = {u \in req[p].to : team[u].wants}]
    /\ UNCHANGED <<now, people, reminder, notice, told, fails>>

\* The members to look at for a plan: all of them, also when its reminder was
\* there already.
LeftFor_NewReminder(p, x) == IF <<x, TriggerAt(p, x)>> \in reminder THEN {} ELSE req[p].to

LeftFor(p, x) == req[p].to

\* The next plan by date: its reminder is there already, or is to be created.
FindReminder(p) ==
    /\ At(p, "find")
    /\ \E x \in req[p].todo :
        /\ \A y \in req[p].todo : req[p].seen[x] <= req[p].seen[y]
        /\ req' = [req EXCEPT ![p].x = x, ![p].left = LeftFor(p, x),
                     ![p].stage = IF <<x, TriggerAt(p, x)>> \in reminder THEN "look"
                                                                          ELSE "create"]
    /\ UNCHANGED <<now, people, reminder, notice, told, fails>>

\* A refused insert: the row of the other run is read.
Refused_GivesUp(p) == req' = [req EXCEPT ![p].stage = "find", ![p].todo = @ \ {req[p].x}]

Refused(p) == Goes(p, "again")

\* The unique index (organization, plan, date of the trigger).
ReminderIsNew(p) == AtHand(p) \notin reminder

CreateReminder(p) ==
    /\ At(p, "create")
    /\ plan[req[p].x].there
    /\ IF ReminderIsNew(p)
       THEN reminder' = reminder \cup {AtHand(p)} /\ Goes(p, "look")
       ELSE Refused(p) /\ UNCHANGED reminder
    /\ UNCHANGED <<now, people, notice, told, fails>>

\* After a refused insert: the row of the other run.
FindReminderAgain(p) ==
    /\ At(p, "again")
    /\ AtHand(p) \in reminder
    /\ Goes(p, "look")
    /\ UNCHANGED <<now, people, reminder, notice, told, fails>>

\* The members of the plan have all been seen to: the loop goes on.
PlanDone(p) ==
    /\ At(p, "look") /\ req[p].left = {}
    /\ req' = [req EXCEPT ![p].stage = "find", ![p].todo = req[p].todo \ {req[p].x}]
    /\ UNCHANGED <<now, people, reminder, notice, told, fails>>

NoticeOf(p, u) == <<u, req[p].x, TriggerAt(p, req[p].x)>>

FindNotice(p) ==
    /\ At(p, "look")
    /\ \E u \in req[p].left :
        IF notice[NoticeOf(p, u)] # "NONE"
        THEN req' = [req EXCEPT ![p].left = req[p].left \ {u}]
        ELSE req' = [req EXCEPT ![p].stage = "insert", ![p].u = u]
    /\ UNCHANGED <<now, people, reminder, notice, told, fails>>

\* The unique index (user, reminder): a refused insert is the other run's, and
\* is passed over.

NoticeIsNew(p) == notice[NoticeOf(p, req[p].u)] = "NONE"

InsertNotice(p) ==
    /\ At(p, "insert")
    /\ AtHand(p) \in reminder
    /\ IF NoticeIsNew(p)
       THEN /\ notice' = [notice EXCEPT ![NoticeOf(p, req[p].u)] = "UNREAD"]
            /\ told' = [told EXCEPT ![NoticeOf(p, req[p].u)] = @ + 1]
       ELSE UNCHANGED <<notice, told>>
    /\ req' = [req EXCEPT ![p].stage = "look", ![p].left = req[p].left \ {req[p].u}]
    /\ UNCHANGED <<now, people, reminder, fails>>

\* The run returns its counts.
Finish(p) ==
    /\ At(p, "find") /\ req[p].todo = {}
    /\ Ends(p)
    /\ UNCHANGED <<now, people, reminder, notice, told, fails>>

\* An insert refers to a row deleted meanwhile: the run throws, and what it had
\* left to do waits for the next one.
RowIsGone(p) ==
    /\ \/ At(p, "create") /\ ~plan[req[p].x].there
       \/ At(p, "again") /\ AtHand(p) \notin reminder
       \/ At(p, "insert") /\ AtHand(p) \notin reminder
    /\ Ends(p)
    /\ UNCHANGED <<now, people, reminder, notice, told, fails>>

\* A statement fails, or the replica stops.
Fails(p) ==
    /\ ~At(p, "idle")
    /\ fails < MaxFails
    /\ fails' = fails + 1
    /\ Ends(p)
    /\ UNCHANGED <<now, people, reminder, notice, told>>

Step(p) ==
    \/ ReadRule(p) \/ ReadPlans(p) \/ ReadMembers(p) \/ ReadOptedOut(p)
    \/ FindReminder(p) \/ CreateReminder(p) \/ FindReminderAgain(p) \/ PlanDone(p)
    \/ FindNotice(p) \/ InsertNotice(p) \/ Finish(p) \/ RowIsGone(p)

-----------------------------------------------------------------------------
(* Everybody else.                                                         *)

Change == changes < MaxChanges /\ changes' = changes + 1

Tick ==
    /\ now < MaxTime
    /\ now' = now + 1
    /\ UNCHANGED <<people, reminder, notice, req, told, fails>>

\* updateRule: hours that are not given become the default, one of Hours.
UpdateRule ==
    /\ Change
    /\ rule' \in [active : BOOLEAN, hours : Hours]
    /\ UNCHANGED <<now, plan, team, reminder, notice, req, told, fails>>

\* The calendar: a plan is moved, cancelled or published.
UpdatePlan(x) ==
    /\ Change
    /\ plan[x].there
    /\ \E d \in Time, on \in BOOLEAN :
        plan' = [plan EXCEPT ![x] = [there |-> TRUE, planned |-> on, date |-> d]]
    /\ UNCHANGED <<now, rule, team, reminder, notice, req, told, fails>>

\* Its reminders go with it; their notices stay, without a reminder.
DeletePlan(x) ==
    /\ Change
    /\ plan[x].there
    /\ plan' = [plan EXCEPT ![x].there = FALSE]
    /\ reminder' = {r \in reminder : r[1] # x}
    /\ UNCHANGED <<now, rule, team, notice, req, told, fails>>

\* updatePreferences.
UpdatePreferences(u) ==
    /\ Change
    /\ team' = [team EXCEPT ![u].wants = ~@]
    /\ UNCHANGED <<now, rule, plan, reminder, notice, req, told, fails>>

\* A membership is removed or given back.
ChangeMembership(u) ==
    /\ Change
    /\ team' = [team EXCEPT ![u].active = ~@]
    /\ UNCHANGED <<now, rule, plan, reminder, notice, req, told, fails>>

\* markNotificationAsRead: READ is written whatever the status was.
MarkAsRead(n) ==
    /\ Change
    /\ notice[n] # "NONE"
    /\ notice' = [notice EXCEPT ![n] = "READ"]
    /\ UNCHANGED <<now, rule, plan, team, reminder, req, told, fails>>

MarkAllAsRead(u) ==
    /\ Change
    /\ notice' = [n \in Notice |-> IF n[1] = u /\ notice[n] = "UNREAD" THEN "READ"
                                                                        ELSE notice[n]]
    /\ UNCHANGED <<now, rule, plan, team, reminder, req, told, fails>>

Others ==
    \/ Tick
    \/ UpdateRule
    \/ \E x \in Plan : UpdatePlan(x) \/ DeletePlan(x)
    \/ \E u \in Member : UpdatePreferences(u) \/ ChangeMembership(u) \/ MarkAllAsRead(u)
    \/ \E n \in Notice : MarkAsRead(n)

Next == (\E p \in Proc : Start(p) \/ Step(p) \/ Fails(p)) \/ Others

Spec == Init /\ [][Next]_vars

-----------------------------------------------------------------------------
(* Properties.                                                             *)

\* docs/implementation/spec-production-roadmap-completion.md:67: replicas that
\* replay the job create no reminder twice.  A member is told once of a plan
\* and a trigger date, whoever runs, fails or runs again, and a notice that
\* has been read does not come back.
ToldOnce == \A n \in Notice : told[n] <= 1

\* What a run has come through is told: each member it read, of each plan it
\* read, by this run or by another; so a run after one that failed between a
\* reminder and its notices completes them, and a run whose insert was refused
\* does not leave out the plan (the two catch branches).
RunTellsAll ==
    \A p \in Proc : req[p].stage = "find" =>
        \A x \in Plan : req[p].seen[x] # -1 /\ x \notin req[p].todo =>
            \A u \in req[p].to : told[<<u, x, TriggerAt(p, x)>>] >= 1

\* Fairness: the timers keep starting runs, and a statement that does not fail
\* ends; failures are not for ever (MaxFails).
Fairness == \A p \in Proc : WF_vars(Start(p) \/ Step(p))

FairSpec == Spec /\ Fairness

\* A publication is in the window of the rule, and a member who wants to know
\* has not been told of it.
WaitsUntold(u, x) ==
    /\ rule.active /\ InWindow(x, rule.hours)
    /\ team[u] = [active |-> TRUE, wants |-> TRUE]
    /\ told[<<u, x, plan[x].date - rule.hours>>] = 0

\* docs/specs/30-features-v2/04-automatisation-marketing.md:83: with the rule
\* active, a publication that comes near is announced, even after runs that
\* failed half way and rows deleted under others: nobody is left untold.
NearIsTold == \A u \in Member, x \in Plan : []<>~WaitsUntold(u, x)
=============================================================================
