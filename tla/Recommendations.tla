-------------------------- MODULE Recommendations --------------------------
(***************************************************************************)
(* Recommendations of an organization (apps/api/src/automations): a        *)
(* content to plan, an idea to write.  A process is one run of             *)
(* generateRecommendations: the job of any replica, or an administrator.   *)
(* A run reads the Window oldest targets once, then looks for a row and    *)
(* inserts it in two statements for each.  Members close and reopen what   *)
(* they are shown.                                                         *)
(***************************************************************************)
EXTENDS Naturals, FiniteSets, Sequences, Functions

CONSTANTS
    Target,     \* contents and ideas
    Proc,       \* runs under way
    Window,     \* how many are read: 10 contents, 5 ideas
    MaxFails,   \* bound of the model on runs that fail
    MaxEdits    \* bound of the model on what members do

VARIABLES
    byAge,      \* the targets, the one updated longest ago first
    wanting,    \* those that a recommendation is about: unplanned, or only saved
    status,     \* the rows of the recommendations
    given,      \* history: the status a member last gave, or NONE
    inserted,   \* history: rows inserted for each target
    req,        \* the runs
    fails, edits

vars == <<byAge, wanting, status, given, inserted, req, fails, edits>>

Status == {"OPEN", "DONE", "DISMISSED"}

Run == [stage : {"idle", "find", "create"}, seen : SUBSET Target, todo : SUBSET Target,
        t : Target]

Idle == [stage |-> "idle", seen |-> {}, todo |-> {}, t |-> CHOOSE t \in Target : TRUE]

TypeOK ==
    /\ byAge \in [1..Len(byAge) -> Target] /\ Range(byAge) = Target /\ IsInjective(byAge)
    /\ wanting \in SUBSET Target
    /\ status \in [Target -> Status \cup {"NONE"}]
    /\ given \in [Target -> Status \cup {"NONE"}]
    /\ inserted \in [Target -> Nat]
    /\ req \in [Proc -> Run]
    /\ fails \in 0..MaxFails /\ edits \in 0..MaxEdits

Init ==
    /\ byAge = CHOOSE f \in [1..Cardinality(Target) -> Target] : IsInjective(f)
    /\ wanting = Target
    /\ status = [t \in Target |-> "NONE"]
    /\ given = status
    /\ inserted = [t \in Target |-> 0]
    /\ req = [p \in Proc |-> Idle]
    /\ fails = 0 /\ edits = 0

-----------------------------------------------------------------------------

At(p, stage) == req[p].stage = stage

\* The reads at the start.  The window is cut before the planned ones are left
\* out of it.
Read(p) ==
    /\ At(p, "idle")
    /\ LET due == {byAge[i] : i \in 1..(IF Len(byAge) < Window THEN Len(byAge) ELSE Window)}
                    \cap wanting
       IN  /\ due # {}
           /\ req' = [req EXCEPT ![p].stage = "find", ![p].seen = due, ![p].todo = due]
    /\ UNCHANGED <<byAge, wanting, status, given, inserted, fails, edits>>

\* createRecommendationIfMissing: a row of any status is enough.
IsMissing(t) == status[t] = "NONE"

Find(p) ==
    /\ At(p, "find")
    /\ \E t \in req[p].todo :
        req' = [req EXCEPT ![p].t = t, ![p].todo = @ \ {t},
                           ![p].stage = IF IsMissing(t) THEN "create" ELSE "find"]
    /\ UNCHANGED <<byAge, wanting, status, given, inserted, fails, edits>>

\* The unique index (organization, type, target): a refused insert is passed
\* over, and the loop goes on.

Allows(t) == status[t] = "NONE"

GoesOn_Stops(p) ==
    req' = [req EXCEPT ![p].stage = "find", ![p].todo = IF Allows(req[p].t) THEN @ ELSE {}]

GoesOn(p) == req' = [req EXCEPT ![p].stage = "find"]

Create(p) ==
    /\ At(p, "create")
    /\ LET t == req[p].t
       IN  IF Allows(t)
           THEN /\ status' = [status EXCEPT ![t] = "OPEN"]
                /\ inserted' = [inserted EXCEPT ![t] = @ + 1]
           ELSE UNCHANGED <<status, inserted>>
    /\ GoesOn(p)
    /\ UNCHANGED <<byAge, wanting, given, fails, edits>>

Finish(p) ==
    /\ At(p, "find") /\ req[p].todo = {}
    /\ req' = [req EXCEPT ![p] = Idle]
    /\ UNCHANGED <<byAge, wanting, status, given, inserted, fails, edits>>

Fails(p) ==
    /\ ~At(p, "idle") /\ fails < MaxFails
    /\ fails' = fails + 1
    /\ req' = [req EXCEPT ![p] = Idle]
    /\ UNCHANGED <<byAge, wanting, status, given, inserted, edits>>

\* updateRecommendationStatus: any status, by id.
UpdateStatus(t) ==
    /\ edits < MaxEdits /\ edits' = edits + 1
    /\ status[t] # "NONE"
    /\ \E s \in Status : status' = [status EXCEPT ![t] = s] /\ given' = [given EXCEPT ![t] = s]
    /\ UNCHANGED <<byAge, wanting, inserted, req, fails>>

\* The target is planned, written, freed or edited: it becomes the newest.
EditTarget(t) ==
    /\ edits < MaxEdits /\ edits' = edits + 1
    /\ \E i \in 1..Len(byAge) :
        /\ byAge[i] = t
        /\ byAge' = Append(SubSeq(byAge, 1, i - 1) \o SubSeq(byAge, i + 1, Len(byAge)), t)
    /\ wanting' \in {wanting, wanting \cup {t}, wanting \ {t}}
    /\ UNCHANGED <<status, given, inserted, req, fails>>

Next ==
    \/ \E p \in Proc : Read(p) \/ Find(p) \/ Create(p) \/ Finish(p) \/ Fails(p)
    \/ \E t \in Target : UpdateStatus(t) \/ EditTarget(t)

Spec == Init /\ [][Next]_vars

-----------------------------------------------------------------------------
(* Properties.                                                             *)

\* getState: what members are shown.
Shown == {t \in Target : status[t] = "OPEN"}

\* Runs that cross, fail and start again give one recommendation for a target,
\* shown until a member closes it; what a member has done with it stands, and
\* no later run opens it again.
AnswerStands ==
    \A t \in Target :
        /\ inserted[t] <= 1
        /\ t \in Shown <=> inserted[t] = 1 /\ given[t] \in {"NONE", "OPEN"}
        /\ given[t] # "NONE" => status[t] = given[t]

\* A run that comes to its end has left no target of its window without a row,
\* also those whose insert another run won.
RunCoversWindow ==
    \A p \in Proc : At(p, "find") =>
        \A t \in req[p].seen \ req[p].todo : status[t] # "NONE"
=============================================================================
