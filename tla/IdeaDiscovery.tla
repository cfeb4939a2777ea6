--------------------------- MODULE IdeaDiscovery ---------------------------
(***************************************************************************)
(* Idea discovery in one organization (apps/api/src/ideas): candidates     *)
(* are generated in batches, members react to them, a candidate that is    *)
(* liked is saved as an idea, and a profile of the organization is learned *)
(* from the reactions until somebody resets it.                            *)
(*                                                                         *)
(* A process is one request.  A reaction and a reset are serializable      *)
(* transactions that write the row of the profile: each draws the date it  *)
(* will store, then takes its snapshot with its first statement, and       *)
(* commits only if no other has committed since; otherwise the database    *)
(* refuses it (P2034) and the service starts it again.                     *)
(*                                                                         *)
(* The clock moves with every date that is drawn: two dates in the same    *)
(* millisecond are left out.                                               *)
(***************************************************************************)
EXTENDS Naturals, FiniteSets

CONSTANTS
    User,       \* members of the organization
    Candidate,  \* candidates, by their fingerprint
    Rejection,  \* DISLIKE, with each of its reasons
    Proc,       \* requests
    BatchSize,  \* DISCOVERY_BATCH_SIZE
    Attempts,   \* SERIALIZABLE_TRANSACTION_ATTEMPTS
    MaxDate     \* bound of the model on the dates drawn

VARIABLES
    clock,      \* the next date
    account,    \* the users whose account exists
    presented,  \* the rows of the candidates
    reaction,   \* the rows of the reactions
    saved,      \* the candidates that an idea was created from
    profile,    \* the row of the profile
    req,        \* the requests under way
    learned,    \* history: qualified reactions stored since the last reset
    crossed     \* history: a date was drawn, and its snapshot not taken, when a
                \* transaction committed and one of the two was a reset

vars == <<clock, account, presented, reaction, saved, profile, req, learned, crossed>>

\* The signal of a reaction, and for a rejection its reason.
Signal == {"LIKE", "SKIP"} \cup Rejection

ASSUME DiscoveryAssumption ==
    /\ User # {} /\ Candidate # {}
    /\ Rejection \cap {"LIKE", "SKIP", "NONE"} = {}
    /\ BatchSize \in Nat /\ Attempts \in Nat \ {0} /\ MaxDate \in Nat \ {0}

Date == 1 .. MaxDate

Pair == User \X Candidate

Row == [signal : Signal \cup {"NONE"}, at : Date \cup {0}]

NoRow == [signal |-> "NONE", at |-> 0]

Rows == [Pair -> Row]

NoRows == [rc \in Pair |-> NoRow]

\* resetAt: 0 when the preferences were never reset.  counted: the reactions
\* behind the counts and the scores of themes and formats.
Profile == [resetAt : Date \cup {0}, counted : SUBSET Pair]

\* at: the date drawn by the transaction.  seen: the reactions in its
\* snapshot.  fresh: nothing has committed since.
Request == [kind : {"react", "reset", "generate"},
            stage : {"idle", "asked", "dated", "open", "stored", "checked"},
            user : User, about : Candidate, signal : Signal, batch : SUBSET Candidate,
            at : Date \cup {0}, tries : 0 .. Attempts, seen : Rows, fresh : BOOLEAN]

Idle == [kind |-> "react", stage |-> "idle",
         user |-> CHOOSE u \in User : TRUE, about |-> CHOOSE c \in Candidate : TRUE,
         signal |-> "SKIP", batch |-> {},
         at |-> 0, tries |-> 0, seen |-> NoRows, fresh |-> FALSE]

TypeOK ==
    /\ clock \in 1 .. MaxDate + 1
    /\ account \in SUBSET User
    /\ presented \in SUBSET Candidate
    /\ reaction \in Rows
    /\ saved \in SUBSET Candidate
    /\ profile \in Profile
    /\ req \in [Proc -> Request]
    /\ learned \in SUBSET Pair
    /\ crossed \in BOOLEAN

Init ==
    /\ clock = 1
    /\ account = User
    /\ presented = {}
    /\ reaction = NoRows
    /\ saved = {}
    /\ profile = [resetAt |-> 0, counted |-> {}]
    /\ req = [p \in Proc |-> Idle]
    /\ learned = {}
    /\ crossed = FALSE

-----------------------------------------------------------------------------

Rc(p) == <<req[p].user, req[p].about>>

Qualified(row) == row.signal \in {"LIKE"} \cup Rejection

\* What the profile is computed from: a SKIP does not count.
Since(rows, date) == {rc \in Pair : Qualified(rows[rc]) /\ rows[rc].at > date}

Ends(p) == req' = [req EXCEPT ![p] = Idle]

(***************************************************************************)
(* Generation.  A batch in which the AI has put a candidate that was       *)
(* presented before is refused as a whole, when the existing ones are read *)
(* before the transaction; the transaction then inserts those that are     *)
(* still missing.                                                          *)
(***************************************************************************)
Generate(p) ==
    /\ req[p].stage = "idle"
    /\ \E batch \in SUBSET Candidate :
        /\ Cardinality(batch) = BatchSize
        /\ batch \cap presented = {}
        /\ req' = [req EXCEPT ![p] = [Idle EXCEPT !.kind = "generate", !.stage = "checked",
                                                  !.batch = batch]]
    /\ UNCHANGED <<clock, account, presented, reaction, saved, profile, learned, crossed>>

InsertBatch(p) ==
    /\ req[p].stage = "checked"
    /\ presented' = presented \cup req[p].batch
    /\ Ends(p)
    /\ UNCHANGED <<clock, account, reaction, saved, profile, learned, crossed>>

\* submitDiscoveryFeedback: the candidate must exist.
Submit(p) ==
    /\ req[p].stage = "idle"
    /\ \E u \in account, c \in presented, s \in Signal :
        req' = [req EXCEPT ![p] = [Idle EXCEPT !.kind = "react", !.stage = "asked",
                                               !.user = u, !.about = c, !.signal = s]]
    /\ UNCHANGED <<clock, account, presented, reaction, saved, profile, learned, crossed>>

\* resetDiscoveryPreferences
Reset(p) ==
    /\ req[p].stage = "idle"
    /\ req' = [req EXCEPT ![p] = [Idle EXCEPT !.kind = "reset", !.stage = "asked"]]
    /\ UNCHANGED <<clock, account, presented, reaction, saved, profile, learned, crossed>>

\* A transaction begins: resetAt is new Date(), or createdAt the date of the
\* statement that is about to be sent.
DrawDate(p) ==
    /\ req[p].stage = "asked"
    /\ clock <= MaxDate
    /\ clock' = clock + 1
    /\ req' = [req EXCEPT ![p].stage = "dated", ![p].at = clock, ![p].tries = @ + 1]
    /\ UNCHANGED <<account, presented, reaction, saved, profile, learned, crossed>>

\* The first statement reaches the database.
Open(p) ==
    /\ req[p].stage = "dated"
    /\ req' = [req EXCEPT ![p].stage = "open", ![p].seen = reaction, ![p].fresh = TRUE]
    /\ UNCHANGED <<clock, account, presented, reaction, saved, profile, learned, crossed>>

\* Mutant of Replayed: the upsert updates the row it finds.
Replayed_Never(p) == FALSE

Replayed(p) == req[p].seen[Rc(p)] # NoRow

\* The row that the upsert returns: with an empty update, the stored one if
\* there is one.
Returned(p) ==
    IF Replayed(p) THEN req[p].seen[Rc(p)]
    ELSE [signal |-> req[p].signal, at |-> req[p].at]

\* Mutant of Agrees: the first reaction is taken for the one that was sent.
Agrees_Unchecked(p) == TRUE

Agrees(p) == Returned(p).signal = req[p].signal

\* Mutant of Saves: only the first reaction to a candidate can save it.
Saves_First(p) ==
    Returned(p).signal = "LIKE" /\ \A u \in User : req[p].seen[<<u, req[p].about>>] = NoRow

Saves(p) == Returned(p).signal = "LIKE"

\* Mutant of MayCommit: the isolation level of the other transactions.
MayCommit_Weaker(p) == req[p].stage = "open"

\* Serializable: nothing that writes the profile has committed since.
MayCommit(p) == req[p].fresh

\* Every open transaction has now missed a commit.
Outdate(p, stage) ==
    /\ req' = [q \in Proc |->
                 IF q = p THEN [Idle EXCEPT !.kind = req[p].kind, !.stage = stage,
                                            !.user = req[p].user, !.about = req[p].about,
                                            !.signal = req[p].signal]
                 ELSE [req[q] EXCEPT !.fresh = FALSE]]
    /\ crossed' = (crossed \/ \E q \in Proc \ {p} :
                     req[q].stage = "dated" /\ "reset" \in {req[p].kind, req[q].kind})

\* The reaction, the idea of a candidate that is liked and the profile
\* computed anew, in one transaction.
CommitReaction(p) ==
    /\ req[p].kind = "react" /\ req[p].stage = "open" /\ MayCommit(p)
    /\ req[p].user \in account
    /\ Agrees(p)
    /\ LET rows == [req[p].seen EXCEPT ![Rc(p)] = Returned(p)]
       IN  profile' = [profile EXCEPT !.counted = Since(rows, profile.resetAt)]
    /\ reaction' = IF Replayed(p) THEN reaction ELSE [reaction EXCEPT ![Rc(p)] = Returned(p)]
    /\ saved' = IF Saves(p) THEN saved \cup {req[p].about} ELSE saved
    /\ learned' = IF Replayed(p) \/ ~Qualified(Returned(p)) THEN learned
                  ELSE learned \cup {Rc(p)}
    /\ Outdate(p, "stored")
    /\ UNCHANGED <<clock, account, presented>>

CommitReset(p) ==
    /\ req[p].kind = "reset" /\ req[p].stage = "open" /\ MayCommit(p)
    /\ profile' = [resetAt |-> req[p].at, counted |-> {}]
    /\ learned' = {}
    /\ Outdate(p, "idle")
    /\ UNCHANGED <<clock, account, presented, reaction, saved>>

Again(p) == req[p].tries < Attempts

\* P2034: retrySerializableTransaction starts again, a bounded number of times.
Refused(p) ==
    /\ req[p].stage = "open" /\ ~MayCommit(p)
    /\ req' = [req EXCEPT ![p] = IF Again(p)
                                 THEN [@ EXCEPT !.stage = "asked", !.at = 0,
                                                !.seen = NoRows, !.fresh = FALSE]
                                 ELSE Idle]
    /\ UNCHANGED <<clock, account, presented, reaction, saved, profile, learned, crossed>>

\* The profile is read again for the answer, and the answer sent.
Answer(p) ==
    /\ req[p].stage = "stored"
    /\ Ends(p)
    /\ UNCHANGED <<clock, account, presented, reaction, saved, profile, learned, crossed>>

\* Another reaction was stored before (ConflictException), the account is
\* gone, the database or the server fails: the transaction is rolled back.
Fails(p) ==
    /\ req[p].stage # "idle"
    /\ Ends(p)
    /\ UNCHANGED <<clock, account, presented, reaction, saved, profile, learned, crossed>>

\* deleteAccount: the reactions of the user go with it, its ideas stay.  A
\* reaction being inserted holds the row of its user.
DeleteAccount(u) ==
    /\ u \in account
    /\ \A p \in Proc : req[p].stage = "open" /\ req[p].kind = "react" /\ req[p].user = u => Replayed(p)
    /\ account' = account \ {u}
    /\ reaction' = [rc \in Pair |-> IF rc[1] = u THEN NoRow ELSE reaction[rc]]
    /\ UNCHANGED <<clock, presented, saved, profile, req, learned, crossed>>

Handle(p) ==
    \/ Generate(p)
    \/ InsertBatch(p)
    \/ Submit(p)
    \/ Reset(p)
    \/ DrawDate(p)
    \/ Open(p)
    \/ CommitReaction(p)
    \/ CommitReset(p)
    \/ Refused(p)
    \/ Answer(p)
    \/ Fails(p)

Next ==
    \/ \E p \in Proc : Handle(p)
    \/ \E u \in User : DeleteAccount(u)

Spec == Init /\ [][Next]_vars

-----------------------------------------------------------------------------

\* However reactions, resets and deleted accounts interleave, every qualified
\* reaction stored since the last reset counts in the profile, once, and no
\* other does: unless a reset crossed another transaction between the date
\* that one had drawn and its first statement (recalculateDiscoveryProfile).
ProfileIsLearned ==
    ~crossed =>
        /\ profile.counted \subseteq learned
        /\ \A rc \in learned : reaction[rc] # NoRow => rc \in profile.counted

\* A request that is answered with a reaction answers the one that is stored,
\* also when it was submitted twice with two different signals
\* (ideas.service.spec.ts:272).
AnnouncedIsStored ==
    \A p \in Proc : req[p].stage = "stored" /\ req[p].user \in account =>
        reaction[Rc(p)].signal = req[p].signal

\* A candidate that somebody keeps has its idea, whoever reacted first and
\* however often the request was sent (submitDiscoveryFeedback).
LikedIsSaved ==
    \A rc \in Pair : reaction[rc].signal = "LIKE" => rc[2] \in saved

\* A stored reaction stays as it is until its account is deleted: a replay, a
\* second tab or a reset does not change it (ideas.service.spec.ts:386, "without
\* deleting feedback history").
ReactionsStand ==
    [][\A rc \in Pair : reaction[rc] # NoRow /\ rc[1] \in account' =>
         reaction'[rc] = reaction[rc]]_vars

\* docs/implementation/spec-idea-discovery.md:37: after a SKIP, "profil
\* inchangé".
SkipIsNeutral ==
    [][\A p \in Proc :
         req[p].stage = "open" /\ req'[p].stage = "stored" /\ req[p].signal = "SKIP"
            => profile'.counted = profile.counted]_vars
=============================================================================
