-------------------------- MODULE TeamInvitations --------------------------
(***************************************************************************)
(* InvitationsService (apps/api/src/invitations), with the parts of the    *)
(* organizations and accounts it depends on: who is a member of one        *)
(* organization, with which role, and which invitation links can change    *)
(* that.                                                                   *)
(*                                                                         *)
(* A process is one request of an administrator to the management          *)
(* endpoints.  OrganizationGuard reads the caller's role once, when the    *)
(* request arrives; every later statement of the handler is an action of   *)
(* its own, so the caller may have lost the role, and the invitation may   *)
(* have changed, between two of them.  The transactions that change a role *)
(* or remove a member run at the isolation level SERIALIZABLE.  Each has   *)
(* two actions: it takes its snapshot and counts the administrators, then  *)
(* it writes and commits.  PostgreSQL aborts the ones that are not         *)
(* equivalent to an order of these transactions, but the deletion of an    *)
(* account is not one of them: it runs at READ COMMITTED, and may end the  *)
(* account of somebody who has been counted.  An acceptance is SERIALIZABLE*)
(* as well and counts nobody: it is a single action.                       *)
(*                                                                         *)
(* An email address stands for its user, whether or not the account exists *)
(* yet.  A membership is identified by the token that created it, the      *)
(* founder's by 0.                                                         *)
(***************************************************************************)
EXTENDS Integers, FiniteSets

CONSTANTS
    User,       \* people, and their email addresses
    Founder,    \* the user who creates the organization
    Role,       \* roles of an organization
    ADMIN,      \* the role the management endpoints require
    Invitee,    \* bound of the model on the addresses invited
    Proc,       \* requests of administrators
    MaxToken    \* bound of the model on the tokens issued

ASSUME TeamAssumption ==
    /\ Founder \in User
    /\ Invitee \subseteq User
    /\ ADMIN \in Role
    /\ MaxToken \in Nat

VARIABLES
    account,    \* the users that have an account
    founded,    \* FALSE once the organization is deleted
    member,     \* active memberships, by user
    inv,        \* invitation rows, by email address
    req,        \* the requests under way
    issued,     \* the number of tokens generated
    snap,       \* the snapshots of the transactions under way
    letter,     \* the email that carried a token
    uses,       \* history: how many times a token has admitted somebody
    joined      \* history: who was admitted, by which token, with which role

vars == <<account, founded, member, inv, req, snap, issued, letter, uses, joined>>

Token == 1..MaxToken

Membership == [active : BOOLEAN, role : Role, via : Token \cup {0}]

NoMembership == [active |-> FALSE, role |-> ADMIN, via |-> 0]

Invitation == [status : {"NONE", "PENDING", "ACCEPTED", "REVOKED", "EXPIRED"},
               role : Role, token : Token \cup {0}, lapsed : BOOLEAN]

NoInvitation == [status |-> "NONE", role |-> ADMIN, token |-> 0, lapsed |-> FALSE]

Letter == [sent : BOOLEAN, to : User, role : Role]

NoLetter == [sent |-> FALSE, to |-> Founder, role |-> ADMIN]

Operation == {"create", "resend", "revoke", "setRole", "remove"}

\* who: the email or the member aimed at.  seen: the token of the row, or the
\* membership, that the request works from.  fresh: the token it generated.
Request == [op : Operation,
            stage : {"idle", "read", "check", "write", "email", "swap", "apply", "commit"},
            who : User, role : Role,    \* role is ADMIN when there is none
            seen : Token \cup {0}, fresh : Token \cup {0}]

Idle == [op |-> "create", stage |-> "idle", who |-> Founder, role |-> ADMIN,
         seen |-> 0, fresh |-> 0]

\* row: the membership aimed at.  counted: the other administrators, if they
\* had to be counted.  gone (history): those of them whose account has been
\* deleted since.
Snapshot == [row : Membership, counted : SUBSET User, gone : SUBSET User]

NoSnapshot == [row |-> NoMembership, counted |-> {}, gone |-> {}]

Joining == [user : User, token : Token, role : Role]

TypeOK ==
    /\ account \subseteq User
    /\ founded \in BOOLEAN
    /\ member \in [User -> Membership]
    /\ inv \in [User -> Invitation]
    /\ req \in [Proc -> Request]
    /\ snap \in [Proc -> Snapshot]
    /\ issued \in 0..MaxToken
    /\ letter \in [Token -> Letter]
    /\ uses \in [Token -> Nat]
    /\ joined \subseteq Joining

Admins == {u \in User : member[u].active /\ member[u].role = ADMIN}

\* createOrganization: the row and its owner's membership, in a transaction.
Init ==
    /\ account = {Founder}
    /\ founded = TRUE
    /\ member = [u \in User |->
                   [NoMembership EXCEPT !.active = (u = Founder)]]
    /\ inv = [e \in User |-> NoInvitation]
    /\ req = [p \in Proc |-> Idle]
    /\ snap = [p \in Proc |-> NoSnapshot]
    /\ issued = 0
    /\ letter = [t \in Token |-> NoLetter]
    /\ uses = [t \in Token |-> 0]
    /\ joined = {}

-----------------------------------------------------------------------------
(* Requests of administrators.                                             *)

At(p, op, stage) == req[p].op = op /\ req[p].stage = stage

Starts(p, op, stage, who, role, seen) ==
    req' = [req EXCEPT ![p] = [op |-> op, stage |-> stage, who |-> who,
                               role |-> role, seen |-> seen, fresh |-> 0]]

Goes(p, stage) == req' = [req EXCEPT ![p].stage = stage]

Returns(p) == req' = [req EXCEPT ![p] = Idle]

\* A request passes OrganizationGuard: its caller is an administrator now.
Arrive(p) ==
    /\ req[p].stage = "idle"
    /\ founded
    /\ Admins # {}
    /\ \E who \in User :
        \/ /\ who \in Invitee
           /\ \E role \in Role : Starts(p, "create", "check", who, role, 0)
        \/ /\ inv[who].status # "NONE"
           /\ \/ Starts(p, "resend", "read", who, ADMIN, 0)
              \/ Starts(p, "revoke", "apply", who, ADMIN, 0)
        \/ /\ member[who].active
           /\ \/ \E role \in Role :
                   Starts(p, "setRole", "apply", who, role, member[who].via)
              \/ Starts(p, "remove", "apply", who, ADMIN, member[who].via)
    /\ UNCHANGED <<account, founded, member, inv, snap, issued, letter, uses, joined>>

\* The request is rejected by a check, its transaction is aborted, a call
\* throws, or the server stops: what it has already written stays.
Fails(p) ==
    /\ req[p].stage # "idle"
    /\ Returns(p)
    /\ snap' = [snap EXCEPT ![p] = NoSnapshot]
    /\ UNCHANGED <<account, founded, member, inv, issued, letter, uses, joined>>

\* resend, first statement: a closed invitation is refused.
ReadInvitation(p) ==
    /\ At(p, "resend", "read")
    /\ inv[req[p].who].status \in {"PENDING", "EXPIRED"}
    /\ req' = [req EXCEPT ![p].stage = "check",
                          ![p].seen = inv[req[p].who].token,
                          ![p].role = inv[req[p].who].role]
    /\ UNCHANGED <<account, founded, member, inv, snap, issued, letter, uses, joined>>

\* assertNotAlreadyMember, in create and in resend.
CheckNotMember(p) ==
    /\ req[p].stage = "check"
    /\ ~member[req[p].who].active
    /\ Goes(p, IF req[p].op = "create" THEN "write" ELSE "email")
    /\ UNCHANGED <<account, founded, member, inv, snap, issued, letter, uses, joined>>

Issued(role, t) == [status |-> "PENDING", role |-> role, token |-> t, lapsed |-> FALSE]

\* create: the upsert by organization and email, whatever the row says.
UpsertInvitation(p) ==
    /\ At(p, "create", "write")
    /\ founded
    /\ issued < MaxToken
    /\ issued' = issued + 1
    /\ inv' = [inv EXCEPT ![req[p].who] = Issued(req[p].role, issued + 1)]
    /\ req' = [req EXCEPT ![p].stage = "email", ![p].fresh = issued + 1]
    /\ UNCHANGED <<account, founded, member, snap, letter, uses, joined>>

Written(p) == [sent |-> TRUE, to |-> req[p].who, role |-> req[p].role]

\* create: the invitation is emailed after it is stored.
MailCreated(p) ==
    /\ At(p, "create", "email")
    /\ letter' = [letter EXCEPT ![req[p].fresh] = Written(p)]
    /\ Returns(p)
    /\ UNCHANGED <<account, founded, member, inv, snap, issued, uses, joined>>

\* resend: the new link is emailed before it is stored.
MailResent(p) ==
    /\ At(p, "resend", "email")
    /\ issued < MaxToken
    /\ issued' = issued + 1
    /\ letter' = [letter EXCEPT ![issued + 1] = Written(p)]
    /\ req' = [req EXCEPT ![p].stage = "swap", ![p].fresh = issued + 1]
    /\ UNCHANGED <<account, founded, member, inv, snap, uses, joined>>

\* Mutants of StillAsRead: one of the two conditions of the where is missing.
StillAsRead_AnyToken(i, seen) == i.status \in {"PENDING", "EXPIRED"}
StillAsRead_AnyStatus(i, seen) == i.status # "NONE" /\ i.token = seen

StillAsRead(i, seen) == i.status \in {"PENDING", "EXPIRED"} /\ i.token = seen

SwapToken(p) ==
    /\ At(p, "resend", "swap")
    /\ StillAsRead(inv[req[p].who], req[p].seen)
    /\ inv' = [inv EXCEPT ![req[p].who] = Issued(@.role, req[p].fresh)]
    /\ Returns(p)
    /\ UNCHANGED <<account, founded, member, snap, issued, letter, uses, joined>>

Open(i) == i.status = "PENDING" /\ ~i.lapsed

Revoke(p) ==
    /\ At(p, "revoke", "apply")
    /\ Open(inv[req[p].who])
    /\ inv' = [inv EXCEPT ![req[p].who].status = "REVOKED"]
    /\ Returns(p)
    /\ UNCHANGED <<account, founded, member, snap, issued, letter, uses, joined>>

\* findMembershipWithClient: the membership the request names still exists.
Found(p) == member[req[p].who].active /\ member[req[p].who].via = req[p].seen

\* The request takes the role of administrator from who has it in the row m.
TakesAdmin(p, m) == m.role = ADMIN /\ (req[p].op = "setRole" => req[p].role # ADMIN)

OtherAdmins(u) == Admins \ {u}

\* updateMemberRole and removeMember: the lock of the organization, and the
\* reads.
CountAdmins(p) ==
    LET u == req[p].who
        counted == IF TakesAdmin(p, member[u]) THEN OtherAdmins(u) ELSE {} IN
    /\ At(p, "setRole", "apply") \/ At(p, "remove", "apply")
    /\ founded
    /\ Found(p)
    /\ TakesAdmin(p, member[u]) => counted # {}
    /\ Goes(p, "commit")
    /\ snap' = [snap EXCEPT ![p] = [row |-> member[u], counted |-> counted, gone |-> {}]]
    /\ UNCHANGED <<account, founded, member, inv, issued, letter, uses, joined>>

\* Mutant of Aborts: the transactions run at READ COMMITTED.
Aborts_ReadCommitted(p, q) == FALSE

\* When p commits, PostgreSQL aborts the transaction of q: it is about to
\* write the same row, or each has counted somebody the other one writes.
Aborts(p, q) ==
    /\ req[q].stage = "commit"
    /\ \/ req[q].who = req[p].who
       \/ snap[p].counted # {} /\ snap[q].counted # {}

Commits(p) ==
    LET over == {q \in Proc : q = p \/ Aborts(p, q)} IN
    /\ req' = [q \in Proc |-> IF q \in over THEN Idle ELSE req[q]]
    /\ snap' = [q \in Proc |-> IF q \in over THEN NoSnapshot ELSE snap[q]]

UpdateMemberRole(p) ==
    LET u == req[p].who IN
    /\ At(p, "setRole", "commit")
    /\ founded
    /\ member[u] = snap[p].row
    /\ member' = [member EXCEPT ![u].role = req[p].role]
    /\ Commits(p)
    /\ UNCHANGED <<account, founded, inv, issued, letter, uses, joined>>

RemoveMember(p) ==
    LET u == req[p].who IN
    /\ At(p, "remove", "commit")
    /\ founded
    /\ member[u] = snap[p].row
    /\ member' = [member EXCEPT ![u] = NoMembership]
    /\ Commits(p)
    /\ UNCHANGED <<account, founded, inv, issued, letter, uses, joined>>

-----------------------------------------------------------------------------
(* Invited people, accounts, time.                                         *)

\* Mutant of Consumed: the status is left as it is.
Consumed_StillPending(i) == i

Consumed(i) == [i EXCEPT !.status = "ACCEPTED"]

\* accept: u opens the link t.  The email of the account must be the one
\* that was invited.
Accept(u, t) ==
    /\ u \in account
    /\ letter[t].sent
    /\ inv[u].token = t
    /\ Open(inv[u])
    /\ ~member[u].active
    /\ inv' = [inv EXCEPT ![u] = Consumed(@)]
    /\ member' = [member EXCEPT ![u] = [active |-> TRUE, role |-> inv[u].role,
                                        via |-> t]]
    /\ uses' = [uses EXCEPT ![t] = @ + 1]
    /\ joined' = joined \cup {[user |-> u, token |-> t, role |-> inv[u].role]}
    /\ UNCHANGED <<account, founded, req, snap, issued, letter>>

\* The expiry date of an invitation passes.
Lapse(e) ==
    /\ inv[e].status = "PENDING"
    /\ ~inv[e].lapsed
    /\ inv' = [inv EXCEPT ![e].lapsed = TRUE]
    /\ UNCHANGED <<account, founded, member, req, snap, issued, letter, uses, joined>>

Noted(i) == IF i.status = "PENDING" /\ i.lapsed
            THEN [i EXCEPT !.status = "EXPIRED", !.lapsed = FALSE] ELSE i

\* preview: opening a link notes that its invitation has expired.
Preview(e) ==
    /\ inv[e].token \in Token
    /\ letter[inv[e].token].sent
    /\ inv' = [inv EXCEPT ![e] = Noted(@)]
    /\ UNCHANGED <<account, founded, member, req, snap, issued, letter, uses, joined>>

\* list: showing the team notes every expiry.
ListTeam ==
    /\ founded
    /\ Admins # {}
    /\ inv' = [e \in User |-> Noted(inv[e])]
    /\ UNCHANGED <<account, founded, member, req, snap, issued, letter, uses, joined>>

Register(u) ==
    /\ u \notin account
    /\ account' = account \cup {u}
    /\ UNCHANGED <<founded, member, inv, req, snap, issued, letter, uses, joined>>

\* The memberships once the account of u is gone.
Ended(u) == IF u = Founder THEN [v \in User |-> NoMembership]
            ELSE [member EXCEPT ![u] = NoMembership]

\* deleteAccount: the organizations the user owns go with everything in
\* them, the other memberships of the user go.  No transaction that has
\* counted the user is aborted by it.
DeleteAccount(u) ==
    /\ u \in account
    /\ account' = account \ {u}
    /\ founded' = (founded /\ u # Founder)
    /\ inv' = IF u = Founder THEN [e \in User |-> NoInvitation] ELSE inv
    /\ member' = Ended(u)
    /\ snap' = [p \in Proc |-> [snap[p] EXCEPT !.gone = @ \cup ({u} \cap snap[p].counted)]]
    /\ UNCHANGED <<req, issued, letter, uses, joined>>

Handle(p) ==
    \/ Arrive(p)
    \/ Fails(p)
    \/ ReadInvitation(p)
    \/ CheckNotMember(p)
    \/ UpsertInvitation(p)
    \/ MailCreated(p)
    \/ MailResent(p)
    \/ SwapToken(p)
    \/ Revoke(p)
    \/ CountAdmins(p)
    \/ UpdateMemberRole(p)
    \/ RemoveMember(p)

Next ==
    \/ \E p \in Proc : Handle(p)
    \/ \E u \in User, t \in Token : Accept(u, t)
    \/ \E u \in User : Lapse(u) \/ Preview(u) \/ Register(u) \/ DeleteAccount(u)
    \/ ListTeam

Spec == Init /\ [][Next]_vars

-----------------------------------------------------------------------------

\* Everyone who joins got an email that carried the token used, addressed to
\* them, and has the role that email announced: the role is read, emailed and
\* stored in separate statements of create and resend.
JoinsAsInvited ==
    \A j \in joined : letter[j.token] = [sent |-> TRUE, to |-> j.user, role |-> j.role]

\* A link admits one person once, even if the member is removed, the account
\* deleted and created again, or the invitation sent again (accept, the
\* conditional update of the row).
TokenAdmitsOnce == \A t \in Token : uses[t] <= 1

\* A revoked or used invitation opens again only when an administrator
\* invites the address anew, whatever requests were under way (resend, the
\* condition of its update).
ClosedStaysClosed ==
    [][\A e \in User :
         inv[e].status \in {"REVOKED", "ACCEPTED"} /\ inv'[e].status \in {"PENDING", "EXPIRED"}
            => \E p \in Proc : At(p, "create", "write") /\ req[p].who = e]_vars

\* Everybody p has counted had their account deleted before it commits.
CountedTheDeleted(p) ==
    /\ req[p].stage = "commit" /\ req'[p] = Idle
    /\ snap[p].counted # {} /\ snap[p].counted \subseteq snap[p].gone

\* Changing roles and removing members do not leave the team without an
\* administrator, even when administrators act on each other at once
\* (assertAnotherAdminWithClient): only the end of an account does, or a
\* change that has counted nobody but people whose account was deleted
\* before it committed.
TeamKeepsAdmin ==
    [][Admins # {} /\ Admins' = {} =>
         \/ \E u \in account : u \notin account'
         \/ \E p \in Proc : CountedTheDeleted(p)]_vars

\* README.md:46, "le dernier administrateur est protege": as long as the
\* organization exists, somebody administers it.
LastAdminProtected == founded => Admins # {}
=============================================================================
