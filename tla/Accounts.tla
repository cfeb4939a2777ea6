------------------------------ MODULE Accounts ------------------------------
(***************************************************************************)
(* Accounts, sessions and the creation of organizations (apps/api/src/auth *)
(* and organizations).  A process is one request, with the guard that      *)
(* checks its session; the statements of a request are steps of their own  *)
(* where another request can come in between.                              *)
(*                                                                         *)
(* A Google account is known by its address, which it keeps.  Invitations, *)
(* which also create accounts, are TeamInvitations.                        *)
(***************************************************************************)
EXTENDS Naturals, FiniteSets

CONSTANTS
    Address,    \* normalised addresses
    Id,         \* ids of users, drawn once
    Word,       \* passwords
    Base,       \* slugs asked for
    Tries,      \* slugs tried by resolveAvailableSlug
    Proc,       \* requests
    MaxSalt,    \* bound of the model on the hashes made
    MaxGone     \* bound of the model on the accounts deleted

VARIABLES
    user,       \* the rows of the users
    used,       \* the ids drawn
    hash,       \* the credentials of each user
    google,     \* the users with a Google account
    org,        \* the organizations: slug, owner and first administrator
    salt,       \* hashes made so far: two of the same password differ
    issued,     \* the users for whom session tokens were signed
    req         \* the requests

vars == <<user, used, hash, google, org, salt, issued, req>>

NoUser == "none"

\* n: 0 when the user has no password.
Hash == [word : Word, n : 0..MaxSalt]

NoHash == [word |-> CHOOSE w \in Word : TRUE, n |-> 0]

Slug == Base \X (1..Tries)

Organization == [id : Nat, slug : Slug, owner : Id, admin : Id]

Request == [stage : {"idle", "insert", "compare", "signed", "swap", "slug", "create", "google"},
            address : Address, id : Id \cup {NoUser}, word : Word, read : Hash, new : Hash,
            slug : Slug]

Idle == [stage |-> "idle", address |-> CHOOSE a \in Address : TRUE, id |-> NoUser,
         word |-> NoHash.word, read |-> NoHash, new |-> NoHash,
         slug |-> CHOOSE s \in Slug : TRUE]

TypeOK ==
    /\ user \in [Id -> Address \cup {NoUser}]
    /\ used \in SUBSET Id
    /\ hash \in [Id -> Hash]
    /\ google \in SUBSET Id
    /\ org \in SUBSET Organization
    /\ salt \in 0..MaxSalt
    /\ issued \in SUBSET Id
    /\ req \in [Proc -> Request]

Init ==
    /\ user = [i \in Id |-> NoUser]
    /\ used = {} /\ google = {} /\ org = {} /\ issued = {}
    /\ hash = [i \in Id |-> NoHash]
    /\ salt = 0
    /\ req = [p \in Proc |-> Idle]

-----------------------------------------------------------------------------

There(i) == i \in Id /\ user[i] # NoUser

At(p, stage) == req[p].stage = stage

Ends(p) == req' = [req EXCEPT ![p] = Idle]

Goes(p, r) == req' = [req EXCEPT ![p] = r]

\* findUnique by address.
UserAt(a) == IF \E i \in Id : user[i] = a THEN CHOOSE i \in Id : user[i] = a ELSE NoUser

IsFree(a) == UserAt(a) = NoUser

NewId(i) == i \notin used /\ used' = used \cup {i}

Makes == salt < MaxSalt /\ salt' = salt + 1

-----------------------------------------------------------------------------
(* Registration, login, Google.                                            *)

\* The address is looked up, and the password hashed, before the transaction.
Register(p, a, w) ==
    /\ At(p, "idle")
    /\ IsFree(a)
    /\ Makes
    /\ Goes(p, [Idle EXCEPT !.stage = "insert", !.address = a,
                              !.new = [word |-> w, n |-> salt + 1]])
    /\ UNCHANGED <<user, used, hash, google, org, issued>>

\* The user and its credentials; an address that is taken by now fails both.
CreateUser(p) ==
    /\ At(p, "insert")
    /\ IF IsFree(req[p].address)
       THEN \E i \in Id :
            /\ NewId(i)
            /\ user' = [user EXCEPT ![i] = req[p].address]
            /\ hash' = [hash EXCEPT ![i] = req[p].new]
            /\ issued' = issued \cup {i}
       ELSE UNCHANGED <<user, used, hash, issued>>
    /\ Ends(p)
    /\ UNCHANGED <<google, org, salt>>

\* The credentials of the address; without any the login is refused.
Login(p, a, w) ==
    /\ At(p, "idle")
    /\ LET i == UserAt(a)
       IN  /\ i # NoUser /\ hash[i].n # 0
           /\ Goes(p, [Idle EXCEPT !.stage = "compare", !.id = i, !.word = w, !.read = hash[i]])
    /\ UNCHANGED <<user, used, hash, google, org, salt, issued>>

ComparePassword(p) ==
    /\ At(p, "compare")
    /\ issued' = IF req[p].word = req[p].read.word THEN issued \cup {req[p].id} ELSE issued
    /\ Ends(p)
    /\ UNCHANGED <<user, used, hash, google, org, salt>>

\* loginWithGoogle, once Google has named the address: the first statement of
\* its transaction.
FindGoogleUser(p, a) ==
    /\ At(p, "idle")
    /\ Goes(p, [Idle EXCEPT !.stage = "google", !.address = a, !.id = UserAt(a)])
    /\ UNCHANGED <<user, used, hash, google, org, salt, issued>>

\* The others: a new user if none was found, and the Google account.
CommitGoogle(p) ==
    /\ At(p, "google")
    /\ LET i == req[p].id
           a == req[p].address
       IN  IF i # NoUser
           THEN /\ IF There(i) THEN google' = google \cup {i} /\ issued' = issued \cup {i}
                               ELSE UNCHANGED <<google, issued>>
                /\ UNCHANGED <<user, used>>
           ELSE IF IsFree(a)
           THEN \E j \in Id :
                /\ NewId(j)
                /\ user' = [user EXCEPT ![j] = a]
                /\ google' = google \cup {j} /\ issued' = issued \cup {j}
           ELSE UNCHANGED <<user, used, google, issued>>
    /\ Ends(p)
    /\ UNCHANGED <<hash, org, salt>>

-----------------------------------------------------------------------------
(* Requests with a session.                                                *)

\* AuthGuard: the token is verified, and its user is read.
Guard(p, i) ==
    /\ At(p, "idle")
    /\ i \in issued /\ There(i)
    /\ Goes(p, [Idle EXCEPT !.stage = "signed", !.id = i])
    /\ UNCHANGED <<user, used, hash, google, org, salt, issued>>

\* changePassword: the hash is read and the current password compared with it.
CheckPassword(p, w, new) ==
    /\ At(p, "signed")
    /\ LET h == hash[req[p].id]
       IN  /\ h.n # 0 /\ h.word = w /\ new # w
           /\ Makes
           /\ req' = [req EXCEPT ![p].stage = "swap", ![p].read = h,
                              ![p].new = [word |-> new, n |-> salt + 1]]
    /\ UNCHANGED <<user, used, hash, google, org, issued>>

\* Mutant of IsUnchanged: the account alone is in the where clause.
IsUnchanged_Unchecked(p) == hash[req[p].id].n # 0

\* The where clause of the update.
IsUnchanged(p) == hash[req[p].id] = req[p].read

SwapPassword(p) ==
    /\ At(p, "swap")
    /\ hash' = IF IsUnchanged(p) THEN [hash EXCEPT ![req[p].id] = req[p].new] ELSE hash
    /\ Ends(p)
    /\ UNCHANGED <<user, used, google, org, salt, issued>>

Gone == {i \in used : ~There(i)}

\* deleteAccount: the organizations it owns, its accounts and the user, in one
\* transaction, without which another request sees none of it.
DeleteAccount(p) ==
    /\ At(p, "signed")
    /\ Cardinality(Gone) < MaxGone
    /\ LET i == req[p].id
       IN  IF There(i)
           THEN /\ org' = {o \in org : o.owner # i}
                /\ user' = [user EXCEPT ![i] = NoUser]
                /\ hash' = [hash EXCEPT ![i] = NoHash]
                /\ google' = google \ {i}
           ELSE UNCHANGED <<org, user, hash, google>>
    /\ Ends(p)
    /\ UNCHANGED <<used, salt, issued>>

\* createOrganization, for a slug that is tried first as it is.
ChooseSlug(p, b) ==
    /\ At(p, "signed")
    /\ req' = [req EXCEPT ![p].stage = "slug", ![p].slug = <<b, 1>>]
    /\ UNCHANGED <<user, used, hash, google, org, salt, issued>>

MayTry(s) == s[2] < Tries

\* resolveAvailableSlug, one look after another; after the last the request is
\* refused.
TrySlug(p) ==
    /\ At(p, "slug")
    /\ LET s == req[p].slug
       IN  IF \A o \in org : o.slug # s
           THEN req' = [req EXCEPT ![p].stage = "create"]
           ELSE IF MayTry(s) THEN req' = [req EXCEPT ![p].slug = <<s[1], s[2] + 1>>]
           ELSE Ends(p)
    /\ UNCHANGED <<user, used, hash, google, org, salt, issued>>

SlugIsFree(p) == \A o \in org : o.slug # req[p].slug

\* Mutant of OwnerIsThere: the owner is not a foreign key.
OwnerIsThere_Unchecked(p) == TRUE

OwnerIsThere(p) == There(req[p].id)

NewOrganization == CHOOSE n \in 1..(Cardinality(org) + 1) : \A o \in org : o.id # n

\* The organization and the membership of its founder.
CreateOrganization(p) ==
    /\ At(p, "create")
    /\ org' = IF SlugIsFree(p) /\ OwnerIsThere(p)
              THEN org \cup {[id |-> NewOrganization, slug |-> req[p].slug,
                              owner |-> req[p].id, admin |-> req[p].id]}
              ELSE org
    /\ Ends(p)
    /\ UNCHANGED <<user, used, hash, google, salt, issued>>

\* A statement fails, or the server stops: nothing of the transaction stays.
Fails(p) ==
    /\ ~At(p, "idle")
    /\ Ends(p)
    /\ UNCHANGED <<user, used, hash, google, org, salt, issued>>

Handle(p) ==
    \/ \E a \in Address : FindGoogleUser(p, a)
    \/ \E a \in Address, w \in Word : Register(p, a, w) \/ Login(p, a, w)
    \/ CreateUser(p) \/ ComparePassword(p) \/ CommitGoogle(p)
    \/ \E i \in Id : Guard(p, i)
    \/ \E w, new \in Word : CheckPassword(p, w, new)
    \/ SwapPassword(p) \/ DeleteAccount(p)
    \/ \E b \in Base : ChooseSlug(p, b)
    \/ TrySlug(p) \/ CreateOrganization(p) \/ Fails(p)

Next == \E p \in Proc : Handle(p)

Spec == Init /\ [][Next]_vars

-----------------------------------------------------------------------------
(* Properties.                                                             *)

\* Registrations and first logins with Google that cross leave one user for an
\* address, and every user has a way to sign in.
AddressIsOne ==
    /\ \A i, j \in Id : There(i) /\ user[i] = user[j] => i = j
    /\ \A i \in Id : There(i) => hash[i].n # 0 \/ i \in google

\* Of two changes of a password that cross, the one that is confirmed has
\* checked the password it replaces (changePassword, "modifié depuis un autre
\* onglet").
ChangeIsChecked ==
    \A i \in Id : hash[i].n # 0 /\ hash'[i] # hash[i] /\ hash'[i].n # 0 =>
        \E p \in Proc : At(p, "swap") /\ req[p].id = i /\ req[p].read = hash[i]

ChangesFromChecked == [][ChangeIsChecked]_vars

\* A request that has passed the guard before its account was deleted leaves
\* nothing behind: no password, Google account or organization of nobody.
NothingOfDeleted ==
    /\ \A i \in Id : ~There(i) => hash[i].n = 0 /\ i \notin google
    /\ \A o \in org : There(o.owner)

\* Requests for the same slug that cross get different ones, or are refused.
SlugsDiffer == \A o, q \in org : o.slug = q.slug => o = q
=============================================================================
