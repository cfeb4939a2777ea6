--------------------------- MODULE NotionBinding ---------------------------
(***************************************************************************)
(* How an organization is bound to a Notion database                       *)
(* (apps/api/src/integrations): the credential, the lease under which a    *)
(* managed database is created, the mapping to a database, and the states  *)
(* that remember the page of every synchronised entity.                    *)
(*                                                                         *)
(* A process is one request.  Between two of its steps it waits for Notion *)
(* or for the database.  Notion is remote: the request that creates a      *)
(* database may be answered, refused, lost, or served after the caller has *)
(* given up; Notion shows a database to searches as soon as it has it.     *)
(***************************************************************************)
EXTENDS Naturals

CONSTANTS
    Managed,    \* databases that Notion may create for this organization
    Own,        \* databases that the organization has made by hand
    Entity,     \* contents and resources that are synchronised
    Proc,       \* requests
    None

VARIABLES
    credential, \* the row of the credential
    lease,      \* the row of the provisioning lease
    mapping,    \* the row of the mapping
    state,      \* where the page of each entity is, by its sync state
    remote,     \* the databases in Notion that carry the marker
    gone,       \* those that the organization has deleted in Notion
    post,       \* the request to create a database, on its way to Notion
    req,        \* the requests under way
    doomed,     \* what the transaction of a disconnection has deleted
    severed,    \* history: a disconnection has deleted a lease in force
    past        \* history: requests whose lease was replaced or deleted

vars == <<credential, lease, mapping, state, remote, gone, post, req, doomed, severed, past>>

Source == Managed \cup Own

ASSUME BindingAssumption ==
    /\ Managed \cap Own = {}
    /\ Managed \cap {"none", "sent", "refused"} = {}
    /\ Entity # {}
    /\ None \notin Source \cup Proc

\* live: lease_expires_at is in the future.  The token of a lease is named
\* after the request that drew it.
Lease == [token : Proc \cup {None}, live : BOOLEAN]

NoLease == [token |-> None, live |-> FALSE]

Mapping == [source : Source \cup {None}, managed : BOOLEAN]

NoMapping == [source |-> None, managed |-> FALSE]

\* source: what the request has found or read.  page: where the state says
\* that the page of the entity is.  hold: keep the lease until it expires.
Request == [stage : {"idle", "credential", "discover", "create", "post", "answer", "rediscover",
                     "bind", "persist", "release", "save", "sync", "push",
                     "drop_mapping", "drop_lease", "drop_credential"},
            source : Source \cup {None}, page : Source \cup {None}, entity : Entity,
            hold : BOOLEAN]

Idle == [stage |-> "idle", source |-> None, page |-> None,
         entity |-> CHOOSE e \in Entity : TRUE, hold |-> FALSE]

Doom == [states : SUBSET Entity, mapping : BOOLEAN, lease : BOOLEAN]

NoDoom == [states |-> {}, mapping |-> FALSE, lease |-> FALSE]

TypeOK ==
    /\ credential \in {"none", "active", "error"}
    /\ lease \in Lease
    /\ mapping \in Mapping
    /\ state \in [Entity -> Source \cup {None}]
    /\ remote \in SUBSET Managed
    /\ gone \in SUBSET Managed
    /\ post \in [Proc -> {"none", "sent", "refused"} \cup Managed]
    /\ req \in [Proc -> Request]
    /\ doomed \in [Proc -> Doom]
    /\ severed \in BOOLEAN
    /\ past \in SUBSET Proc

Init ==
    /\ credential = "none"
    /\ lease = NoLease
    /\ mapping = NoMapping
    /\ state = [e \in Entity |-> None]
    /\ remote = {}
    /\ gone = {}
    /\ post = [p \in Proc |-> "none"]
    /\ req = [p \in Proc |-> Idle]
    /\ doomed = [p \in Proc |-> NoDoom]
    /\ severed = FALSE
    /\ past = {}

-----------------------------------------------------------------------------

Goes(p, stage) == req' = [req EXCEPT ![p].stage = stage]

Finds(p, s, stage) == req' = [req EXCEPT ![p].stage = stage, ![p].source = s]

\* A row that a disconnection has deleted stays locked until it ends.
MappingIsFree(p) == \A q \in Proc \ {p} : ~doomed[q].mapping

LeaseIsFree(p) == \A q \in Proc \ {p} : ~doomed[q].lease

StatesAreFree(p) == \A q \in Proc \ {p} : doomed[q].states = {}

Holds(p) == lease.token = p /\ LeaseIsFree(p)

local == <<credential, lease, mapping, state>>      \* the rows of the organization

notion == <<remote, gone>>

history == <<severed, past>>

Provisioning == {"credential", "discover", "create", "post", "answer", "rediscover",
                 "bind", "persist"}

Disconnecting == {"drop_mapping", "drop_lease", "drop_credential"}

Ends(p) ==
    /\ req' = [req EXCEPT ![p] = Idle]
    /\ doomed' = [doomed EXCEPT ![p] = NoDoom]

\* completeNotionOAuth
Connect ==
    /\ credential' = "active"
    /\ UNCHANGED <<lease, mapping, state, notion, post, req, doomed, history>>

\* recordCredentialError, by any request to which Notion answers that the
\* token is no longer valid.
RecordCredentialError ==
    /\ credential # "none"
    /\ credential' = "error"
    /\ UNCHANGED <<lease, mapping, state, notion, post, req, doomed, history>>

-----------------------------------------------------------------------------
(* provisionNotionDatabase                                                 *)

Vacant == lease.token = None \/ ~lease.live

\* acquireProvisioningLease.  A request is new: nothing that an earlier
\* request in its place has sent is still on its way.
AcquireLease(p) ==
    /\ req[p].stage = "idle"
    /\ post[p] # "sent"
    /\ LeaseIsFree(p)
    /\ Vacant
    /\ lease' = [token |-> p, live |-> TRUE]
    /\ req' = [req EXCEPT ![p] = [Idle EXCEPT !.stage = "credential"]]
    /\ post' = [post EXCEPT ![p] = "none"]
    /\ past' = (past \cup ({lease.token} \ {None})) \ {p}
    /\ UNCHANGED <<credential, mapping, state, notion, doomed, severed>>

\* The credential, and the mapping as the preferred database.
ReadBinding(p) ==
    /\ req[p].stage = "credential"
    /\ credential = "active"
    /\ Finds(p, IF mapping.managed THEN mapping.source ELSE None, "discover")
    /\ UNCHANGED <<local, notion, post, doomed, history>>

\* findManagedDatabase: the preferred database, or the only one that
\* carries the marker; two are an error.
Found(d, preferred) ==
    IF preferred \in remote THEN d = preferred
    ELSE remote = {d} \/ (remote = {} /\ d = None)

Discover(p) ==
    /\ req[p].stage = "discover"
    /\ \E d \in Managed \cup {None} :
        /\ Found(d, req[p].source)
        /\ Finds(p, d, IF d = None THEN "create" ELSE "bind")
    /\ UNCHANGED <<local, notion, post, doomed, history>>

\* Mutant of Renewed: whoever has a lease, it is prolonged.
Renewed_Any(p) == LeaseIsFree(p)

\* renewProvisioningLease: by token, expired or not.
Renewed(p) == Holds(p)

RenewToCreate(p) ==
    /\ req[p].stage = "create"
    /\ Renewed(p)
    /\ lease' = [lease EXCEPT !.live = TRUE]
    /\ Goes(p, "post")
    /\ UNCHANGED <<credential, mapping, state, notion, post, doomed, history>>

\* createDatabase sends its request, once.
CreateDatabase(p) ==
    /\ req[p].stage = "post"
    /\ post' = [post EXCEPT ![p] = "sent"]
    /\ Goes(p, "answer")
    /\ UNCHANGED <<local, notion, doomed, history>>

\* Notion serves the request, or refuses it, or never gets it.
Served(p) ==
    /\ post[p] = "sent"
    /\ \/ \E d \in Managed \ (remote \cup gone) :
            /\ remote' = remote \cup {d}
            /\ post' = [post EXCEPT ![p] = d]
       \/ /\ post' = [post EXCEPT ![p] = "refused"]
          /\ UNCHANGED remote
    /\ UNCHANGED <<local, gone, req, doomed, history>>

Answered(p) ==
    /\ req[p].stage = "answer"
    /\ post[p] \in Managed
    /\ Finds(p, post[p], "bind")
    /\ UNCHANGED <<local, notion, post, doomed, history>>

\* Mutant of Ambiguous: a lost answer is treated as any other failure.
Ambiguous_Released(p) ==
    /\ req[p].stage = "answer"
    /\ Goes(p, "rediscover")
    /\ UNCHANGED <<local, notion, post, doomed, history>>

\* No answer, a server error, or an answer that cannot be used.
Ambiguous(p) ==
    /\ req[p].stage = "answer"
    /\ req' = [req EXCEPT ![p].stage = "rediscover", ![p].hold = TRUE]
    /\ UNCHANGED <<local, notion, post, doomed, history>>

Rediscover(p) ==
    /\ req[p].stage = "rediscover"
    /\ \E d \in Managed : Found(d, None) /\ Finds(p, d, "bind")
    /\ UNCHANGED <<local, notion, post, doomed, history>>

RenewToBind(p) ==
    /\ req[p].stage = "bind"
    /\ Renewed(p)
    /\ lease' = [lease EXCEPT !.live = TRUE]
    /\ Goes(p, "persist")
    /\ UNCHANGED <<credential, mapping, state, notion, post, doomed, history>>

\* Mutant of StillOurs: the lease is not looked at again.
StillOurs_Unchecked(p) == LeaseIsFree(p)

StillOurs(p) == Holds(p) /\ lease.live

\* Mutant of Binds: pages of the database before are remembered.
Binds_KeepsStates(p, s, managed) ==
    /\ mapping' = [source |-> s, managed |-> managed]
    /\ UNCHANGED state

\* A serializable transaction: the mapping, without the states of another
\* source.
Binds(p, s, managed) ==
    /\ MappingIsFree(p)
    /\ mapping' = [source |-> s, managed |-> managed]
    /\ IF mapping.source \notin {None, s}
       THEN StatesAreFree(p) /\ state' = [e \in Entity |-> None]
       ELSE UNCHANGED state

\* persistNotionBinding
Persist(p) ==
    /\ req[p].stage = "persist"
    /\ StillOurs(p)
    /\ Binds(p, req[p].source, TRUE)
    /\ req' = [req EXCEPT ![p].stage = "release", ![p].hold = FALSE]
    /\ UNCHANGED <<credential, lease, notion, post, doomed, history>>

\* Any of the steps fails: an error of Notion, a lease lost, a bad answer.
ProvisioningFails(p) ==
    /\ req[p].stage \in Provisioning
    /\ req[p].stage = "answer" => post[p] = "refused"
    /\ Goes(p, "release")
    /\ UNCHANGED <<local, notion, post, doomed, history>>

\* releaseProvisioningLease
ReleaseLease(p) ==
    /\ req[p].stage = "release"
    /\ IF lease.token = p
       THEN LeaseIsFree(p) /\ lease' = [lease EXCEPT !.live = req[p].hold]
       ELSE UNCHANGED lease
    /\ Ends(p)
    /\ UNCHANGED <<credential, mapping, state, notion, post, history>>

\* Five minutes have passed.  They are assumed to be longer than what is
\* left of a creation once its lease is renewed: twelve seconds for each of
\* the calls, and Notion serves or drops a request within that time.
Expire ==
    /\ lease.live
    /\ \A p \in Proc : lease.token = p => post[p] # "sent" /\ req[p].stage \notin {"post", "answer"}
    /\ lease' = [lease EXCEPT !.live = FALSE]
    /\ UNCHANGED <<credential, mapping, state, notion, post, req, doomed, history>>

-----------------------------------------------------------------------------
(* saveNotionMapping                                                       *)

StartSave(p) ==
    /\ req[p].stage = "idle"
    /\ credential = "active"
    /\ \E s \in Own \cup remote : req' = [req EXCEPT ![p] = [Idle EXCEPT !.stage = "save", !.source = s]]
    /\ UNCHANGED <<local, notion, post, doomed, history>>

SaveMapping(p) ==
    /\ req[p].stage = "save"
    /\ Binds(p, req[p].source, FALSE)
    /\ Ends(p)
    /\ UNCHANGED <<credential, lease, notion, post, history>>

-----------------------------------------------------------------------------
(* Synchronisation and export of an entity.                                *)

\* getConnection
StartSync(p) ==
    /\ req[p].stage = "idle"
    /\ credential = "active"
    /\ mapping # NoMapping
    /\ \E e \in Entity :
        req' = [req EXCEPT ![p] = [Idle EXCEPT !.stage = "sync", !.source = mapping.source,
                                               !.entity = e]]
    /\ UNCHANGED <<local, notion, post, doomed, history>>

\* withEntityLock: the lock, then the state of the entity.
LockEntity(p) ==
    /\ req[p].stage = "sync"
    /\ \A q \in Proc : req[q].stage = "push" => req[q].entity # req[p].entity
    /\ req' = [req EXCEPT ![p].stage = "push", ![p].page = state[req[p].entity]]
    /\ UNCHANGED <<local, notion, post, doomed, history>>

\* pushContentLocked, pushResourceLocked, applyRemoteContent,
\* applyRemoteResource: a page is created in the source of the connection,
\* or the page of the state is kept; then saveSyncState, and the commit.
SaveSyncState(p) ==
    LET r == req[p] IN
    /\ r.stage = "push"
    /\ \A q \in Proc \ {p} : r.entity \notin doomed[q].states
    /\ state' = [state EXCEPT ![r.entity] = IF r.page = None THEN r.source ELSE r.page]
    /\ Ends(p)
    /\ UNCHANGED <<credential, lease, mapping, notion, post, history>>

-----------------------------------------------------------------------------
(* disconnectNotion: one transaction, at READ COMMITTED.                   *)

DropStates(p) ==
    /\ req[p].stage = "idle"
    /\ StatesAreFree(p)
    /\ doomed' = [doomed EXCEPT ![p].states = {e \in Entity : state[e] # None}]
    /\ req' = [req EXCEPT ![p] = [Idle EXCEPT !.stage = "drop_mapping"]]
    /\ UNCHANGED <<local, notion, post, history>>

DropMapping(p) ==
    /\ req[p].stage = "drop_mapping"
    /\ MappingIsFree(p)
    /\ doomed' = [doomed EXCEPT ![p].mapping = (mapping # NoMapping)]
    /\ Goes(p, "drop_lease")
    /\ UNCHANGED <<local, notion, post, history>>

DropLease(p) ==
    /\ req[p].stage = "drop_lease"
    /\ LeaseIsFree(p)
    /\ doomed' = [doomed EXCEPT ![p].lease = (lease.token # None)]
    /\ Goes(p, "drop_credential")
    /\ UNCHANGED <<local, notion, post, history>>

\* Mutant of Dropped: the states of the pages are left behind.
Dropped_Kept(p) == {}

Dropped(p) == doomed[p].states

Disconnected == "none"

\* The credential, the audit log, and the commit.
Disconnect(p) ==
    /\ req[p].stage = "drop_credential"
    /\ credential' = Disconnected
    /\ state' = [e \in Entity |-> IF e \in Dropped(p) THEN None ELSE state[e]]
    /\ mapping' = IF doomed[p].mapping THEN NoMapping ELSE mapping
    /\ lease' = IF doomed[p].lease THEN NoLease ELSE lease
    /\ severed' = (severed \/ (doomed[p].lease /\ lease.live))
    /\ past' = IF doomed[p].lease THEN past \cup ({lease.token} \ {None}) ELSE past
    /\ Ends(p)
    /\ UNCHANGED <<notion, post>>

\* A database is deleted in Notion, by hand and for good.
DeleteInNotion ==
    /\ \E d \in remote : remote' = remote \ {d} /\ gone' = gone \cup {d}
    /\ UNCHANGED <<local, post, req, doomed, history>>

\* The server stops, or a request other than a provisioning fails.
Stop(p) ==
    /\ req[p].stage # "idle"
    /\ Ends(p)
    /\ UNCHANGED <<local, notion, post, history>>

Handle(p) ==
    \/ AcquireLease(p)
    \/ ReadBinding(p)
    \/ Discover(p)
    \/ RenewToCreate(p)
    \/ CreateDatabase(p)
    \/ Served(p)
    \/ Answered(p)
    \/ Ambiguous(p)
    \/ Rediscover(p)
    \/ RenewToBind(p)
    \/ Persist(p)
    \/ ProvisioningFails(p)
    \/ ReleaseLease(p)
    \/ StartSave(p)
    \/ SaveMapping(p)
    \/ StartSync(p)
    \/ LockEntity(p)
    \/ SaveSyncState(p)
    \/ DropStates(p)
    \/ DropMapping(p)
    \/ DropLease(p)
    \/ Disconnect(p)
    \/ Stop(p)

Next ==
    \/ \E p \in Proc : Handle(p)
    \/ Connect
    \/ RecordCredentialError
    \/ Expire
    \/ DeleteInNotion

Spec == Init /\ [][Next]_vars

-----------------------------------------------------------------------------

\* However requests interleave, answers get lost and servers stop, one
\* database at most carries the marker, as long as no disconnection deletes
\* a lease in force.
OneDatabase == ~severed => \A d, e \in remote : d = e

\* A request whose lease was replaced or deleted meanwhile does not bind the
\* organization to what it found.
LateAnswerNotBound ==
    [][\A p \in Proc : mapping' # mapping /\ req[p].stage = "persist" /\ req'[p].stage = "release"
                          => p \notin past]_vars

\* The states point into the mapped database.  A synchronisation that is
\* under way when the mapping changes can break it.
StatesOfMappedSource == \A e \in Entity : state[e] \in {None, mapping.source}

\* docs/operations/integrations.md:16, "La déconnexion supprime credential,
\* mapping et états de pages": without a credential there is nothing left.
NothingWithoutCredential ==
    credential = "none" => mapping = NoMapping /\ \A e \in Entity : state[e] = None
=============================================================================
