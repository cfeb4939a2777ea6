------------------------ MODULE NotionBinding_proofs ------------------------
(***************************************************************************)
(* Proofs about NotionBinding, for any number of requests and databases.   *)
(*                                                                         *)
(* Why one database: a request to create one is only on its way, or about  *)
(* to be, under a lease in force that the request holds (OneCreator).      *)
(* Before, under the same lease, it has searched and found nothing         *)
(* (SearchedFirst).  The lease is not given up while the request may still *)
(* be served (OnItsWay), so whoever gets the lease next searches when the  *)
(* outcome is settled.                                                     *)
(*                                                                         *)
(* With one request at a time (MC_NotionBinding), nobody moves the rows    *)
(* that a request has read (RequestFits), so what it writes fits them.     *)
(***************************************************************************)
EXTENDS MC_NotionBinding, TLAPS

Stage == {"idle", "credential", "discover", "create", "post", "answer", "rediscover",
          "bind", "persist", "release", "save", "sync", "push",
          "drop_mapping", "drop_lease", "drop_credential"}

Creating(p) == req[p].stage = "post" \/ post[p] = "sent"

OneCreator == \A p \in Proc : Creating(p) => lease.token = p /\ lease.live /\ remote = {}

SearchedFirst == \A p \in Proc : req[p].stage = "create" /\ lease.token = p => remote = {}

Unsent == {"credential", "discover", "create", "post", "bind", "persist"}

OnItsWay ==
    \A p \in Proc : post[p] = "sent" =>
        /\ req[p].stage \notin Unsent
        /\ req[p].stage \in {"rediscover", "release"} => req[p].hold

AtMostOne == \A d, e \in remote : d = e

Creation == ~severed => OneCreator /\ SearchedFirst /\ OnItsWay /\ AtMostOne

-----------------------------------------------------------------------------
(* What the steps do to the requests.                                      *)

LEMMA Nothing ==
  /\ None \notin Managed
  /\ None \notin Proc
  /\ Idle \in Request
  /\ Idle.stage = "idle"
  /\ ~Idle.hold
  /\ NoDoom \in Doom
  /\ NoLease \in Lease
  /\ NoMapping \in Mapping
BY BindingAssumption DEF Idle, Request, Source, NoDoom, Doom, NoLease, Lease, NoMapping, Mapping

\* A request is replaced by another of its type.
LEMMA Replaced ==
  ASSUME TypeOK, NEW p \in Proc, NEW r \in Request, req' = [req EXCEPT ![p] = r]
  PROVE  /\ req' \in [Proc -> Request]
         /\ req'[p] = r
         /\ \A q \in Proc \ {p} : req'[q] = req[q]
BY DEF TypeOK

LEMMA GoesTo ==
  ASSUME TypeOK, NEW p \in Proc, NEW s \in Stage, Goes(p, s)
  PROVE  /\ req' \in [Proc -> Request]
         /\ req'[p].stage = s
         /\ req'[p].hold = req[p].hold
         /\ \A q \in Proc \ {p} : req'[q] = req[q]
<1> DEFINE r == [req[p] EXCEPT !.stage = s]
<1>1. req[p] \in Request
  BY DEF TypeOK
<1>2. r \in Request /\ r.stage = s /\ r.hold = req[p].hold
  BY <1>1 DEF Request, Stage
<1>3. req' = [req EXCEPT ![p] = r]
  BY DEF Goes
<1> HIDE DEF r
<1> QED BY <1>2, <1>3, Replaced

LEMMA FindsOne ==
  ASSUME TypeOK, NEW p \in Proc, NEW s \in Stage, NEW d \in Source \cup {None}, Finds(p, d, s)
  PROVE  /\ req' \in [Proc -> Request]
         /\ req'[p].stage = s
         /\ req'[p].hold = req[p].hold
         /\ \A q \in Proc \ {p} : req'[q] = req[q]
<1> DEFINE r == [req[p] EXCEPT !.stage = s, !.source = d]
<1>1. req[p] \in Request
  BY DEF TypeOK
<1>2. r \in Request /\ r.stage = s /\ r.hold = req[p].hold
  BY <1>1 DEF Request, Stage
<1>3. req' = [req EXCEPT ![p] = r]
  BY DEF Finds, TypeOK
<1> HIDE DEF r
<1> QED BY <1>2, <1>3, Replaced

LEMMA EndsOne ==
  ASSUME TypeOK, NEW p \in Proc, Ends(p)
  PROVE  /\ req' \in [Proc -> Request]
         /\ req'[p] = Idle
         /\ \A q \in Proc \ {p} : req'[q] = req[q]
         /\ doomed' \in [Proc -> Doom]
BY Nothing DEF Ends, TypeOK

\* Where a step of p takes it, and that it leaves the others alone.
LEMMA RequestStep ==
  ASSUME TypeOK, NEW p \in Proc, Handle(p)
  PROVE  /\ req' \in [Proc -> Request]
         /\ doomed' \in [Proc -> Doom]
         /\ \A q \in Proc \ {p} : req'[q] = req[q]
<1> USE DEF Stage
<1>1. CASE AcquireLease(p)
  <2> DEFINE r == [Idle EXCEPT !.stage = "credential"]
  <2>1. r \in Request
    BY Nothing DEF Request
  <2>2. req' = [req EXCEPT ![p] = r] /\ doomed' = doomed
    BY <1>1 DEF AcquireLease
  <2> HIDE DEF r
  <2> QED BY <2>1, <2>2, Replaced DEF TypeOK
<1>2. CASE ReadBinding(p)
  <2>1. PICK d \in Source \cup {None} : Finds(p, d, "discover") /\ doomed' = doomed
    BY <1>2 DEF ReadBinding, TypeOK, Mapping
  <2> QED BY <2>1, FindsOne DEF TypeOK
<1>3. CASE Discover(p)
  <2>1. PICK d \in Source \cup {None}, t \in {"create", "bind"} : Finds(p, d, t) /\ doomed' = doomed
    BY <1>3 DEF Discover, Source
  <2> QED BY <2>1, FindsOne DEF TypeOK
<1>4. CASE RenewToCreate(p) \/ CreateDatabase(p) \/ RenewToBind(p) \/ ProvisioningFails(p)
  <2>1. PICK t \in Stage : Goes(p, t) /\ doomed' = doomed
    BY <1>4 DEF RenewToCreate, CreateDatabase, RenewToBind, ProvisioningFails
  <2> QED BY <2>1, GoesTo DEF TypeOK
<1>5. CASE Served(p)
  BY <1>5 DEF Served, TypeOK
<1>6. CASE Answered(p) \/ Rediscover(p)
  <2>1. PICK d \in Source \cup {None} : Finds(p, d, "bind") /\ doomed' = doomed
    BY <1>6 DEF Answered, Rediscover, Source
  <2> QED BY <2>1, FindsOne DEF TypeOK
<1>7. CASE Ambiguous(p)
  <2> DEFINE r == [req[p] EXCEPT !.stage = "rediscover", !.hold = TRUE]
  <2>1. r \in Request
    BY DEF TypeOK, Request
  <2>2. req' = [req EXCEPT ![p] = r] /\ doomed' = doomed
    BY <1>7 DEF Ambiguous, TypeOK
  <2> HIDE DEF r
  <2> QED BY <2>1, <2>2, Replaced DEF TypeOK
<1>8. CASE Persist(p)
  <2> DEFINE r == [req[p] EXCEPT !.stage = "release", !.hold = FALSE]
  <2>1. r \in Request
    BY DEF TypeOK, Request
  <2>2. req' = [req EXCEPT ![p] = r] /\ doomed' = doomed
    BY <1>8 DEF Persist, TypeOK
  <2> HIDE DEF r
  <2> QED BY <2>1, <2>2, Replaced DEF TypeOK
<1>9. CASE ReleaseLease(p) \/ SaveMapping(p) \/ SaveSyncState(p) \/ Disconnect(p) \/ Stop(p)
  <2>1. Ends(p)
    BY <1>9 DEF ReleaseLease, SaveMapping, SaveSyncState, Disconnect, Stop
  <2> QED BY <2>1, EndsOne
<1>10. CASE StartSave(p)
  <2>1. PICK d \in Own \cup remote : req' = [req EXCEPT ![p] = [Idle EXCEPT !.stage = "save",
                                                                            !.source = d]]
    BY <1>10 DEF StartSave
  <2> DEFINE r == [Idle EXCEPT !.stage = "save", !.source = d]
  <2>2. d \in Source
    BY DEF TypeOK, Source
  <2>3. r \in Request
    BY <2>2, Nothing DEF Request
  <2> HIDE DEF r
  <2>4. req' = [req EXCEPT ![p] = r] /\ doomed' = doomed
    BY <1>10, <2>1 DEF StartSave, r
  <2> QED BY <2>3, <2>4, Replaced DEF TypeOK
<1>11. CASE StartSync(p)
  <2>1. PICK e \in Entity : req' = [req EXCEPT ![p] = [Idle EXCEPT !.stage = "sync",
                                                   !.source = mapping.source, !.entity = e]]
    BY <1>11 DEF StartSync
  <2> DEFINE r == [Idle EXCEPT !.stage = "sync", !.source = mapping.source, !.entity = e]
  <2>2. mapping.source \in Source \cup {None}
    BY DEF TypeOK, Mapping
  <2>3. r \in Request
    BY <2>2, Nothing DEF Request
  <2> HIDE DEF r
  <2>4. req' = [req EXCEPT ![p] = r] /\ doomed' = doomed
    BY <1>11, <2>1 DEF StartSync, r
  <2> QED BY <2>3, <2>4, Replaced DEF TypeOK
<1>12. CASE LockEntity(p)
  <2> DEFINE r == [req[p] EXCEPT !.stage = "push", !.page = state[req[p].entity]]
  <2>1. r \in Request
    <3>1. req[p] \in Request
      BY DEF TypeOK
    <3>2. state[req[p].entity] \in Source \cup {None}
      BY <3>1 DEF TypeOK, Request
    <3> QED BY <3>1, <3>2 DEF Request
  <2>2. req' = [req EXCEPT ![p] = r] /\ doomed' = doomed
    BY <1>12 DEF LockEntity, TypeOK
  <2> HIDE DEF r
  <2> QED BY <2>1, <2>2, Replaced DEF TypeOK
<1>13. CASE DropStates(p)
  <2> DEFINE r == [Idle EXCEPT !.stage = "drop_mapping"]
             c == [doomed[p] EXCEPT !.states = {e \in Entity : state[e] # None}]
  <2>1. r \in Request
    BY Nothing DEF Request
  <2>2. c \in Doom
    BY DEF TypeOK, Doom
  <2>3. req' = [req EXCEPT ![p] = r] /\ doomed' = [doomed EXCEPT ![p] = c]
    BY <1>13 DEF DropStates, TypeOK
  <2> HIDE DEF r, c
  <2> QED BY <2>1, <2>2, <2>3, Replaced DEF TypeOK
<1>14. CASE DropMapping(p)
  <2> DEFINE c == [doomed[p] EXCEPT !.mapping = (mapping # NoMapping)]
  <2>1. c \in Doom
    BY DEF TypeOK, Doom
  <2>2. Goes(p, "drop_lease") /\ doomed' = [doomed EXCEPT ![p] = c]
    BY <1>14 DEF DropMapping, TypeOK
  <2> HIDE DEF c
  <2> QED BY <2>1, <2>2, GoesTo DEF TypeOK
<1>15. CASE DropLease(p)
  <2> DEFINE c == [doomed[p] EXCEPT !.lease = (lease.token # None)]
  <2>1. c \in Doom
    BY DEF TypeOK, Doom
  <2>2. Goes(p, "drop_credential") /\ doomed' = [doomed EXCEPT ![p] = c]
    BY <1>15 DEF DropLease, TypeOK
  <2> HIDE DEF c
  <2> QED BY <2>1, <2>2, GoesTo DEF TypeOK
<1> QED BY <1>1, <1>2, <1>3, <1>4, <1>5, <1>6, <1>7, <1>8, <1>9, <1>10, <1>11, <1>12, <1>13,
           <1>14, <1>15 DEF Handle

-----------------------------------------------------------------------------
(* Types.                                                                  *)

LEMMA BindsTypes ==
  ASSUME TypeOK, NEW p \in Proc, NEW s \in Source \cup {None}, NEW m \in BOOLEAN, Binds(p, s, m)
  PROVE  mapping' \in Mapping /\ state' \in [Entity -> Source \cup {None}]
<1>1. mapping' \in Mapping
  BY DEF Binds, Mapping
<1>2. state' \in [Entity -> Source \cup {None}]
  BY DEF Binds, TypeOK
<1> QED BY <1>1, <1>2

LEMMA HandleTypes ==
  ASSUME TypeOK, NEW p \in Proc, Handle(p)
  PROVE  TypeOK'
<1> USE DEF local, notion, history
<1>0. req[p] \in Request
  BY DEF TypeOK
<1>1. credential' \in {"none", "active", "error"}
  BY DEF Handle, TypeOK, Disconnected, AcquireLease, ReadBinding, Discover, RenewToCreate,
     CreateDatabase, Served, Answered, Ambiguous, Rediscover, RenewToBind, Persist,
     ProvisioningFails, ReleaseLease, StartSave, SaveMapping, StartSync, LockEntity,
     SaveSyncState, DropStates, DropMapping, DropLease, Disconnect, Stop
<1>2. lease' \in Lease
  <2>1. CASE AcquireLease(p) \/ RenewToCreate(p) \/ RenewToBind(p) \/ ReleaseLease(p)
    <3>1. \A b \in BOOLEAN : [lease EXCEPT !.live = b] \in Lease
      BY DEF TypeOK, Lease
    <3>2. [token |-> p, live |-> TRUE] \in Lease
      BY DEF Lease
    <3>3. req[p].hold \in BOOLEAN
      BY <1>0 DEF Request
    <3>4. CASE AcquireLease(p)
      BY <3>2, <3>4 DEF AcquireLease
    <3>5. CASE RenewToCreate(p) \/ RenewToBind(p)
      BY <3>1, <3>5 DEF RenewToCreate, RenewToBind
    <3>6. CASE ReleaseLease(p)
      BY <3>1, <3>3, <3>6, Zenon DEF ReleaseLease, TypeOK
    <3> QED BY <2>1, <3>4, <3>5, <3>6
  <2>2. CASE Disconnect(p)
    BY <2>2, Nothing DEF Disconnect, TypeOK
  <2>3. CASE ~(\/ AcquireLease(p) \/ RenewToCreate(p) \/ RenewToBind(p) \/ ReleaseLease(p)
               \/ Disconnect(p))
    BY <2>3 DEF Handle, TypeOK, ReadBinding, Discover,
       CreateDatabase, Served, Answered, Ambiguous, Rediscover, Persist,
       ProvisioningFails, StartSave, SaveMapping, StartSync, LockEntity,
       SaveSyncState, DropStates, DropMapping, DropLease, Stop
  <2> QED BY <2>1, <2>2, <2>3
<1>3. mapping' \in Mapping /\ state' \in [Entity -> Source \cup {None}]
  <2>1. CASE Persist(p)
    <3>1. Binds(p, req[p].source, TRUE)
      BY <2>1 DEF Persist
    <3> QED BY <1>0, <3>1, BindsTypes DEF Request
  <2>2. CASE SaveMapping(p)
    <3>1. Binds(p, req[p].source, FALSE)
      BY <2>2 DEF SaveMapping
    <3> QED BY <1>0, <3>1, BindsTypes DEF Request
  <2>3. CASE SaveSyncState(p)
    BY <1>0, <2>3 DEF SaveSyncState, TypeOK, Request
  <2>4. CASE Disconnect(p)
    BY <2>4, Nothing DEF Disconnect, TypeOK
  <2>5. CASE ~(Persist(p) \/ SaveMapping(p) \/ SaveSyncState(p) \/ Disconnect(p))
    BY <2>5 DEF Handle, TypeOK, AcquireLease, ReadBinding, Discover, RenewToCreate,
       CreateDatabase, Served, Answered, Ambiguous, Rediscover, RenewToBind,
       ProvisioningFails, ReleaseLease, StartSave, StartSync, LockEntity,
       DropStates, DropMapping, DropLease, Stop
  <2> QED BY <2>1, <2>2, <2>3, <2>4, <2>5
<1>4. /\ remote' \in SUBSET Managed /\ gone' \in SUBSET Managed
      /\ post' \in [Proc -> {"none", "sent", "refused"} \cup Managed]
  <2>1. CASE Served(p) \/ AcquireLease(p) \/ CreateDatabase(p)
    BY <2>1 DEF Served, AcquireLease, CreateDatabase, TypeOK
  <2>2. CASE ~(Served(p) \/ AcquireLease(p) \/ CreateDatabase(p))
    BY <2>2 DEF Handle, TypeOK, ReadBinding, Discover, RenewToCreate,
       Answered, Ambiguous, Rediscover, RenewToBind, Persist,
       ProvisioningFails, ReleaseLease, StartSave, SaveMapping, StartSync, LockEntity,
       SaveSyncState, DropStates, DropMapping, DropLease, Disconnect, Stop
  <2> QED BY <2>1, <2>2
<1>5. severed' \in BOOLEAN /\ past' \in SUBSET Proc
  <2>1. CASE AcquireLease(p)
    BY <2>1 DEF AcquireLease, TypeOK, Lease
  <2>2. CASE Disconnect(p)
    BY <2>2 DEF Disconnect, TypeOK, Lease
  <2>3. CASE ~(AcquireLease(p) \/ Disconnect(p))
    BY <2>3 DEF Handle, TypeOK, ReadBinding, Discover, RenewToCreate,
       CreateDatabase, Served, Answered, Ambiguous, Rediscover, RenewToBind, Persist,
       ProvisioningFails, ReleaseLease, StartSave, SaveMapping, StartSync, LockEntity,
       SaveSyncState, DropStates, DropMapping, DropLease, Stop
  <2> QED BY <2>1, <2>2, <2>3
<1> QED BY <1>1, <1>2, <1>3, <1>4, <1>5, RequestStep DEF TypeOK

LEMMA InitTypes == Init => TypeOK
BY Nothing DEF Init, TypeOK

LEMMA NextTypes == TypeOK /\ [Next]_vars => TypeOK'
<1>1. ASSUME TypeOK, UNCHANGED vars PROVE TypeOK'
  BY <1>1 DEF TypeOK, vars
<1>2. ASSUME TypeOK, Connect \/ RecordCredentialError \/ Expire \/ DeleteInNotion PROVE TypeOK'
  BY <1>2 DEF TypeOK, Connect, RecordCredentialError, Expire, DeleteInNotion, local, notion,
     history, Lease
<1> QED BY <1>1, <1>2, HandleTypes DEF Next

\* Every row, every request and every history variable keeps its type.
THEOREM TypesKept == Spec => []TypeOK
<1> QED BY InitTypes, NextTypes, PTL DEF Spec

-----------------------------------------------------------------------------
(* One database.                                                           *)

\* A step that leaves the lease and the request to Notion alone: it is
\* enough to look at where it takes p.
LEMMA Moves ==
  ASSUME TypeOK, Creation, NEW p \in Proc,
         UNCHANGED <<lease, remote, post, severed>>,
         \A q \in Proc \ {p} : req'[q] = req[q],
         req'[p].stage # "post",
         req'[p].stage = "create" => remote = {},
         ~severed /\ post[p] = "sent" =>
            /\ req'[p].stage \notin Unsent
            /\ req'[p].stage \in {"rediscover", "release"} => req'[p].hold
  PROVE  Creation'
<1> SUFFICES ASSUME ~severed PROVE OneCreator' /\ SearchedFirst' /\ OnItsWay' /\ AtMostOne'
  BY DEF Creation
<1>1. OneCreator /\ SearchedFirst /\ OnItsWay /\ AtMostOne
  BY DEF Creation
<1>2. OneCreator'
  BY <1>1 DEF OneCreator, Creating
<1>3. SearchedFirst'
  BY <1>1 DEF SearchedFirst
<1>4. OnItsWay'
  BY <1>1 DEF OnItsWay
<1>5. AtMostOne'
  BY <1>1 DEF AtMostOne
<1> QED BY <1>2, <1>3, <1>4, <1>5

\* Whatever is found is in Notion, and nothing is found only if nothing is there.
LEMMA FoundThere ==
  ASSUME TypeOK, NEW d \in Managed \cup {None}, NEW preferred, Found(d, preferred)
  PROVE  (d = None => remote = {}) /\ (d # None => d \in remote)
BY Nothing DEF Found, TypeOK

\* Operations other than provisioning.
LEMMA StartsElsewhere ==
  ASSUME TypeOK, NEW p \in Proc,
         StartSave(p) \/ StartSync(p) \/ LockEntity(p) \/ DropStates(p)
  PROVE  req'[p].stage \in {"save", "sync", "push", "drop_mapping"}
<1>0. req[p] \in Request
  BY DEF TypeOK
<1>1. CASE StartSave(p)
  <2>1. PICK d \in Own \cup remote : req' = [req EXCEPT ![p] = [Idle EXCEPT !.stage = "save",
                                                                            !.source = d]]
    BY <1>1 DEF StartSave
  <2>2. req'[p] = [Idle EXCEPT !.stage = "save", !.source = d]
    BY <2>1 DEF TypeOK
  <2> QED BY <2>2, Nothing DEF Request
<1>2. CASE StartSync(p)
  <2>1. PICK e \in Entity : req' = [req EXCEPT ![p] = [Idle EXCEPT !.stage = "sync",
                                                 !.source = mapping.source, !.entity = e]]
    BY <1>2 DEF StartSync
  <2>2. req'[p] = [Idle EXCEPT !.stage = "sync", !.source = mapping.source, !.entity = e]
    BY <2>1 DEF TypeOK
  <2> QED BY <2>2, Nothing DEF Request
<1>3. CASE LockEntity(p)
  BY <1>0, <1>3 DEF LockEntity, TypeOK, Request
<1>4. CASE DropStates(p)
  BY <1>4, Nothing DEF DropStates, TypeOK, Request
<1> QED BY <1>1, <1>2, <1>3, <1>4

LEMMA QuietCreation ==
  ASSUME TypeOK, Creation, NEW p \in Proc,
         \/ ReadBinding(p) \/ Discover(p) \/ Answered(p) \/ Ambiguous(p) \/ Rediscover(p)
         \/ Persist(p) \/ ProvisioningFails(p) \/ StartSave(p) \/ SaveMapping(p) \/ StartSync(p)
         \/ LockEntity(p) \/ SaveSyncState(p) \/ DropStates(p) \/ DropMapping(p) \/ DropLease(p)
         \/ Stop(p)
  PROVE  Creation'
<1> USE DEF local, notion, history
<1>0. /\ \A q \in Proc \ {p} : req'[q] = req[q]
      /\ req[p] \in Request
  BY RequestStep DEF Handle, TypeOK
<1>1. CASE ReadBinding(p)
  <2>1. PICK d \in Source \cup {None} : Finds(p, d, "discover") /\ req[p].stage = "credential"
    BY <1>1 DEF ReadBinding, TypeOK, Mapping
  <2>2. req'[p].stage = "discover"
    BY <2>1, FindsOne DEF Stage
  <2> QED BY <1>0, <1>1, <2>1, <2>2, Moves DEF ReadBinding, Creation, OnItsWay, Unsent
<1>2. CASE Discover(p)
  <2>1. PICK d \in Managed \cup {None} :
          /\ Found(d, req[p].source)
          /\ Finds(p, d, IF d = None THEN "create" ELSE "bind")
    BY <1>2 DEF Discover
  <2>2. req'[p].stage = IF d = None THEN "create" ELSE "bind"
    BY <2>1, FindsOne DEF Stage, Source
  <2>3. ~severed => post[p] # "sent"
    BY <1>2 DEF Discover, Creation, OnItsWay, Unsent
  <2> QED BY <1>0, <1>2, <2>1, <2>2, <2>3, FoundThere, Moves DEF Discover
<1>3. CASE Answered(p)
  <2>1. Finds(p, post[p], "bind") /\ post[p] \in Managed
    BY <1>3 DEF Answered
  <2>2. req'[p].stage = "bind"
    BY <2>1, FindsOne DEF Stage, Source
  <2>3. post[p] # "sent"
    BY <2>1, BindingAssumption
  <2> QED BY <1>0, <1>3, <2>2, <2>3, Moves DEF Answered
<1>4. CASE Ambiguous(p)
  <2> DEFINE r == [req[p] EXCEPT !.stage = "rediscover", !.hold = TRUE]
  <2>1. r.stage = "rediscover" /\ r.hold
    BY <1>0 DEF Request
  <2>2. req' = [req EXCEPT ![p] = r]
    BY <1>4 DEF Ambiguous, TypeOK
  <2> HIDE DEF r
  <2>3. req'[p] = r
    BY <2>2 DEF TypeOK
  <2> QED BY <1>0, <1>4, <2>1, <2>3, Moves DEF Ambiguous, Unsent
<1>5. CASE Rediscover(p)
  <2>1. PICK d \in Managed : Found(d, None) /\ Finds(p, d, "bind")
    BY <1>5 DEF Rediscover
  <2>2. req'[p].stage = "bind"
    BY <2>1, FindsOne DEF Stage, Source
  <2>3. d \in remote
    BY <2>1, FoundThere, Nothing
  <2>4. ~severed => post[p] # "sent"
    BY <2>3 DEF Creation, OneCreator, Creating
  <2> QED BY <1>0, <1>5, <2>2, <2>4, Moves DEF Rediscover
<1>6. CASE Persist(p)
  <2> DEFINE r == [req[p] EXCEPT !.stage = "release", !.hold = FALSE]
  <2>1. r.stage = "release"
    BY <1>0 DEF Request
  <2>2. req' = [req EXCEPT ![p] = r]
    BY <1>6 DEF Persist, TypeOK
  <2> HIDE DEF r
  <2>3. req'[p] = r
    BY <2>2 DEF TypeOK
  <2>4. ~severed => post[p] # "sent"
    BY <1>6 DEF Persist, Creation, OnItsWay, Unsent
  <2> QED BY <1>0, <1>6, <2>1, <2>3, <2>4, Moves DEF Persist
<1>7. CASE ProvisioningFails(p)
  <2>1. /\ Goes(p, "release") /\ req[p].stage \in Provisioning
        /\ req[p].stage = "answer" => post[p] = "refused"
    BY <1>7 DEF ProvisioningFails
  <2>2. req'[p].stage = "release" /\ req'[p].hold = req[p].hold
    BY <2>1, GoesTo DEF Stage
  <2>3. ~severed /\ post[p] = "sent" => req[p].hold
    BY <2>1 DEF Creation, OnItsWay, Unsent, Provisioning
  <2> QED BY <1>0, <1>7, <2>2, <2>3, Moves DEF ProvisioningFails, Unsent
<1>8. CASE SaveMapping(p) \/ SaveSyncState(p) \/ Stop(p)
  <2>1. req'[p] = Idle
    BY <1>8, EndsOne DEF SaveMapping, SaveSyncState, Stop
  <2> QED BY <1>0, <1>8, <2>1, Nothing, Moves DEF SaveMapping, SaveSyncState, Stop, Unsent
<1>9. CASE DropMapping(p) \/ DropLease(p)
  <2>1. req'[p].stage \in {"drop_lease", "drop_credential"}
    BY <1>9, GoesTo DEF DropMapping, DropLease, Stage
  <2> QED BY <1>0, <1>9, <2>1, Moves DEF DropMapping, DropLease, Unsent
<1>10. CASE StartSave(p) \/ StartSync(p) \/ LockEntity(p) \/ DropStates(p)
  <2>1. req'[p].stage \in {"save", "sync", "push", "drop_mapping"}
    BY <1>10, StartsElsewhere
  <2> QED BY <1>0, <1>10, <2>1, Moves DEF StartSave, StartSync, LockEntity, DropStates, Unsent
<1> QED BY <1>1, <1>2, <1>3, <1>4, <1>5, <1>6, <1>7, <1>8, <1>9, <1>10

LEMMA LeaseCreation ==
  ASSUME TypeOK, Creation, NEW p \in Proc,
         \/ AcquireLease(p) \/ RenewToCreate(p) \/ RenewToBind(p) \/ ReleaseLease(p)
         \/ CreateDatabase(p) \/ Served(p) \/ Disconnect(p)
  PROVE  Creation'
<1> USE DEF local, notion, history
<1> SUFFICES ASSUME ~severed' PROVE OneCreator' /\ SearchedFirst' /\ OnItsWay' /\ AtMostOne'
  BY DEF Creation
<1>0. ~severed
  BY DEF AcquireLease, RenewToCreate, RenewToBind, ReleaseLease, CreateDatabase, Served,
     Disconnect
<1>1. OneCreator /\ SearchedFirst /\ OnItsWay /\ AtMostOne
  BY <1>0 DEF Creation
<1>2. /\ \A q \in Proc \ {p} : req'[q] = req[q]
      /\ req[p] \in Request
  BY RequestStep DEF Handle, TypeOK
<1>3. CASE AcquireLease(p)
  <2>1. /\ lease' = [token |-> p, live |-> TRUE] /\ remote' = remote
        /\ \A q \in Proc : post'[q] = IF q = p THEN "none" ELSE post[q]
        /\ lease.token = None \/ ~lease.live
    BY <1>3 DEF AcquireLease, Vacant, TypeOK
  <2>2. req'[p].stage = "credential"
    BY <1>3, Nothing DEF AcquireLease, TypeOK, Request
  <2>3. \A q \in Proc : ~Creating(q)
    BY <1>1, <2>1, Nothing DEF OneCreator
  <2>4. \A q \in Proc : ~Creating(q)'
    BY <1>2, <2>1, <2>2, <2>3 DEF Creating
  <2>5. SearchedFirst'
    BY <1>2, <2>1, <2>2 DEF SearchedFirst
  <2> QED BY <1>1, <2>1, <2>4, <2>5 DEF OneCreator, OnItsWay, Creating, AtMostOne
<1>4. CASE RenewToCreate(p)
  <2>1. /\ lease.token = p /\ lease' = [lease EXCEPT !.live = TRUE]
        /\ req[p].stage = "create" /\ Goes(p, "post")
        /\ remote' = remote /\ post' = post
    BY <1>4 DEF RenewToCreate, Renewed, Holds
  <2>2. req'[p].stage = "post"
    BY <2>1, GoesTo DEF Stage
  <2>3. lease'.token = p /\ lease'.live
    BY <2>1 DEF TypeOK, Lease
  <2>4. remote = {} /\ post[p] # "sent"
    BY <1>1, <2>1 DEF SearchedFirst, OnItsWay, Unsent
  <2>5. \A q \in Proc \ {p} : ~Creating(q)
    BY <1>1, <2>1 DEF OneCreator
  <2> QED BY <1>1, <1>2, <2>1, <2>2, <2>3, <2>4, <2>5
          DEF OneCreator, Creating, SearchedFirst, OnItsWay, AtMostOne
<1>5. CASE RenewToBind(p)
  <2>1. /\ lease.token = p /\ lease' = [lease EXCEPT !.live = TRUE]
        /\ req[p].stage = "bind" /\ Goes(p, "persist")
        /\ remote' = remote /\ post' = post
    BY <1>5 DEF RenewToBind, Renewed, Holds
  <2>2. req'[p].stage = "persist"
    BY <2>1, GoesTo DEF Stage
  <2>3. lease'.token = p /\ lease'.live
    BY <2>1 DEF TypeOK, Lease
  <2>4. post[p] # "sent"
    BY <1>1, <2>1 DEF OnItsWay, Unsent
  <2> QED BY <1>1, <1>2, <2>1, <2>2, <2>3, <2>4
          DEF OneCreator, Creating, SearchedFirst, OnItsWay, AtMostOne
<1>6. CASE ReleaseLease(p)
  <2>1. /\ req[p].stage = "release" /\ req'[p] = Idle /\ remote' = remote /\ post' = post
    BY <1>6, EndsOne DEF ReleaseLease
  <2>2. CASE lease.token = p
    <3>1. lease' = [lease EXCEPT !.live = req[p].hold]
      BY <1>6, <2>2, Zenon DEF ReleaseLease
    <3>2. lease'.token = p /\ (req[p].hold => lease'.live)
      BY <2>2, <3>1 DEF TypeOK, Lease
    <3>3. post[p] = "sent" => req[p].hold
      BY <1>1, <2>1 DEF OnItsWay
    <3>4. \A q \in Proc \ {p} : ~Creating(q)
      BY <1>1, <2>2 DEF OneCreator
    <3> QED BY <1>1, <1>2, <2>1, <2>2, <3>2, <3>3, <3>4, Nothing
            DEF OneCreator, Creating, SearchedFirst, OnItsWay, AtMostOne, Unsent
  <2>3. CASE lease.token # p
    <3>1. lease' = lease
      BY <1>6, <2>3, Zenon DEF ReleaseLease
    <3> QED BY <1>1, <1>2, <2>1, <3>1, Nothing
            DEF OneCreator, Creating, SearchedFirst, OnItsWay, AtMostOne, Unsent
  <2> QED BY <2>2, <2>3
<1>7. CASE CreateDatabase(p)
  <2>1. /\ req[p].stage = "post" /\ Goes(p, "answer") /\ remote' = remote /\ lease' = lease
        /\ \A q \in Proc : post'[q] = IF q = p THEN "sent" ELSE post[q]
    BY <1>7 DEF CreateDatabase, TypeOK
  <2>2. req'[p].stage = "answer"
    BY <2>1, GoesTo DEF Stage
  <2> QED BY <1>1, <1>2, <2>1, <2>2
          DEF OneCreator, Creating, SearchedFirst, OnItsWay, AtMostOne, Unsent
<1>8. CASE Served(p)
  <2>1. post[p] = "sent" /\ lease' = lease /\ req' = req
    BY <1>8 DEF Served
  <2>2. lease.token = p /\ remote = {} /\ req[p].stage \notin Unsent
    BY <1>1, <2>1 DEF OneCreator, OnItsWay, Creating
  <2>3. \A q \in Proc \ {p} : ~Creating(q)
    BY <1>1, <2>2 DEF OneCreator
  <2>4. \A q \in Proc : ~Creating(q)'
    <3>1. /\ \A q \in Proc \ {p} : post'[q] = post[q]
          /\ post'[p] \in {"refused"} \cup Managed
      BY <1>8 DEF Served, TypeOK
    <3>2. post'[p] # "sent"
      BY <3>1, BindingAssumption
    <3> QED BY <2>1, <2>2, <2>3, <3>1, <3>2 DEF Creating, Unsent
  <2>5. SearchedFirst'
    BY <2>1, <2>2 DEF SearchedFirst, Unsent
  <2>6. AtMostOne'
    BY <1>8, <2>2 DEF Served, AtMostOne
  <2> QED BY <2>4, <2>5, <2>6 DEF OneCreator, OnItsWay, Creating
<1>9. CASE Disconnect(p)
  <2>1. /\ req[p].stage = "drop_credential" /\ req'[p] = Idle /\ remote' = remote /\ post' = post
    BY <1>9, EndsOne DEF Disconnect
  <2>2. lease' = lease \/ (~lease.live /\ lease' = NoLease)
    BY <1>9 DEF Disconnect
  <2>3. \A q \in Proc : Creating(q) => lease' = lease
    BY <1>1, <2>2 DEF OneCreator
  <2>4. NoLease.token = None /\ \A q \in Proc : q # None
    BY Nothing DEF NoLease
  <2> QED BY <1>1, <1>2, <2>1, <2>2, <2>3, <2>4, Nothing
          DEF OneCreator, Creating, SearchedFirst, OnItsWay, AtMostOne, Unsent
<1> QED BY <1>3, <1>4, <1>5, <1>6, <1>7, <1>8, <1>9

LEMMA NextCreation == TypeOK /\ Creation /\ [Next]_vars => Creation'
<1>1. ASSUME Creation, UNCHANGED vars PROVE Creation'
  BY <1>1 DEF Creation, vars, OneCreator, Creating, SearchedFirst, OnItsWay, AtMostOne
<1>2. ASSUME Creation, Connect \/ RecordCredentialError PROVE Creation'
  BY <1>2 DEF Creation, OneCreator, Creating, SearchedFirst, OnItsWay, AtMostOne, Connect,
     RecordCredentialError, notion, history
<1>3. ASSUME TypeOK, Creation, Expire PROVE Creation'
  <2>1. /\ UNCHANGED <<remote, post, req, severed>>
        /\ lease'.token = lease.token
        /\ \A p \in Proc : lease.token = p => ~Creating(p)
    BY <1>3 DEF Expire, notion, history, Creating, TypeOK, Lease
  <2> QED BY <1>3, <2>1 DEF Creation, OneCreator, Creating, SearchedFirst, OnItsWay, AtMostOne
<1>4. ASSUME Creation, DeleteInNotion PROVE Creation'
  BY <1>4 DEF Creation, OneCreator, Creating, SearchedFirst, OnItsWay, AtMostOne, DeleteInNotion,
     local, history
<1>5. ASSUME TypeOK, Creation, NEW p \in Proc, Handle(p) PROVE Creation'
  BY <1>5, QuietCreation, LeaseCreation DEF Handle
<1> QED BY <1>1, <1>2, <1>3, <1>4, <1>5 DEF Next

LEMMA InitCreation == Init => Creation
BY Nothing DEF Init, Creation, OneCreator, Creating, SearchedFirst, OnItsWay, AtMostOne

\* At most one database of Notion carries the marker of the organization,
\* until a disconnection deletes a lease in force, for any number of
\* requests, lost answers, stops and expired leases.
THEOREM OneDatabaseKept == Spec => []OneDatabase
<1>1. Creation => OneDatabase
  BY DEF Creation, AtMostOne, OneDatabase
<1> QED BY <1>1, InitTypes, NextTypes, InitCreation, NextCreation, PTL DEF Spec

-----------------------------------------------------------------------------
(* Late answers.                                                           *)

\* A lease that was replaced or deleted is not the lease any more.
PastIsOver == \A p \in past : req[p].stage \in Provisioning => lease.token # p

LEMMA HandlePast ==
  ASSUME TypeOK, PastIsOver, NEW p \in Proc, Handle(p)
  PROVE  PastIsOver'
<1> USE DEF local, notion, history
<1>0. /\ \A q \in Proc \ {p} : req'[q] = req[q]
      /\ past \in SUBSET Proc
  BY RequestStep DEF TypeOK
<1>1. CASE AcquireLease(p)
  <2>1. lease'.token = p /\ p \notin past'
    BY <1>1 DEF AcquireLease
  <2> QED BY <2>1 DEF PastIsOver
<1>2. CASE Disconnect(p)
  <2>1. req'[p].stage = "idle"
    BY <1>2, EndsOne, Nothing DEF Disconnect
  <2>2. CASE doomed[p].lease
    <3>1. lease'.token = None /\ past' \in SUBSET Proc
      BY <1>2, <2>2 DEF Disconnect, NoLease, TypeOK, Lease
    <3> QED BY <3>1, Nothing DEF PastIsOver
  <2>3. CASE ~doomed[p].lease
    BY <1>0, <1>2, <2>1, <2>3 DEF Disconnect, PastIsOver, Provisioning
  <2> QED BY <2>2, <2>3
<1>3. CASE ~AcquireLease(p) /\ ~Disconnect(p)
  <2>1. past' = past
    BY <1>3 DEF Handle, ReadBinding, Discover, RenewToCreate,
       CreateDatabase, Served, Answered, Ambiguous, Rediscover, RenewToBind, Persist,
       ProvisioningFails, ReleaseLease, StartSave, SaveMapping, StartSync, LockEntity,
       SaveSyncState, DropStates, DropMapping, DropLease, Stop
  <2>2. lease'.token = lease.token
    <3>1. CASE RenewToCreate(p) \/ RenewToBind(p) \/ ReleaseLease(p)
      BY <3>1, Zenon DEF RenewToCreate, RenewToBind, ReleaseLease, TypeOK, Lease
    <3>2. CASE ~(RenewToCreate(p) \/ RenewToBind(p) \/ ReleaseLease(p))
      BY <1>3, <3>2 DEF Handle, ReadBinding, Discover,
         CreateDatabase, Served, Answered, Ambiguous, Rediscover, Persist,
         ProvisioningFails, StartSave, SaveMapping, StartSync, LockEntity,
         SaveSyncState, DropStates, DropMapping, DropLease, Stop
    <3> QED BY <3>1, <3>2
  <2>3. req'[p].stage \in Provisioning => req[p].stage \in Provisioning
    <3>1. CASE req[p].stage \in Provisioning
      BY <3>1
    <3>2. CASE req[p].stage \notin Provisioning
      <4>1. req'[p].stage \notin Provisioning
        <5>1. CASE Served(p)
          BY <3>2, <5>1 DEF Served
        <5>2. CASE ReleaseLease(p) \/ SaveMapping(p) \/ SaveSyncState(p) \/ Stop(p)
          BY <5>2, EndsOne, Nothing DEF ReleaseLease, SaveMapping, SaveSyncState, Stop,
             Provisioning
        <5>3. CASE StartSave(p) \/ StartSync(p) \/ LockEntity(p) \/ DropStates(p)
          BY <5>3, StartsElsewhere DEF Provisioning
        <5>4. CASE DropMapping(p) \/ DropLease(p)
          BY <5>4, GoesTo DEF DropMapping, DropLease, Stage, Provisioning
        <5> QED BY <1>3, <3>2, <5>1, <5>2, <5>3, <5>4 DEF Handle, Provisioning, ReadBinding,
                Discover, RenewToCreate, CreateDatabase, Answered, Ambiguous, Rediscover,
                RenewToBind, Persist, ProvisioningFails
      <4> QED BY <4>1
    <3> QED BY <3>1, <3>2
  <2> QED BY <1>0, <2>1, <2>2, <2>3 DEF PastIsOver
<1> QED BY <1>1, <1>2, <1>3

LEMMA NextPast == TypeOK /\ PastIsOver /\ [Next]_vars => PastIsOver'
<1>1. ASSUME PastIsOver, UNCHANGED vars PROVE PastIsOver'
  BY <1>1 DEF PastIsOver, vars
<1>2. ASSUME TypeOK, PastIsOver, Connect \/ RecordCredentialError \/ Expire \/ DeleteInNotion
      PROVE  PastIsOver'
  <2>1. UNCHANGED <<req, past>> /\ lease'.token = lease.token
    BY <1>2 DEF Connect, RecordCredentialError, Expire, DeleteInNotion, local, notion,
       history, TypeOK, Lease
  <2> QED BY <1>2, <2>1 DEF PastIsOver
<1> QED BY <1>1, <1>2, HandlePast DEF Next

\* Only a request that still holds the lease binds the organization: an
\* answer of Notion that arrives after the lease was replaced, or deleted by
\* a disconnection, changes no mapping.
THEOREM LateAnswersIgnored == Spec => LateAnswerNotBound
<1>1. TypeOK /\ PastIsOver /\ [Next]_vars =>
        [\A p \in Proc : mapping' # mapping /\ req[p].stage = "persist" /\ req'[p].stage = "release"
                          => p \notin past]_vars
  <2> SUFFICES ASSUME TypeOK, PastIsOver, Next, NEW p \in Proc, mapping' # mapping,
                      req[p].stage = "persist", req'[p].stage = "release"
               PROVE  p \notin past
    BY DEF vars
  <2>1. PICK q \in Proc : Handle(q)
    BY DEF Next, Connect, RecordCredentialError, Expire, DeleteInNotion, local
  <2>2. q = p
    BY <2>1, RequestStep
  <2>3. Persist(p)
    <3>1. CASE ReleaseLease(p) \/ SaveMapping(p) \/ SaveSyncState(p) \/ Disconnect(p) \/ Stop(p)
               \/ ProvisioningFails(p)
      <4>1. ~Ends(p)
        BY EndsOne, Nothing
      <4>2. ~ProvisioningFails(p)
        BY DEF ProvisioningFails, local
      <4> QED BY <3>1, <4>1, <4>2 DEF ReleaseLease, SaveMapping, SaveSyncState, Disconnect, Stop
    <3>2. CASE ~(ReleaseLease(p) \/ SaveMapping(p) \/ SaveSyncState(p) \/ Disconnect(p)
                  \/ Stop(p) \/ ProvisioningFails(p))
      BY <2>1, <2>2, <3>2 DEF Handle, AcquireLease, ReadBinding, Discover, RenewToCreate,
         CreateDatabase, Served, Answered, Ambiguous, Rediscover, RenewToBind,
         StartSave, StartSync, LockEntity, DropStates, DropMapping, DropLease, local
    <3> QED BY <3>1, <3>2
  <2> QED BY <2>3 DEF Persist, StillOurs, Holds, PastIsOver, Provisioning
<1>2. Init => PastIsOver
  BY DEF Init, PastIsOver
<1> QED BY <1>1, <1>2, InitTypes, NextTypes, NextPast, PTL DEF Spec, LateAnswerNotBound

-----------------------------------------------------------------------------
(* One request at a time.                                                  *)

\* Searches, creations and what follows them, and a mapping made by hand,
\* start from a credential.
Credited == {"discover", "create", "post", "answer", "rediscover", "bind", "persist", "save",
             "sync", "push"}

\* What a request r has read, and what its transaction d has deleted, is
\* still what the rows hold: the mapping, the states, the credential.
RequestFits(r, d, row_, states, cred) ==
    /\ r.stage \notin Disconnecting => d.states = {} /\ ~d.mapping
    /\ r.stage \in Disconnecting => d.states = {e \in Entity : states[e] # None}
    /\ r.stage \in {"drop_lease", "drop_credential"} => d.mapping = (row_ # NoMapping)
    /\ r.stage \in Credited => cred # "none"
    /\ r.stage \in {"bind", "persist", "save", "sync", "push"} => r.source # None
    /\ r.stage \in {"sync", "push"} => r.source = row_.source
    /\ r.stage = "push" => r.page = states[r.entity]

OneActive == \A p, q \in Proc : Active(p) /\ Active(q) => p = q

AllFit == \A p \in Proc : RequestFits(req[p], doomed[p], mapping, state, credential)

MappedOrNot == mapping.source = None => mapping = NoMapping

AloneInv == OneActive /\ AllFit /\ MappedOrNot /\ StatesOfMappedSource /\ NothingWithoutCredential

\* While only p is active, it is enough to look at p.
LEMMA AloneFrame ==
  ASSUME TypeOK, AloneInv, NEW p \in Proc, \A q \in Proc : Active(q) => q = p,
         \A q \in Proc \ {p} : req'[q] = req[q] /\ doomed'[q] = doomed[q],
         RequestFits(req'[p], doomed'[p], mapping', state', credential')
  PROVE  OneActive' /\ AllFit'
<1>1. \A q \in Proc \ {p} : req'[q].stage = "idle"
  BY DEF Active
<1>2. OneActive'
  BY <1>1 DEF OneActive, Active
<1>3. ASSUME NEW q \in Proc \ {p}
      PROVE  RequestFits(req'[q], doomed'[q], mapping', state', credential')
  <2>1. RequestFits(req[q], doomed[q], mapping, state, credential)
    BY DEF AloneInv, AllFit
  <2> QED BY <1>1, <2>1 DEF RequestFits, Disconnecting, Credited
<1> QED BY <1>2, <1>3 DEF AllFit

\* A binding to a database of Notion, or of the organization.
LEMMA BindsAlone ==
  ASSUME TypeOK, AloneInv, NEW p \in Proc, NEW s \in Source, NEW m \in BOOLEAN, Binds(p, s, m)
  PROVE  MappedOrNot' /\ StatesOfMappedSource'
<1>1. mapping' = [source |-> s, managed |-> m] /\ s # None
  BY BindingAssumption DEF Binds
<1>2. CASE mapping.source \notin {None, s}
  BY <1>1, <1>2 DEF Binds, StatesOfMappedSource, MappedOrNot
<1>3. CASE mapping.source \in {None, s}
  <2>1. state' = state
    BY <1>3 DEF Binds
  <2> QED BY <1>1, <1>3, <2>1 DEF AloneInv, StatesOfMappedSource, MappedOrNot
<1> QED BY <1>2, <1>3

\* A step that leaves the rows alone.
LEMMA RowsAlone ==
  ASSUME TypeOK, AloneInv, NEW p \in Proc, \A q \in Proc : Active(q) => q = p,
         \A q \in Proc \ {p} : req'[q] = req[q] /\ doomed'[q] = doomed[q],
         RequestFits(req'[p], doomed'[p], mapping, state, credential),
         UNCHANGED <<mapping, state, credential>>
  PROVE  AloneInv'
<1>1. RequestFits(req'[p], doomed'[p], mapping', state', credential')
  OBVIOUS
<1>2. OneActive' /\ AllFit'
  BY <1>1, AloneFrame
<1> QED BY <1>2 DEF AloneInv, MappedOrNot, StatesOfMappedSource, NothingWithoutCredential

\* A provisioning, between two of its writes.
LEMMA ProvisioningAlone ==
  ASSUME TypeOK, AloneInv, NEW p \in Proc, \A q \in Proc : Active(q) => q = p,
         \/ AcquireLease(p) \/ ReadBinding(p) \/ Discover(p) \/ RenewToCreate(p)
         \/ CreateDatabase(p) \/ Served(p) \/ Answered(p) \/ Ambiguous(p) \/ Rediscover(p)
         \/ RenewToBind(p) \/ ProvisioningFails(p)
  PROVE  AloneInv'
<1> USE DEF local, notion, history
<1>0. /\ \A q \in Proc \ {p} : req'[q] = req[q]
      /\ req[p] \in Request
      /\ RequestFits(req[p], doomed[p], mapping, state, credential)
  BY RequestStep DEF Handle, TypeOK, AloneInv, AllFit
<1>1. UNCHANGED <<mapping, state, credential, doomed>>
  BY DEF AcquireLease, ReadBinding, Discover, RenewToCreate, CreateDatabase, Served, Answered,
     Ambiguous, Rediscover, RenewToBind, ProvisioningFails
<1>2. SUFFICES RequestFits(req'[p], doomed[p], mapping, state, credential)
  BY <1>0, <1>1, RowsAlone
<1>3. req[p].stage \notin Disconnecting => doomed[p].states = {} /\ ~doomed[p].mapping
  BY <1>0 DEF RequestFits
<1> USE DEF RequestFits, Disconnecting, Credited
<1>4. CASE AcquireLease(p)
  <2>1. req[p].stage = "idle" /\ req'[p].stage = "credential"
    BY <1>4, Nothing DEF AcquireLease, TypeOK, Request
  <2> QED BY <1>0, <1>3, <2>1
<1>5. CASE ReadBinding(p)
  <2>1. PICK d \in Source \cup {None} : Finds(p, d, "discover")
    BY <1>5 DEF ReadBinding, TypeOK, Mapping
  <2>2. req'[p].stage = "discover"
    BY <2>1, FindsOne DEF Stage
  <2> QED BY <1>0, <1>3, <1>5, <2>2 DEF ReadBinding
<1>6. CASE Discover(p) \/ Answered(p) \/ Rediscover(p)
  <2>1. PICK d \in Managed \cup {None} :
          \/ Finds(p, d, "bind") /\ d # None
          \/ Finds(p, d, "create")
    BY <1>6, Nothing DEF Discover, Answered, Rediscover
  <2>2. req'[p].stage \in {"bind", "create"} /\ (req'[p].stage = "bind" => req'[p].source # None)
    BY <1>0, <2>1 DEF Finds, TypeOK, Request
  <2>3. req[p].stage \in {"discover", "answer", "rediscover"}
    BY <1>6 DEF Discover, Answered, Rediscover
  <2> QED BY <1>0, <1>3, <2>2, <2>3
<1>7. CASE RenewToCreate(p) \/ CreateDatabase(p) \/ RenewToBind(p) \/ ProvisioningFails(p)
  <2>1. PICK t \in {"post", "answer", "persist", "release"} :
          /\ Goes(p, t)
          /\ t \in {"post", "answer"} => req[p].stage \in {"create", "post"}
          /\ t = "persist" => req[p].stage = "bind"
          /\ req[p].stage \in Provisioning
    BY <1>7 DEF RenewToCreate, CreateDatabase, RenewToBind, ProvisioningFails, Provisioning
  <2>2. req'[p].stage = t /\ req'[p].source = req[p].source
    BY <1>0, <2>1 DEF Goes, TypeOK, Request
  <2> QED BY <1>0, <1>3, <2>1, <2>2 DEF Provisioning
<1>8. CASE Served(p)
  BY <1>0, <1>8 DEF Served
<1>9. CASE Ambiguous(p)
  <2>1. req'[p].stage = "rediscover" /\ req[p].stage = "answer"
    BY <1>0, <1>9 DEF Ambiguous, TypeOK, Request
  <2> QED BY <1>0, <1>3, <2>1
<1> QED BY <1>4, <1>5, <1>6, <1>7, <1>8, <1>9

\* A save, a synchronisation and a disconnection, up to their writes.
LEMMA ReadingAlone ==
  ASSUME TypeOK, AloneInv, NEW p \in Proc, \A q \in Proc : Active(q) => q = p,
         \/ StartSave(p) \/ StartSync(p) \/ LockEntity(p) \/ DropStates(p) \/ DropMapping(p)
         \/ DropLease(p) \/ ReleaseLease(p) \/ Stop(p)
  PROVE  AloneInv'
<1> USE DEF local, notion, history
<1>0. /\ \A q \in Proc \ {p} : req'[q] = req[q]
      /\ req[p] \in Request /\ doomed[p] \in Doom
      /\ RequestFits(req[p], doomed[p], mapping, state, credential)
  BY RequestStep DEF Handle, TypeOK, AloneInv, AllFit
<1>1. UNCHANGED <<mapping, state, credential>>
  BY DEF StartSave, StartSync, LockEntity, DropStates, DropMapping, DropLease, ReleaseLease, Stop
<1>2. \A q \in Proc \ {p} : doomed'[q] = doomed[q]
  BY DEF StartSave, StartSync, LockEntity, DropStates, DropMapping, DropLease, ReleaseLease, Stop,
     Ends, TypeOK
<1>3. SUFFICES RequestFits(req'[p], doomed'[p], mapping, state, credential)
  BY <1>0, <1>1, <1>2, RowsAlone
<1> USE DEF RequestFits, Disconnecting, Credited
<1>4. CASE StartSave(p)
  <2>1. PICK d \in Own \cup remote : req' = [req EXCEPT ![p] = [Idle EXCEPT !.stage = "save",
                                                                            !.source = d]]
    BY <1>4 DEF StartSave
  <2>2. d # None
    BY BindingAssumption DEF TypeOK, Source
  <2>3. req'[p].stage = "save" /\ req'[p].source = d
    BY <2>1 DEF Idle, TypeOK
  <2>4. doomed'[p] = doomed[p] /\ req[p].stage = "idle" /\ credential = "active"
    BY <1>4 DEF StartSave
  <2> QED BY <1>0, <2>2, <2>3, <2>4
<1>5. CASE StartSync(p)
  <2>1. PICK e \in Entity : req' = [req EXCEPT ![p] = [Idle EXCEPT !.stage = "sync",
                                                   !.source = mapping.source, !.entity = e]]
    BY <1>5 DEF StartSync
  <2>2. req'[p].stage = "sync" /\ req'[p].source = mapping.source
    BY <2>1 DEF Idle, TypeOK
  <2>3. /\ doomed'[p] = doomed[p] /\ req[p].stage = "idle" /\ credential = "active"
        /\ mapping.source # None
    BY <1>5 DEF StartSync, AloneInv, MappedOrNot
  <2> QED BY <1>0, <2>2, <2>3
<1>6. CASE LockEntity(p)
  <2>1. /\ req'[p].stage = "push" /\ req'[p].source = req[p].source
        /\ req'[p].entity = req[p].entity /\ req'[p].page = state[req[p].entity]
    BY <1>0, <1>6 DEF LockEntity, TypeOK, Request
  <2>2. doomed'[p] = doomed[p] /\ req[p].stage = "sync"
    BY <1>6 DEF LockEntity
  <2> QED BY <1>0, <2>1, <2>2
<1>7. CASE DropStates(p)
  <2>1. /\ req'[p].stage = "drop_mapping"
        /\ doomed'[p].states = {e \in Entity : state[e] # None}
    BY <1>0, <1>7 DEF DropStates, TypeOK, Idle, Doom
  <2> QED BY <2>1
<1>8. CASE DropMapping(p)
  <2>1. /\ req[p].stage = "drop_mapping" /\ req'[p].stage = "drop_lease"
        /\ doomed'[p].mapping = (mapping # NoMapping)
        /\ doomed'[p].states = doomed[p].states
    BY <1>0, <1>8 DEF DropMapping, Goes, TypeOK, Request, Doom
  <2> QED BY <1>0, <2>1
<1>9. CASE DropLease(p)
  <2>1. /\ req[p].stage = "drop_lease" /\ req'[p].stage = "drop_credential"
        /\ doomed'[p].mapping = doomed[p].mapping
        /\ doomed'[p].states = doomed[p].states
    BY <1>0, <1>9 DEF DropLease, Goes, TypeOK, Request, Doom
  <2> QED BY <1>0, <2>1
<1>10. CASE ReleaseLease(p) \/ Stop(p)
  <2>1. req'[p].stage = "idle" /\ doomed'[p] = NoDoom
    BY <1>10, Nothing DEF ReleaseLease, Stop, Ends, TypeOK
  <2> QED BY <2>1 DEF NoDoom
<1> QED BY <1>4, <1>5, <1>6, <1>7, <1>8, <1>9, <1>10

\* The writes: a mapping, the state of an entity, and a disconnection.
LEMMA WritingAlone ==
  ASSUME TypeOK, AloneInv, NEW p \in Proc, \A q \in Proc : Active(q) => q = p,
         Persist(p) \/ SaveMapping(p) \/ SaveSyncState(p) \/ Disconnect(p)
  PROVE  AloneInv'
<1> USE DEF local, notion, history
<1>0. /\ \A q \in Proc \ {p} : req'[q] = req[q]
      /\ req[p] \in Request
      /\ RequestFits(req[p], doomed[p], mapping, state, credential)
  BY RequestStep DEF Handle, TypeOK, AloneInv, AllFit
<1>1. \A q \in Proc \ {p} : doomed'[q] = doomed[q]
  BY DEF Persist, SaveMapping, SaveSyncState, Disconnect, Ends, TypeOK
<1>2. OneActive' /\ AllFit'
  <2>1. /\ req'[p].stage \in {"idle", "release"}
        /\ doomed'[p].states = {} /\ ~doomed'[p].mapping
    <3>1. CASE Persist(p)
      <4>1. req'[p].stage = "release" /\ doomed'[p] = doomed[p] /\ req[p].stage = "persist"
        BY <1>0, <3>1 DEF Persist, TypeOK, Request
      <4> QED BY <1>0, <4>1 DEF RequestFits, Disconnecting
    <3>2. CASE SaveMapping(p) \/ SaveSyncState(p) \/ Disconnect(p)
      <4>1. Ends(p)
        BY <3>2 DEF SaveMapping, SaveSyncState, Disconnect
      <4>2. req'[p].stage = "idle" /\ doomed'[p] = NoDoom
        BY <4>1, Nothing DEF Ends, TypeOK
      <4> QED BY <4>2 DEF NoDoom
    <3> QED BY <3>1, <3>2
  <2>2. RequestFits(req'[p], doomed'[p], mapping', state', credential')
    BY <2>1 DEF RequestFits, Disconnecting, Credited
  <2> QED BY <1>0, <1>1, <2>2, AloneFrame
<1>3. CASE Persist(p) \/ SaveMapping(p)
  <2>1. /\ req[p].stage \in {"persist", "save"} /\ credential' = credential
        /\ Binds(p, req[p].source, TRUE) \/ Binds(p, req[p].source, FALSE)
    BY <1>3 DEF Persist, SaveMapping
  <2>2. req[p].source \in Source /\ credential # "none"
    BY <1>0, <2>1 DEF RequestFits, Credited, Request
  <2>3. MappedOrNot' /\ StatesOfMappedSource'
    BY <2>1, <2>2, BindsAlone
  <2> QED BY <1>2, <2>1, <2>2, <2>3 DEF AloneInv, NothingWithoutCredential
<1>4. CASE SaveSyncState(p)
  <2>1. /\ req[p].stage = "push" /\ UNCHANGED <<credential, mapping>>
        /\ req[p].source = mapping.source /\ req[p].page = state[req[p].entity]
        /\ credential # "none" /\ req[p].entity \in Entity
    BY <1>0, <1>4 DEF SaveSyncState, RequestFits, Credited, Request
  <2>2. \A e \in Entity : state'[e] \in {state[e], mapping.source}
    BY <1>4, <2>1 DEF SaveSyncState, TypeOK
  <2> QED BY <1>2, <2>1, <2>2 DEF AloneInv, MappedOrNot, StatesOfMappedSource,
          NothingWithoutCredential
<1>5. CASE Disconnect(p)
  <2>1. /\ doomed[p].states = {e \in Entity : state[e] # None}
        /\ doomed[p].mapping = (mapping # NoMapping)
    BY <1>0, <1>5 DEF Disconnect, RequestFits, Disconnecting
  <2>2. mapping' = NoMapping
    BY <1>5, <2>1 DEF Disconnect
  <2>3. \A e \in Entity : state'[e] = None
    BY <1>5, <2>1 DEF Disconnect, Dropped
  <2> QED BY <1>2, <2>2, <2>3 DEF AloneInv, MappedOrNot, StatesOfMappedSource,
          NothingWithoutCredential
<1> QED BY <1>3, <1>4, <1>5

\* Nobody else: the credential, the lease and the databases of Notion.
LEMMA AroundAlone ==
  ASSUME TypeOK, AloneInv, Around
  PROVE  AloneInv'
<1>1. UNCHANGED <<mapping, state, req, doomed>> /\ (credential' = "none" => credential = "none")
  BY DEF Around, Connect, RecordCredentialError, Expire, DeleteInNotion, local
<1>2. AllFit'
  BY <1>1 DEF AloneInv, AllFit, RequestFits
<1> QED BY <1>1, <1>2 DEF AloneInv, OneActive, Active, MappedOrNot, StatesOfMappedSource,
        NothingWithoutCredential

LEMMA InitAlone == Init => AloneInv
BY Nothing DEF Init, AloneInv, OneActive, Active, AllFit, RequestFits, Disconnecting, Credited,
   MappedOrNot, StatesOfMappedSource, NothingWithoutCredential, NoDoom, NoMapping

PartOf == TypeOK /\ (part = "alone" => AloneInv)

LEMMA MCInitPart == MCInit => PartOf
BY InitTypes, InitAlone DEF MCInit, PartOf

LEMMA MCNextPart == PartOf /\ [MCNext]_<<vars, part, schemaVars>> => PartOf'
<1> SUFFICES ASSUME PartOf, [MCNext]_<<vars, part, schemaVars>> PROVE PartOf'
  OBVIOUS
<1>1. [Next]_vars
  BY DEF MCNext, AloneNext, CrossingNext, Around, Next
<1>2. TypeOK'
  BY <1>1, NextTypes DEF PartOf
<1>3. ASSUME part' = "alone" PROVE AloneInv'
  <2>1. CASE UNCHANGED vars /\ part = part'
    <3>1. AloneInv
      BY <1>3, <2>1 DEF PartOf
    <3> QED BY <2>1, <3>1 DEF vars, AloneInv, OneActive, Active, AllFit, MappedOrNot,
            StatesOfMappedSource, NothingWithoutCredential
  <2>2. CASE part = "alone" /\ AloneNext
    <3>1. PICK p \in Proc : (\A q \in Proc : Active(q) => q = p) /\ Handle(p)
      BY <2>2 DEF AloneNext
    <3> QED BY <2>2, <3>1, ProvisioningAlone, ReadingAlone, WritingAlone DEF PartOf, Handle
  <2>3. CASE part = "alone" /\ Around
    BY <2>3, AroundAlone DEF PartOf
  <2> QED BY <1>3, <2>1, <2>2, <2>3 DEF MCNext
<1> QED BY <1>2, <1>3 DEF PartOf

\* With one request at a time, whatever stops, gets lost or expires, no state
\* points outside the mapped database.
THEOREM StatesFollowTheMapping == MCSpec => []AloneStatesOfMappedSource
<1>1. PartOf => AloneStatesOfMappedSource
  BY DEF PartOf, AloneInv, AloneStatesOfMappedSource
<1> QED BY <1>1, MCInitPart, MCNextPart, PTL DEF MCSpec

\* With one request at a time, where there is no credential there is neither
\* a mapping nor the state of a page.
THEOREM NothingLeftBehind == MCSpec => []AloneNothingWithoutCredential
<1>1. PartOf => AloneNothingWithoutCredential
  BY DEF PartOf, AloneInv, AloneNothingWithoutCredential
<1> QED BY <1>1, MCInitPart, MCNextPart, PTL DEF MCSpec
=============================================================================
