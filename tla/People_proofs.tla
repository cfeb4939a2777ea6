--------------------------- MODULE People_proofs ----------------------------
(***************************************************************************)
(* Proofs about people: TeamInvitations, Accounts and Onboarding, for any  *)
(* number of people, roles, addresses, requests and tokens.                *)
(*                                                                         *)
(* Team.  The argument follows a token: it is generated once (TokensIssued,*)
(* TokensApart); while a request holds it, what the request will write or  *)
(* has written in the email agrees with the row (CreateWillTell,           *)
(* ResendKnows, ResendTold); so a row and the email of its token always    *)
(* agree (LettersTell), and a token that is still in an open row has not   *)
(* been used (Unspent).                                                    *)
(*                                                                         *)
(* Accounts.  A request goes on with an id and a password only from the    *)
(* stages that have found them (RequestIsSound), and who is there has an   *)
(* id that was drawn (DrawnIds): a new one meets no rows of anybody.       *)
(*                                                                         *)
(* Onboarding.  What a request that nothing crosses has read is what the   *)
(* organization holds (RequestIsExact).                                    *)
(***************************************************************************)
EXTENDS MC_People, Sequences, FiniteSetTheorems, TLAPS

TokensIssued ==
    /\ \A t \in Token : t > issued => uses[t] = 0 /\ ~letter[t].sent
    /\ \A e \in User : /\ inv[e].token <= issued
                       /\ inv[e].status # "NONE" => inv[e].token # 0
    /\ \A p \in Proc : req[p].fresh <= issued

TokensApart ==
    /\ \A e, f \in User : inv[e].token = inv[f].token /\ inv[e].token # 0 => e = f
    /\ \A p, q \in Proc : req[p].fresh = req[q].fresh /\ req[p].fresh # 0 => p = q

\* create has stored its token and not yet emailed it.
CreateWillTell ==
    \A p \in Proc : At(p, "create", "email") =>
        /\ req[p].fresh # 0
        /\ ~letter[req[p].fresh].sent
        /\ \A e \in User : inv[e].token = req[p].fresh =>
                              e = req[p].who /\ inv[e].role = req[p].role

Resending(p) == req[p].op = "resend" /\ req[p].stage \in {"check", "email", "swap"}

\* resend remembers the row: while the token is the same, so is the role.
ResendKnows ==
    \A p \in Proc : Resending(p) =>
        /\ req[p].seen # 0
        /\ req[p].seen <= issued
        /\ inv[req[p].who].token = req[p].seen => inv[req[p].who].role = req[p].role

\* resend has emailed its token and not yet stored it.
ResendTold ==
    \A p \in Proc : At(p, "resend", "swap") =>
        /\ req[p].fresh # 0
        /\ letter[req[p].fresh] = Written(p)
        /\ uses[req[p].fresh] = 0
        /\ \A e \in User : inv[e].token # req[p].fresh
        /\ \A q \in Proc : Resending(q) => req[q].seen # req[p].fresh

LettersTell ==
    \A e \in User : inv[e].token # 0 /\ letter[inv[e].token].sent =>
        letter[inv[e].token] = [sent |-> TRUE, to |-> e, role |-> inv[e].role]

Unspent ==
    \A e \in User : inv[e].token # 0 /\ inv[e].status # "ACCEPTED" => uses[inv[e].token] = 0

Offers ==
    /\ TokensIssued
    /\ TokensApart
    /\ CreateWillTell
    /\ ResendKnows
    /\ ResendTold
    /\ LettersTell
    /\ Unspent

TeamInv == TypeOK /\ Offers /\ JoinsAsInvited /\ TokenAdmitsOnce

-----------------------------------------------------------------------------
(* Types.                                                                  *)

LEMMA ConstantRecords ==
  /\ NoMembership \in Membership
  /\ NoInvitation \in Invitation
  /\ NoLetter \in Letter
  /\ Idle \in Request
  /\ NoSnapshot \in Snapshot
  BY TeamAssumption DEF NoMembership, Membership, NoInvitation, Invitation,
     NoLetter, Letter, Idle, Request, Operation, NoSnapshot, Snapshot

LEMMA InitTypes == Init => TypeOK
<1> SUFFICES ASSUME Init PROVE TypeOK
  OBVIOUS
<1>1. member \in [User -> Membership]
  BY ConstantRecords DEF Init, Membership
<1> QED BY <1>1, ConstantRecords, TeamAssumption DEF Init, TypeOK

Stage == {"idle", "read", "check", "write", "email", "swap", "apply", "commit"}

LEMMA RequestFields ==
  ASSUME NEW r \in Request, NEW stage \in Stage, NEW t \in Token \cup {0}, NEW role \in Role
  PROVE  /\ [r EXCEPT !.stage = stage] \in Request
         /\ [r EXCEPT !.stage = stage, !.fresh = t] \in Request
         /\ [r EXCEPT !.stage = stage, !.seen = t, !.role = role] \in Request
  BY DEF Request, Stage

\* What a step makes of the request it serves, as a record.
LEMMA RequestSet ==
  ASSUME TypeOK, NEW p \in Proc, NEW r \in Request, req' = [req EXCEPT ![p] = r]
  PROVE  /\ req' \in [Proc -> Request]
         /\ \A q \in Proc : req'[q] = IF q = p THEN r ELSE req[q]
  BY DEF TypeOK

LEMMA RequestReturns ==
  ASSUME TypeOK, NEW p \in Proc, Returns(p)
  PROVE  /\ req' \in [Proc -> Request]
         /\ \A q \in Proc : req'[q] = IF q = p THEN Idle ELSE req[q]
  BY RequestSet, ConstantRecords DEF Returns

\* A commit ends the request, and those whose transaction it aborts.
LEMMA RequestCommits ==
  ASSUME TypeOK, NEW p \in Proc, Commits(p)
  PROVE  /\ req' \in [Proc -> Request] /\ snap' \in [Proc -> Snapshot]
         /\ req'[p] = Idle
         /\ \A q \in Proc : \/ req'[q] = Idle
                            \/ req'[q] = req[q] /\ snap'[q] = snap[q] /\ ~Aborts(p, q)
  BY ConstantRecords DEF TypeOK, Commits

LEMMA RequestStarts ==
  ASSUME TypeOK, NEW p \in Proc, NEW op \in Operation,
         NEW stage \in {"read", "check", "apply"}, NEW who \in User,
         NEW role \in Role, NEW seen \in Token \cup {0},
         op = "resend" => stage = "read",
         Starts(p, op, stage, who, role, seen)
  PROVE  /\ req' \in [Proc -> Request]
         /\ \A q \in Proc : q # p => req'[q] = req[q]
         /\ req'[p].fresh = 0
         /\ req'[p].stage # "email"
         /\ req'[p].op = "resend" => req'[p].stage = "read"
<1> DEFINE r == [op |-> op, stage |-> stage, who |-> who, role |-> role,
                 seen |-> seen, fresh |-> 0]
<1>1. r \in Request
  BY DEF Request
<1>2. req' = [req EXCEPT ![p] = r]
  BY DEF Starts
<1> QED BY <1>1, <1>2, RequestSet

LEMMA IssuedIsInvitation ==
  ASSUME NEW role \in Role, NEW t \in Token \cup {0}
  PROVE  Issued(role, t) \in Invitation
  BY DEF Issued, Invitation

LEMMA NotedIsInvitation ==
  ASSUME NEW i \in Invitation
  PROVE  /\ Noted(i) \in Invitation
         /\ Noted(i).token = i.token
         /\ Noted(i).role = i.role
         /\ Noted(i).status = "ACCEPTED" <=> i.status = "ACCEPTED"
         /\ Noted(i).status = "NONE" <=> i.status = "NONE"
  BY DEF Noted, Invitation

LEMMA InvitationSet ==
  ASSUME TypeOK, NEW e \in User, NEW i \in Invitation, inv' = [inv EXCEPT ![e] = i]
  PROVE  /\ inv' \in [User -> Invitation]
         /\ \A f \in User : inv'[f] = IF f = e THEN i ELSE inv[f]
  BY DEF TypeOK

LEMMA HandleTypes ==
  ASSUME TypeOK, NEW p \in Proc, Handle(p)
  PROVE  TypeOK'
<1>0. req[p] \in Request /\ req[p].who \in User /\ req[p].role \in Role
  BY DEF TypeOK, Request
<1>1. CASE Arrive(p)
  <2>1. PICK who \in User, role \in Role, op \in Operation,
             stage \in {"read", "check", "apply"}, seen \in Token \cup {0} :
             /\ op = "resend" => stage = "read"
             /\ Starts(p, op, stage, who, role, seen)
    BY <1>1, TeamAssumption DEF Arrive, Operation, TypeOK, Membership
  <2>2. req' \in [Proc -> Request]
    BY <2>1, RequestStarts
  <2> QED BY <1>1, <2>2 DEF Arrive, TypeOK
<1>2. CASE Fails(p)
  <2>1. snap' \in [Proc -> Snapshot]
    BY <1>2, ConstantRecords DEF Fails, TypeOK
  <2> QED BY <1>2, <2>1, RequestReturns DEF Fails, TypeOK
<1>3. CASE ReadInvitation(p)
  <2>1. inv[req[p].who].token \in Token \cup {0} /\ inv[req[p].who].role \in Role
    BY <1>0 DEF TypeOK, Invitation
  <2>2. [req[p] EXCEPT !.stage = "check", !.seen = inv[req[p].who].token,
                       !.role = inv[req[p].who].role] \in Request
    BY <1>0, <2>1, RequestFields DEF Stage
  <2> QED BY <1>3, <2>2, RequestSet DEF ReadInvitation, TypeOK
<1>4. CASE CheckNotMember(p)
  <2>1. \A stage \in Stage : [req[p] EXCEPT !.stage = stage] \in Request
    BY <1>0, RequestFields, TeamAssumption DEF TypeOK, Request
  <2>2. req' \in [Proc -> Request]
    BY <1>4, <2>1 DEF CheckNotMember, Goes, Stage, TypeOK
  <2> QED BY <1>4, <2>2 DEF CheckNotMember, TypeOK
<1>5. CASE UpsertInvitation(p)
  <2>1. issued + 1 \in Token /\ issued' \in 0..MaxToken
    BY <1>5, TeamAssumption DEF UpsertInvitation, TypeOK, Token
  <2>2. [req[p] EXCEPT !.stage = "email", !.fresh = issued + 1] \in Request
    BY <1>0, <2>1, RequestFields DEF Stage
  <2>3. inv' \in [User -> Invitation]
    BY <1>0, <1>5, <2>1, InvitationSet, IssuedIsInvitation DEF UpsertInvitation
  <2> QED BY <1>5, <2>1, <2>2, <2>3, RequestSet DEF UpsertInvitation, TypeOK
<1>6. CASE MailCreated(p)
  <2>1. Written(p) \in Letter
    BY <1>0 DEF Written, Letter
  <2> QED BY <1>6, <2>1, RequestReturns DEF MailCreated, TypeOK
<1>7. CASE MailResent(p)
  <2>1. issued + 1 \in Token /\ issued' \in 0..MaxToken
    BY <1>7, TeamAssumption DEF MailResent, TypeOK, Token
  <2>2. [req[p] EXCEPT !.stage = "swap", !.fresh = issued + 1] \in Request
    BY <1>0, <2>1, RequestFields DEF Stage
  <2>3. Written(p) \in Letter
    BY <1>0 DEF Written, Letter
  <2> QED BY <1>7, <2>1, <2>2, <2>3, RequestSet DEF MailResent, TypeOK
<1>8. CASE SwapToken(p)
  <2>1. inv[req[p].who].role \in Role /\ req[p].fresh \in Token \cup {0}
    BY <1>0 DEF TypeOK, Invitation, Request
  <2>2. inv' \in [User -> Invitation]
    BY <1>0, <1>8, <2>1, InvitationSet, IssuedIsInvitation DEF SwapToken
  <2> QED BY <1>8, <2>2, RequestReturns DEF SwapToken, TypeOK
<1>9. CASE Revoke(p)
  <2>1. inv' \in [User -> Invitation]
    BY <1>0, <1>9 DEF Revoke, TypeOK, Invitation
  <2> QED BY <1>9, <2>1, RequestReturns DEF Revoke, TypeOK
<1>10. CASE UpdateMemberRole(p)
  <2>1. member' \in [User -> Membership]
    BY <1>0, <1>10 DEF UpdateMemberRole, TypeOK, Membership
  <2> QED BY <1>10, <2>1, RequestCommits DEF UpdateMemberRole, TypeOK
<1>11. CASE RemoveMember(p)
  BY <1>0, <1>11, ConstantRecords, RequestCommits DEF RemoveMember, TypeOK
<1>12. CASE CountAdmins(p)
  <2>1. req' \in [Proc -> Request]
    BY <1>0, <1>12, RequestFields, RequestSet, TeamAssumption DEF CountAdmins, Goes, Stage, TypeOK
  <2>2. snap' \in [Proc -> Snapshot]
    BY <1>0, <1>12 DEF CountAdmins, Snapshot, OtherAdmins, Admins, TypeOK
  <2> QED BY <1>12, <2>1, <2>2 DEF CountAdmins, TypeOK
<1> QED BY <1>1, <1>2, <1>3, <1>4, <1>5, <1>6, <1>7, <1>8, <1>9, <1>10, <1>11, <1>12 DEF Handle

LEMMA PeopleTypes ==
  ASSUME TypeOK,
         \/ \E u \in User, t \in Token : Accept(u, t)
         \/ \E u \in User : Lapse(u) \/ Preview(u) \/ Register(u) \/ DeleteAccount(u)
         \/ ListTeam
  PROVE  TypeOK'
<1>1. ASSUME NEW u \in User, NEW t \in Token, Accept(u, t)
      PROVE  TypeOK'
  <2>1. inv[u] \in Invitation /\ inv[u].role \in Role
    BY DEF TypeOK, Invitation
  <2>2. Consumed(inv[u]) \in Invitation
    BY <2>1 DEF Consumed, Invitation
  <2>3. inv' \in [User -> Invitation]
    BY <1>1, <2>2, InvitationSet DEF Accept
  <2>4. member' \in [User -> Membership]
    BY <1>1, <2>1 DEF Accept, TypeOK, Membership
  <2>5. uses' \in [Token -> Nat] /\ joined' \subseteq Joining
    BY <1>1, <2>1 DEF Accept, TypeOK, Joining
  <2> QED BY <1>1, <2>3, <2>4, <2>5 DEF Accept, TypeOK
<1>2. ASSUME NEW u \in User, Lapse(u)
      PROVE  TypeOK'
  <2>1. inv' \in [User -> Invitation]
    BY <1>2 DEF Lapse, TypeOK, Invitation
  <2> QED BY <1>2, <2>1 DEF Lapse, TypeOK
<1>3. ASSUME NEW u \in User, Preview(u)
      PROVE  TypeOK'
  <2>1. Noted(inv[u]) \in Invitation
    BY NotedIsInvitation DEF TypeOK
  <2> QED BY <1>3, <2>1, InvitationSet DEF Preview, TypeOK
<1>4. ASSUME NEW u \in User, Register(u)
      PROVE  TypeOK'
  BY <1>4 DEF Register, TypeOK
<1>5. ASSUME NEW u \in User, DeleteAccount(u)
      PROVE  TypeOK'
  <2>1. member' \in [User -> Membership] /\ inv' \in [User -> Invitation]
    BY <1>5, ConstantRecords DEF DeleteAccount, Ended, TypeOK
  <2>2. snap' \in [Proc -> Snapshot]
    BY <1>5 DEF DeleteAccount, TypeOK, Snapshot
  <2> QED BY <1>5, <2>1, <2>2 DEF DeleteAccount, TypeOK
<1>6. CASE ListTeam
  <2>1. inv' \in [User -> Invitation]
    BY <1>6, NotedIsInvitation DEF ListTeam, TypeOK
  <2> QED BY <1>6, <2>1 DEF ListTeam, TypeOK
<1> QED BY <1>1, <1>2, <1>3, <1>4, <1>5, <1>6

\* The tables and the requests keep their types, whoever acts, whatever
\* fails and however many requests there are.
THEOREM TypesKept == Spec => []TypeOK
<1>1. TypeOK /\ [Next]_vars => TypeOK'
  <2>1. CASE UNCHANGED vars
    BY <2>1 DEF vars, TypeOK
  <2> QED BY <2>1, HandleTypes, PeopleTypes DEF Next
<1> QED BY <1>1, InitTypes, PTL DEF Spec

-----------------------------------------------------------------------------
(* Tokens, rows and emails.                                                *)

\* A request that holds no token and remembers no row.
Settled(p) == req[p].fresh = 0 /\ ~At(p, "create", "email") /\ ~Resending(p)

\* A step that changes neither tokens nor roles of rows, and no email.
RowsKept ==
    /\ UNCHANGED <<issued, letter, uses, joined>>
    /\ \A e \in User : /\ inv'[e].token = inv[e].token
                       /\ inv'[e].role = inv[e].role
                       /\ inv'[e].status = "NONE" => inv[e].status = "NONE"
                       /\ inv'[e].status # "NONE" => inv[e].status # "NONE"
                       /\ inv'[e].status # "ACCEPTED" => inv[e].status # "ACCEPTED"

LEMMA KeptStep ==
  ASSUME TeamInv, RowsKept, \A q \in Proc : req'[q] = req[q] \/ Settled(q)'
  PROVE  Offers' /\ JoinsAsInvited' /\ TokenAdmitsOnce'
<1> USE DEF TeamInv, Offers, RowsKept, Settled, At
<1>1. TokensIssued'
  BY DEF TokensIssued, TypeOK
<1>2. TokensApart'
  BY DEF TokensApart
<1>3. CreateWillTell'
  BY DEF CreateWillTell
<1>4. ResendKnows'
  <2>1. \A q \in Proc : Resending(q)' => req'[q] = req[q] /\ Resending(q)
    BY DEF Resending
  <2>2. \A q \in Proc : req[q].who \in User
    BY DEF TypeOK, Request
  <2> QED BY <2>1, <2>2 DEF ResendKnows
<1>5. ResendTold'
  BY DEF ResendTold, Resending, Written
<1>6. LettersTell' /\ Unspent' /\ JoinsAsInvited' /\ TokenAdmitsOnce'
  BY DEF LettersTell, Unspent, JoinsAsInvited, TokenAdmitsOnce
<1> QED BY <1>1, <1>2, <1>3, <1>4, <1>5, <1>6

\* A request about a member goes on.
LEMMA UncountedStep ==
  ASSUME TeamInv, NEW p \in Proc, RowsKept, UNCHANGED inv,
         \A q \in Proc : q # p => req'[q] = req[q],
         req'[p].op = req[p].op, req'[p].fresh = req[p].fresh,
         req'[p].stage = "commit", req[p].op \in {"setRole", "remove"}
  PROVE  Offers' /\ JoinsAsInvited' /\ TokenAdmitsOnce'
<1> USE DEF TeamInv, Offers, RowsKept, At
<1>1. TokensIssued' /\ TokensApart'
  BY DEF TokensIssued, TokensApart
<1>2. CreateWillTell'
  BY DEF CreateWillTell
<1>3. ResendKnows' /\ ResendTold'
  BY DEF ResendKnows, ResendTold, Resending, Written
<1>4. LettersTell' /\ Unspent' /\ JoinsAsInvited' /\ TokenAdmitsOnce'
  BY DEF LettersTell, Unspent, JoinsAsInvited, TokenAdmitsOnce
<1> QED BY <1>1, <1>2, <1>3, <1>4

\* The statements of a request that read only.
LEMMA ReadStep ==
  ASSUME TeamInv, NEW p \in Proc, ReadInvitation(p) \/ CheckNotMember(p)
  PROVE  Offers' /\ JoinsAsInvited' /\ TokenAdmitsOnce'
<1> USE DEF TeamInv, Offers, At
<1>0. UNCHANGED <<issued, letter, uses, joined, inv>> /\ req[p] \in Request
  BY DEF ReadInvitation, CheckNotMember, TypeOK
<1>1. /\ \A q \in Proc : q # p => req'[q] = req[q]
      /\ req'[p].op = req[p].op /\ req'[p].who = req[p].who
      /\ req'[p].fresh = req[p].fresh
      /\ req'[p].stage # "swap"
      /\ ~(req'[p].op = "create" /\ req'[p].stage = "email")
  BY <1>0 DEF ReadInvitation, CheckNotMember, Goes, TypeOK, Request
<1>2. Resending(p)' => /\ req'[p].seen # 0
                       /\ req'[p].seen <= issued
                       /\ inv[req[p].who].token = req'[p].seen =>
                            inv[req[p].who].role = req'[p].role
  <2>1. CASE ReadInvitation(p)
    <3>1. req'[p].seen = inv[req[p].who].token /\ req'[p].role = inv[req[p].who].role
      BY <1>0, <2>1 DEF ReadInvitation, TypeOK, Request
    <3>2. req[p].who \in User /\ inv[req[p].who].status # "NONE"
      BY <1>0, <2>1 DEF ReadInvitation, Request
    <3> QED BY <3>1, <3>2 DEF TokensIssued
  <2>2. CASE CheckNotMember(p)
    <3>1. req'[p].seen = req[p].seen /\ req'[p].role = req[p].role
      BY <1>0, <2>2 DEF CheckNotMember, Goes, TypeOK, Request
    <3>2. Resending(p)' => Resending(p)
      BY <1>1, <2>2 DEF Resending, CheckNotMember
    <3> QED BY <3>1, <3>2 DEF ResendKnows
  <2> QED BY <2>1, <2>2
<1>3. TokensIssued'
  BY <1>0, <1>1 DEF TokensIssued
<1>4. TokensApart'
  BY <1>0, <1>1 DEF TokensApart
<1>5. CreateWillTell'
  BY <1>0, <1>1 DEF CreateWillTell
<1>6. ResendKnows'
  BY <1>0, <1>1, <1>2 DEF ResendKnows, Resending
<1>7. ResendTold'
  <2>1. \A q \in Proc : At(q, "resend", "swap")' => q # p /\ At(q, "resend", "swap")
    BY <1>1
  <2>2. \A q \in Proc : At(q, "resend", "swap") /\ Resending(p)' =>
                           req'[p].seen # req[q].fresh
    <3>1. CASE ReadInvitation(p)
      BY <1>0, <3>1 DEF ReadInvitation, ResendTold, TypeOK, Request
    <3>2. CASE CheckNotMember(p)
      BY <1>0, <1>1, <3>2 DEF CheckNotMember, Goes, ResendTold, Resending, TypeOK, Request
    <3> QED BY <3>1, <3>2
  <2> QED BY <1>0, <1>1, <2>1, <2>2 DEF ResendTold, Resending, Written
<1>8. LettersTell' /\ Unspent' /\ JoinsAsInvited' /\ TokenAdmitsOnce'
  BY <1>0 DEF LettersTell, Unspent, JoinsAsInvited, TokenAdmitsOnce
<1> QED BY <1>3, <1>4, <1>5, <1>6, <1>7, <1>8

LEMMA UpsertStep ==
  ASSUME TeamInv, TypeOK', NEW p \in Proc, UpsertInvitation(p)
  PROVE  Offers' /\ JoinsAsInvited' /\ TokenAdmitsOnce'
<1> USE DEF TeamInv, Offers, At
<1> DEFINE t == issued + 1  w == req[p].who
<1>0. /\ t \in Token /\ t # 0 /\ w \in User /\ req[p] \in Request
      /\ issued \in Nat /\ issued' = t
      /\ UNCHANGED <<letter, uses, joined>>
      /\ uses[t] = 0 /\ ~letter[t].sent
  BY TeamAssumption, SMTT(60) DEF UpsertInvitation, TypeOK, Token, Request, TokensIssued
<1>1. /\ \A e \in User : inv'[e] = IF e = w THEN Issued(req[p].role, t) ELSE inv[e]
      /\ \A q \in Proc : req'[q] = IF q = p
                                   THEN [req[p] EXCEPT !.stage = "email", !.fresh = t]
                                   ELSE req[q]
  BY <1>0 DEF UpsertInvitation, TypeOK
<1>2. /\ inv'[w].token = t /\ inv'[w].role = req[p].role /\ inv'[w].status = "PENDING"
      /\ req'[p].op = "create" /\ req'[p].stage = "email" /\ req'[p].fresh = t
      /\ req'[p].who = w /\ req'[p].role = req[p].role
  <2>1. inv'[w] = Issued(req[p].role, t)
    BY <1>0, <1>1
  <2>2. req'[p] = [req[p] EXCEPT !.stage = "email", !.fresh = t] /\ req[p].op = "create"
    BY <1>1 DEF UpsertInvitation
  <2> QED BY <1>0, <2>1, <2>2 DEF Issued, Request
<1>3. /\ \A e \in User : inv[e].token <= issued /\ inv[e].token \in Nat
      /\ \A q \in Proc : req[q].fresh <= issued /\ req[q].fresh \in Nat
  BY DEF TokensIssued, TypeOK, Request, Invitation, Token
<1>4. TokensIssued'
  BY <1>0, <1>1, <1>2, <1>3 DEF TokensIssued, Token
<1>5. TokensApart'
  BY <1>0, <1>1, <1>2, <1>3 DEF TokensApart
<1>6. CreateWillTell'
  BY <1>0, <1>1, <1>2, <1>3 DEF CreateWillTell
<1>7. ResendKnows'
  <2> SUFFICES ASSUME NEW q \in Proc, Resending(q)'
               PROVE  /\ req'[q].seen # 0
                      /\ req'[q].seen <= issued'
                      /\ inv'[req'[q].who].token = req'[q].seen =>
                           inv'[req'[q].who].role = req'[q].role
    BY DEF ResendKnows
  <2>1. q # p /\ req'[q] = req[q] /\ Resending(q)
    BY <1>1, <1>2 DEF Resending
  <2>2. req[q].who \in User /\ req[q].seen \in Nat
    BY DEF TypeOK, Request, Token
  <2>3. req[q].seen # 0 /\ req[q].seen <= issued
        /\ (inv[req[q].who].token = req[q].seen => inv[req[q].who].role = req[q].role)
    BY <2>1 DEF ResendKnows
  <2> QED BY <1>0, <1>1, <1>2, <2>1, <2>2, <2>3
<1>8. ResendTold'
  BY <1>0, <1>1, <1>2, <1>3 DEF ResendTold, Resending, Written
<1>9. LettersTell' /\ Unspent'
  BY <1>0, <1>1, <1>2 DEF LettersTell, Unspent
<1>10. JoinsAsInvited' /\ TokenAdmitsOnce'
  BY <1>0 DEF JoinsAsInvited, TokenAdmitsOnce
<1> QED BY <1>4, <1>5, <1>6, <1>7, <1>8, <1>9, <1>10

LEMMA JoinedHaveLetters ==
  ASSUME TypeOK, JoinsAsInvited
  PROVE  \A j \in joined : j.token \in Token /\ letter[j.token].sent
<1> SUFFICES ASSUME NEW j \in joined
             PROVE  j.token \in Token /\ letter[j.token].sent
  OBVIOUS
<1>1. j \in Joining
  BY DEF TypeOK
<1>2. letter[j.token] = [sent |-> TRUE, to |-> j.user, role |-> j.role]
  BY DEF JoinsAsInvited
<1> QED BY <1>1, <1>2 DEF Joining

LEMMA MailCreatedStep ==
  ASSUME TeamInv, NEW p \in Proc, MailCreated(p)
  PROVE  Offers' /\ JoinsAsInvited' /\ TokenAdmitsOnce'
<1> USE DEF TeamInv, Offers, At
<1> DEFINE t == req[p].fresh
<1>0. /\ UNCHANGED <<inv, issued, uses, joined>>
      /\ req[p] \in Request /\ t \in Token /\ t # 0 /\ ~letter[t].sent /\ t <= issued
  BY DEF MailCreated, TypeOK, CreateWillTell, Request, TokensIssued
<1>1. \A q \in Proc : req'[q] = IF q = p THEN Idle ELSE req[q]
  BY RequestReturns DEF MailCreated
<1>2. /\ \A s \in Token : s # t => letter'[s] = letter[s]
      /\ letter'[t] = Written(p)
  BY <1>0 DEF MailCreated, TypeOK
<1>3. Idle.fresh = 0 /\ Idle.op = "create" /\ Idle.stage = "idle"
  BY DEF Idle
<1>4. \A q \in Proc : q # p => req[q].fresh # t
  BY <1>0 DEF TokensApart
<1>5. TokensIssued'
  BY <1>0, <1>1, <1>2, <1>3 DEF TokensIssued, TypeOK, Token
<1>6. TokensApart'
  BY <1>0, <1>1, <1>3 DEF TokensApart
<1>7. CreateWillTell'
  <2>1. \A q \in Proc : req[q].fresh \in Token \cup {0}
    BY DEF TypeOK, Request
  <2> QED BY <1>0, <1>1, <1>2, <1>3, <1>4, <2>1 DEF CreateWillTell
<1>8. ResendKnows'
  BY <1>0, <1>1, <1>3 DEF ResendKnows, Resending
<1>9. ResendTold'
  <2>1. \A q \in Proc : req[q].fresh \in Token \cup {0}
    BY DEF TypeOK, Request
  <2> QED BY <1>0, <1>1, <1>2, <1>3, <1>4, <2>1 DEF ResendTold, Resending, Written
<1>10. LettersTell'
  <2> SUFFICES ASSUME NEW e \in User, inv[e].token # 0, letter'[inv[e].token].sent
               PROVE  letter'[inv[e].token]
                        = [sent |-> TRUE, to |-> e, role |-> inv[e].role]
    BY <1>0 DEF LettersTell
  <2>1. inv[e].token \in Token
    BY DEF TypeOK, Invitation
  <2>2. CASE inv[e].token = t
    <3>1. e = req[p].who /\ inv[e].role = req[p].role
      BY <2>2 DEF CreateWillTell, MailCreated
    <3> QED BY <1>2, <2>2, <3>1 DEF Written
  <2>3. CASE inv[e].token # t
    BY <1>2, <2>1, <2>3 DEF LettersTell
  <2> QED BY <2>2, <2>3
<1>11. Unspent' /\ TokenAdmitsOnce'
  BY <1>0 DEF Unspent, TokenAdmitsOnce
<1>12. JoinsAsInvited'
  <2>1. \A j \in joined : j.token \in Token /\ letter[j.token].sent
    BY JoinedHaveLetters
  <2> QED BY <1>0, <1>2, <2>1 DEF JoinsAsInvited
<1> QED BY <1>5, <1>6, <1>7, <1>8, <1>9, <1>10, <1>11, <1>12

LEMMA MailResentStep ==
  ASSUME TeamInv, NEW p \in Proc, MailResent(p)
  PROVE  Offers' /\ JoinsAsInvited' /\ TokenAdmitsOnce'
<1> USE DEF TeamInv, Offers, At
<1> DEFINE t == issued + 1
<1>0. /\ t \in Token /\ t # 0 /\ req[p] \in Request
      /\ issued \in Nat /\ issued' = t
      /\ UNCHANGED <<inv, uses, joined>>
      /\ uses[t] = 0 /\ ~letter[t].sent
  BY TeamAssumption DEF MailResent, TypeOK, Token, TokensIssued
<1>1. /\ \A s \in Token : s # t => letter'[s] = letter[s]
      /\ letter'[t] = Written(p)
  BY <1>0 DEF MailResent, TypeOK
<1>2. /\ \A q \in Proc : q # p => req'[q] = req[q]
      /\ req'[p].op = "resend" /\ req'[p].stage = "swap" /\ req'[p].fresh = t
      /\ req'[p].who = req[p].who /\ req'[p].role = req[p].role
      /\ req'[p].seen = req[p].seen
  <2>1. req'[p] = [req[p] EXCEPT !.stage = "swap", !.fresh = t] /\ req[p].op = "resend"
    BY DEF MailResent, TypeOK
  <2> QED BY <1>0, <2>1 DEF MailResent, TypeOK, Request
<1>3. /\ \A e \in User : inv[e].token <= issued /\ inv[e].token \in Token \cup {0}
      /\ \A q \in Proc : req[q].fresh <= issued /\ req[q].fresh \in Token \cup {0}
  BY DEF TokensIssued, TypeOK, Request, Invitation
<1>4. TokensIssued'
  BY <1>0, <1>1, <1>2, <1>3 DEF TokensIssued, Token
<1>5. TokensApart'
  BY <1>0, <1>2, <1>3 DEF TokensApart, Token
<1>6. CreateWillTell'
  BY <1>0, <1>1, <1>2, <1>3 DEF CreateWillTell
<1>7. ResendKnows'
  <2>1. Resending(p)
    BY DEF MailResent, Resending
  <2>2. req[p].seen # 0 /\ req[p].seen <= issued
        /\ (inv[req[p].who].token = req[p].seen => inv[req[p].who].role = req[p].role)
    BY <2>1 DEF ResendKnows
  <2>3. req[p].seen \in Nat
    BY <1>0 DEF Request, Token
  <2>4. \A q \in Proc : q # p /\ Resending(q)' => Resending(q) /\ req[q].seen \in Nat
    BY <1>2 DEF Resending, TypeOK, Request, Token
  <2> QED BY <1>0, <1>2, <2>2, <2>3, <2>4 DEF ResendKnows
<1>8. ResendTold'
  <2>1. Written(p)' = Written(p)
    BY <1>2 DEF Written
  <2>2. \A q \in Proc : Resending(q)' => /\ Resending(q) /\ req'[q].seen = req[q].seen
                                         /\ req[q].seen \in Nat /\ req[q].seen <= issued
    BY <1>2 DEF Resending, MailResent, ResendKnows, TypeOK, Request, Token
  <2> SUFFICES ASSUME NEW q \in Proc, At(q, "resend", "swap")'
               PROVE  /\ req'[q].fresh # 0
                      /\ letter'[req'[q].fresh] = Written(q)'
                      /\ uses'[req'[q].fresh] = 0
                      /\ \A e \in User : inv'[e].token # req'[q].fresh
                      /\ \A r \in Proc : Resending(r)' => req'[r].seen # req'[q].fresh
    BY DEF ResendTold
  <2>3. CASE q = p
    BY <1>0, <1>1, <1>2, <1>3, <2>1, <2>2, <2>3
  <2>4. CASE q # p
    <3>1. At(q, "resend", "swap") /\ Written(q)' = Written(q)
      BY <1>2, <2>4 DEF Written
    <3>2. req[q].fresh \in Token /\ req[q].fresh # t
      BY <1>0, <1>3, <3>1 DEF ResendTold
    <3> QED BY <1>0, <1>1, <1>2, <2>2, <2>4, <3>1, <3>2 DEF ResendTold
  <2> QED BY <2>3, <2>4
<1>9. LettersTell'
  BY <1>0, <1>1, <1>3 DEF LettersTell
<1>10. Unspent' /\ TokenAdmitsOnce'
  BY <1>0 DEF Unspent, TokenAdmitsOnce
<1>11. JoinsAsInvited'
  <2>1. \A j \in joined : j.token \in Token /\ letter[j.token].sent
    BY JoinedHaveLetters
  <2> QED BY <1>0, <1>1, <2>1 DEF JoinsAsInvited
<1> QED BY <1>4, <1>5, <1>6, <1>7, <1>8, <1>9, <1>10, <1>11

LEMMA SwapStep ==
  ASSUME TeamInv, NEW p \in Proc, SwapToken(p)
  PROVE  Offers' /\ JoinsAsInvited' /\ TokenAdmitsOnce'
<1> USE DEF TeamInv, Offers, At
<1> DEFINE t == req[p].fresh  w == req[p].who
<1>0. /\ UNCHANGED <<letter, issued, uses, joined>>
      /\ req[p] \in Request /\ w \in User /\ t \in Token /\ t # 0 /\ t <= issued
      /\ letter[t] = Written(p) /\ uses[t] = 0
      /\ \A e \in User : inv[e].token # t
  BY DEF SwapToken, TypeOK, ResendTold, Request, TokensIssued
<1>1. inv[w].role = req[p].role
  BY DEF SwapToken, StillAsRead, ResendKnows, Resending
<1>2. \A q \in Proc : req'[q] = IF q = p THEN Idle ELSE req[q]
  BY RequestReturns DEF SwapToken
<1>3. \A e \in User : inv'[e] = IF e = w THEN Issued(inv[w].role, t) ELSE inv[e]
  BY <1>0 DEF SwapToken, TypeOK
<1>4. inv'[w].token = t /\ inv'[w].role = inv[w].role /\ inv'[w].status = "PENDING"
  BY <1>0, <1>3 DEF Issued
<1>5. Idle.fresh = 0 /\ Idle.op = "create" /\ Idle.stage = "idle"
  BY DEF Idle
<1>6. \A q \in Proc : q # p => req[q].fresh # t
  BY <1>0 DEF TokensApart
<1>7. TokensIssued'
  BY <1>0, <1>2, <1>3, <1>4, <1>5 DEF TokensIssued, TypeOK, Token
<1>8. TokensApart'
  BY <1>0, <1>2, <1>3, <1>4, <1>5 DEF TokensApart
<1>9. CreateWillTell'
  BY <1>0, <1>2, <1>3, <1>4, <1>5, <1>6 DEF CreateWillTell
<1>10. ResendKnows'
  <2>1. \A q \in Proc : Resending(q)' => req'[q] = req[q] /\ Resending(q)
                                         /\ req[q].who \in User
    BY <1>2, <1>5 DEF Resending, TypeOK, Request
  <2>2. \A e \in User : inv'[e].role = inv[e].role
    BY <1>3, <1>4
  <2>3. \A q \in Proc : Resending(q) => req[q].seen # t
    BY DEF ResendTold, SwapToken
  <2>4. \A q \in Proc : Resending(q) =>
          (inv'[req[q].who].token = req[q].seen => inv'[req[q].who].role = req[q].role)
    BY <1>3, <1>4, <2>2, <2>3 DEF ResendKnows, TypeOK, Request
  <2> QED BY <1>0, <2>1, <2>4 DEF ResendKnows
<1>11. ResendTold'
  BY <1>0, <1>2, <1>3, <1>4, <1>5, <1>6 DEF ResendTold, Resending, Written
<1>12. LettersTell'
  BY <1>0, <1>1, <1>3, <1>4 DEF LettersTell, Written
<1>13. Unspent' /\ TokenAdmitsOnce' /\ JoinsAsInvited'
  BY <1>0, <1>3, <1>4 DEF Unspent, TokenAdmitsOnce, JoinsAsInvited
<1> QED BY <1>7, <1>8, <1>9, <1>10, <1>11, <1>12, <1>13

LEMMA AcceptStep ==
  ASSUME TeamInv, NEW u \in User, NEW t \in Token, Accept(u, t)
  PROVE  Offers' /\ JoinsAsInvited' /\ TokenAdmitsOnce'
<1> USE DEF TeamInv, Offers, At
<1>0. /\ UNCHANGED <<req, issued, letter>>
      /\ t # 0 /\ inv[u] \in Invitation /\ inv[u].token = t
      /\ inv[u].status = "PENDING" /\ letter[t].sent
  BY DEF Accept, Open, TypeOK, Token
<1>1. /\ \A e \in User : e # u => inv'[e] = inv[e]
      /\ inv'[u].token = t /\ inv'[u].role = inv[u].role /\ inv'[u].status = "ACCEPTED"
  BY <1>0 DEF Accept, Consumed, TypeOK, Invitation
<1>2. /\ uses[t] = 0 /\ uses'[t] = 1
      /\ \A s \in Token : s # t => uses'[s] = uses[s]
  BY <1>0 DEF Accept, Unspent, TypeOK
<1>3. \A e \in User : inv[e].token = t => e = u
  BY <1>0 DEF TokensApart
<1>4. t <= issued
  BY <1>0 DEF TokensIssued
<1>5. TokensIssued'
  BY <1>0, <1>1, <1>2, <1>4 DEF TokensIssued, TypeOK, Token
<1>6. TokensApart'
  BY <1>0, <1>1 DEF TokensApart
<1>7. CreateWillTell'
  BY <1>0, <1>1 DEF CreateWillTell
<1>8. ResendKnows'
  <2>1. \A q \in Proc : req[q].who \in User
    BY DEF TypeOK, Request
  <2> QED BY <1>0, <1>1, <2>1 DEF ResendKnows, Resending
<1>9. ResendTold'
  <2>1. \A q \in Proc : At(q, "resend", "swap") => req[q].fresh # t
    BY <1>0 DEF ResendTold
  <2>2. \A q \in Proc : req[q].fresh \in Token \cup {0}
    BY DEF TypeOK, Request
  <2> QED BY <1>0, <1>1, <1>2, <2>1, <2>2 DEF ResendTold, Resending, Written
<1>10. LettersTell'
  BY <1>0, <1>1 DEF LettersTell
<1>11. Unspent'
  <2>1. \A e \in User : inv[e].token \in Token \cup {0}
    BY DEF TypeOK, Invitation
  <2> QED BY <1>0, <1>1, <1>2, <1>3, <2>1 DEF Unspent
<1>12. TokenAdmitsOnce'
  BY <1>2 DEF TokenAdmitsOnce
<1>13. JoinsAsInvited'
  <2>1. letter[t] = [sent |-> TRUE, to |-> u, role |-> inv[u].role]
    BY <1>0 DEF LettersTell
  <2>2. joined' = joined \cup {[user |-> u, token |-> t, role |-> inv[u].role]}
    BY DEF Accept
  <2>3. \A j \in joined : letter'[j.token]
                            = [sent |-> TRUE, to |-> j.user, role |-> j.role]
    BY <1>0 DEF JoinsAsInvited
  <2> DEFINE k == [user |-> u, token |-> t, role |-> inv[u].role]
  <2>4. letter'[k.token] = [sent |-> TRUE, to |-> k.user, role |-> k.role]
    BY <1>0, <2>1
  <2>5. \A j \in joined' : j \in joined \/ j = k
    BY <2>2
  <2> HIDE DEF k
  <2> QED BY <2>3, <2>4, <2>5 DEF JoinsAsInvited
<1> QED BY <1>5, <1>6, <1>7, <1>8, <1>9, <1>10, <1>11, <1>12, <1>13

LEMMA DeleteStep ==
  ASSUME TeamInv, NEW u \in User, DeleteAccount(u)
  PROVE  Offers' /\ JoinsAsInvited' /\ TokenAdmitsOnce'
<1> USE DEF TeamInv
<1>1. CASE u # Founder
  <2>1. RowsKept /\ req' = req
    BY <1>1 DEF DeleteAccount, RowsKept
  <2> QED BY <2>1, KeptStep
<1>2. CASE u = Founder
  <2> USE DEF Offers, At
  <2>1. /\ UNCHANGED <<req, issued, letter, uses, joined>>
        /\ \A e \in User : inv'[e].token = 0 /\ inv'[e].status = "NONE"
    BY <1>2 DEF DeleteAccount, NoInvitation
  <2>2. (\A q \in Proc : req[q].who \in User) /\ issued \in Nat
    BY TeamAssumption DEF TypeOK, Request
  <2>3. TokensIssued'
    <3>1. \A e \in User : inv'[e].token <= issued
      BY <2>1, <2>2
    <3> QED BY <2>1, <3>1 DEF TokensIssued
  <2>4. TokensApart'
    BY <2>1 DEF TokensApart
  <2>5. CreateWillTell' /\ ResendTold'
    BY <2>1 DEF CreateWillTell, ResendTold, Resending, Written
  <2>6. ResendKnows'
    BY <2>1, <2>2 DEF ResendKnows, Resending
  <2>7. LettersTell' /\ Unspent' /\ JoinsAsInvited' /\ TokenAdmitsOnce'
    BY <2>1 DEF LettersTell, Unspent, JoinsAsInvited, TokenAdmitsOnce
  <2> QED BY <2>3, <2>4, <2>5, <2>6, <2>7
<1> QED BY <1>1, <1>2

LEMMA HandleStep ==
  ASSUME TeamInv, TypeOK', NEW p \in Proc, Handle(p)
  PROVE  Offers' /\ JoinsAsInvited' /\ TokenAdmitsOnce'
<1> USE DEF TeamInv
<1>0. Idle.fresh = 0 /\ Idle.op = "create" /\ Idle.stage = "idle"
  BY DEF Idle
<1>1. CASE Arrive(p)
  <2>1. PICK who \in User, role \in Role, op \in Operation,
             stage \in {"read", "check", "apply"}, seen \in Token \cup {0} :
             /\ op = "resend" => stage = "read"
             /\ Starts(p, op, stage, who, role, seen)
    BY <1>1, TeamAssumption DEF Arrive, Operation, TypeOK, Membership
  <2>2. \A q \in Proc : req'[q] = req[q] \/ Settled(q)'
    BY <2>1, RequestStarts DEF Settled, Resending, At
  <2>3. RowsKept
    BY <1>1 DEF Arrive, RowsKept
  <2> QED BY <2>2, <2>3, KeptStep
<1>2. CASE Fails(p) \/ UpdateMemberRole(p) \/ RemoveMember(p)
  <2>1. RowsKept
    BY <1>2 DEF Fails, UpdateMemberRole, RemoveMember, RowsKept
  <2>2. \A q \in Proc : req'[q] = req[q] \/ req'[q] = Idle
    BY <1>2, RequestReturns, RequestCommits DEF Fails, UpdateMemberRole, RemoveMember
  <2>3. \A q \in Proc : req'[q] = req[q] \/ Settled(q)'
    BY <1>0, <2>2 DEF Settled, Resending, At
  <2> QED BY <2>1, <2>3, KeptStep
<1>4. CASE CountAdmins(p)
  <2>1. RowsKept /\ UNCHANGED inv
    BY <1>4 DEF CountAdmins, RowsKept
  <2>2. /\ \A q \in Proc : q # p => req'[q] = req[q]
        /\ req'[p].op = req[p].op /\ req'[p].fresh = req[p].fresh
        /\ req'[p].stage = "commit" /\ req[p].op \in {"setRole", "remove"}
    BY <1>4 DEF CountAdmins, Goes, At, TypeOK, Request
  <2> QED BY <2>1, <2>2, UncountedStep
<1>3. CASE Revoke(p)
  <2>1. req[p].who \in User /\ inv[req[p].who] \in Invitation
    BY DEF TypeOK, Request
  <2>2. RowsKept
    BY <1>3, <2>1 DEF Revoke, RowsKept, Open, TypeOK, Invitation
  <2>3. \A q \in Proc : req'[q] = req[q] \/ Settled(q)'
    BY <1>0, <1>3, RequestReturns DEF Revoke, Settled, Resending, At
  <2> QED BY <2>2, <2>3, KeptStep
<1> QED BY <1>1, <1>2, <1>3, <1>4, ReadStep, UpsertStep, MailCreatedStep, MailResentStep,
           SwapStep DEF Handle

LEMMA PeopleStep ==
  ASSUME TeamInv,
         \/ \E u \in User, t \in Token : Accept(u, t)
         \/ \E u \in User : Lapse(u) \/ Preview(u) \/ Register(u) \/ DeleteAccount(u)
         \/ ListTeam
  PROVE  Offers' /\ JoinsAsInvited' /\ TokenAdmitsOnce'
<1> USE DEF TeamInv
<1>1. ASSUME NEW u \in User, Lapse(u) \/ Preview(u) \/ Register(u)
      PROVE  RowsKept /\ req' = req
  <2>1. inv[u] \in Invitation
    BY DEF TypeOK
  <2>2. CASE Lapse(u)
    BY <2>1, <2>2 DEF Lapse, RowsKept, TypeOK, Invitation
  <2>3. CASE Preview(u)
    <3>1. \A e \in User : inv'[e] = IF e = u THEN Noted(inv[u]) ELSE inv[e]
      BY <2>3 DEF Preview, TypeOK
    <3> QED BY <2>1, <2>3, <3>1, NotedIsInvitation DEF Preview, RowsKept
  <2>4. CASE Register(u)
    BY <2>4 DEF Register, RowsKept
  <2> QED BY <1>1, <2>2, <2>3, <2>4
<1>2. CASE ListTeam
  <2>1. \A e \in User : inv'[e] = Noted(inv[e]) /\ inv[e] \in Invitation
    BY <1>2 DEF ListTeam, TypeOK
  <2>2. RowsKept /\ req' = req
    BY <1>2, <2>1, NotedIsInvitation DEF ListTeam, RowsKept
  <2> QED BY <2>2, KeptStep
<1> QED BY <1>1, <1>2, KeptStep, AcceptStep, DeleteStep

LEMMA InitOffers == Init => TeamInv
<1> SUFFICES ASSUME Init PROVE TeamInv
  OBVIOUS
<1>1. TypeOK
  BY InitTypes
<1>2. Offers
  BY TeamAssumption DEF Init, Offers, TokensIssued, TokensApart, CreateWillTell, ResendKnows,
     ResendTold, LettersTell, Unspent, Resending, At, Idle, NoLetter, NoInvitation
<1>3. JoinsAsInvited /\ TokenAdmitsOnce
  BY DEF Init, JoinsAsInvited, TokenAdmitsOnce
<1> QED BY <1>1, <1>2, <1>3 DEF TeamInv

LEMMA TeamInvHolds == Spec => []TeamInv
<1>1. TeamInv /\ [Next]_vars => TeamInv'
  <2> SUFFICES ASSUME TeamInv, [Next]_vars PROVE TeamInv'
    OBVIOUS
  <2>1. CASE UNCHANGED vars
    BY <2>1 DEF vars, TeamInv, TypeOK, Offers, TokensIssued, TokensApart, CreateWillTell,
       ResendKnows, ResendTold, LettersTell, Unspent, Resending, At, Written,
       JoinsAsInvited, TokenAdmitsOnce
  <2>2. CASE Next
    <3>1. TypeOK'
      BY <2>2, HandleTypes, PeopleTypes DEF Next, TeamInv
    <3> QED BY <2>2, <3>1, HandleStep, PeopleStep DEF Next, TeamInv
  <2> QED BY <2>1, <2>2
<1> QED BY <1>1, InitOffers, PTL DEF Spec

\* Everyone who joins has the role that the email of their link announced,
\* however invitations, new sendings, revocations and acceptances interleave.
THEOREM JoinedAsInvited == Spec => []JoinsAsInvited
<1>1. TeamInv => JoinsAsInvited
  BY DEF TeamInv
<1> QED BY <1>1, TeamInvHolds, PTL

\* A link admits at most one person, at most once.
THEOREM LinkAdmitsOnce == Spec => []TokenAdmitsOnce
<1>1. TeamInv => TokenAdmitsOnce
  BY DEF TeamInv
<1> QED BY <1>1, TeamInvHolds, PTL

-----------------------------------------------------------------------------
(* Administrators.                                                         *)

\* What a transaction that is about to commit has counted: the others who
\* administer, of whom only the deletion of an account has taken anybody.
CountHolds(p) ==
    req[p].stage = "commit" =>
        /\ req[p].op \in {"setRole", "remove"}
        /\ snap[p].row.active
        /\ TakesAdmin(p, snap[p].row) => snap[p].counted # {}
        /\ req[p].who \notin snap[p].counted
        /\ founded => snap[p].counted \subseteq Admins \cup snap[p].gone

CountInv == TypeOK /\ \A p \in Proc : CountHolds(p)

\* A request that a step leaves alone keeps its count, if no administrator
\* it has counted loses the role.
LEMMA CountKept ==
  ASSUME CountInv, NEW q \in Proc, req'[q] = req[q], snap'[q] = snap[q],
         founded' => founded, Admins \cap snap[q].counted \subseteq Admins'
  PROVE  CountHolds(q)'
  BY DEF CountInv, CountHolds, TakesAdmin

LEMMA CommitKeepsCounts ==
  ASSUME CountInv, NEW p \in Proc, UpdateMemberRole(p) \/ RemoveMember(p), NEW q \in Proc
  PROVE  CountHolds(q)'
<1>0. /\ req[p].who \in User /\ req[p].stage = "commit" /\ TypeOK
      /\ founded' = founded /\ member[req[p].who] = snap[p].row
      /\ Commits(p)
  BY DEF CountInv, TypeOK, Request, UpdateMemberRole, RemoveMember, At
<1>1. CASE req'[q] = Idle
  BY <1>1 DEF CountHolds, Idle
<1>2. CASE req[q].stage # "commit" /\ req'[q] = req[q]
  BY <1>2 DEF CountHolds
<1>3. CASE req[q].stage = "commit" /\ req'[q] = req[q] /\ snap'[q] = snap[q] /\ ~Aborts(p, q)
  <2>1. ASSUME NEW v \in Admins \cap snap[q].counted, v \notin Admins'
        PROVE  FALSE
    <3>1. v \in User /\ member[v].active /\ member[v].role = ADMIN
      BY <2>1 DEF Admins
    <3>2. v = req[p].who
      <4>1. v # req[p].who => member'[v] = member[v]
        BY <1>0, <3>1 DEF UpdateMemberRole, RemoveMember, TypeOK
      <4> QED BY <2>1, <3>1, <4>1 DEF Admins
    <3>3. TakesAdmin(p, snap[p].row)
      <4>1. CASE RemoveMember(p)
        BY <1>0, <3>1, <3>2, <4>1 DEF RemoveMember, At, TakesAdmin
      <4>2. CASE UpdateMemberRole(p)
        <5>1. member'[v].active = member[v].active /\ member'[v].role = req[p].role
          BY <1>0, <3>2, <4>2 DEF UpdateMemberRole, TypeOK, Membership
        <5>2. req[p].role # ADMIN
          BY <2>1, <3>1, <5>1 DEF Admins
        <5> QED BY <1>0, <3>1, <3>2, <5>2 DEF TakesAdmin
      <4> QED BY <4>1, <4>2
    <3>4. snap[p].counted # {}
      BY <1>0, <3>3 DEF CountInv, CountHolds
    <3> QED BY <1>3, <2>1, <3>4 DEF Aborts
  <2> QED BY <1>0, <1>3, <2>1, CountKept
<1> QED BY <1>0, <1>1, <1>2, <1>3, RequestCommits

LEMMA CountInvHolds == Spec => []CountInv
<1>1. Init => CountInv
  BY InitTypes DEF Init, CountInv, CountHolds, Idle
<1>2. CountInv /\ [Next]_vars => CountInv'
  <2> SUFFICES ASSUME CountInv, [Next]_vars, NEW q \in Proc PROVE CountHolds(q)'
    BY HandleTypes, PeopleTypes DEF CountInv, Next, vars, TypeOK
  <2> USE DEF CountInv
  <2>1. ASSUME UNCHANGED <<founded, member>>, req'[q] = req[q], snap'[q] = snap[q]
        PROVE  CountHolds(q)'
    BY <2>1, CountKept DEF Admins
  <2>2. ASSUME UNCHANGED <<founded, member>>, req'[q].stage # "commit"
        PROVE  CountHolds(q)'
    BY <2>2 DEF CountHolds
  <2>3. ASSUME NEW p \in Proc, Handle(p)
        PROVE  CountHolds(q)'
    <3>1. CASE UpdateMemberRole(p) \/ RemoveMember(p)
      BY <3>1, CommitKeepsCounts
    <3>2. CASE CountAdmins(p)
      <4>0. req[p] \in Request /\ req[p].who \in User
        BY DEF TypeOK, Request
      <4>1. CASE q # p
        BY <2>1, <3>2, <4>1 DEF CountAdmins, Goes, TypeOK
      <4>2. CASE q = p
        <5> DEFINE n == [row |-> member[req[p].who],
                         counted |-> IF TakesAdmin(p, member[req[p].who])
                                     THEN OtherAdmins(req[p].who) ELSE {},
                         gone |-> {}]
        <5>1. snap'[p] = n /\ req'[p] = [req[p] EXCEPT !.stage = "commit"] /\ Found(p)
              /\ req[p].op \in {"setRole", "remove"} /\ UNCHANGED <<founded, member>>
              /\ (TakesAdmin(p, member[req[p].who]) => n.counted # {})
          BY <3>2 DEF CountAdmins, Goes, At, TypeOK
        <5>2. /\ req'[p].op = req[p].op /\ req'[p].who = req[p].who /\ req'[p].role = req[p].role
          BY <4>0, <5>1 DEF Request
        <5>3. /\ n.counted \subseteq Admins \ {req[p].who} /\ n.row = member[req[p].who]
          BY DEF OtherAdmins
        <5>4. Admins' = Admins /\ TakesAdmin(p, n.row)' = TakesAdmin(p, n.row)
          BY <5>1, <5>2 DEF Admins, TakesAdmin
        <5>5. n.row.active
          BY <5>1, <5>3 DEF Found
        <5> HIDE DEF n
        <5> QED BY <4>2, <5>1, <5>2, <5>3, <5>4, <5>5 DEF CountHolds, TakesAdmin
      <4> QED BY <4>1, <4>2
    <3>3. CASE Arrive(p)
      <4>1. PICK who \in User, role \in Role, op \in Operation,
                 stage \in {"read", "check", "apply"}, seen \in Token \cup {0} :
                 Starts(p, op, stage, who, role, seen)
        BY <3>3, TeamAssumption DEF Arrive, Operation, TypeOK, Membership
      <4>2. req'[q] = req[q] \/ req'[q].stage # "commit"
        BY <4>1 DEF Starts, TypeOK
      <4> QED BY <2>1, <2>2, <3>3, <4>2 DEF Arrive
    <3>4. CASE Fails(p)
      <4>1. q = p => req'[q] = Idle
        BY <3>4, RequestReturns DEF Fails
      <4>2. q # p => req'[q] = req[q] /\ snap'[q] = snap[q]
        BY <3>4, RequestReturns DEF Fails, TypeOK
      <4> QED BY <2>1, <2>2, <3>4, <4>1, <4>2 DEF Fails, Idle
    <3>5. CASE \/ ReadInvitation(p) \/ CheckNotMember(p) \/ UpsertInvitation(p)
               \/ MailCreated(p) \/ MailResent(p) \/ SwapToken(p) \/ Revoke(p)
      <4>0. req \in [Proc -> Request]
        BY DEF TypeOK
      <4>1. req'[q] = req[q] \/ req'[q].stage # "commit"
        BY <3>5, <4>0, RequestReturns DEF ReadInvitation, CheckNotMember, UpsertInvitation,
           MailCreated, MailResent, SwapToken, Revoke, Goes, Idle, Request
      <4> QED BY <2>1, <2>2, <3>5, <4>1 DEF ReadInvitation, CheckNotMember,
           UpsertInvitation, MailCreated, MailResent, SwapToken, Revoke
    <3> QED BY <2>3, <3>1, <3>2, <3>3, <3>4, <3>5 DEF Handle
  <2>4. ASSUME NEW u \in User, NEW t \in Token, Accept(u, t)
        PROVE  CountHolds(q)'
    <3>1. \A v \in User : v # u => member'[v] = member[v]
      BY <2>4 DEF Accept, TypeOK
    <3>2. Admins \subseteq Admins'
      BY <2>4, <3>1 DEF Accept, Admins
    <3> QED BY <2>4, <3>2, CountKept DEF Accept
  <2>5. ASSUME NEW u \in User, DeleteAccount(u)
        PROVE  CountHolds(q)'
    <3>1. /\ req' = req /\ snap'[q].row = snap[q].row /\ snap'[q].counted = snap[q].counted
          /\ snap'[q].gone = snap[q].gone \cup ({u} \cap snap[q].counted)
      BY <2>5 DEF DeleteAccount, TypeOK, Snapshot
    <3>2. founded' => founded /\ \A v \in Admins : v # u => v \in Admins'
      BY <2>5 DEF DeleteAccount, Ended, Admins, TypeOK
    <3> QED BY <3>1, <3>2 DEF CountHolds, TakesAdmin
  <2>6. ASSUME NEW u \in User, Lapse(u) \/ Preview(u) \/ Register(u)
        PROVE  CountHolds(q)'
    BY <2>1, <2>6 DEF Lapse, Preview, Register
  <2>7. CASE ListTeam \/ UNCHANGED vars
    BY <2>1, <2>7 DEF ListTeam, vars
  <2> QED BY <2>3, <2>4, <2>5, <2>6, <2>7 DEF Next
<1> QED BY <1>1, <1>2, PTL DEF Spec

\* No change of the team, by any number of administrators acting on each
\* other at once, leaves it without an administrator, unless everybody it has
\* counted had their account deleted before it committed.
THEOREM AdminKept == Spec => TeamKeepsAdmin
<1>1. CountInv /\ [Next]_vars =>
        [Admins # {} /\ Admins' = {} =>
            \/ \E u \in account : u \notin account'
            \/ \E p \in Proc : CountedTheDeleted(p)]_vars
  <2> SUFFICES ASSUME CountInv, Next, Admins # {}, Admins' = {}
               PROVE  \/ \E u \in account : u \notin account'
                      \/ \E p \in Proc : CountedTheDeleted(p)
    BY DEF vars
  <2>0. TypeOK
    BY DEF CountInv
  <2>1. PICK a \in User : member[a].active /\ member[a].role = ADMIN
    BY DEF Admins
  <2>2. \A v \in User : ~(member'[v].active /\ member'[v].role = ADMIN)
    BY DEF Admins
  <2>3. ASSUME NEW p \in Proc, UpdateMemberRole(p) \/ RemoveMember(p)
        PROVE  CountedTheDeleted(p)
    <3>0. /\ req[p].who \in User /\ req[p].stage = "commit" /\ founded
          /\ member[req[p].who] = snap[p].row /\ Commits(p)
      BY <2>0, <2>3 DEF TypeOK, Request, UpdateMemberRole, RemoveMember, At
    <3>1. \A v \in User : v # req[p].who => member'[v] = member[v]
      BY <2>0, <2>3 DEF UpdateMemberRole, RemoveMember, TypeOK
    <3>2. TakesAdmin(p, snap[p].row)
      <4>1. req[p].who = a
        BY <2>1, <2>2, <3>1
      <4>2. CASE RemoveMember(p)
        BY <2>1, <3>0, <4>1, <4>2 DEF RemoveMember, At, TakesAdmin
      <4>3. CASE UpdateMemberRole(p)
        <5>1. member'[a].active = member[a].active /\ member'[a].role = req[p].role
          BY <2>0, <4>1, <4>3 DEF UpdateMemberRole, TypeOK, Membership
        <5>2. req[p].role # ADMIN
          BY <2>1, <2>2, <5>1
        <5> QED BY <2>1, <3>0, <4>1, <5>2 DEF TakesAdmin
      <4> QED BY <2>3, <4>2, <4>3
    <3>3. /\ snap[p].counted # {} /\ req[p].who \notin snap[p].counted
          /\ snap[p].counted \subseteq Admins \cup snap[p].gone
      BY <3>0, <3>2 DEF CountInv, CountHolds
    <3>4. \A v \in snap[p].counted : v \notin Admins
      BY <2>2, <3>1, <3>3 DEF Admins
    <3>5. req'[p] = Idle
      BY <2>0, <3>0, RequestCommits
    <3> QED BY <3>0, <3>3, <3>4, <3>5 DEF CountedTheDeleted
  <2>5. ASSUME NEW u \in User, NEW t \in Token, Accept(u, t)
        PROVE  FALSE
    <3>1. member'[a] = member[a]
      BY <2>0, <2>1, <2>5 DEF Accept, TypeOK
    <3> QED BY <2>1, <2>2, <3>1
  <2>6. ASSUME NEW u \in User, DeleteAccount(u)
        PROVE  \E v \in account : v \notin account'
    BY <2>6 DEF DeleteAccount
  <2>7. CASE member' = member
    BY <2>1, <2>2, <2>7
  <2> QED BY <2>3, <2>5, <2>6, <2>7 DEF Next, Handle, Arrive, Fails, ReadInvitation,
     CheckNotMember, UpsertInvitation, MailCreated, MailResent, SwapToken, Revoke,
     CountAdmins, Lapse, Preview, Register, ListTeam
<1> QED BY <1>1, CountInvHolds, PTL DEF Spec, TeamKeepsAdmin

-----------------------------------------------------------------------------
(* Closed invitations.                                                     *)

Reopens(e) == inv[e].status \in {"REVOKED", "ACCEPTED"} /\ inv'[e].status \in {"PENDING", "EXPIRED"}

\* Noting an expiry opens nothing: an invitation is noted while it is pending.
LEMMA NotedStaysClosed ==
  ASSUME NEW i, i.status \in {"REVOKED", "ACCEPTED"}
  PROVE  Noted(i) = i
BY DEF Noted

\* A revoked or used invitation opens again only by an invitation of its
\* address that is being written now: no new sending, look, acceptance or
\* listing that was under way brings it back.
THEOREM ClosedForGood == Spec => ClosedStaysClosed
<1>1. TypeOK /\ [Next]_vars =>
        [\A e \in User :
           inv[e].status \in {"REVOKED", "ACCEPTED"} /\ inv'[e].status \in {"PENDING", "EXPIRED"}
              => \E p \in Proc : At(p, "create", "write") /\ req[p].who = e]_vars
  <2> SUFFICES ASSUME TypeOK, Next, NEW e \in User, Reopens(e)
               PROVE  \E p \in Proc : At(p, "create", "write") /\ req[p].who = e
    BY DEF vars, Reopens
  <2>1. inv[e] \in Invitation /\ inv'[e] # inv[e]
    BY DEF TypeOK, Reopens
  <2>2. \A p \in Proc : req[p].who \in User
    BY DEF TypeOK, Request
  <2>3. ASSUME NEW p \in Proc, UpsertInvitation(p)
        PROVE  At(p, "create", "write") /\ req[p].who = e
    <3>1. req[p].who # e => inv'[e] = inv[e]
      BY <2>3 DEF UpsertInvitation, TypeOK
    <3> QED BY <2>1, <2>3, <3>1 DEF UpsertInvitation
  <2>4. ASSUME NEW p \in Proc, SwapToken(p)
        PROVE  FALSE
    <3>1. req[p].who = e
      BY <2>1, <2>4 DEF SwapToken, TypeOK
    <3> QED BY <2>4, <3>1 DEF SwapToken, StillAsRead, Reopens
  <2>5. ASSUME NEW p \in Proc, Revoke(p)
        PROVE  FALSE
    <3>1. req[p].who = e
      BY <2>1, <2>5 DEF Revoke, TypeOK
    <3> QED BY <2>5, <3>1 DEF Revoke, Open, Reopens
  <2>6. ASSUME NEW u \in User, NEW t \in Token, Accept(u, t)
        PROVE  FALSE
    <3>1. u = e
      BY <2>1, <2>6 DEF Accept, TypeOK
    <3> QED BY <2>6, <3>1 DEF Accept, Open, Reopens
  <2>7. ASSUME NEW u \in User, Lapse(u)
        PROVE  FALSE
    <3>1. u = e
      BY <2>1, <2>7 DEF Lapse, TypeOK
    <3> QED BY <2>7, <3>1 DEF Lapse, Reopens
  <2>8. ASSUME NEW u \in User, Preview(u)
        PROVE  FALSE
    <3>1. inv'[e] = inv[e] \/ inv'[e] = Noted(inv[e])
      BY <2>8 DEF Preview, TypeOK
    <3> QED BY <2>1, <3>1, NotedStaysClosed DEF Reopens
  <2>9. CASE ListTeam
    <3>1. inv'[e] = Noted(inv[e])
      BY <2>9 DEF ListTeam
    <3> QED BY <2>1, <3>1, NotedStaysClosed DEF Reopens
  <2>10. ASSUME NEW u \in User, DeleteAccount(u)
         PROVE  FALSE
    <3>1. inv'[e] = inv[e] \/ inv'[e] = NoInvitation
      BY <2>10 DEF DeleteAccount
    <3> QED BY <2>1, <3>1 DEF Reopens, NoInvitation
  <2> QED BY <2>1, <2>3, <2>4, <2>5, <2>6, <2>7, <2>8, <2>9, <2>10 DEF Next, Handle, Arrive,
     Fails, ReadInvitation, CheckNotMember, MailCreated, MailResent, CountAdmins,
     UpdateMemberRole, RemoveMember, Register
<1> QED BY <1>1, TypesKept, PTL DEF Spec, ClosedStaysClosed

-----------------------------------------------------------------------------
(* Accounts: one user for an address, nothing left of a deleted one, and   *)
(* passwords replaced by those who checked them.  What a request has found *)
(* is taken at its word only as far as its stage allows (RequestIsSound);  *)
(* a user who is there has an id that was drawn (DrawnIds), so an id drawn *)
(* now has no rows; there are finitely many organizations, so a new one    *)
(* finds an id.                                                            *)

RequestIsSound(r) ==
    /\ r.stage \in {"signed", "compare", "swap", "slug", "create"} => r.id \in Id
    /\ r.stage \in {"insert", "swap"} => r.new.n # 0
    /\ r.stage = "swap" => r.read.n # 0

DrawnIds == \A i \in Id : Accounts!There(i) => i \in aUsed

AccountsInv ==
    /\ Accounts!TypeOK
    /\ Accounts!AddressIsOne /\ Accounts!NothingOfDeleted /\ Accounts!SlugsDiffer
    /\ DrawnIds
    /\ IsFiniteSet(aOrg)
    /\ \A p \in Proc : RequestIsSound(aReq[p])

LEMMA AccountConstants ==
  /\ Accounts!NoHash \in Accounts!Hash /\ Accounts!NoHash.n = 0
  /\ Accounts!Idle \in Accounts!Request /\ Accounts!Idle.stage = "idle"
<1> USE AccountsAssumption
<1>1. Accounts!NoHash \in Accounts!Hash /\ Accounts!NoHash.n = 0
  BY DEF Accounts!NoHash, Accounts!Hash
<1>2. (CHOOSE a \in Address : TRUE) \in Address
  OBVIOUS
<1>3. (CHOOSE s \in Accounts!Slug : TRUE) \in Accounts!Slug
  <2>1. PICK b \in Base : TRUE
    OBVIOUS
  <2>2. <<b, 1>> \in Accounts!Slug
    BY DEF Accounts!Slug
  <2> QED BY <2>2
<1>4. Accounts!NoHash.word \in Word
  BY <1>1 DEF Accounts!Hash
<1> QED BY <1>1, <1>2, <1>3, <1>4 DEF Accounts!Idle, Accounts!Request, Accounts!NoUser

\* A request that goes on as a sound one leaves all of them sound.
LEMMA AccountRequestGoes ==
  ASSUME AccountsInv, NEW p \in Proc, NEW r \in Accounts!Request, RequestIsSound(r),
         aReq' = [aReq EXCEPT ![p] = r]
  PROVE  /\ aReq' \in [Proc -> Accounts!Request]
         /\ \A q \in Proc : RequestIsSound(aReq'[q])
<1>1. aReq \in [Proc -> Accounts!Request]
  BY DEF AccountsInv, Accounts!TypeOK
<1>2. \A q \in Proc : aReq'[q] = IF q = p THEN r ELSE aReq[q]
  BY <1>1
<1> QED BY <1>1, <1>2 DEF AccountsInv

LEMMA AccountRequestEnds ==
  ASSUME AccountsInv, NEW p \in Proc, Accounts!Ends(p)
  PROVE  /\ aReq' \in [Proc -> Accounts!Request]
         /\ \A q \in Proc : RequestIsSound(aReq'[q])
<1>1. Accounts!Idle \in Accounts!Request /\ RequestIsSound(Accounts!Idle)
  BY AccountConstants DEF RequestIsSound
<1> QED BY <1>1, AccountRequestGoes DEF Accounts!Ends

LEMMA UserAtIs ==
  ASSUME NEW a \in Address
  PROVE  /\ Accounts!IsFree(a) <=> \A i \in Id : aUser[i] # a
         /\ ~Accounts!IsFree(a) => Accounts!UserAt(a) \in Id /\ aUser[Accounts!UserAt(a)] = a
         /\ Accounts!UserAt(a) \in Id \cup {Accounts!NoUser}
BY AccountsAssumption DEF Accounts!IsFree, Accounts!UserAt, Accounts!NoUser

\* The organizations have finitely many ids, so one is left.
LEMMA NewOrganizationIs ==
  ASSUME IsFiniteSet(aOrg)
  PROVE  Accounts!NewOrganization \in Nat
<1> DEFINE N == Cardinality(aOrg)  S == {o.id : o \in aOrg}
<1>1. N \in Nat
  BY FS_CardinalityType
<1>2. IsFiniteSet(S) /\ Cardinality(S) <= N
  <2> DEFINE f == [o \in aOrg |-> o.id]
  <2>1. f \in Surjection(aOrg, S)
    BY DEF Surjection
  <2> HIDE DEF f, S
  <2> QED BY <2>1, FS_Surjection
<1>3. \E n \in 1..(N + 1) : \A o \in aOrg : o.id # n
  <2> SUFFICES ASSUME \A n \in 1..(N + 1) : \E o \in aOrg : o.id = n
               PROVE  FALSE
    OBVIOUS
  <2>1. 1..(N + 1) \subseteq S
    OBVIOUS
  <2>2. Cardinality(1..(N + 1)) = N + 1
    BY <1>1, FS_Interval
  <2>3. Cardinality(1..(N + 1)) <= Cardinality(S)
    BY <1>2, <2>1, FS_Subset
  <2>4. Cardinality(S) \in Nat
    BY <1>2, FS_CardinalityType
  <2> HIDE DEF N, S
  <2>5. N + 1 <= Cardinality(S)
    BY <2>2, <2>3
  <2> QED BY <1>1, <1>2, <2>4, <2>5
<1>4. Accounts!Cardinality(aOrg) = N
  BY DEF Accounts!Cardinality, Cardinality
<1> HIDE DEF N
<1>5. \A n \in 1..(N + 1) : n \in Nat
  BY <1>1
<1> QED BY <1>3, <1>4, <1>5 DEF Accounts!NewOrganization

AccountRowsKept == UNCHANGED <<aUser, aUsed, aHash, aGoogle, aOrg>>

LEMMA AccountRowsStay ==
  ASSUME AccountsInv, AccountRowsKept, aSalt' \in 0..MaxSalt, aIssued' \in SUBSET Id,
         aReq' \in [Proc -> Accounts!Request], \A q \in Proc : RequestIsSound(aReq'[q])
  PROVE  AccountsInv'
BY DEF AccountsInv, AccountRowsKept, Accounts!TypeOK, Accounts!AddressIsOne, Accounts!There,
   Accounts!NothingOfDeleted, Accounts!SlugsDiffer, DrawnIds

\* The steps that write no row.
LEMMA AccountLooks ==
  ASSUME AccountsInv, NEW p \in Proc,
         \/ \E a \in Address : Accounts!FindGoogleUser(p, a)
         \/ \E a \in Address, w \in Word : Accounts!Register(p, a, w) \/ Accounts!Login(p, a, w)
         \/ Accounts!ComparePassword(p)
         \/ \E i \in Id : Accounts!Guard(p, i)
         \/ \E w, new \in Word : Accounts!CheckPassword(p, w, new)
         \/ \E b \in Base : Accounts!ChooseSlug(p, b)
         \/ Accounts!TrySlug(p) \/ Accounts!Fails(p)
  PROVE  AccountsInv'
<1> DEFINE Steps == /\ AccountRowsKept
                    /\ aSalt' \in 0..MaxSalt /\ aIssued' \in SUBSET Id
                    /\ aReq' \in [Proc -> Accounts!Request]
                    /\ \A q \in Proc : RequestIsSound(aReq'[q])
<1> SUFFICES Steps
  BY AccountRowsStay
<1>0. /\ Accounts!Idle \in Accounts!Request
      /\ aReq[p] \in Accounts!Request /\ RequestIsSound(aReq[p])
      /\ aSalt \in 0..MaxSalt /\ aIssued \in SUBSET Id /\ aHash \in [Id -> Accounts!Hash]
  BY AccountConstants DEF AccountsInv, Accounts!TypeOK
<1>1. ASSUME NEW a \in Address, Accounts!FindGoogleUser(p, a)
      PROVE  Steps
  <2> DEFINE r == [Accounts!Idle EXCEPT !.stage = "google", !.address = a,
                                        !.id = Accounts!UserAt(a)]
  <2>1. r \in Accounts!Request /\ RequestIsSound(r)
    BY <1>0, UserAtIs DEF Accounts!Request, RequestIsSound
  <2>2. aReq' = [aReq EXCEPT ![p] = r]
    BY <1>1 DEF Accounts!FindGoogleUser, Accounts!Goes
  <2> HIDE DEF r
  <2> QED BY <1>0, <1>1, <2>1, <2>2, AccountRequestGoes DEF Accounts!FindGoogleUser, AccountRowsKept
<1>2. ASSUME NEW a \in Address, NEW w \in Word, Accounts!Register(p, a, w)
      PROVE  Steps
  <2> DEFINE h == [word |-> w, n |-> aSalt + 1]
             r == [Accounts!Idle EXCEPT !.stage = "insert", !.address = a, !.new = h]
  <2>a. aSalt < MaxSalt /\ aSalt' = aSalt + 1
    BY <1>2 DEF Accounts!Register, Accounts!Makes
  <2>0. aSalt + 1 \in 0..MaxSalt /\ aSalt + 1 # 0
    BY <1>0, <2>a, AccountsAssumption
  <2>1. h \in Accounts!Hash /\ h.n # 0 /\ aSalt' \in 0..MaxSalt
    BY <2>0, <2>a DEF Accounts!Hash
  <2>2. aReq' = [aReq EXCEPT ![p] = r]
    BY <1>2 DEF Accounts!Register, Accounts!Goes
  <2> HIDE DEF h
  <2>3. r \in Accounts!Request /\ RequestIsSound(r)
    BY <1>0, <2>1 DEF Accounts!Request, RequestIsSound
  <2> HIDE DEF r
  <2> QED BY <1>0, <1>2, <2>1, <2>2, <2>3, AccountRequestGoes DEF Accounts!Register, AccountRowsKept
<1>3. ASSUME NEW a \in Address, NEW w \in Word, Accounts!Login(p, a, w)
      PROVE  Steps
  <2> DEFINE i == Accounts!UserAt(a)
             r == [Accounts!Idle EXCEPT !.stage = "compare", !.id = i, !.word = w,
                                        !.read = aHash[i]]
  <2>1. i \in Id /\ aHash[i] \in Accounts!Hash
    BY <1>0, <1>3, UserAtIs DEF Accounts!Login
  <2>2. aReq' = [aReq EXCEPT ![p] = r]
    BY <1>3 DEF Accounts!Login, Accounts!Goes
  <2> HIDE DEF i
  <2>3. r \in Accounts!Request /\ RequestIsSound(r)
    BY <1>0, <2>1 DEF Accounts!Request, RequestIsSound
  <2> HIDE DEF r
  <2> QED BY <1>0, <1>3, <2>2, <2>3, AccountRequestGoes DEF Accounts!Login, AccountRowsKept
<1>4. CASE Accounts!ComparePassword(p)
  <2>1. aReq[p].id \in Id
    BY <1>0, <1>4 DEF Accounts!ComparePassword, Accounts!At, RequestIsSound
  <2>2. aIssued' \in SUBSET Id
    BY <1>0, <1>4, <2>1 DEF Accounts!ComparePassword
  <2> QED BY <1>0, <1>4, <2>2, AccountRequestEnds DEF Accounts!ComparePassword, AccountRowsKept
<1>5. ASSUME NEW i \in Id, Accounts!Guard(p, i)
      PROVE  Steps
  <2> DEFINE r == [Accounts!Idle EXCEPT !.stage = "signed", !.id = i]
  <2>1. r \in Accounts!Request /\ RequestIsSound(r)
    BY <1>0 DEF Accounts!Request, RequestIsSound
  <2>2. aReq' = [aReq EXCEPT ![p] = r]
    BY <1>5 DEF Accounts!Guard, Accounts!Goes
  <2> HIDE DEF r
  <2> QED BY <1>0, <1>5, <2>1, <2>2, AccountRequestGoes DEF Accounts!Guard, AccountRowsKept
<1>6. ASSUME NEW w \in Word, NEW new \in Word, Accounts!CheckPassword(p, w, new)
      PROVE  Steps
  <2> DEFINE h == aHash[aReq[p].id]
             m == [word |-> new, n |-> aSalt + 1]
             r == [aReq[p] EXCEPT !.stage = "swap", !.read = h, !.new = m]
  <2>1. aReq[p].id \in Id /\ h \in Accounts!Hash /\ h.n # 0
    BY <1>0, <1>6 DEF Accounts!CheckPassword, Accounts!At, RequestIsSound
  <2>2. m \in Accounts!Hash /\ m.n # 0 /\ aSalt' \in 0..MaxSalt
    BY <1>0, <1>6, AccountsAssumption DEF Accounts!CheckPassword, Accounts!Makes, Accounts!Hash
  <2>3. aReq' = [aReq EXCEPT ![p] = r]
    BY <1>6 DEF Accounts!CheckPassword
  <2> HIDE DEF h, m
  <2>4. r \in Accounts!Request /\ RequestIsSound(r)
    BY <1>0, <2>1, <2>2 DEF Accounts!Request, RequestIsSound
  <2> HIDE DEF r
  <2> QED BY <1>0, <1>6, <2>2, <2>3, <2>4, AccountRequestGoes
          DEF Accounts!CheckPassword, AccountRowsKept
<1>7. ASSUME NEW b \in Base, Accounts!ChooseSlug(p, b)
      PROVE  Steps
  <2> DEFINE s == <<b, 1>>
             r == [aReq[p] EXCEPT !.stage = "slug", !.slug = s]
  <2>1. s \in Accounts!Slug /\ aReq[p].id \in Id
    BY <1>0, <1>7, AccountsAssumption DEF Accounts!ChooseSlug, Accounts!At, RequestIsSound,
       Accounts!Slug
  <2>2. aReq' = [aReq EXCEPT ![p] = r]
    BY <1>7 DEF Accounts!ChooseSlug
  <2> HIDE DEF s
  <2>3. r \in Accounts!Request /\ RequestIsSound(r)
    BY <1>0, <2>1 DEF Accounts!Request, RequestIsSound
  <2> HIDE DEF r
  <2> QED BY <1>0, <1>7, <2>2, <2>3, AccountRequestGoes DEF Accounts!ChooseSlug, AccountRowsKept
<1>8. CASE Accounts!TrySlug(p)
  <2> DEFINE s == aReq[p].slug
             t == <<s[1], s[2] + 1>>
             r == [aReq[p] EXCEPT !.stage = "create"]
             n == [aReq[p] EXCEPT !.slug = t]
  <2>0. aReq[p].stage = "slug" /\ s \in Accounts!Slug
    BY <1>0, <1>8 DEF Accounts!TrySlug, Accounts!At, Accounts!Request
  <2>1. r \in Accounts!Request /\ RequestIsSound(r)
    BY <1>0, <2>0 DEF Accounts!Request, RequestIsSound
  <2>2. ASSUME Accounts!MayTry(s)
        PROVE  n \in Accounts!Request /\ RequestIsSound(n)
    <3>1. t \in Accounts!Slug
      BY <2>0, <2>2, AccountsAssumption DEF Accounts!MayTry, Accounts!Slug
    <3> HIDE DEF t
    <3> QED BY <1>0, <2>0, <3>1 DEF Accounts!Request, RequestIsSound
  <2>3. \/ aReq' = [aReq EXCEPT ![p] = r]
        \/ Accounts!MayTry(s) /\ aReq' = [aReq EXCEPT ![p] = n]
        \/ Accounts!Ends(p)
    BY <1>8 DEF Accounts!TrySlug
  <2> HIDE DEF r, n, s
  <2>4. /\ aReq' \in [Proc -> Accounts!Request]
        /\ \A q \in Proc : RequestIsSound(aReq'[q])
    BY <2>1, <2>2, <2>3, AccountRequestGoes, AccountRequestEnds
  <2> QED BY <1>0, <1>8, <2>4 DEF Accounts!TrySlug, AccountRowsKept
<1>9. CASE Accounts!Fails(p)
  BY <1>0, <1>9, AccountRequestEnds DEF Accounts!Fails, AccountRowsKept
<1> QED BY <1>1, <1>2, <1>3, <1>4, <1>5, <1>6, <1>7, <1>8, <1>9

\* A user is made from an id that was never drawn, for an address that nobody
\* has, with a way to sign in.
LEMMA AccountMade ==
  ASSUME AccountsInv, NEW p \in Proc, NEW i \in Id, NEW a \in Address,
         Accounts!IsFree(a), Accounts!NewId(i), aUser' = [aUser EXCEPT ![i] = a],
         NEW h \in Accounts!Hash, aHash' = [aHash EXCEPT ![i] = h],
         aGoogle' \in SUBSET Id, \A j \in Id \ {i} : j \in aGoogle' <=> j \in aGoogle,
         h.n # 0 \/ i \in aGoogle',
         aIssued' = aIssued \cup {i}, UNCHANGED <<aOrg, aSalt>>, Accounts!Ends(p)
  PROVE  AccountsInv'
<1> USE DEF AccountsInv
<1>0. /\ aReq' \in [Proc -> Accounts!Request]
      /\ \A q \in Proc : RequestIsSound(aReq'[q])
  BY AccountRequestEnds
<1>1. i \notin aUsed /\ aUsed' = aUsed \cup {i} /\ a # Accounts!NoUser
  BY AccountsAssumption DEF Accounts!NewId, Accounts!NoUser
<1>2. ~Accounts!There(i) /\ \A j \in Id : aUser[j] # a
  BY <1>1, UserAtIs DEF DrawnIds
<1>3. /\ \A j \in Id : aUser'[j] = IF j = i THEN a ELSE aUser[j]
      /\ \A j \in Id : aHash'[j] = IF j = i THEN h ELSE aHash[j]
  BY DEF Accounts!TypeOK
<1>4. \A j \in Id : Accounts!There(j)' <=> j = i \/ Accounts!There(j)
  BY <1>1, <1>3 DEF Accounts!There
<1>5. Accounts!TypeOK'
  BY <1>0, <1>1 DEF Accounts!TypeOK
<1>6. Accounts!AddressIsOne'
  <2>1. ASSUME NEW j \in Id, NEW k \in Id, Accounts!There(j)', aUser'[j] = aUser'[k]
        PROVE  j = k
    BY <1>2, <1>3, <1>4, <2>1 DEF Accounts!AddressIsOne
  <2>2. ASSUME NEW j \in Id, Accounts!There(j)'
        PROVE  aHash'[j].n # 0 \/ j \in aGoogle'
    BY <1>3, <1>4, <2>2 DEF Accounts!AddressIsOne
  <2> QED BY <2>1, <2>2 DEF Accounts!AddressIsOne
<1>7. Accounts!NothingOfDeleted'
  <2>1. ASSUME NEW j \in Id, ~Accounts!There(j)'
        PROVE  aHash'[j].n = 0 /\ j \notin aGoogle'
    BY <1>3, <1>4, <2>1 DEF Accounts!NothingOfDeleted
  <2>2. \A o \in aOrg : Accounts!There(o.owner)'
    BY <1>4 DEF Accounts!NothingOfDeleted, Accounts!There
  <2> QED BY <2>1, <2>2 DEF Accounts!NothingOfDeleted
<1>8. Accounts!SlugsDiffer' /\ IsFiniteSet(aOrg)'
  BY DEF Accounts!SlugsDiffer
<1>9. DrawnIds'
  BY <1>1, <1>4 DEF DrawnIds
<1> QED BY <1>0, <1>5, <1>6, <1>7, <1>8, <1>9

LEMMA AccountCreated ==
  ASSUME AccountsInv, NEW p \in Proc, Accounts!CreateUser(p)
  PROVE  AccountsInv'
<1>0. /\ aReq[p] \in Accounts!Request /\ RequestIsSound(aReq[p]) /\ aReq[p].stage = "insert"
      /\ aSalt \in 0..MaxSalt /\ aIssued \in SUBSET Id /\ aGoogle \in SUBSET Id
  BY DEF AccountsInv, Accounts!TypeOK, Accounts!CreateUser, Accounts!At
<1>1. CASE Accounts!IsFree(aReq[p].address)
  <2>1. PICK i \in Id : /\ Accounts!NewId(i)
                        /\ aUser' = [aUser EXCEPT ![i] = aReq[p].address]
                        /\ aHash' = [aHash EXCEPT ![i] = aReq[p].new]
                        /\ aIssued' = aIssued \cup {i}
    BY <1>1 DEF Accounts!CreateUser
  <2>2. aReq[p].address \in Address /\ aReq[p].new \in Accounts!Hash /\ aReq[p].new.n # 0
    BY <1>0 DEF Accounts!Request, RequestIsSound
  <2>3. UNCHANGED <<aGoogle, aOrg, aSalt>> /\ Accounts!Ends(p)
    BY DEF Accounts!CreateUser
  <2> QED BY <1>0, <1>1, <2>1, <2>2, <2>3, AccountMade
<1>2. CASE ~Accounts!IsFree(aReq[p].address)
  BY <1>0, <1>2, AccountRequestEnds, AccountRowsStay DEF Accounts!CreateUser, AccountRowsKept
<1> QED BY <1>1, <1>2

LEMMA AccountOfGoogle ==
  ASSUME AccountsInv, NEW p \in Proc, Accounts!CommitGoogle(p)
  PROVE  AccountsInv'
<1> DEFINE i == aReq[p].id  a == aReq[p].address
<1>0. /\ aReq[p] \in Accounts!Request /\ a \in Address /\ i \in Id \cup {Accounts!NoUser}
      /\ aHash \in [Id -> Accounts!Hash]
      /\ aSalt \in 0..MaxSalt /\ aIssued \in SUBSET Id /\ aGoogle \in SUBSET Id
      /\ Accounts!Ends(p) /\ UNCHANGED <<aHash, aOrg, aSalt>>
  BY DEF AccountsInv, Accounts!TypeOK, Accounts!Request, Accounts!CommitGoogle
<1>1. CASE i = Accounts!NoUser /\ Accounts!IsFree(a)
  <2>1. PICK j \in Id : /\ Accounts!NewId(j)
                        /\ aUser' = [aUser EXCEPT ![j] = a]
                        /\ aGoogle' = aGoogle \cup {j} /\ aIssued' = aIssued \cup {j}
    BY <1>1 DEF Accounts!CommitGoogle
  <2>2. aHash[j] \in Accounts!Hash /\ aHash' = [aHash EXCEPT ![j] = aHash[j]]
    BY <1>0
  <2> HIDE DEF i, a
  <2> QED BY <1>0, <1>1, <2>1, <2>2, AccountMade
<1>2. CASE i # Accounts!NoUser /\ Accounts!There(i)
  <2> USE DEF AccountsInv
  <2>1. i \in Id /\ aGoogle' = aGoogle \cup {i} /\ aIssued' = aIssued \cup {i}
        /\ UNCHANGED <<aUser, aUsed>>
    BY <1>2 DEF Accounts!CommitGoogle, Accounts!There
  <2>2. /\ aReq' \in [Proc -> Accounts!Request]
        /\ \A q \in Proc : RequestIsSound(aReq'[q])
    BY <1>0, AccountRequestEnds
  <2>3. \A j \in Id : Accounts!There(j)' <=> Accounts!There(j)
    BY <2>1 DEF Accounts!There
  <2>4. Accounts!TypeOK'
    BY <1>0, <2>1, <2>2 DEF Accounts!TypeOK
  <2>5. Accounts!AddressIsOne' /\ Accounts!SlugsDiffer' /\ DrawnIds' /\ IsFiniteSet(aOrg)'
    BY <1>0, <2>1, <2>3 DEF Accounts!AddressIsOne, Accounts!SlugsDiffer, DrawnIds
  <2>6. Accounts!NothingOfDeleted'
    BY <1>0, <1>2, <2>1 DEF Accounts!NothingOfDeleted, Accounts!There
  <2> QED BY <2>2, <2>4, <2>5, <2>6
<1>3. CASE /\ ~(i # Accounts!NoUser /\ Accounts!There(i))
           /\ ~(i = Accounts!NoUser /\ Accounts!IsFree(a))
  <2>1. AccountRowsKept /\ aIssued' = aIssued
    BY <1>0, <1>3 DEF Accounts!CommitGoogle, AccountRowsKept
  <2> QED BY <1>0, <2>1, AccountRequestEnds, AccountRowsStay
<1> QED BY <1>1, <1>2, <1>3

\* A password is swapped under the account that checked it: one deleted in
\* between has none, and the password read was one.
LEMMA AccountSwaps ==
  ASSUME AccountsInv, NEW p \in Proc, Accounts!SwapPassword(p)
  PROVE  AccountsInv'
<1> USE DEF AccountsInv
<1> DEFINE i == aReq[p].id
<1>0. /\ aReq[p] \in Accounts!Request /\ RequestIsSound(aReq[p]) /\ aReq[p].stage = "swap"
      /\ i \in Id /\ aReq[p].new.n # 0 /\ aReq[p].read.n # 0 /\ aReq[p].new \in Accounts!Hash
      /\ aSalt \in 0..MaxSalt /\ aIssued \in SUBSET Id
      /\ UNCHANGED <<aUser, aUsed, aGoogle, aOrg, aSalt, aIssued>>
  BY DEF Accounts!TypeOK, Accounts!SwapPassword, Accounts!At, Accounts!Request, RequestIsSound
<1>1. /\ aReq' \in [Proc -> Accounts!Request]
      /\ \A q \in Proc : RequestIsSound(aReq'[q])
  BY AccountRequestEnds DEF Accounts!SwapPassword
<1>2. CASE ~Accounts!IsUnchanged(p)
  BY <1>0, <1>1, <1>2, AccountRowsStay DEF Accounts!SwapPassword, AccountRowsKept
<1>3. CASE Accounts!IsUnchanged(p)
  <2>1. aHash' = [aHash EXCEPT ![i] = aReq[p].new]
    BY <1>3 DEF Accounts!SwapPassword
  <2>2. \A j \in Id : aHash'[j] = IF j = i THEN aReq[p].new ELSE aHash[j]
    BY <2>1 DEF Accounts!TypeOK
  <2>3. Accounts!There(i)
    BY <1>0, <1>3 DEF Accounts!IsUnchanged, Accounts!NothingOfDeleted
  <2>4. \A j \in Id : Accounts!There(j)' <=> Accounts!There(j)
    BY <1>0 DEF Accounts!There
  <2>5. Accounts!TypeOK'
    BY <1>0, <1>1, <2>1 DEF Accounts!TypeOK
  <2>6. Accounts!AddressIsOne' /\ Accounts!SlugsDiffer' /\ DrawnIds' /\ IsFiniteSet(aOrg)'
    BY <1>0, <2>2, <2>4 DEF Accounts!AddressIsOne, Accounts!SlugsDiffer, DrawnIds
  <2>7. Accounts!NothingOfDeleted'
    BY <1>0, <2>2, <2>3 DEF Accounts!NothingOfDeleted, Accounts!There
  <2> QED BY <1>1, <2>5, <2>6, <2>7
<1> QED BY <1>2, <1>3

LEMMA AccountDeleted ==
  ASSUME AccountsInv, NEW p \in Proc, Accounts!DeleteAccount(p)
  PROVE  AccountsInv'
<1> USE DEF AccountsInv
<1> DEFINE i == aReq[p].id
<1>0. /\ i \in Id /\ aSalt \in 0..MaxSalt /\ aIssued \in SUBSET Id
      /\ UNCHANGED <<aUsed, aSalt, aIssued>>
  BY DEF Accounts!TypeOK, Accounts!DeleteAccount, Accounts!At, RequestIsSound
<1>1. /\ aReq' \in [Proc -> Accounts!Request]
      /\ \A q \in Proc : RequestIsSound(aReq'[q])
  BY AccountRequestEnds DEF Accounts!DeleteAccount
<1>2. CASE ~Accounts!There(i)
  BY <1>0, <1>1, <1>2, AccountRowsStay DEF Accounts!DeleteAccount, AccountRowsKept
<1>3. CASE Accounts!There(i)
  <2>1. /\ aOrg' = {o \in aOrg : o.owner # i}
        /\ aUser' = [aUser EXCEPT ![i] = Accounts!NoUser]
        /\ aHash' = [aHash EXCEPT ![i] = Accounts!NoHash]
        /\ aGoogle' = aGoogle \ {i}
    BY <1>3 DEF Accounts!DeleteAccount
  <2>2. /\ \A j \in Id : aUser'[j] = IF j = i THEN Accounts!NoUser ELSE aUser[j]
        /\ \A j \in Id : aHash'[j] = IF j = i THEN Accounts!NoHash ELSE aHash[j]
    BY <2>1 DEF Accounts!TypeOK
  <2>3. \A j : Accounts!There(j)' <=> Accounts!There(j) /\ j # i
    BY <2>2 DEF Accounts!There
  <2>4. Accounts!TypeOK'
    BY <1>0, <1>1, <2>1, AccountConstants DEF Accounts!TypeOK
  <2>5. Accounts!AddressIsOne'
    <3>1. ASSUME NEW j \in Id, NEW k \in Id, Accounts!There(j)', aUser'[j] = aUser'[k]
          PROVE  j = k
      BY <2>2, <2>3, <3>1 DEF Accounts!AddressIsOne, Accounts!There
    <3>2. ASSUME NEW j \in Id, Accounts!There(j)'
          PROVE  aHash'[j].n # 0 \/ j \in aGoogle'
      BY <2>1, <2>2, <2>3, <3>2 DEF Accounts!AddressIsOne
    <3> QED BY <3>1, <3>2 DEF Accounts!AddressIsOne
  <2>6. Accounts!NothingOfDeleted'
    <3>1. ASSUME NEW j \in Id, ~Accounts!There(j)'
          PROVE  aHash'[j].n = 0 /\ j \notin aGoogle'
      BY <2>1, <2>2, <2>3, <3>1, AccountConstants DEF Accounts!NothingOfDeleted
    <3>2. \A o \in aOrg' : Accounts!There(o.owner)'
      BY <2>1, <2>3 DEF Accounts!NothingOfDeleted
    <3> QED BY <3>1, <3>2 DEF Accounts!NothingOfDeleted
  <2>7. Accounts!SlugsDiffer' /\ DrawnIds'
    BY <1>0, <2>1, <2>3 DEF Accounts!SlugsDiffer, DrawnIds
  <2>8. IsFiniteSet(aOrg')
    BY <2>1, FS_Subset
  <2> QED BY <1>1, <2>4, <2>5, <2>6, <2>7, <2>8
<1> QED BY <1>2, <1>3

LEMMA AccountOrganizes ==
  ASSUME AccountsInv, NEW p \in Proc, Accounts!CreateOrganization(p)
  PROVE  AccountsInv'
<1> USE DEF AccountsInv
<1> DEFINE n == Accounts!NewOrganization
           o == [id |-> n, slug |-> aReq[p].slug, owner |-> aReq[p].id, admin |-> aReq[p].id]
<1>0. /\ aReq[p] \in Accounts!Request /\ aReq[p].id \in Id /\ aReq[p].slug \in Accounts!Slug
      /\ aSalt \in 0..MaxSalt /\ aIssued \in SUBSET Id
      /\ UNCHANGED <<aUser, aUsed, aHash, aGoogle, aSalt, aIssued>>
  BY DEF Accounts!TypeOK, Accounts!CreateOrganization, Accounts!At, Accounts!Request,
     RequestIsSound
<1>1. /\ aReq' \in [Proc -> Accounts!Request]
      /\ \A q \in Proc : RequestIsSound(aReq'[q])
  BY AccountRequestEnds DEF Accounts!CreateOrganization
<1>2. CASE ~(Accounts!SlugIsFree(p) /\ Accounts!OwnerIsThere(p))
  BY <1>0, <1>1, <1>2, AccountRowsStay DEF Accounts!CreateOrganization, AccountRowsKept
<1>3. CASE Accounts!SlugIsFree(p) /\ Accounts!OwnerIsThere(p)
  <2>1. aOrg' = aOrg \cup {o}
    BY <1>3 DEF Accounts!CreateOrganization
  <2>2. n \in Nat
    BY NewOrganizationIs
  <2> HIDE DEF n
  <2>3. o \in Accounts!Organization /\ o.owner = aReq[p].id /\ o.slug = aReq[p].slug
    BY <1>0, <2>2 DEF Accounts!Organization
  <2> HIDE DEF o
  <2>4. \A j : Accounts!There(j)' <=> Accounts!There(j)
    BY <1>0 DEF Accounts!There
  <2>5. Accounts!TypeOK'
    BY <1>0, <1>1, <2>1, <2>3 DEF Accounts!TypeOK
  <2>6. Accounts!AddressIsOne' /\ DrawnIds'
    BY <1>0, <2>4 DEF Accounts!AddressIsOne, DrawnIds
  <2>7. Accounts!NothingOfDeleted'
    <3>1. \A q \in aOrg' : Accounts!There(q.owner)
      BY <1>3, <2>1, <2>3 DEF Accounts!OwnerIsThere, Accounts!NothingOfDeleted
    <3> QED BY <1>0, <2>4, <3>1 DEF Accounts!NothingOfDeleted
  <2>8. Accounts!SlugsDiffer'
    BY <1>3, <2>1, <2>3 DEF Accounts!SlugsDiffer, Accounts!SlugIsFree
  <2>9. IsFiniteSet(aOrg')
    BY <2>1, FS_AddElement
  <2> QED BY <1>1, <2>5, <2>6, <2>7, <2>8, <2>9
<1> QED BY <1>2, <1>3

LEMMA AccountsStart == MCInit => AccountsInv
<1> SUFFICES ASSUME Accounts!Init PROVE AccountsInv
  BY DEF MCInit
<1>1. Accounts!TypeOK
  BY AccountConstants, AccountsAssumption DEF Accounts!Init, Accounts!TypeOK, Accounts!NoUser
<1>2. \A i : ~Accounts!There(i)
  BY DEF Accounts!Init, Accounts!There
<1>3. IsFiniteSet(aOrg)
  BY FS_EmptySet DEF Accounts!Init
<1>4. \A p \in Proc : RequestIsSound(aReq[p])
  BY AccountConstants DEF Accounts!Init, RequestIsSound
<1>5. Accounts!NothingOfDeleted /\ Accounts!SlugsDiffer
  BY <1>2, AccountConstants DEF Accounts!Init, Accounts!NothingOfDeleted, Accounts!SlugsDiffer
<1> QED BY <1>1, <1>2, <1>3, <1>4, <1>5 DEF AccountsInv, DrawnIds, Accounts!AddressIsOne

\* What a step of the whole is for the accounts.
LEMMA AccountsInAll == [MCNext]_all => [\E p \in Proc : Accounts!Handle(p)]_aVars
BY DEF MCNext, TeamNext, AccountsNext, OnboardingNext, all, aVars, Accounts!Next

LEMMA AccountsInvHolds == MCSpec => []AccountsInv
<1>1. AccountsInv /\ [MCNext]_all => AccountsInv'
  <2> SUFFICES ASSUME AccountsInv, [MCNext]_all PROVE AccountsInv'
    OBVIOUS
  <2>1. CASE UNCHANGED aVars
    <3>1. AccountRowsKept /\ UNCHANGED <<aSalt, aIssued, aReq>>
      BY <2>1 DEF aVars, AccountRowsKept
    <3> QED BY <3>1, AccountRowsStay DEF AccountsInv, Accounts!TypeOK
  <2>2. ASSUME NEW p \in Proc, Accounts!Handle(p)
        PROVE  AccountsInv'
    BY <2>2, AccountLooks, AccountCreated, AccountOfGoogle, AccountSwaps, AccountDeleted,
       AccountOrganizes DEF Accounts!Handle
  <2> QED BY <2>1, <2>2, AccountsInAll
<1> QED BY <1>1, AccountsStart, PTL DEF MCSpec

\* Of any number of registrations, logins with Google, deletions and creations
\* of organizations that cross, one user remains for an address, nothing of a
\* deleted account, and one organization for a slug.
THEOREM AccountsKeptWhole == MCSpec => []AccountsAreWhole
<1>1. AccountsInv => AccountsAreWhole
  BY DEF AccountsInv, AccountsAreWhole
<1> QED BY <1>1, AccountsInvHolds, PTL

\* Of changes of a password that cross, only the one that checked the password
\* it replaces is stored.
THEOREM PasswordsReplacedByChecked == MCSpec => ChangesFromChecked
<1>1. AccountsInv /\ [MCNext]_all => [Accounts!ChangeIsChecked]_aVars
  <2> SUFFICES ASSUME AccountsInv, NEW p \in Proc, Accounts!Handle(p), NEW i \in Id,
                      aHash[i].n # 0, aHash'[i] # aHash[i], aHash'[i].n # 0
               PROVE  Accounts!At(p, "swap") /\ aReq[p].id = i /\ aReq[p].read = aHash[i]
    BY AccountsInAll DEF Accounts!ChangeIsChecked
  <2> USE DEF AccountsInv
  <2>0. aHash \in [Id -> Accounts!Hash]
    BY DEF Accounts!TypeOK
  <2>1. CASE Accounts!CreateUser(p)
    <3>1. PICK j \in Id : Accounts!NewId(j) /\ aHash' = [aHash EXCEPT ![j] = aReq[p].new]
      BY <2>1 DEF Accounts!CreateUser
    <3>2. j = i
      BY <2>0, <3>1
    <3>3. ~Accounts!There(i)
      BY <3>1, <3>2 DEF DrawnIds, Accounts!NewId
    <3> QED BY <3>3 DEF Accounts!NothingOfDeleted
  <2>2. CASE Accounts!SwapPassword(p)
    <3>1. Accounts!IsUnchanged(p) /\ aHash' = [aHash EXCEPT ![aReq[p].id] = aReq[p].new]
      BY <2>2 DEF Accounts!SwapPassword
    <3>2. aReq[p].id = i
      BY <2>0, <3>1
    <3> QED BY <2>2, <3>1, <3>2 DEF Accounts!SwapPassword, Accounts!IsUnchanged
  <2>3. CASE Accounts!DeleteAccount(p)
    <3>1. aHash' = [aHash EXCEPT ![aReq[p].id] = Accounts!NoHash]
      BY <2>3 DEF Accounts!DeleteAccount
    <3>2. aHash'[i] = Accounts!NoHash
      BY <2>0, <3>1
    <3> QED BY <3>2, AccountConstants
  <2> QED BY <2>1, <2>2, <2>3 DEF Accounts!Handle, Accounts!FindGoogleUser, Accounts!Register,
     Accounts!Login, Accounts!ComparePassword, Accounts!CommitGoogle, Accounts!Guard,
     Accounts!CheckPassword, Accounts!ChooseSlug, Accounts!TrySlug,
     Accounts!CreateOrganization, Accounts!Fails
<1> QED BY <1>1, AccountsInvHolds, PTL DEF MCSpec, ChangesFromChecked

-----------------------------------------------------------------------------
(* Onboarding: an answer that nothing comes in between is exact.  A step   *)
(* of one request marks all others as no longer alone, so what an alone    *)
(* request has read is what is there (RequestIsExact); and whatever writes *)
(* a context invalidates the transactions of the presets under way.        *)

RequestIsExact(r, row, context, facts) ==
    /\ r.stage = "preset" /\ r.fresh /\ ~r.confirm => context = "NONE"
    /\ r.alone =>
        /\ r.stage = "mark" =>
             /\ r.seen = row
             /\ r.had <=> "PRESET" \in row.steps \/ (r.on /\ r.step = "PRESET")
        /\ r.stage = "preset" => r.had
        /\ r.stage \in {"state", "reads", "facts", "row", "save"} =>
             (r.had <=> "PRESET" \in row.steps)
        /\ r.stage \in {"row", "save"} => r.seen = row
        /\ r.stage \in {"facts", "save"} => r.facts = facts

OnboardingInv ==
    /\ Onboarding!TypeOK
    /\ oRow.skipped => oRow.there
    /\ \A p \in Proc : RequestIsExact(oReq[p], oRow, oContext, Onboarding!Facts)

LEMMA RequiredSteps ==
  /\ Onboarding!StepsOf("READER") = {"CHECKLIST"}
  /\ Onboarding!StepsOf("EDITOR") = {"CHECKLIST", "FIRST_IDEA", "FIRST_CONTENT"}
  /\ Onboarding!StepsOf("ADMIN") = {"CHECKLIST", "PRESET", "FIRST_IDEA", "FIRST_CONTENT"}
<1>1. Onboarding!Required("READER") = <<"CHECKLIST">>
  BY DEF Onboarding!Required
<1>2. Onboarding!Required("EDITOR") = <<"CHECKLIST", "FIRST_IDEA", "FIRST_CONTENT">>
  BY DEF Onboarding!Required
<1>3. Onboarding!Required("ADMIN") = <<"CHECKLIST", "PRESET", "FIRST_IDEA", "FIRST_CONTENT">>
  BY DEF Onboarding!Required
<1>4. Onboarding!StepsOf("READER") = {"CHECKLIST"}
  BY <1>1 DEF Onboarding!StepsOf
<1>5. Onboarding!StepsOf("EDITOR") = {"CHECKLIST", "FIRST_IDEA", "FIRST_CONTENT"}
  BY <1>2 DEF Onboarding!StepsOf
<1>6. Onboarding!StepsOf("ADMIN") = {"CHECKLIST", "PRESET", "FIRST_IDEA", "FIRST_CONTENT"}
  BY <1>3 DEF Onboarding!StepsOf
<1> QED BY <1>4, <1>5, <1>6

LEMMA AllSteps ==
  /\ Onboarding!Steps = {"CHECKLIST", "PRESET", "FIRST_IDEA", "FIRST_CONTENT", "DONE"}
  /\ \A r \in {"ADMIN", "EDITOR", "READER"} :
                      /\ Onboarding!StepsOf(r) \subseteq Onboarding!Steps
                      /\ "DONE" \notin Onboarding!StepsOf(r)
<1>1. Onboarding!Steps = {"CHECKLIST", "PRESET", "FIRST_IDEA", "FIRST_CONTENT", "DONE"}
  BY RequiredSteps DEF Onboarding!Steps
<1>2. ASSUME NEW r \in {"ADMIN", "EDITOR", "READER"}
      PROVE  Onboarding!StepsOf(r) \subseteq Onboarding!Steps /\ "DONE" \notin Onboarding!StepsOf(r)
  BY <1>1, RequiredSteps
<1> QED BY <1>1, <1>2

\* A list of at most four in which something is left has a first that is left.
LEMMA FirstLeft ==
  ASSUME NEW s, NEW steps, NEW n \in 1..4, NEW k \in 1..n, s[k] \notin steps
  PROVE  \E i \in 1..n : s[i] \notin steps /\ \A j \in 1..(i - 1) : s[j] \in steps
<1>1. CASE s[1] \notin steps
  BY <1>1
<1>2. CASE s[1] \in steps /\ s[2] \notin steps
  <2>1. 2 \in 1..n /\ \A j \in 1..(2 - 1) : j = 1
    BY <1>2
  <2> QED BY <1>2, <2>1
<1>3. CASE s[1] \in steps /\ s[2] \in steps /\ s[3] \notin steps
  <2>1. 3 \in 1..n /\ \A j \in 1..(3 - 1) : j = 1 \/ j = 2
    BY <1>3
  <2> QED BY <1>3, <2>1
<1>4. CASE s[1] \in steps /\ s[2] \in steps /\ s[3] \in steps
  <2>1. k = 4 /\ n = 4 /\ \A j \in 1..(4 - 1) : j = 1 \/ j = 2 \/ j = 3
    BY <1>4
  <2> QED BY <1>4, <2>1
<1> QED BY <1>1, <1>2, <1>3, <1>4

LEMMA CurrentIsStep ==
  ASSUME NEW r \in {"ADMIN", "EDITOR", "READER"}, NEW steps
  PROVE  Onboarding!Current(steps, r) \in Onboarding!Steps
<1> DEFINE s == Onboarding!Required(r)
<1>1. CASE Onboarding!StepsOf(r) \subseteq steps
  BY <1>1, AllSteps DEF Onboarding!Current
<1>2. CASE ~(Onboarding!StepsOf(r) \subseteq steps)
  <2>1. Len(s) \in 1..4
    <3>1. \/ s = <<"CHECKLIST">>
          \/ s = <<"CHECKLIST", "FIRST_IDEA", "FIRST_CONTENT">>
          \/ s = <<"CHECKLIST", "PRESET", "FIRST_IDEA", "FIRST_CONTENT">>
      BY DEF Onboarding!Required
    <3> HIDE DEF s
    <3> QED BY <3>1
  <2>2. PICK k \in 1..Len(s) : s[k] \notin steps
    BY <1>2 DEF Onboarding!StepsOf
  <2> HIDE DEF s
  <2>3. \E i \in 1..Len(s) : s[i] \notin steps /\ \A j \in 1..(i - 1) : s[j] \in steps
    BY <2>1, <2>2, FirstLeft
  <2>4. PICK i \in 1..Len(s) : Onboarding!Current(steps, r) = s[i]
    BY <1>2, <2>3 DEF Onboarding!Current, s
  <2>5. s[i] \in Onboarding!StepsOf(r)
    BY DEF Onboarding!StepsOf, s
  <2> QED BY <2>4, <2>5, AllSteps
<1> QED BY <1>1, <1>2

LEMMA OnboardingConstants ==
  /\ Onboarding!NoRow \in Onboarding!Row
  /\ Onboarding!Idle \in Onboarding!Request
  /\ Onboarding!Idle.stage = "idle" /\ ~Onboarding!Idle.on
<1>1. Onboarding!NoRow \in Onboarding!Row
  BY AllSteps DEF Onboarding!NoRow, Onboarding!Row
<1>2. (CHOOSE r \in Roles : TRUE) \in Roles
  BY OnboardingAssumption
<1>3. "DONE" \in Onboarding!Steps
  BY AllSteps
<1> QED BY <1>1, <1>2, <1>3 DEF Onboarding!Idle, Onboarding!Request

LEMMA FactsAre ==
  ASSUME Onboarding!TypeOK
  PROVE  Onboarding!Facts \in SUBSET Onboarding!Derived
         /\ Onboarding!Derived \in SUBSET (Onboarding!Steps \ {"PRESET", "DONE"})
BY AllSteps DEF Onboarding!TypeOK, Onboarding!Facts, Onboarding!Derived

\* The request that goes on brings its own part; the others are kept, for they
\* are no longer alone, and no preset commits over a context that was written.
LEMMA OnboardingGoes ==
  ASSUME OnboardingInv, NEW p \in Proc, NEW r \in Onboarding!Request, NEW writes \in BOOLEAN,
         Onboarding!Goes(p, r, writes), oContext' # oContext => writes,
         RequestIsExact(r, oRow', oContext', Onboarding!Facts')
  PROVE  /\ oReq' \in [Proc -> Onboarding!Request]
         /\ \A q \in Proc : RequestIsExact(oReq'[q], oRow', oContext', Onboarding!Facts')
<1>1. ASSUME NEW q \in Proc
      PROVE  /\ oReq'[q] \in Onboarding!Request
             /\ RequestIsExact(oReq'[q], oRow', oContext', Onboarding!Facts')
  <2>1. CASE q = p
    BY <2>1 DEF Onboarding!Goes
  <2>2. CASE q # p /\ Onboarding!At(q, "idle")
    BY <2>2, OnboardingConstants DEF Onboarding!Goes, RequestIsExact
  <2>3. CASE q # p /\ ~Onboarding!At(q, "idle")
    <3> DEFINE n == [oReq[q] EXCEPT !.alone = FALSE,
                                    !.fresh = @ /\ (writes => ~Onboarding!At(q, "preset"))]
    <3>1. oReq[q] \in Onboarding!Request /\ oReq'[q] = n
      BY <2>3 DEF Onboarding!Goes, OnboardingInv, Onboarding!TypeOK
    <3>2. /\ n \in Onboarding!Request /\ n.alone = FALSE /\ n.stage = oReq[q].stage
          /\ n.confirm = oReq[q].confirm
          /\ n.fresh = (oReq[q].fresh /\ (writes => ~Onboarding!At(q, "preset")))
      BY <3>1 DEF Onboarding!Request
    <3> HIDE DEF n
    <3>3. RequestIsExact(oReq[q], oRow, oContext, Onboarding!Facts)
      BY DEF OnboardingInv
    <3> QED BY <3>1, <3>2, <3>3 DEF RequestIsExact, Onboarding!At
  <2> QED BY <2>1, <2>2, <2>3
<1>2. oReq' = [q \in Proc |-> oReq'[q]]
  BY DEF Onboarding!Goes
<1> QED BY <1>1, <1>2

LEMMA OnboardingDisturbed ==
  ASSUME OnboardingInv, Onboarding!Disturbs, oContext' = oContext
  PROVE  /\ oReq' \in [Proc -> Onboarding!Request]
         /\ \A q \in Proc : RequestIsExact(oReq'[q], oRow', oContext', Onboarding!Facts')
<1>1. ASSUME NEW q \in Proc
      PROVE  /\ oReq'[q] \in Onboarding!Request
             /\ RequestIsExact(oReq'[q], oRow', oContext', Onboarding!Facts')
  <2>1. CASE Onboarding!At(q, "idle")
    BY <2>1, OnboardingConstants DEF Onboarding!Disturbs, RequestIsExact
  <2>2. CASE ~Onboarding!At(q, "idle")
    <3> DEFINE n == [oReq[q] EXCEPT !.alone = FALSE]
    <3>1. oReq[q] \in Onboarding!Request /\ oReq'[q] = n
      BY <2>2 DEF Onboarding!Disturbs, OnboardingInv, Onboarding!TypeOK
    <3>2. /\ n \in Onboarding!Request /\ n.alone = FALSE /\ n.stage = oReq[q].stage
          /\ n.confirm = oReq[q].confirm /\ n.fresh = oReq[q].fresh
      BY <3>1 DEF Onboarding!Request
    <3> HIDE DEF n
    <3>3. RequestIsExact(oReq[q], oRow, oContext, Onboarding!Facts)
      BY DEF OnboardingInv
    <3> QED BY <3>1, <3>2, <3>3 DEF RequestIsExact
  <2> QED BY <2>1, <2>2
<1>2. oReq' = [q \in Proc |-> oReq'[q]]
  BY DEF Onboarding!Disturbs
<1> QED BY <1>1, <1>2

\* A request that starts knows whether it is alone and whether the preset is done.
LEMMA OnboardingStarts ==
  ASSUME OnboardingInv, NEW p \in Proc, NEW r \in Onboarding!Request, NEW writes \in BOOLEAN,
         Onboarding!Starts(p, r, writes), oContext' # oContext => writes,
         oRow'.steps = oRow.steps,
         \/ r.stage \in {"reads", "state"} /\ ~r.on
         \/ r.stage = "mark" /\ r.seen = oRow /\ oRow' = oRow
         \/ /\ r.stage = "preset" /\ r.on /\ r.step = "PRESET"
            /\ r.confirm \/ oContext' = "NONE"
  PROVE  /\ oReq' \in [Proc -> Onboarding!Request]
         /\ \A q \in Proc : RequestIsExact(oReq'[q], oRow', oContext', Onboarding!Facts')
<1> DEFINE a == Onboarding!Alone(p)
           h == "PRESET" \in oRow.steps \/ (r.on /\ r.step = "PRESET")
           n == [r EXCEPT !.role = oRole, !.alone = a, !.had = h]
<1>1. oRole \in Roles /\ a \in BOOLEAN /\ h \in BOOLEAN
  BY DEF OnboardingInv, Onboarding!TypeOK, Onboarding!Alone
<1>2. Onboarding!Goes(p, n, writes)
  BY DEF Onboarding!Starts
<1> HIDE DEF a
<1>3. /\ n.stage = r.stage /\ n.confirm = r.confirm /\ n.seen = r.seen /\ n.on = r.on
      /\ n.step = r.step /\ n.had = h /\ n.alone = a
  BY DEF Onboarding!Request
<1> HIDE DEF h
<1>4. n \in Onboarding!Request
  BY <1>1 DEF Onboarding!Request
<1> HIDE DEF n
<1>5. RequestIsExact(n, oRow', oContext', Onboarding!Facts')
  BY <1>3 DEF RequestIsExact, h
<1> QED BY <1>2, <1>4, <1>5, OnboardingGoes

OnboardingKept ==
    /\ Onboarding!EndsExact /\ Onboarding!ReplacesOnlyAsked
    /\ Onboarding!LosesPreset /\ Onboarding!StaysSkipped

\* A step that leaves the row alone, and replaces no context by a preset's.
LEMMA OnboardingRowStays ==
  ASSUME oRow' = oRow, oContext' = "PRESET" => oContext = "PRESET"
  PROVE  OnboardingKept
BY DEF OnboardingKept, Onboarding!EndsExact, Onboarding!ReplacesOnlyAsked,
   Onboarding!LosesPreset, Onboarding!StaysSkipped

\* The types of what is not a request, and the row that a skip leaves there.
OnboardingData ==
    /\ oRole \in Roles /\ oContext \in {"NONE", "OWN", "PRESET"}
    /\ oHas \in SUBSET {"FIRST_IDEA", "FIRST_CONTENT"}
    /\ oRow \in Onboarding!Row /\ (oRow.skipped => oRow.there)
    /\ oLeft \in 0..MaxChanges

LEMMA OnboardingDataIs == OnboardingInv => OnboardingData
BY DEF OnboardingInv, OnboardingData, Onboarding!TypeOK

LEMMA OnboardingWhole ==
  ASSUME OnboardingData', oReq' \in [Proc -> Onboarding!Request],
         \A q \in Proc : RequestIsExact(oReq'[q], oRow', oContext', Onboarding!Facts')
  PROVE  OnboardingInv'
BY DEF OnboardingInv, OnboardingData, Onboarding!TypeOK

LEMMA OnboardingCounts ==
  ASSUME OnboardingData, Onboarding!Counts
  PROVE  oLeft' \in 0..MaxChanges
<1>1. oLeft > 0 /\ oLeft' = oLeft - 1
  BY DEF Onboarding!Counts
<1> QED BY <1>1, OnboardingAssumption DEF OnboardingData

LEMMA MarkedIs ==
  ASSUME OnboardingData, NEW steps \in SUBSET Onboarding!Steps, NEW r \in Roles
  PROVE  /\ Onboarding!Marked(steps, r) \in Onboarding!Row
         /\ Onboarding!Marked(steps, r).there
         /\ Onboarding!Marked(steps, r).skipped = oRow.skipped
         /\ "PRESET" \in Onboarding!Marked(steps, r).steps <=> "PRESET" \in steps
<1> DEFINE d == Onboarding!StepsOf(r) \subseteq steps
           s == IF d THEN steps \cup {"DONE"} ELSE steps
           c == Onboarding!Current(steps, r)
<1>1. d \in BOOLEAN /\ s \in SUBSET Onboarding!Steps /\ ("PRESET" \in s <=> "PRESET" \in steps)
  BY AllSteps
<1>2. c \in Onboarding!Steps
  BY CurrentIsStep, OnboardingAssumption
<1>3. oRow \in Onboarding!Row
  BY DEF OnboardingData
<1>4. Onboarding!Marked(steps, r)
        = [oRow EXCEPT !.there = TRUE, !.steps = s, !.done = d, !.current = c]
  BY DEF Onboarding!Marked
<1> HIDE DEF d, s, c
<1> QED BY <1>1, <1>2, <1>3, <1>4 DEF Onboarding!Row

\* No other request ends in a step of p: only p can have saved.
LEMMA OthersGoOn ==
  ASSUME OnboardingInv, NEW p \in Proc, NEW r, NEW writes, Onboarding!Goes(p, r, writes),
         NEW q \in Proc, q # p, ~Onboarding!At(q, "idle")
  PROVE  oReq'[q].stage # "idle"
<1>1. oReq[q] \in Onboarding!Request
  BY DEF OnboardingInv, Onboarding!TypeOK
<1> QED BY <1>1 DEF Onboarding!Goes, Onboarding!At, Onboarding!Request

\* The steps that start a request.
LEMMA OnboardingBegins ==
  ASSUME OnboardingInv, NEW p \in Proc,
         \/ Onboarding!Read(p) \/ Onboarding!SkipAdvanced(p) \/ Onboarding!SaveEditorialContext(p)
         \/ \E s \in Onboarding!Steps, on \in BOOLEAN : Onboarding!MarkStep(p, s, on)
         \/ \E confirm \in BOOLEAN : Onboarding!ApplyPreset(p, confirm)
  PROVE  OnboardingInv' /\ OnboardingKept
<1>0. /\ OnboardingData /\ Onboarding!Idle \in Onboarding!Request
      /\ ~Onboarding!Idle.on
  BY OnboardingDataIs, OnboardingConstants
<1>1. CASE Onboarding!Read(p)
  <2> DEFINE r == [Onboarding!Idle EXCEPT !.stage = "reads"]
  <2>1. Onboarding!Starts(p, r, FALSE)
    BY <1>1 DEF Onboarding!Read
  <2>2. r \in Onboarding!Request /\ r.stage = "reads" /\ ~r.on
    BY <1>0 DEF Onboarding!Request
  <2> HIDE DEF r
  <2>3. UNCHANGED <<oRole, oContext, oHas, oRow, oLeft>>
    BY <1>1 DEF Onboarding!Read
  <2>4. /\ oReq' \in [Proc -> Onboarding!Request]
        /\ \A q \in Proc : RequestIsExact(oReq'[q], oRow', oContext', Onboarding!Facts')
    BY <2>1, <2>2, <2>3, OnboardingStarts
  <2>5. OnboardingData'
    BY <1>0, <2>3 DEF OnboardingData
  <2> QED BY <2>3, <2>4, <2>5, OnboardingWhole, OnboardingRowStays
<1>2. CASE Onboarding!SkipAdvanced(p)
  <2> DEFINE r == [Onboarding!Idle EXCEPT !.stage = "state"]
  <2>1. /\ Onboarding!Starts(p, r, TRUE) /\ Onboarding!Counts
        /\ UNCHANGED <<oRole, oContext, oHas>>
        /\ oRow' = [oRow EXCEPT !.there = TRUE, !.current = "DONE", !.skipped = TRUE]
    BY <1>2 DEF Onboarding!SkipAdvanced
  <2>2. r \in Onboarding!Request /\ r.stage = "state" /\ ~r.on
    BY <1>0 DEF Onboarding!Request
  <2> HIDE DEF r
  <2>3. oRow' \in Onboarding!Row /\ oRow'.there /\ oRow'.skipped /\ oRow'.steps = oRow.steps
    BY <1>0, <2>1, AllSteps DEF OnboardingData, Onboarding!Row
  <2>4. /\ oReq' \in [Proc -> Onboarding!Request]
        /\ \A q \in Proc : RequestIsExact(oReq'[q], oRow', oContext', Onboarding!Facts')
    BY <2>1, <2>2, <2>3, OnboardingStarts
  <2>5. OnboardingData'
    BY <1>0, <2>1, <2>3, OnboardingCounts DEF OnboardingData
  <2>6. OnboardingInv'
    BY <2>4, <2>5, OnboardingWhole
  <2>7. Onboarding!EndsExact
    <3>1. ~(Onboarding!At(p, "save"))
      BY <1>2 DEF Onboarding!SkipAdvanced, Onboarding!At
    <3>2. \A q \in Proc : q # p /\ Onboarding!At(q, "save") => oReq'[q].stage # "idle"
      <4> DEFINE n == [r EXCEPT !.role = oRole, !.alone = Onboarding!Alone(p),
                                !.had = "PRESET" \in oRow.steps \/ (r.on /\ r.step = "PRESET")]
      <4>1. Onboarding!Goes(p, n, TRUE)
        BY <2>1 DEF Onboarding!Starts
      <4> HIDE DEF n
      <4> QED BY <4>1, OthersGoOn DEF Onboarding!At
    <3> QED BY <3>1, <3>2 DEF Onboarding!EndsExact
  <2> QED BY <2>1, <2>3, <2>6, <2>7 DEF OnboardingKept, Onboarding!ReplacesOnlyAsked,
          Onboarding!LosesPreset, Onboarding!StaysSkipped
<1>3. CASE Onboarding!SaveEditorialContext(p)
  <2> DEFINE r == [Onboarding!Idle EXCEPT !.stage = "state"]
  <2>1. /\ Onboarding!Starts(p, r, TRUE) /\ Onboarding!Counts
        /\ UNCHANGED <<oRole, oHas, oRow>> /\ oContext' = "OWN"
    BY <1>3 DEF Onboarding!SaveEditorialContext
  <2>2. r \in Onboarding!Request /\ r.stage = "state" /\ ~r.on
    BY <1>0 DEF Onboarding!Request
  <2> HIDE DEF r
  <2>3. /\ oReq' \in [Proc -> Onboarding!Request]
        /\ \A q \in Proc : RequestIsExact(oReq'[q], oRow', oContext', Onboarding!Facts')
    BY <2>1, <2>2, OnboardingStarts
  <2>4. OnboardingData'
    BY <1>0, <2>1, OnboardingCounts DEF OnboardingData
  <2> QED BY <2>1, <2>3, <2>4, OnboardingWhole, OnboardingRowStays
<1>4. ASSUME NEW s \in Onboarding!Steps, NEW on \in BOOLEAN, Onboarding!MarkStep(p, s, on)
      PROVE  OnboardingInv' /\ OnboardingKept
  <2> DEFINE r == [Onboarding!Idle EXCEPT !.stage = "mark", !.step = s, !.on = on, !.seen = oRow]
  <2>1. /\ Onboarding!Starts(p, r, FALSE) /\ Onboarding!Counts
        /\ UNCHANGED <<oRole, oContext, oHas, oRow>>
    BY <1>4 DEF Onboarding!MarkStep
  <2>2. r \in Onboarding!Request /\ r.stage = "mark" /\ r.seen = oRow
    BY <1>0 DEF Onboarding!Request, OnboardingData
  <2> HIDE DEF r
  <2>3. /\ oReq' \in [Proc -> Onboarding!Request]
        /\ \A q \in Proc : RequestIsExact(oReq'[q], oRow', oContext', Onboarding!Facts')
    BY <2>1, <2>2, OnboardingStarts
  <2>4. OnboardingData'
    BY <1>0, <2>1, OnboardingCounts DEF OnboardingData
  <2> QED BY <2>1, <2>3, <2>4, OnboardingWhole, OnboardingRowStays
<1>5. ASSUME NEW confirm \in BOOLEAN, Onboarding!ApplyPreset(p, confirm)
      PROVE  OnboardingInv' /\ OnboardingKept
  <2> DEFINE r == [Onboarding!Idle EXCEPT !.stage = "preset", !.confirm = confirm, !.seen = oRow,
                                          !.step = "PRESET", !.on = TRUE]
  <2>1. /\ Onboarding!Starts(p, r, FALSE) /\ Onboarding!Counts
        /\ UNCHANGED <<oRole, oContext, oHas, oRow>>
        /\ oContext = "NONE" \/ confirm
    BY <1>5 DEF Onboarding!ApplyPreset
  <2>2. /\ r \in Onboarding!Request /\ r.stage = "preset" /\ r.on /\ r.step = "PRESET"
        /\ r.confirm = confirm
    BY <1>0, AllSteps DEF Onboarding!Request, OnboardingData
  <2> HIDE DEF r
  <2>3. /\ oReq' \in [Proc -> Onboarding!Request]
        /\ \A q \in Proc : RequestIsExact(oReq'[q], oRow', oContext', Onboarding!Facts')
    BY <2>1, <2>2, OnboardingStarts
  <2>4. OnboardingData'
    BY <1>0, <2>1, OnboardingCounts DEF OnboardingData
  <2> QED BY <2>1, <2>3, <2>4, OnboardingWhole, OnboardingRowStays
<1> QED BY <1>1, <1>2, <1>3, <1>4, <1>5

\* The steps that read, or fail.
LEMMA OnboardingReads ==
  ASSUME OnboardingInv, NEW p \in Proc,
         \/ Onboarding!ReadOrganizations(p) \/ Onboarding!ReadRow(p) \/ Onboarding!ReadFacts(p)
         \/ Onboarding!Fails(p)
  PROVE  OnboardingInv' /\ OnboardingKept
<1>0. /\ OnboardingData /\ OnboardingData' /\ UNCHANGED <<oRow, oContext>>
      /\ Onboarding!Facts' = Onboarding!Facts
      /\ oReq[p] \in Onboarding!Request
      /\ RequestIsExact(oReq[p], oRow, oContext, Onboarding!Facts)
      /\ Onboarding!Facts \in SUBSET Onboarding!Steps
  BY OnboardingDataIs, FactsAre DEF Onboarding!ReadOrganizations, Onboarding!ReadRow,
     Onboarding!ReadFacts, Onboarding!Fails, OnboardingData, OnboardingInv, Onboarding!TypeOK,
     Onboarding!Facts
<1>1. ASSUME NEW r \in Onboarding!Request, Onboarding!Goes(p, r, FALSE),
             RequestIsExact(r, oRow, oContext, Onboarding!Facts)
      PROVE  OnboardingInv' /\ OnboardingKept
  <2>1. RequestIsExact(r, oRow', oContext', Onboarding!Facts')
    BY <1>0, <1>1
  <2>2. /\ oReq' \in [Proc -> Onboarding!Request]
        /\ \A q \in Proc : RequestIsExact(oReq'[q], oRow', oContext', Onboarding!Facts')
    BY <1>0, <1>1, <2>1, OnboardingGoes
  <2> QED BY <1>0, <2>2, OnboardingWhole, OnboardingRowStays
<1>2. CASE Onboarding!ReadOrganizations(p)
  <2> DEFINE r == [oReq[p] EXCEPT !.stage = "reads", !.role = oRole]
  <2>1. Onboarding!Goes(p, r, FALSE) /\ oReq[p].stage = "state"
    BY <1>2 DEF Onboarding!ReadOrganizations, Onboarding!At
  <2>2. r \in Onboarding!Request /\ RequestIsExact(r, oRow, oContext, Onboarding!Facts)
    BY <1>0, <2>1 DEF Onboarding!Request, OnboardingData, RequestIsExact
  <2> HIDE DEF r
  <2> QED BY <1>1, <2>1, <2>2
<1>3. CASE Onboarding!ReadRow(p)
  <2> DEFINE s == IF Onboarding!At(p, "reads") THEN "row" ELSE "save"
             r == [oReq[p] EXCEPT !.seen = oRow, !.stage = s]
  <2>1. /\ Onboarding!Goes(p, r, FALSE)
        /\ \/ oReq[p].stage = "reads" /\ s = "row"
           \/ oReq[p].stage = "facts" /\ s = "save"
    BY <1>3 DEF Onboarding!ReadRow, Onboarding!At
  <2> HIDE DEF s
  <2>2. r \in Onboarding!Request /\ RequestIsExact(r, oRow, oContext, Onboarding!Facts)
    BY <1>0, <2>1 DEF Onboarding!Request, OnboardingData, RequestIsExact
  <2> HIDE DEF r
  <2> QED BY <1>1, <2>1, <2>2
<1>4. CASE Onboarding!ReadFacts(p)
  <2> DEFINE s == IF Onboarding!At(p, "reads") THEN "facts" ELSE "save"
             r == [oReq[p] EXCEPT !.facts = Onboarding!Facts, !.stage = s]
  <2>1. /\ Onboarding!Goes(p, r, FALSE)
        /\ \/ oReq[p].stage = "reads" /\ s = "facts"
           \/ oReq[p].stage = "row" /\ s = "save"
    BY <1>4 DEF Onboarding!ReadFacts, Onboarding!At
  <2> HIDE DEF s
  <2>2. r \in Onboarding!Request /\ RequestIsExact(r, oRow, oContext, Onboarding!Facts)
    BY <1>0, <2>1 DEF Onboarding!Request, OnboardingData, RequestIsExact
  <2> HIDE DEF r
  <2> QED BY <1>1, <2>1, <2>2
<1>5. CASE Onboarding!Fails(p)
  <2>1. Onboarding!Goes(p, Onboarding!Idle, FALSE)
    BY <1>5 DEF Onboarding!Fails
  <2>2. RequestIsExact(Onboarding!Idle, oRow, oContext, Onboarding!Facts)
    BY OnboardingConstants DEF RequestIsExact
  <2> QED BY <1>1, <2>1, <2>2, OnboardingConstants
<1> QED BY <1>2, <1>3, <1>4, <1>5

LEMMA ToStateIs ==
  ASSUME OnboardingInv, NEW p \in Proc
  PROVE  /\ Onboarding!ToState(p) \in Onboarding!Request
         /\ Onboarding!ToState(p).stage = "state"
         /\ Onboarding!ToState(p).alone = oReq[p].alone
         /\ Onboarding!ToState(p).had = oReq[p].had
<1>1. oReq[p] \in Onboarding!Request /\ Onboarding!Idle \in Onboarding!Request
  BY OnboardingConstants DEF OnboardingInv, Onboarding!TypeOK
<1> QED BY <1>1 DEF Onboarding!ToState, Onboarding!Request

\* An alone marking stores what it was asked for and nothing else.
LEMMA OnboardingMarks ==
  ASSUME OnboardingInv, NEW p \in Proc, Onboarding!WriteMark(p)
  PROVE  OnboardingInv' /\ OnboardingKept
<1> DEFINE old == oReq[p].seen.steps \ {"DONE"}
           steps == IF oReq[p].on THEN old \cup {oReq[p].step} ELSE old \ {oReq[p].step}
           t == Onboarding!ToState(p)
           h == IF oReq[p].on THEN t.had ELSE t.had /\ oReq[p].step # "PRESET"
           r == [t EXCEPT !.had = h]
<1>0. /\ OnboardingData /\ oReq[p] \in Onboarding!Request /\ oReq[p].stage = "mark"
      /\ RequestIsExact(oReq[p], oRow, oContext, Onboarding!Facts)
      /\ UNCHANGED <<oRole, oContext, oHas, oLeft>>
      /\ oReq[p].role \in Roles /\ oReq[p].on \in BOOLEAN /\ oReq[p].step \in Onboarding!Steps
      /\ oReq[p].seen.steps \in SUBSET Onboarding!Steps /\ oReq[p].had \in BOOLEAN
  BY OnboardingDataIs DEF OnboardingInv, Onboarding!TypeOK, Onboarding!WriteMark,
     Onboarding!At, Onboarding!Request, Onboarding!Row
<1>1. oRow' = Onboarding!Marked(steps, oReq[p].role) /\ Onboarding!Goes(p, r, TRUE)
  BY <1>0 DEF Onboarding!WriteMark
<1>2. steps \in SUBSET Onboarding!Steps
  BY <1>0
<1>3. /\ oRow' \in Onboarding!Row /\ oRow'.there /\ oRow'.skipped = oRow.skipped
      /\ "PRESET" \in oRow'.steps <=> "PRESET" \in steps
  <2> HIDE DEF steps
  <2> QED BY <1>0, <1>1, <1>2, MarkedIs
<1>4. /\ r \in Onboarding!Request /\ r.stage = "state" /\ r.alone = oReq[p].alone
      /\ r.had = h
  <2>1. h \in BOOLEAN
    BY <1>0, ToStateIs
  <2> HIDE DEF h, t
  <2> QED BY <2>1, ToStateIs DEF Onboarding!Request, t
<1>5. oReq[p].alone => (h <=> "PRESET" \in steps)
  BY <1>0, ToStateIs DEF RequestIsExact
<1> HIDE DEF r, h
<1>6. RequestIsExact(r, oRow', oContext', Onboarding!Facts')
  BY <1>3, <1>4, <1>5 DEF RequestIsExact
<1>7. /\ oReq' \in [Proc -> Onboarding!Request]
      /\ \A q \in Proc : RequestIsExact(oReq'[q], oRow', oContext', Onboarding!Facts')
  BY <1>1, <1>4, <1>6, OnboardingGoes
<1>8. OnboardingData'
  BY <1>0, <1>3 DEF OnboardingData
<1>9. Onboarding!EndsExact
  <2>1. \A q \in Proc : Onboarding!At(q, "save") => q # p /\ ~Onboarding!At(q, "idle")
    BY <1>0 DEF Onboarding!At
  <2> QED BY <1>1, <2>1, OthersGoOn DEF Onboarding!EndsExact
<1>10. Onboarding!LosesPreset
  <2> SUFFICES ASSUME "PRESET" \in oRow.steps, "PRESET" \notin steps,
                      ~(oReq[p].step = "PRESET" /\ ~oReq[p].on)
               PROVE  ~oReq[p].alone
    BY <1>0, <1>3 DEF Onboarding!LosesPreset, Onboarding!At
  <2> QED BY <1>0 DEF RequestIsExact
<1> QED BY <1>0, <1>3, <1>7, <1>8, <1>9, <1>10, OnboardingWhole
        DEF OnboardingKept, Onboarding!ReplacesOnlyAsked, Onboarding!StaysSkipped

\* A preset commits over no context that was written since its snapshot.
LEMMA OnboardingCommits ==
  ASSUME OnboardingInv, NEW p \in Proc, Onboarding!CommitPreset(p)
  PROVE  OnboardingInv' /\ OnboardingKept
<1>0. /\ OnboardingData /\ oReq[p] \in Onboarding!Request /\ oReq[p].stage = "preset"
      /\ RequestIsExact(oReq[p], oRow, oContext, Onboarding!Facts)
      /\ UNCHANGED <<oRole, oHas, oLeft>>
      /\ oReq[p].seen.steps \in SUBSET Onboarding!Steps
  BY OnboardingDataIs DEF OnboardingInv, Onboarding!TypeOK, Onboarding!CommitPreset,
     Onboarding!At, Onboarding!Request, Onboarding!Row
<1>1. CASE ~Onboarding!Commits(p)
  <2>1. Onboarding!Goes(p, Onboarding!Idle, FALSE) /\ UNCHANGED <<oContext, oRow>>
    BY <1>1 DEF Onboarding!CommitPreset
  <2>2. RequestIsExact(Onboarding!Idle, oRow', oContext', Onboarding!Facts')
    BY OnboardingConstants DEF RequestIsExact
  <2>3. /\ oReq' \in [Proc -> Onboarding!Request]
        /\ \A q \in Proc : RequestIsExact(oReq'[q], oRow', oContext', Onboarding!Facts')
    BY <2>1, <2>2, OnboardingConstants, OnboardingGoes
  <2>4. OnboardingData'
    BY <1>0, <2>1 DEF OnboardingData
  <2> QED BY <2>1, <2>3, <2>4, OnboardingWhole, OnboardingRowStays
<1>2. CASE Onboarding!Commits(p)
  <2> DEFINE steps == (oReq[p].seen.steps \ {"DONE"}) \cup {"PRESET"}
             c == Onboarding!Current(steps, "ADMIN")
             r == Onboarding!ToState(p)
  <2>1. /\ oContext' = "PRESET" /\ Onboarding!Goes(p, r, TRUE)
        /\ oRow' = [oRow EXCEPT !.there = TRUE, !.steps = steps, !.done = FALSE, !.current = c]
    BY <1>2 DEF Onboarding!CommitPreset
  <2>2. steps \in SUBSET Onboarding!Steps /\ "PRESET" \in steps
    BY <1>0, AllSteps
  <2>3. c \in Onboarding!Steps
    BY CurrentIsStep
  <2> HIDE DEF steps, c
  <2>4. /\ oRow' \in Onboarding!Row /\ oRow'.there /\ oRow'.skipped = oRow.skipped
        /\ oRow'.steps = steps
    BY <1>0, <2>1, <2>2, <2>3 DEF Onboarding!Row, OnboardingData
  <2>5. RequestIsExact(r, oRow', oContext', Onboarding!Facts')
    BY <1>0, <2>2, <2>4, ToStateIs DEF RequestIsExact
  <2>6. r \in Onboarding!Request
    BY ToStateIs
  <2> HIDE DEF r
  <2>7. /\ oReq' \in [Proc -> Onboarding!Request]
        /\ \A q \in Proc : RequestIsExact(oReq'[q], oRow', oContext', Onboarding!Facts')
    BY <2>1, <2>5, <2>6, OnboardingGoes
  <2>8. OnboardingData'
    BY <1>0, <2>1, <2>4 DEF OnboardingData
  <2>9. Onboarding!EndsExact
    <3>1. \A q \in Proc : Onboarding!At(q, "save") => q # p /\ ~Onboarding!At(q, "idle")
      BY <1>0 DEF Onboarding!At
    <3> QED BY <2>1, <3>1, OthersGoOn DEF Onboarding!EndsExact
  <2>10. Onboarding!ReplacesOnlyAsked
    BY <1>0, <1>2 DEF Onboarding!ReplacesOnlyAsked, Onboarding!Commits, RequestIsExact,
       Onboarding!At
  <2> QED BY <2>2, <2>4, <2>7, <2>8, <2>9, <2>10, OnboardingWhole
          DEF OnboardingKept, Onboarding!LosesPreset, Onboarding!StaysSkipped
<1> QED BY <1>1, <1>2

LEMMA ReconciledIs ==
  ASSUME NEW stored \in SUBSET Onboarding!Steps, NEW facts \in SUBSET Onboarding!Steps,
         NEW r \in Roles
  PROVE  /\ Onboarding!Reconciled(stored, facts, r) \in SUBSET Onboarding!StepsOf(r)
         /\ facts \in SUBSET Onboarding!Derived =>
              /\ Onboarding!Reconciled(stored, facts, r) \cap Onboarding!Derived
                   = facts \cap Onboarding!StepsOf(r)
              /\ "PRESET" \in Onboarding!Reconciled(stored, facts, r)
                   <=> "PRESET" \in stored /\ "PRESET" \in Onboarding!StepsOf(r)
BY DEF Onboarding!Reconciled, Onboarding!Derived

\* An alone answer says what there is.
LEMMA OnboardingSaves ==
  ASSUME OnboardingInv, NEW p \in Proc, Onboarding!SaveProgress(p)
  PROVE  OnboardingInv' /\ OnboardingKept
<1> DEFINE r == oReq[p].role
           seen == oReq[p].seen
           steps == Onboarding!Reconciled(seen.steps, oReq[p].facts, r)
           done == Onboarding!AllDone(steps, seen.skipped, r)
           s == IF done THEN steps \cup {"DONE"} ELSE steps
           c == IF done THEN "DONE" ELSE Onboarding!Current(steps, r)
           k == Onboarding!SkippedAfter(p)
<1>0. /\ OnboardingData /\ oReq[p] \in Onboarding!Request /\ oReq[p].stage = "save"
      /\ RequestIsExact(oReq[p], oRow, oContext, Onboarding!Facts)
      /\ UNCHANGED <<oRole, oContext, oHas, oLeft>>
      /\ r \in Roles /\ oReq[p].facts \in SUBSET Onboarding!Steps
      /\ seen \in Onboarding!Row
      /\ Onboarding!Goes(p, Onboarding!Idle, TRUE)
      /\ oRow' = [there |-> TRUE, done |-> done, skipped |-> k, steps |-> s, current |-> c]
  BY OnboardingDataIs DEF OnboardingInv, Onboarding!TypeOK, Onboarding!SaveProgress,
     Onboarding!At, Onboarding!Request
<1>1. /\ steps \in SUBSET Onboarding!StepsOf(r) /\ steps \in SUBSET Onboarding!Steps
      /\ "DONE" \notin steps /\ "DONE" \notin Onboarding!StepsOf(r)
  <2>1. seen.steps \in SUBSET Onboarding!Steps
    BY <1>0 DEF Onboarding!Row
  <2>2. /\ Onboarding!StepsOf(r) \subseteq Onboarding!Steps
        /\ "DONE" \notin Onboarding!StepsOf(r)
    BY <1>0, AllSteps, OnboardingAssumption
  <2>3. steps \in SUBSET Onboarding!StepsOf(r)
    BY <1>0, <2>1, ReconciledIs
  <2> QED BY <2>2, <2>3
<1>2. /\ done \in BOOLEAN /\ k \in BOOLEAN /\ (oRow.skipped => k)
      /\ seen = oRow => k = seen.skipped
  BY <1>0 DEF Onboarding!AllDone, Onboarding!SkippedAfter, Onboarding!Row, OnboardingData
<1>3. done <=> seen.skipped \/ Onboarding!StepsOf(r) \subseteq steps
  BY DEF Onboarding!AllDone
<1> HIDE DEF steps, done, k
<1>4. s \in SUBSET Onboarding!Steps /\ c \in Onboarding!Steps
  BY <1>0, <1>1, AllSteps, OnboardingAssumption, CurrentIsStep
<1>5. /\ s \cap Onboarding!Derived = steps \cap Onboarding!Derived
      /\ "DONE" \in s <=> done
      /\ "PRESET" \in s <=> "PRESET" \in steps
      /\ Onboarding!StepsOf(r) \subseteq s <=> Onboarding!StepsOf(r) \subseteq steps
      /\ ~done => s = steps
  BY <1>1, <1>2 DEF Onboarding!Derived
<1>6. c = IF done THEN "DONE" ELSE Onboarding!Current(s, r)
  BY <1>5
<1> HIDE DEF s, c
<1>7. oRow' \in Onboarding!Row /\ oRow'.there /\ (oRow.skipped => oRow'.skipped)
  BY <1>0, <1>2, <1>4 DEF Onboarding!Row
<1>8. /\ oReq' \in [Proc -> Onboarding!Request]
      /\ \A q \in Proc : RequestIsExact(oReq'[q], oRow', oContext', Onboarding!Facts')
  <2>1. RequestIsExact(Onboarding!Idle, oRow', oContext', Onboarding!Facts')
    BY OnboardingConstants DEF RequestIsExact
  <2> QED BY <1>0, <2>1, OnboardingConstants, OnboardingGoes
<1>9. OnboardingData'
  BY <1>0, <1>7 DEF OnboardingData
<1>10. ASSUME oReq[p].alone
       PROVE  /\ seen = oRow /\ oReq[p].facts = Onboarding!Facts
              /\ oReq[p].had <=> "PRESET" \in oRow.steps
              /\ steps \cap Onboarding!Derived = Onboarding!Facts \cap Onboarding!StepsOf(r)
              /\ "PRESET" \in steps <=> oReq[p].had /\ "PRESET" \in Onboarding!StepsOf(r)
  <2>1. /\ seen = oRow /\ oReq[p].facts = Onboarding!Facts
        /\ oReq[p].had <=> "PRESET" \in oRow.steps
    BY <1>0, <1>10 DEF RequestIsExact
  <2>2. Onboarding!Facts \in SUBSET Onboarding!Derived
    BY FactsAre DEF OnboardingInv
  <2> QED BY <1>0, <2>1, <2>2, ReconciledIs DEF steps, Onboarding!Row
<1>11. oReq[p].alone => Onboarding!Says(p)
  <2> SUFFICES ASSUME oReq[p].alone PROVE Onboarding!Says(p)
    OBVIOUS
  <2> DEFINE whole == oRow'.skipped \/ Onboarding!StepsOf(r) \subseteq oRow'.steps
  <2>1. oRow'.steps = s /\ oRow'.done = done /\ oRow'.current = c /\ oRow'.skipped = k
    BY <1>0
  <2>2. whole <=> done
    BY <1>2, <1>3, <1>5, <1>10, <2>1
  <2>3. oRow'.steps \cap Onboarding!Derived = Onboarding!Facts \cap Onboarding!StepsOf(r)
    BY <1>5, <1>10, <2>1
  <2>4. "PRESET" \in oRow'.steps <=> oReq[p].had /\ "PRESET" \in Onboarding!StepsOf(r)
    BY <1>5, <1>10, <2>1
  <2>5. ("DONE" \in oRow'.steps <=> whole) /\ oRow'.done = whole
    <3>1. whole \in BOOLEAN
      BY <1>2, <2>1
    <3> HIDE DEF whole
    <3> QED BY <1>2, <1>5, <2>1, <2>2, <3>1
  <2>6. oRow'.current = IF whole THEN "DONE" ELSE Onboarding!Current(oRow'.steps, r)
    BY <1>6, <2>1, <2>2
  <2> QED BY <2>3, <2>4, <2>5, <2>6 DEF Onboarding!Says
<1>12. Onboarding!EndsExact
  <2>1. \A q \in Proc : q # p /\ Onboarding!At(q, "save") => ~Onboarding!At(q, "idle")
    BY DEF Onboarding!At
  <2>2. ASSUME NEW q \in Proc, Onboarding!At(q, "save"), oReq[q].alone,
               oReq'[q].stage = "idle"
        PROVE  Onboarding!Says(q)
    <3>1. q = p
      BY <1>0, <2>1, <2>2, OthersGoOn
    <3> QED BY <1>11, <2>2, <3>1
  <2> QED BY <2>2 DEF Onboarding!EndsExact
<1>13. Onboarding!LosesPreset
  <2> SUFFICES ASSUME "PRESET" \in oRow.steps, "PRESET" \notin oRow'.steps
               PROVE  ~oReq[p].alone \/ oReq[p].role # "ADMIN"
    BY <1>0 DEF Onboarding!LosesPreset
  <2> SUFFICES ASSUME oReq[p].alone, r = "ADMIN"
               PROVE  FALSE
    OBVIOUS
  <2>1. "PRESET" \in Onboarding!StepsOf(r)
    BY RequiredSteps
  <2> QED BY <1>0, <1>5, <1>10, <2>1
<1> QED BY <1>0, <1>7, <1>8, <1>9, <1>12, <1>13, OnboardingWhole
        DEF OnboardingKept, Onboarding!ReplacesOnlyAsked, Onboarding!StaysSkipped

\* What is done elsewhere.
LEMMA OnboardingElsewhere ==
  ASSUME OnboardingInv,
         \/ \E s \in {"FIRST_IDEA", "FIRST_CONTENT"} : Onboarding!Work(s)
         \/ \E r \in Roles : Onboarding!ChangeRole(r)
  PROVE  OnboardingInv' /\ OnboardingKept
<1>1. OnboardingData /\ Onboarding!Counts /\ Onboarding!Disturbs /\ UNCHANGED <<oContext, oRow>>
  BY OnboardingDataIs DEF Onboarding!Work, Onboarding!ChangeRole
<1>2. OnboardingData'
  <2>1. oLeft' \in 0..MaxChanges
    BY <1>1, OnboardingCounts
  <2>2. oRole' \in Roles /\ oHas' \in SUBSET {"FIRST_IDEA", "FIRST_CONTENT"}
    BY <1>1 DEF OnboardingData, Onboarding!Work, Onboarding!ChangeRole
  <2> QED BY <1>1, <2>1, <2>2 DEF OnboardingData
<1>3. /\ oReq' \in [Proc -> Onboarding!Request]
      /\ \A q \in Proc : RequestIsExact(oReq'[q], oRow', oContext', Onboarding!Facts')
  BY <1>1, OnboardingDisturbed
<1> QED BY <1>1, <1>2, <1>3, OnboardingWhole, OnboardingRowStays

LEMMA OnboardingStarted == MCInit => OnboardingInv
<1> SUFFICES ASSUME Onboarding!Init PROVE OnboardingInv
  BY DEF MCInit
<1>1. OnboardingData
  BY OnboardingConstants, OnboardingAssumption DEF Onboarding!Init, OnboardingData,
     Onboarding!NoRow
<1>2. \A p \in Proc : oReq[p] = Onboarding!Idle
  BY DEF Onboarding!Init
<1>3. \A p \in Proc : RequestIsExact(oReq[p], oRow, oContext, Onboarding!Facts)
  BY <1>2, OnboardingConstants DEF RequestIsExact
<1>4. oReq \in [Proc -> Onboarding!Request]
  BY OnboardingConstants DEF Onboarding!Init
<1> QED BY <1>1, <1>3, <1>4 DEF OnboardingInv, OnboardingData, Onboarding!TypeOK

LEMMA OnboardingStep ==
  ASSUME OnboardingInv, [MCNext]_all
  PROVE  OnboardingInv' /\ (OnboardingKept \/ UNCHANGED oVars)
<1>1. CASE UNCHANGED oVars
  <2>1. UNCHANGED <<oRole, oContext, oHas, oRow, oLeft, oReq>> /\ Onboarding!Facts' = Onboarding!Facts
    BY <1>1 DEF oVars, Onboarding!Facts
  <2> QED BY <1>1, <2>1 DEF OnboardingInv, Onboarding!TypeOK
<1>2. CASE Onboarding!Next
  <2>1. ASSUME NEW p \in Proc, Onboarding!Handle(p)
        PROVE  OnboardingInv' /\ OnboardingKept
    BY <2>1, OnboardingBegins, OnboardingReads, OnboardingMarks, OnboardingCommits,
       OnboardingSaves DEF Onboarding!Handle
  <2> QED BY <1>2, <2>1, OnboardingElsewhere DEF Onboarding!Next
<1> QED BY <1>1, <1>2 DEF MCNext, TeamNext, AccountsNext, OnboardingNext, all, oVars

\* However many requests of the member cross: one that nothing came in between
\* ends with an exact progress, a preset replaces no context unasked, its choice
\* is lost only to what undoes it, and a path that was skipped stays so.
THEOREM OnboardingAlwaysKept == MCSpec => OnboardingIsKept
<1>1. OnboardingInv /\ [MCNext]_all => OnboardingInv' /\ [OnboardingKept]_oVars
  BY OnboardingStep
<1>2. [OnboardingKept]_oVars <=>
        [/\ Onboarding!EndsExact /\ Onboarding!ReplacesOnlyAsked
         /\ Onboarding!LosesPreset /\ Onboarding!StaysSkipped]_oVars
  BY DEF OnboardingKept
<1> QED BY <1>1, <1>2, OnboardingStarted, PTL DEF MCSpec, OnboardingIsKept

=============================================================================
