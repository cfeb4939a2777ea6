------------------------ MODULE IdeaDiscovery_proofs ------------------------
(***************************************************************************)
(* Proofs about IdeaDiscovery, for any number of members, candidates and   *)
(* requests.  The invariant says what a snapshot that may still commit     *)
(* knows of the reactions, and how the dates in flight, in the rows and in *)
(* the profile compare.                                                    *)
(***************************************************************************)
EXTENDS IdeaDiscovery, TLAPS

LEMMA Nobody == Idle \in Request /\ NoRow \in Row /\ NoRows \in Rows /\ ~Qualified(NoRow)
<1>1. (CHOOSE u \in User : TRUE) \in User /\ (CHOOSE c \in Candidate : TRUE) \in Candidate
  BY DiscoveryAssumption
<1>2. NoRow \in Row
  BY DEF NoRow, Row
<1>3. NoRows \in Rows
  BY <1>2 DEF NoRows, Rows
<1>4. ~Qualified(NoRow)
  BY DiscoveryAssumption DEF Qualified, NoRow
<1>5. Idle \in Request
  BY <1>1, <1>3, DiscoveryAssumption DEF Idle, Request, Signal
<1> QED
  BY <1>2, <1>3, <1>4, <1>5

-----------------------------------------------------------------------------
(* Types.                                                                  *)

\* A request that starts its transaction has an attempt left.
TriesLeft == \A p \in Proc : req[p].stage = "asked" => req[p].tries < Attempts

Types == TypeOK /\ TriesLeft

LEMMA InitTypes == Init => Types
<1> SUFFICES ASSUME Init PROVE Types
  OBVIOUS
<1>1. 1 \in 1 .. MaxDate + 1 /\ 0 \in Date \cup {0}
  BY DiscoveryAssumption DEF Date
<1>2. profile \in Profile
  BY <1>1 DEF Init, Profile
<1>3. TypeOK
  BY <1>1, <1>2, Nobody DEF Init, TypeOK
<1>4. TriesLeft
  BY DEF Init, TriesLeft, Idle
<1> QED
  BY <1>3, <1>4 DEF Types

\* What a request does to itself keeps its type.
LEMMA OwnStep ==
    ASSUME Types, NEW p \in Proc, NEW r \in Request, req' = [req EXCEPT ![p] = r],
           r.stage = "asked" => r.tries < Attempts
    PROVE  req' \in [Proc -> Request] /\ TriesLeft'
BY DEF Types, TypeOK, TriesLeft

LEMMA RequestFields ==
    ASSUME TypeOK, NEW p \in Proc
    PROVE  /\ req[p] \in Request
           /\ req[p].user \in User /\ req[p].about \in Candidate /\ req[p].signal \in Signal
           /\ req[p].at \in Date \cup {0} /\ req[p].tries \in 0 .. Attempts
           /\ req[p].seen \in Rows /\ req[p].fresh \in BOOLEAN /\ Rc(p) \in Pair
BY DEF TypeOK, Request, Rc, Pair

LEMMA ReturnedType ==
    ASSUME TypeOK, NEW p \in Proc
    PROVE  Returned(p) \in Row
<1>1. req[p].seen[Rc(p)] \in Row
  BY RequestFields DEF Rows
<1>2. [signal |-> req[p].signal, at |-> req[p].at] \in Row
  BY RequestFields DEF Row
<1> QED
  BY <1>1, <1>2 DEF Returned

\* The end of a request, whatever it was.
LEMMA EndStep ==
    ASSUME Types, NEW p \in Proc, Ends(p)
    PROVE  req' \in [Proc -> Request] /\ TriesLeft'
BY Nobody, OwnStep DEF Ends, Idle

LEMMA OutdateStep ==
    ASSUME Types, NEW p \in Proc, NEW s \in {"idle", "stored"}, Outdate(p, s)
    PROVE  req' \in [Proc -> Request] /\ TriesLeft' /\ crossed' \in BOOLEAN
<1> DEFINE mine == [Idle EXCEPT !.kind = req[p].kind, !.stage = s, !.user = req[p].user,
                                !.about = req[p].about, !.signal = req[p].signal]
<1>1. mine \in Request /\ mine.stage # "asked"
  BY Nobody, RequestFields DEF Request, Types, Idle
<1>2. \A q \in Proc : /\ [req[q] EXCEPT !.fresh = FALSE] \in Request
                      /\ [req[q] EXCEPT !.fresh = FALSE].stage = req[q].stage
                      /\ [req[q] EXCEPT !.fresh = FALSE].tries = req[q].tries
  BY RequestFields DEF Request, Types
<1>3. crossed' \in BOOLEAN
  BY DEF Outdate, Types, TypeOK
<1>4. req' = [q \in Proc |-> IF q = p THEN mine ELSE [req[q] EXCEPT !.fresh = FALSE]]
  BY DEF Outdate
<1> HIDE DEF mine
<1>5. req' \in [Proc -> Request]
  BY <1>1, <1>2, <1>4
<1>6. TriesLeft'
  BY <1>1, <1>2, <1>4 DEF TriesLeft, Types
<1> QED
  BY <1>3, <1>5, <1>6

\* The steps of a request before it has a date, and those that only end it.
LEMMA QuietTypes ==
    ASSUME Types, NEW p \in Proc,
           \/ Generate(p) \/ InsertBatch(p) \/ Submit(p) \/ Reset(p)
           \/ Refused(p) \/ Answer(p) \/ Fails(p)
    PROVE  Types'
<1>0. TypeOK /\ req[p] \in Request /\ Attempts > 0
  BY RequestFields, DiscoveryAssumption DEF Types
<1>1. CASE Generate(p)
  <2>1. PICK batch \in SUBSET Candidate :
          req' = [req EXCEPT ![p] = [Idle EXCEPT !.kind = "generate", !.stage = "checked",
                                                 !.batch = batch]]
    BY <1>1 DEF Generate
  <2>2. [Idle EXCEPT !.kind = "generate", !.stage = "checked", !.batch = batch] \in Request
    BY Nobody DEF Request
  <2>3. req' \in [Proc -> Request] /\ TriesLeft'
    BY <2>1, <2>2, OwnStep DEF Idle
  <2> QED
    BY <1>0, <1>1, <2>3 DEF Generate, TypeOK, Types
<1>2. CASE InsertBatch(p)
  <2>1. presented' \in SUBSET Candidate
    BY <1>0, <1>2 DEF InsertBatch, TypeOK, Request
  <2>2. req' \in [Proc -> Request] /\ TriesLeft'
    BY <1>2, EndStep DEF InsertBatch
  <2> QED
    BY <1>0, <1>2, <2>1, <2>2 DEF InsertBatch, TypeOK, Types
<1>3. CASE Submit(p)
  <2>1. PICK u \in account, c \in presented, s \in Signal :
          req' = [req EXCEPT ![p] = [Idle EXCEPT !.kind = "react", !.stage = "asked",
                                                 !.user = u, !.about = c, !.signal = s]]
    BY <1>3 DEF Submit
  <2>2. [Idle EXCEPT !.kind = "react", !.stage = "asked", !.user = u, !.about = c,
                     !.signal = s] \in Request
    BY <1>0, Nobody DEF Request, TypeOK
  <2>3. req' \in [Proc -> Request] /\ TriesLeft'
    BY <1>0, <2>1, <2>2, OwnStep DEF Idle
  <2> QED
    BY <1>0, <1>3, <2>3 DEF Submit, TypeOK, Types
<1>4. CASE Reset(p)
  <2>1. [Idle EXCEPT !.kind = "reset", !.stage = "asked"] \in Request
    BY Nobody DEF Request
  <2>2. req' \in [Proc -> Request] /\ TriesLeft'
    BY <1>0, <1>4, <2>1, OwnStep DEF Reset, Idle
  <2> QED
    BY <1>0, <1>4, <2>2 DEF Reset, TypeOK, Types
<1>5. CASE Refused(p)
  <2> DEFINE again == [req[p] EXCEPT !.stage = "asked", !.at = 0, !.seen = NoRows,
                                     !.fresh = FALSE]
  <2>1. CASE Again(p)
    <3>1. req' = [req EXCEPT ![p] = again]
      BY <1>0, <1>5, <2>1 DEF Refused, TypeOK
    <3>2. again \in Request /\ again.tries < Attempts
      BY <1>0, <2>1, Nobody DEF Request, Again
    <3>3. req' \in [Proc -> Request] /\ TriesLeft'
      BY <3>1, <3>2, OwnStep
    <3> QED
      BY <1>0, <1>5, <3>3 DEF Refused, TypeOK, Types
  <2>2. CASE ~Again(p)
    <3>1. Ends(p)
      BY <1>0, <1>5, <2>2 DEF Refused, Ends, TypeOK
    <3>2. req' \in [Proc -> Request] /\ TriesLeft'
      BY <3>1, EndStep
    <3> QED
      BY <1>0, <1>5, <3>2 DEF Refused, TypeOK, Types
  <2> QED
    BY <2>1, <2>2
<1>6. CASE Answer(p) \/ Fails(p)
  <2>1. req' \in [Proc -> Request] /\ TriesLeft'
    BY <1>6, EndStep DEF Answer, Fails
  <2> QED
    BY <1>0, <1>6, <2>1 DEF Answer, Fails, TypeOK, Types
<1> QED
  BY <1>1, <1>2, <1>3, <1>4, <1>5, <1>6

LEMMA TransactionTypes ==
    ASSUME Types, NEW p \in Proc,
           DrawDate(p) \/ Open(p) \/ CommitReaction(p) \/ CommitReset(p)
    PROVE  Types'
<1>0. TypeOK /\ req[p] \in Request
  BY RequestFields DEF Types
<1>1. CASE DrawDate(p)
  <2> DEFINE r == [req[p] EXCEPT !.stage = "dated", !.at = clock, !.tries = @ + 1]
  <2>1. clock \in Date /\ clock' \in 1 .. MaxDate + 1
    BY <1>0, <1>1, DiscoveryAssumption DEF DrawDate, TypeOK, Date
  <2>2. req[p].tries + 1 \in 0 .. Attempts
    BY <1>0, <1>1, RequestFields, DiscoveryAssumption DEF DrawDate, Types, TriesLeft
  <2>3. r \in Request /\ r.stage = "dated"
    BY <1>0, <2>1, <2>2 DEF Request
  <2>4. req' = [req EXCEPT ![p] = r]
    BY <1>0, <1>1 DEF DrawDate, TypeOK
  <2>5. req' \in [Proc -> Request] /\ TriesLeft'
    BY <2>3, <2>4, OwnStep
  <2> QED
    BY <1>0, <1>1, <2>1, <2>5 DEF DrawDate, TypeOK, Types
<1>2. CASE Open(p)
  <2> DEFINE r == [req[p] EXCEPT !.stage = "open", !.seen = reaction, !.fresh = TRUE]
  <2>1. r \in Request /\ r.stage = "open"
    BY <1>0 DEF Request, TypeOK
  <2>2. req' = [req EXCEPT ![p] = r]
    BY <1>0, <1>2 DEF Open, TypeOK
  <2>3. req' \in [Proc -> Request] /\ TriesLeft'
    BY <2>1, <2>2, OwnStep
  <2> QED
    BY <1>0, <1>2, <2>3 DEF Open, TypeOK, Types
<1>3. CASE CommitReaction(p)
  <2>1. profile' \in Profile
    BY <1>0, <1>3 DEF CommitReaction, TypeOK, Profile, Since
  <2>2. reaction' \in Rows
    BY <1>0, <1>3, ReturnedType, RequestFields DEF CommitReaction, TypeOK, Rows
  <2>3. saved' \in SUBSET Candidate /\ learned' \in SUBSET Pair
    BY <1>0, <1>3, RequestFields DEF CommitReaction, TypeOK
  <2>4. req' \in [Proc -> Request] /\ TriesLeft' /\ crossed' \in BOOLEAN
    BY <1>3, OutdateStep DEF CommitReaction
  <2> QED
    BY <1>0, <1>3, <2>1, <2>2, <2>3, <2>4 DEF CommitReaction, TypeOK, Types
<1>4. CASE CommitReset(p)
  <2>1. profile' \in Profile
    BY <1>0, <1>4, RequestFields DEF CommitReset, Profile
  <2>2. req' \in [Proc -> Request] /\ TriesLeft' /\ crossed' \in BOOLEAN
    BY <1>4, OutdateStep DEF CommitReset
  <2> QED
    BY <1>0, <1>4, <2>1, <2>2 DEF CommitReset, TypeOK, Types
<1> QED
  BY <1>1, <1>2, <1>3, <1>4

LEMMA DeleteTypes ==
    ASSUME Types, NEW u \in User, DeleteAccount(u)
    PROVE  Types'
BY Nobody DEF DeleteAccount, Types, TypeOK, TriesLeft, Rows

LEMMA NextTypes == Types /\ [Next]_vars => Types'
<1> SUFFICES ASSUME Types, [Next]_vars PROVE Types'
  OBVIOUS
<1>1. CASE \E p \in Proc : Handle(p)
  BY <1>1, QuietTypes, TransactionTypes DEF Handle
<1>2. CASE \E u \in User : DeleteAccount(u)
  BY <1>2, DeleteTypes
<1>3. CASE UNCHANGED vars
  BY <1>3 DEF vars, Types, TypeOK, TriesLeft
<1> QED
  BY <1>1, <1>2, <1>3 DEF Next

LEMMA TypesHold == Spec => []Types
BY InitTypes, NextTypes, PTL DEF Spec

\* The rows, the requests and the histories keep their types, and a request
\* never starts more often than retrySerializableTransaction allows.
THEOREM TypesKept == Spec => []TypeOK
<1>1. Types => TypeOK
  BY DEF Types
<1> QED
  BY <1>1, TypesHold, PTL

-----------------------------------------------------------------------------
(* What is stored, what snapshots know of it, and dates.                   *)

\* A snapshot that may commit misses nothing but deleted accounts.
FreshInv ==
    \A p \in Proc : req[p].fresh =>
        /\ req[p].stage = "open"
        /\ \A rc \in Pair : \/ reaction[rc] = req[p].seen[rc]
                            \/ reaction[rc] = NoRow /\ rc[1] \notin account

\* A date is drawn that may still be stored.
Underway(p) == req[p].stage = "dated" \/ req[p].fresh

DateInv ==
    /\ profile.resetAt < clock
    /\ \A rc \in Pair : reaction[rc].at < clock
    /\ \A p \in Proc : Underway(p) => req[p].at < clock

\* The date of a reaction tells whether it was stored since the last reset.
DatesTell(rows) ==
    \A rc \in Pair : Qualified(rows[rc]) =>
        (rc \in learned <=> rows[rc].at > profile.resetAt)

LearnInv ==
    /\ DatesTell(reaction)
    /\ \A p \in Proc : req[p].fresh => DatesTell(req[p].seen)
    /\ \A p \in Proc : Underway(p) /\ req[p].kind = "react" => req[p].at > profile.resetAt
    /\ \A p \in Proc : Underway(p) /\ req[p].kind = "reset" =>
         \A rc \in Pair : reaction[rc].at <= req[p].at
    /\ \A rc \in learned : rc[1] \in account => reaction[rc] # NoRow
    /\ \A rc \in learned : reaction[rc] # NoRow => Qualified(reaction[rc])
    /\ profile.counted \subseteq learned
    /\ \A rc \in learned : reaction[rc] # NoRow => rc \in profile.counted

Inv ==
    /\ Types /\ FreshInv /\ DateInv
    /\ ~crossed => LearnInv
    /\ AnnouncedIsStored /\ LikedIsSaved

LEMMA RowFields ==
    ASSUME TypeOK
    PROVE  /\ clock \in Nat /\ profile.resetAt \in Nat
           /\ \A rc \in Pair : reaction[rc] \in Row /\ reaction[rc].at \in Nat
           /\ \A p \in Proc : /\ req[p].at \in Nat
                              /\ \A rc \in Pair : /\ req[p].seen[rc] \in Row
                                                  /\ req[p].seen[rc].at \in Nat
<1>1. (\A d \in Date \cup {0} : d \in Nat) /\ \A d \in 1 .. MaxDate + 1 : d \in Nat
  BY DiscoveryAssumption DEF Date
<1>2. \A row \in Row : row.at \in Nat
  BY <1>1 DEF Row
<1>3. \A rows \in Rows, rc \in Pair : rows[rc] \in Row /\ rows[rc].at \in Nat
  BY <1>2 DEF Rows
<1>4. clock \in Nat /\ profile.resetAt \in Nat
  BY <1>1 DEF TypeOK, Profile
<1>5. ASSUME NEW p \in Proc PROVE req[p].at \in Nat /\ req[p].seen \in Rows
  BY <1>1, RequestFields
<1>6. reaction \in Rows
  BY DEF TypeOK
<1> QED
  BY <1>3, <1>4, <1>5, <1>6

LEMMA InitInv == Init => Inv
<1> SUFFICES ASSUME Init PROVE Inv
  OBVIOUS
<1>1. Types
  BY InitTypes
<1>2. \A p \in Proc : req[p].stage = "idle" /\ req[p].fresh = FALSE
  BY DEF Init, Idle
<1>3. \A rc \in Pair : reaction[rc] = NoRow /\ reaction[rc].at = 0 /\ reaction[rc].signal = "NONE"
  BY DEF Init, NoRows, NoRow
<1>4. FreshInv /\ DateInv
  BY <1>2, <1>3 DEF FreshInv, DateInv, Underway, Init
<1>5. LearnInv
  BY <1>2, <1>3, Nobody DEF LearnInv, DatesTell, Underway, Init
<1>6. AnnouncedIsStored /\ LikedIsSaved
  BY <1>2, <1>3 DEF AnnouncedIsStored, LikedIsSaved
<1> QED
  BY <1>1, <1>4, <1>5, <1>6 DEF Inv

\* A request that neither draws a date nor commits.
LEMMA QuietRequests ==
    ASSUME Types, NEW p \in Proc,
           \/ Generate(p) \/ InsertBatch(p) \/ Submit(p) \/ Reset(p)
           \/ Refused(p) \/ Answer(p) \/ Fails(p)
    PROVE  /\ UNCHANGED <<clock, account, reaction, saved, profile, learned, crossed>>
           /\ \A q \in Proc :
                \/ req'[q] = req[q]
                \/ req'[q].stage \in {"idle", "asked", "checked"} /\ req'[q].fresh = FALSE
<1>0. TypeOK
  BY DEF Types
<1>1. UNCHANGED <<clock, account, reaction, saved, profile, learned, crossed>>
  BY DEF Generate, InsertBatch, Submit, Reset, Refused, Answer, Fails
<1>2. CASE InsertBatch(p) \/ Answer(p) \/ Fails(p)
  BY <1>0, <1>1, <1>2 DEF InsertBatch, Answer, Fails, Ends, Idle, TypeOK
<1>3. CASE Generate(p)
  BY <1>0, <1>1, <1>3 DEF Generate, Idle, TypeOK
<1>4. CASE Submit(p)
  BY <1>0, <1>1, <1>4, ZenonT(60) DEF Submit, Idle, TypeOK
<1>5. CASE Reset(p)
  BY <1>0, <1>1, <1>5 DEF Reset, Idle, TypeOK
<1>6. CASE Refused(p)
  <2>1. req[p] \in Request
    BY <1>0 DEF TypeOK
  <2> QED
    BY <1>0, <1>1, <1>6, <2>1 DEF Refused, Idle, TypeOK, Request
<1> QED
  BY <1>2, <1>3, <1>4, <1>5, <1>6

LEMMA QuietStep ==
    ASSUME Inv, NEW p \in Proc,
           \/ Generate(p) \/ InsertBatch(p) \/ Submit(p) \/ Reset(p)
           \/ Refused(p) \/ Answer(p) \/ Fails(p)
    PROVE  Inv'
<1>1. Types /\ Types'
  BY QuietTypes DEF Inv
<1>2. /\ UNCHANGED <<clock, account, reaction, saved, profile, learned, crossed>>
      /\ \A q \in Proc :
           \/ req'[q] = req[q]
           \/ req'[q].stage \in {"idle", "asked", "checked"} /\ req'[q].fresh = FALSE
  BY <1>1, QuietRequests
<1>3. FreshInv' /\ DateInv'
  BY <1>2 DEF Inv, FreshInv, DateInv, Underway
<1>4. (~crossed => LearnInv)'
  BY <1>2 DEF Inv, LearnInv, DatesTell, Underway
<1>5. AnnouncedIsStored' /\ LikedIsSaved'
  BY <1>2 DEF Inv, AnnouncedIsStored, LikedIsSaved, Rc
<1> QED
  BY <1>1, <1>3, <1>4, <1>5 DEF Inv

LEMMA DrawStep ==
    ASSUME Inv, NEW p \in Proc, DrawDate(p)
    PROVE  Inv'
<1>1. TypeOK /\ Types' /\ req[p] \in Request
  BY TransactionTypes, RequestFields DEF Inv, Types
<1>2. /\ UNCHANGED <<account, reaction, saved, profile, learned, crossed>>
      /\ clock' = clock + 1
      /\ req'[p] = [req[p] EXCEPT !.stage = "dated", !.at = clock, !.tries = @ + 1]
      /\ \A q \in Proc \ {p} : req'[q] = req[q]
      /\ req[p].stage = "asked"
  BY <1>1 DEF DrawDate, TypeOK
<1>3. /\ req'[p].stage = "dated" /\ req'[p].at = clock /\ req'[p].kind = req[p].kind
      /\ req'[p].fresh = FALSE
  BY <1>1, <1>2 DEF Inv, FreshInv, Request
<1>4. FreshInv'
  <2>1. \A q \in Proc : req'[q].fresh => req'[q] = req[q]
    BY <1>2, <1>3
  <2> QED
    BY <1>2, <2>1 DEF Inv, FreshInv
<1>5. DateInv'
  <2>1. profile'.resetAt < clock' /\ \A rc \in Pair : reaction'[rc].at < clock'
    BY <1>1, <1>2, RowFields DEF Inv, DateInv
  <2>2. ASSUME NEW q \in Proc, Underway(q)' PROVE req'[q].at < clock'
    <3>1. CASE q = p
      <4>1. req'[q].at = clock /\ clock \in Nat
        BY <1>1, <1>3, <3>1, RowFields
      <4> QED
        BY <1>2, <4>1
    <3>2. CASE q # p
      BY <1>1, <1>2, <2>2, <3>2, RowFields DEF Inv, DateInv, Underway
    <3> QED
      BY <3>1, <3>2
  <2> QED
    BY <2>1, <2>2 DEF DateInv
<1>6. ASSUME ~crossed PROVE LearnInv'
  <2>1. LearnInv /\ DateInv
    BY <1>6 DEF Inv
  <2>2. ASSUME NEW q \in Proc, Underway(q)'
        PROVE  /\ req'[q].kind = "react" => req'[q].at > profile'.resetAt
               /\ req'[q].kind = "reset" => \A rc \in Pair : reaction'[rc].at <= req'[q].at
    <3>1. CASE q = p
      <4>1. req'[q].at = clock /\ profile.resetAt < clock
        BY <1>3, <2>1, <3>1 DEF DateInv
      <4>2. \A rc \in Pair : reaction[rc].at <= clock
        BY <1>1, <2>1, RowFields DEF DateInv
      <4>3. clock > profile.resetAt
        BY <1>1, <4>1, RowFields
      <4> QED
        BY <1>2, <4>1, <4>2, <4>3
    <3>2. CASE q # p
      BY <1>2, <2>1, <2>2, <3>2 DEF LearnInv, Underway
    <3> QED
      BY <3>1, <3>2
  <2>3. \A q \in Proc : req'[q].fresh => DatesTell(req[q].seen)' /\ req'[q].seen = req[q].seen
    BY <1>2, <1>3, <2>1 DEF LearnInv, DatesTell
  <2> QED
    BY <1>2, <2>1, <2>2, <2>3 DEF LearnInv, DatesTell
<1>7. AnnouncedIsStored' /\ LikedIsSaved'
  BY <1>2, <1>3, ZenonT(60) DEF Inv, AnnouncedIsStored, LikedIsSaved, Rc
<1> QED
  BY <1>1, <1>2, <1>4, <1>5, <1>6, <1>7 DEF Inv

LEMMA OpenStep ==
    ASSUME Inv, NEW p \in Proc, Open(p)
    PROVE  Inv'
<1>1. TypeOK /\ Types' /\ req[p] \in Request
  BY TransactionTypes, RequestFields DEF Inv, Types
<1>2. /\ UNCHANGED <<clock, account, reaction, saved, profile, learned, crossed>>
      /\ req'[p] = [req[p] EXCEPT !.stage = "open", !.seen = reaction, !.fresh = TRUE]
      /\ \A q \in Proc \ {p} : req'[q] = req[q]
      /\ req[p].stage = "dated"
  BY <1>1 DEF Open, TypeOK
<1>3. /\ req'[p].stage = "open" /\ req'[p].at = req[p].at /\ req'[p].kind = req[p].kind
      /\ req'[p].seen = reaction
  BY <1>1, <1>2 DEF Request
<1>4. FreshInv'
  <2>1. ASSUME NEW q \in Proc, req'[q].fresh
        PROVE  /\ req'[q].stage = "open"
               /\ \A rc \in Pair : \/ reaction'[rc] = req'[q].seen[rc]
                                   \/ reaction'[rc] = NoRow /\ rc[1] \notin account'
    <3>1. CASE q = p
      BY <1>2, <1>3, <3>1
    <3>2. CASE q # p
      BY <1>2, <2>1, <3>2 DEF Inv, FreshInv
    <3> QED
      BY <3>1, <3>2
  <2> QED
    BY <2>1 DEF FreshInv
<1>5. DateInv'
  BY <1>2, <1>3 DEF Inv, DateInv, Underway
<1>6. ASSUME ~crossed PROVE LearnInv'
  <2>1. LearnInv
    BY <1>6 DEF Inv
  <2>2. ASSUME NEW q \in Proc, req'[q].fresh PROVE DatesTell(req[q].seen)'
    <3>1. CASE q = p
      BY <1>2, <1>3, <2>1, <3>1 DEF LearnInv, DatesTell, Qualified
    <3>2. CASE q # p
      <4>1. req'[q] = req[q] /\ DatesTell(req[q].seen)
        BY <1>2, <2>1, <2>2, <3>2 DEF LearnInv
      <4> QED
        BY <1>2, <4>1 DEF DatesTell, Qualified
    <3> QED
      BY <3>1, <3>2
  <2>3. \A q \in Proc : Underway(q)' => Underway(q) /\ req'[q].kind = req[q].kind
                                        /\ req'[q].at = req[q].at
    BY <1>2, <1>3 DEF Underway
  <2>4. DatesTell(reaction)' /\ \A q \in Proc : req'[q].fresh => DatesTell(req[q].seen)'
    BY <1>2, <2>1, <2>2 DEF LearnInv, DatesTell, Qualified
  <2>5. /\ \A q \in Proc : Underway(q)' /\ req'[q].kind = "react" => req'[q].at > profile'.resetAt
        /\ \A q \in Proc : Underway(q)' /\ req'[q].kind = "reset" =>
             \A rc \in Pair : reaction'[rc].at <= req'[q].at
    BY <1>2, <2>1, <2>3 DEF LearnInv
  <2> QED
    BY <1>2, <2>1, <2>4, <2>5 DEF LearnInv
<1>7. AnnouncedIsStored' /\ LikedIsSaved'
  BY <1>2, <1>3, ZenonT(60) DEF Inv, AnnouncedIsStored, LikedIsSaved, Rc
<1> QED
  BY <1>1, <1>2, <1>4, <1>5, <1>6, <1>7 DEF Inv

LEMMA Outdated ==
    ASSUME Types, NEW p \in Proc, NEW s \in {"idle", "stored"}, Outdate(p, s)
    PROVE  /\ \A q \in Proc : req'[q].fresh = FALSE
           /\ req'[p].stage = s /\ Rc(p)' = Rc(p)
           /\ req'[p].user = req[p].user /\ req'[p].signal = req[p].signal
           /\ \A q \in Proc \ {p} :
                /\ req'[q].stage = req[q].stage /\ req'[q].kind = req[q].kind
                /\ req'[q].at = req[q].at /\ req'[q].signal = req[q].signal
                /\ req'[q].user = req[q].user /\ Rc(q)' = Rc(q)
           /\ ~crossed' => /\ ~crossed
                           /\ \A q \in Proc \ {p} : req[q].stage = "dated" =>
                                req[p].kind # "reset" /\ req[q].kind # "reset"
<1>1. \A q \in Proc : req[q] \in Request
  BY DEF Types, TypeOK
<1>2. /\ req'[p] = [Idle EXCEPT !.kind = req[p].kind, !.stage = s, !.user = req[p].user,
                                !.about = req[p].about, !.signal = req[p].signal]
      /\ \A q \in Proc \ {p} : req'[q] = [req[q] EXCEPT !.fresh = FALSE]
  BY DEF Outdate
<1>3. /\ req'[p].fresh = FALSE /\ req'[p].stage = s /\ req'[p].user = req[p].user
      /\ req'[p].about = req[p].about /\ req'[p].signal = req[p].signal
  BY <1>2 DEF Idle
<1>4. ASSUME NEW q \in Proc \ {p}
      PROVE  /\ req'[q].fresh = FALSE
             /\ req'[q].stage = req[q].stage /\ req'[q].kind = req[q].kind
             /\ req'[q].at = req[q].at /\ req'[q].signal = req[q].signal
             /\ req'[q].user = req[q].user /\ req'[q].about = req[q].about
  <2>1. req'[q] = [req[q] EXCEPT !.fresh = FALSE] /\ req[q] \in Request
    BY <1>1, <1>2
  <2> QED
    BY <2>1 DEF Request
<1>5. ~crossed' => /\ ~crossed
                   /\ \A q \in Proc \ {p} : req[q].stage = "dated" =>
                        req[p].kind # "reset" /\ req[q].kind # "reset"
  BY DEF Outdate
<1> QED
  BY <1>3, <1>4, <1>5 DEF Rc

\* What the transaction of a reaction does to the rows of the reactions.
LEMMA ReactionRows ==
    ASSUME Inv, NEW p \in Proc, CommitReaction(p)
    PROVE  /\ req[p].fresh /\ Rc(p) \in Pair
           /\ reaction'[Rc(p)] = Returned(p) /\ Returned(p).signal = req[p].signal
           /\ \A rc \in Pair \ {Rc(p)} : reaction'[rc] = reaction[rc]
           /\ Replayed(p) => reaction' = reaction /\ Returned(p) = req[p].seen[Rc(p)]
           /\ ~Replayed(p) => /\ reaction[Rc(p)] = NoRow
                              /\ Returned(p).at = req[p].at
<1>1. TypeOK /\ req[p].fresh /\ req[p].user \in account
  BY DEF Inv, Types, CommitReaction, MayCommit
<1>2. Rc(p) \in Pair /\ Rc(p)[1] = req[p].user /\ DOMAIN reaction = Pair
  BY <1>1, RequestFields DEF Rc, TypeOK, Rows
<1>3. reaction[Rc(p)] = req[p].seen[Rc(p)]
  BY <1>1, <1>2 DEF Inv, FreshInv
<1>4. CASE Replayed(p)
  BY <1>1, <1>2, <1>3, <1>4 DEF CommitReaction, Returned, Agrees
<1>5. CASE ~Replayed(p)
  <2>1. reaction' = [reaction EXCEPT ![Rc(p)] = Returned(p)]
    BY <1>5 DEF CommitReaction
  <2>2. reaction[Rc(p)] = NoRow
    BY <1>3, <1>5 DEF Replayed
  <2>3. Returned(p).at = req[p].at /\ Returned(p).signal = req[p].signal
    BY <1>5 DEF Returned
  <2> QED
    BY <1>1, <1>2, <1>5, <2>1, <2>2, <2>3
<1> QED
  BY <1>4, <1>5

LEMMA ReactionLearned ==
    ASSUME Inv, NEW p \in Proc, CommitReaction(p), ~crossed'
    PROVE  LearnInv'
<1>1. TypeOK /\ Types
  BY DEF Inv, Types
<1>2. Outdate(p, "stored") /\ req[p].kind = "react"
  BY DEF CommitReaction
<1>3. /\ ~crossed /\ LearnInv
      /\ \A q \in Proc : req'[q].fresh = FALSE
      /\ req'[p].stage = "stored"
      /\ \A q \in Proc \ {p} : /\ req'[q].stage = req[q].stage /\ req'[q].kind = req[q].kind
                               /\ req'[q].at = req[q].at
                               /\ req[q].stage = "dated" => req[q].kind # "reset"
  BY <1>1, <1>2, Outdated DEF Inv
<1> DEFINE rc0 == Rc(p)
           row == Returned(p)
<1>4. /\ req[p].fresh /\ rc0 \in Pair /\ reaction'[rc0] = row
      /\ \A rc \in Pair \ {rc0} : reaction'[rc] = reaction[rc]
      /\ Replayed(p) => reaction' = reaction /\ row = req[p].seen[rc0]
      /\ ~Replayed(p) => reaction[rc0] = NoRow /\ row.at = req[p].at
  BY ReactionRows
<1>5. /\ profile'.resetAt = profile.resetAt
      /\ profile'.counted = Since([req[p].seen EXCEPT ![rc0] = row], profile.resetAt)
  BY <1>1 DEF CommitReaction, TypeOK, Profile
<1>6. learned' = IF Replayed(p) \/ ~Qualified(row) THEN learned ELSE learned \cup {rc0}
  BY DEF CommitReaction
<1>7. account' = account /\ rc0[1] \in account
  BY DEF CommitReaction, Rc
<1>8. DOMAIN req[p].seen = Pair
  BY <1>1, RequestFields DEF Rows
<1>9. req[p].at > profile.resetAt /\ DatesTell(req[p].seen) /\ DatesTell(reaction)
  BY <1>2, <1>3, <1>4 DEF LearnInv, Underway
<1>10. rc0 \in learned => reaction[rc0] # NoRow
  BY <1>3, <1>7 DEF LearnInv
<1> HIDE DEF rc0, row
<1>11. rc0 \in learned' /\ Qualified(row) => row.at > profile.resetAt
  BY <1>4, <1>6, <1>9, <1>10 DEF DatesTell
<1>12. Qualified(row) /\ row.at > profile.resetAt => rc0 \in learned'
  BY <1>4, <1>6, <1>9 DEF DatesTell
<1>13. DatesTell(reaction)'
  <2>1. ASSUME NEW rc \in Pair, Qualified(reaction'[rc])
        PROVE  rc \in learned' <=> reaction'[rc].at > profile'.resetAt
    <3>1. CASE rc = rc0
      BY <1>4, <1>5, <1>11, <1>12, <2>1, <3>1
    <3>2. CASE rc # rc0
      BY <1>4, <1>5, <1>6, <1>9, <2>1, <3>2 DEF DatesTell
    <3> QED
      BY <3>1, <3>2
  <2> QED
    BY <2>1 DEF DatesTell, Qualified
<1>14. ASSUME NEW q \in Proc, Underway(q)'
       PROVE  /\ req'[q].kind = "react" => req'[q].at > profile'.resetAt
              /\ req'[q].kind # "reset"
  <2>1. q # p /\ req[q].stage = "dated" /\ req'[q].kind = req[q].kind /\ req'[q].at = req[q].at
    BY <1>3, <1>14 DEF Underway
  <2> QED
    BY <1>3, <1>5, <2>1 DEF LearnInv, Underway
<1>15. ASSUME NEW rc \in learned', reaction'[rc] # NoRow
       PROVE  Qualified(reaction'[rc]) /\ rc \in profile'.counted
  <2>1. rc \in Pair /\ (rc \in learned \/ rc = rc0)
    BY <1>1, <1>4, <1>6 DEF TypeOK
  <2>2. CASE rc = rc0
    <3>1. Qualified(row)
      BY <1>3, <1>4, <1>6, <1>10, <1>15, <2>2 DEF LearnInv
    <3>2. row.at > profile.resetAt
      BY <1>11, <1>15, <2>2, <3>1
    <3> QED
      BY <1>4, <1>5, <1>8, <2>1, <2>2, <3>1, <3>2 DEF Since
  <2>3. CASE rc # rc0
    <3>1. rc \in learned /\ reaction'[rc] = reaction[rc] /\ reaction[rc] # NoRow
      BY <1>4, <1>15, <2>1, <2>3
    <3>2. Qualified(reaction[rc]) /\ reaction[rc].at > profile.resetAt
      BY <1>3, <1>9, <2>1, <3>1 DEF LearnInv, DatesTell
    <3>3. reaction[rc] = req[p].seen[rc]
      BY <1>4, <2>1, <3>1 DEF Inv, FreshInv
    <3> QED
      BY <1>5, <1>8, <2>1, <2>3, <3>1, <3>2, <3>3 DEF Since
  <2> QED
    BY <2>1, <2>2, <2>3
<1>16. profile'.counted \subseteq learned'
  <2>1. ASSUME NEW rc \in profile'.counted PROVE rc \in learned'
    <3>1. CASE rc = rc0
      <4>1. Qualified(row) /\ row.at > profile.resetAt
        BY <1>4, <1>5, <1>8, <2>1, <3>1 DEF Since
      <4> QED
        BY <1>12, <3>1, <4>1
    <3>2. CASE rc # rc0
      <4>1. rc \in Pair /\ Qualified(req[p].seen[rc]) /\ req[p].seen[rc].at > profile.resetAt
        BY <1>5, <1>8, <2>1, <3>2 DEF Since
      <4> QED
        BY <1>6, <1>9, <4>1 DEF DatesTell
    <3> QED
      BY <3>1, <3>2
  <2> QED
    BY <2>1
<1>17. ASSUME NEW rc \in learned', rc[1] \in account' PROVE reaction'[rc] # NoRow
  <2>1. rc \in Pair
    BY <1>1, <1>4, <1>6 DEF TypeOK
  <2>2. CASE rc = rc0
    <3>1. CASE Replayed(p)
      BY <1>4, <1>6, <1>10, <1>17, <2>2, <3>1
    <3>2. CASE ~Replayed(p)
      BY <1>4, <1>6, <1>10, <1>17, <2>2, <3>2, Nobody
    <3> QED
      BY <3>1, <3>2
  <2>3. CASE rc # rc0
    BY <1>3, <1>4, <1>6, <1>7, <1>17, <2>1, <2>3 DEF LearnInv
  <2> QED
    BY <2>2, <2>3
<1> QED
  BY <1>3, <1>13, <1>14, <1>15, <1>16, <1>17 DEF LearnInv

LEMMA ReactionStep ==
    ASSUME Inv, NEW p \in Proc, CommitReaction(p)
    PROVE  Inv'
<1>1. Types /\ TypeOK /\ Types'
  BY TransactionTypes DEF Inv, Types
<1>2. Outdate(p, "stored") /\ UNCHANGED <<clock, account>> /\ profile'.resetAt = profile.resetAt
  BY <1>1 DEF CommitReaction, TypeOK, Profile
<1>3. /\ \A q \in Proc : req'[q].fresh = FALSE
      /\ req'[p].stage = "stored" /\ Rc(p)' = Rc(p)
      /\ req'[p].user = req[p].user /\ req'[p].signal = req[p].signal
      /\ \A q \in Proc \ {p} :
           /\ req'[q].stage = req[q].stage /\ req'[q].at = req[q].at
           /\ req'[q].signal = req[q].signal /\ req'[q].user = req[q].user /\ Rc(q)' = Rc(q)
  BY <1>1, <1>2, Outdated
<1>4. /\ req[p].fresh /\ Rc(p) \in Pair
      /\ reaction'[Rc(p)] = Returned(p) /\ Returned(p).signal = req[p].signal
      /\ \A rc \in Pair \ {Rc(p)} : reaction'[rc] = reaction[rc]
      /\ Replayed(p) => reaction' = reaction
      /\ ~Replayed(p) => reaction[Rc(p)] = NoRow /\ Returned(p).at = req[p].at
  BY ReactionRows
<1>5. FreshInv'
  BY <1>3 DEF FreshInv
<1>6. DateInv'
  <2>1. DateInv /\ req[p].at < clock
    BY <1>4 DEF Inv, DateInv, Underway
  <2>2. ASSUME NEW rc \in Pair PROVE reaction'[rc].at < clock
    BY <1>4, <2>1 DEF DateInv
  <2>3. ASSUME NEW q \in Proc, Underway(q)' PROVE req'[q].at < clock
    <3>1. q # p /\ req[q].stage = "dated" /\ req'[q].at = req[q].at
      BY <1>3, <2>3 DEF Underway
    <3> QED
      BY <2>1, <3>1 DEF DateInv, Underway
  <2> QED
    BY <1>2, <2>1, <2>2, <2>3 DEF DateInv
<1>7. AnnouncedIsStored'
  <2>1. ASSUME NEW q \in Proc, req'[q].stage = "stored", req'[q].user \in account
        PROVE  reaction'[Rc(q)'].signal = req'[q].signal
    <3>1. CASE q = p
      BY <1>3, <1>4, <3>1
    <3>2. CASE q # p
      <4>1. /\ Rc(q)' = Rc(q) /\ Rc(q) \in Pair /\ req'[q].signal = req[q].signal
            /\ reaction[Rc(q)].signal = req[q].signal
        BY <1>1, <1>3, <2>1, <3>2, RequestFields DEF Inv, AnnouncedIsStored
      <4>2. reaction[Rc(q)] # NoRow
        BY <1>1, <4>1, RequestFields, DiscoveryAssumption DEF NoRow, Signal
      <4>3. reaction'[Rc(q)] = reaction[Rc(q)]
        BY <1>4, <4>1, <4>2
      <4> QED
        BY <4>1, <4>3
    <3> QED
      BY <3>1, <3>2
  <2> QED
    BY <1>2, <2>1 DEF AnnouncedIsStored
<1>8. LikedIsSaved'
  <2>1. saved \subseteq saved' /\ (Returned(p).signal = "LIKE" => Rc(p)[2] \in saved')
    BY DEF CommitReaction, Saves, Rc
  <2>2. ASSUME NEW rc \in Pair, reaction'[rc].signal = "LIKE" PROVE rc[2] \in saved'
    <3>1. CASE rc = Rc(p)
      BY <1>4, <2>1, <2>2, <3>1
    <3>2. CASE rc # Rc(p)
      BY <1>4, <2>1, <2>2, <3>2 DEF Inv, LikedIsSaved
    <3> QED
      BY <3>1, <3>2
  <2> QED
    BY <2>2 DEF LikedIsSaved
<1>9. (~crossed => LearnInv)'
  BY ReactionLearned
<1> QED
  BY <1>1, <1>5, <1>6, <1>7, <1>8, <1>9 DEF Inv

\* A reset forgets: the rows it leaves are all older than its date.
LEMMA ResetStep ==
    ASSUME Inv, NEW p \in Proc, CommitReset(p)
    PROVE  Inv'
<1>1. Types /\ TypeOK /\ Types'
  BY TransactionTypes DEF Inv, Types
<1>2. /\ Outdate(p, "idle") /\ UNCHANGED <<clock, account, reaction, saved>>
      /\ profile' = [resetAt |-> req[p].at, counted |-> {}] /\ learned' = {}
      /\ req[p].kind = "reset" /\ req[p].fresh
  BY DEF CommitReset, MayCommit
<1>3. /\ \A q \in Proc : req'[q].fresh = FALSE
      /\ req'[p].stage = "idle"
      /\ \A q \in Proc \ {p} :
           /\ req'[q].stage = req[q].stage /\ req'[q].at = req[q].at
           /\ req'[q].signal = req[q].signal /\ req'[q].user = req[q].user /\ Rc(q)' = Rc(q)
      /\ ~crossed' => /\ ~crossed
                      /\ \A q \in Proc \ {p} : req[q].stage # "dated"
  BY <1>1, <1>2, Outdated
<1>4. FreshInv'
  BY <1>3 DEF FreshInv
<1>5. DateInv'
  <2>1. DateInv /\ req[p].at < clock
    BY <1>2 DEF Inv, DateInv, Underway
  <2>2. ASSUME NEW q \in Proc, Underway(q)' PROVE req'[q].at < clock
    <3>1. q # p /\ req[q].stage = "dated" /\ req'[q].at = req[q].at
      BY <1>3, <2>2 DEF Underway
    <3> QED
      BY <2>1, <3>1 DEF DateInv, Underway
  <2> QED
    BY <1>2, <2>1, <2>2 DEF DateInv
<1>6. ASSUME ~crossed' PROVE LearnInv'
  <2>1. LearnInv /\ \A rc \in Pair : reaction[rc].at <= req[p].at
    BY <1>2, <1>3, <1>6 DEF Inv, LearnInv, Underway
  <2>2. \A q \in Proc : ~Underway(q)'
    BY <1>3, <1>6 DEF Underway
  <2>3. ASSUME NEW rc \in Pair PROVE ~(reaction[rc].at > req[p].at)
    BY <1>1, <2>1, RowFields
  <2>4. DatesTell(reaction)'
    BY <1>2, <2>3 DEF DatesTell
  <2> QED
    BY <1>2, <1>3, <2>2, <2>4 DEF LearnInv
<1>7. AnnouncedIsStored' /\ LikedIsSaved'
  <2>1. \A q \in Proc : req'[q].stage = "stored" => q # p
    BY <1>3
  <2> QED
    BY <1>2, <1>3, <2>1 DEF Inv, AnnouncedIsStored, LikedIsSaved
<1> QED
  BY <1>1, <1>4, <1>5, <1>6, <1>7 DEF Inv

LEMMA DeleteStep ==
    ASSUME Inv, NEW u \in User, DeleteAccount(u)
    PROVE  Inv'
<1>1. Types /\ TypeOK /\ Types'
  BY DeleteTypes DEF Inv, Types
<1>2. /\ UNCHANGED <<clock, saved, profile, req, learned, crossed>>
      /\ \A v : v \in account' => v \in account /\ v # u
      /\ u \notin account' /\ \A v : v \notin account => v \notin account'
      /\ \A rc \in Pair : reaction'[rc] = IF rc[1] = u THEN NoRow ELSE reaction[rc]
  BY DEF DeleteAccount
<1>3. NoRow.at = 0 /\ NoRow.signal = "NONE" /\ ~Qualified(NoRow)
  BY Nobody DEF NoRow
<1>4. FreshInv'
  BY <1>2 DEF Inv, FreshInv
<1>5. DateInv'
  <2>1. clock > 0
    BY <1>1 DEF TypeOK
  <2>2. ASSUME NEW rc \in Pair PROVE reaction'[rc].at < clock
    BY <1>1, <1>2, <1>3, <2>1, RowFields DEF Inv, DateInv
  <2> QED
    BY <1>2, <2>2 DEF Inv, DateInv, Underway
<1>6. ASSUME ~crossed PROVE LearnInv'
  <2>1. LearnInv
    BY <1>6 DEF Inv
  <2>2. DatesTell(reaction)' /\ \A q \in Proc : req'[q].fresh => DatesTell(req[q].seen)'
    <3>1. DatesTell(reaction)'
      BY <1>2, <1>3, <2>1 DEF LearnInv, DatesTell, Qualified
    <3>2. \A q \in Proc : req'[q].fresh => DatesTell(req[q].seen)'
      BY <1>2, <2>1 DEF LearnInv, DatesTell, Qualified
    <3> QED
      BY <3>1, <3>2
  <2>3. ASSUME NEW q \in Proc, Underway(q)', req'[q].kind = "reset", NEW rc \in Pair
        PROVE  reaction'[rc].at <= req'[q].at
    <3>1. reaction[rc].at <= req[q].at /\ req'[q].at = req[q].at /\ req[q].at \in Nat
      BY <1>1, <1>2, <2>1, <2>3, RowFields DEF LearnInv, Underway
    <3> QED
      BY <1>2, <1>3, <3>1
  <2>4. \A q \in Proc : Underway(q)' /\ req'[q].kind = "react" => req'[q].at > profile'.resetAt
    BY <1>2, <2>1 DEF LearnInv, Underway
  <2>5. \A rc \in learned : rc \in Pair
    BY <1>1 DEF TypeOK
  <2>6. ASSUME NEW rc \in learned', reaction'[rc] # NoRow
        PROVE  Qualified(reaction'[rc]) /\ rc \in profile'.counted
    BY <1>2, <2>1, <2>5, <2>6 DEF LearnInv
  <2>7. ASSUME NEW rc \in learned', rc[1] \in account' PROVE reaction'[rc] # NoRow
    BY <1>2, <2>1, <2>5, <2>7 DEF LearnInv
  <2>8. profile'.counted \subseteq learned'
    BY <1>2, <2>1 DEF LearnInv
  <2> QED
    BY <2>2, <2>3, <2>4, <2>6, <2>7, <2>8 DEF LearnInv, Qualified
<1>7. AnnouncedIsStored'
  <2>1. ASSUME NEW q \in Proc, req[q].stage = "stored", req[q].user \in account'
        PROVE  reaction'[Rc(q)].signal = req[q].signal
    <3>1. Rc(q) \in Pair /\ Rc(q)[1] = req[q].user /\ req[q].user # u
      BY <1>1, <1>2, <2>1, RequestFields DEF Rc
    <3> QED
      BY <1>2, <2>1, <3>1 DEF Inv, AnnouncedIsStored
  <2> QED
    BY <1>2, <2>1 DEF AnnouncedIsStored, Rc
<1>8. LikedIsSaved'
  BY <1>2, <1>3 DEF Inv, LikedIsSaved
<1> QED
  BY <1>1, <1>2, <1>4, <1>5, <1>6, <1>7, <1>8 DEF Inv

LEMMA NextInv == Inv /\ [Next]_vars => Inv'
<1> SUFFICES ASSUME Inv, [Next]_vars PROVE Inv'
  OBVIOUS
<1>1. CASE \E p \in Proc : Handle(p)
  BY <1>1, QuietStep, DrawStep, OpenStep, ReactionStep, ResetStep DEF Handle
<1>2. CASE \E u \in User : DeleteAccount(u)
  BY <1>2, DeleteStep
<1>3. CASE UNCHANGED vars
  <2>1. Types'
    BY <1>3, NextTypes DEF Inv
  <2>2. FreshInv' /\ DateInv'
    BY <1>3 DEF vars, Inv, FreshInv, DateInv, Underway
  <2>3. (~crossed => LearnInv)'
    BY <1>3 DEF vars, Inv, LearnInv, DatesTell, Underway, Qualified
  <2>4. AnnouncedIsStored' /\ LikedIsSaved'
    BY <1>3 DEF vars, Inv, AnnouncedIsStored, LikedIsSaved, Rc
  <2> QED
    BY <2>1, <2>2, <2>3, <2>4 DEF Inv
<1> QED
  BY <1>1, <1>2, <1>3 DEF Next

LEMMA InvHolds == Spec => []Inv
BY InitInv, NextInv, PTL DEF Spec

\* However reactions, resets and deletions of accounts interleave, the profile
\* counts exactly the qualified reactions stored since the last reset, unless
\* a reset crossed a date already drawn (recalculateDiscoveryProfile).
THEOREM ProfileLearned == Spec => []ProfileIsLearned
<1>1. Inv => ProfileIsLearned
  BY DEF Inv, LearnInv, ProfileIsLearned
<1> QED
  BY <1>1, InvHolds, PTL

\* Whoever is told that a reaction was taken finds that signal stored, whatever
\* was submitted twice or refused by the database (submitDiscoveryFeedback).
THEOREM AnsweredAsStored == Spec => []AnnouncedIsStored
<1>1. Inv => AnnouncedIsStored
  BY DEF Inv
<1> QED
  BY <1>1, InvHolds, PTL

\* No reaction that keeps a candidate is stored without the idea created from
\* it, whoever reacted first (createIdeaFromDiscoveryCandidate).
THEOREM KeptIsSaved == Spec => []LikedIsSaved
<1>1. Inv => LikedIsSaved
  BY DEF Inv
<1> QED
  BY <1>1, InvHolds, PTL

\* One step never changes or removes a stored reaction, except with its account.
LEMMA ReactionsKeptStep ==
    ASSUME Inv, [Next]_vars,
           NEW rc \in Pair, reaction[rc] # NoRow, rc[1] \in account'
    PROVE  reaction'[rc] = reaction[rc]
<1>1. ASSUME NEW p \in Proc, CommitReaction(p) PROVE reaction'[rc] = reaction[rc]
  BY <1>1, ReactionRows
<1>2. ASSUME NEW p \in Proc, Handle(p), ~CommitReaction(p) PROVE reaction' = reaction
  BY <1>2 DEF Handle, Generate, InsertBatch, Submit, Reset, DrawDate, Open, CommitReset,
              Refused, Answer, Fails
<1>3. ASSUME NEW u \in User, DeleteAccount(u) PROVE reaction'[rc] = reaction[rc]
  BY <1>3 DEF DeleteAccount
<1>4. CASE UNCHANGED vars
  BY <1>4 DEF vars
<1> QED
  BY <1>1, <1>2, <1>3, <1>4 DEF Next

\* A reaction once stored stays until its account is deleted: no replay, no
\* other tab and no reset changes it.
THEOREM ReactionsKept == Spec => ReactionsStand
<1>1. Inv /\ [Next]_vars =>
        [\A rc \in Pair : reaction[rc] # NoRow /\ rc[1] \in account' =>
           reaction'[rc] = reaction[rc]]_vars
  BY ReactionsKeptStep
<1> QED
  BY <1>1, InvHolds, PTL DEF Spec, ReactionsStand
=============================================================================
