--------------------------- MODULE Screens_proofs ---------------------------
(***************************************************************************)
(* Proofs about the screens of the web application as MC_Screens runs them *)
(* beside each other, for any rows, any number of calls, refusals and lost *)
(* answers: what a screen waits for.                                       *)
(*                                                                         *)
(* A screen disables a button, or hides a list, by a flag that it raises   *)
(* when it makes a call and lowers when the answer comes.  The invariant   *)
(* of each screen (CalendarFits to NotionFits, one conjunct each of        *)
(* ScreensInv) says for which calls each flag stands and that they are one *)
(* at a time, so that the answer that lowers it is the one it was raised   *)
(* for: a second call under the same flag would be waited for no more once *)
(* the first was answered.  Where several calls go under one name (the key *)
(* of the pages of the automations, the ideas being saved) it says which   *)
(* of them the name is about.  A call whose effect was cleaned up is not   *)
(* waited for, and no flag may stand for it.                               *)
(***************************************************************************)
EXTENDS MC_Screens, CalendarAndScreens_proofs

-----------------------------------------------------------------------------
(* What happens to the calls of a screen.                                  *)

\* The same calls, but for their answers.
Same(s, t) ==
    /\ IsCalls(t) /\ Len(t) = Len(s)
    /\ \A j \in 1..Len(s) : t[j].op = s[j].op /\ t[j].arg = s[j].arg /\ t[j].live = s[j].live

\* A call has got an answer, a refusal, or lost its connection.
Progresses(s, t) ==
    \E i \in DOMAIN s :
        \/ \E x, a : Served(s, t, i, x, a)
        \/ \E x : Marked(s, t, i, x)
        \/ \E a : Stepped(s, t, i, a)

LEMMA SameAgain ==
  ASSUME NEW s, IsCalls(s)
  PROVE  Same(s, s)
BY DEF Same

LEMMA Progressing ==
  ASSUME NEW s, NEW t, IsCalls(s), Progresses(s, t)
  PROVE  Same(s, t)
<1>0. DOMAIN s = 1..Len(s)
  BY CallsAreSeq
<1>1. ASSUME NEW i \in 1..Len(s), NEW x, NEW a,
             Served(s, t, i, x, a) \/ Marked(s, t, i, x) \/ Stepped(s, t, i, a)
      PROVE  Progress(s, t, i)
  <2>1. CASE Served(s, t, i, x, a)
    BY <2>1, IsServed
  <2>2. CASE Marked(s, t, i, x)
    BY <2>2, IsMarked
  <2>3. CASE Stepped(s, t, i, a)
    BY <2>3, IsStepped
  <2> QED BY <1>1, <2>1, <2>2, <2>3
<1>2. \E i \in 1..Len(s) : Progress(s, t, i)
  BY <1>0, <1>1 DEF Progresses
<1> QED BY <1>2 DEF Progress, Same

\* What is made.
NewCall(op, arg) == [op |-> op, arg |-> arg, state |-> "sent", answer |-> <<>>, live |-> TRUE]

LEMMA NewCallIs ==
  ASSUME NEW op, NEW arg
  PROVE  /\ DOMAIN NewCall(op, arg) = CallFields
         /\ NewCall(op, arg).live = TRUE /\ NewCall(op, arg).op = op /\ NewCall(op, arg).arg = arg
BY DEF NewCall, CallFields

\* The calls of t are those of s but the i-th, in the same order.
Left(s, t, i) ==
    /\ IsCalls(t) /\ Others(s, t, i)
    /\ \A j, k \in 1..Len(t) : j # k =>
        \E m, n \in 1..Len(s) : m # n /\ m # i /\ n # i /\ t[j] = s[m] /\ t[k] = s[n]

LEMMA CallLeft ==
  ASSUME NEW s, IsCalls(s), NEW i \in 1..Len(s)
  PROVE  Left(s, Less(s, i), i)
<1> DEFINE t == Less(s, i)
           place(j) == IF j < i THEN j ELSE j + 1
<1>1. Over(s, t, i)
  BY CallOver
<1> HIDE DEF t
<1>2. Others(s, t, i)
  BY <1>1, OthersStay
<1>3. Len(s) \in Nat /\ Len(t) = Len(s) - 1 /\ i \in Int
  BY <1>1, CallsAreSeq DEF Over
<1>4. \A j \in 1..Len(t) : place(j) \in 1..Len(s) /\ place(j) # i /\ t[j] = s[place(j)]
  BY <1>1, <1>3 DEF Over
<1>5. \A j, k \in 1..Len(t) : j # k => place(j) # place(k)
  BY <1>3
<1> HIDE DEF place
<1>6. Left(s, t, i)
  BY <1>1, <1>2, <1>4, <1>5 DEF Left, Over
<1> QED BY <1>6 DEF t

\* The calls of t are those of s and a new one.
More(s, t, c) ==
    /\ IsCalls(t) /\ Len(s) \in Nat /\ Len(t) = Len(s) + 1
    /\ \A j \in 1..Len(s) : j \in 1..Len(t) /\ t[j] = s[j]
    /\ Len(t) \in 1..Len(t) /\ t[Len(t)] = c

LEMMA CallMore ==
  ASSUME NEW s, IsCalls(s), NEW op, NEW arg
  PROVE  More(s, Append(s, NewCall(op, arg)), NewCall(op, arg))
<1> DEFINE c == NewCall(op, arg)
           t == Append(s, c)
<1>1. DOMAIN c = CallFields /\ c.live = TRUE
  BY DEF NewCall, CallFields
<1> HIDE DEF c
<1>2. Made(s, t, c)
  BY <1>1, CallMade
<1> HIDE DEF t
<1>3. Len(s) \in Nat
  BY CallsAreSeq
<1>4. More(s, t, c)
  BY <1>2, <1>3 DEF Made, More
<1> QED BY <1>4 DEF t, c

\* The calls of D belong to nothing on screen any more.
Unheard(s, D) ==
    [i \in DOMAIN s |-> IF s[i].op \in D THEN [s[i] EXCEPT !.live = FALSE] ELSE s[i]]

LEMMA CallsUnheard ==
  ASSUME NEW s, IsCalls(s), NEW D
  PROVE  /\ IsCalls(Unheard(s, D)) /\ Len(Unheard(s, D)) = Len(s)
         /\ \A j \in 1..Len(s) :
              LET e == Unheard(s, D)[j]
              IN  /\ e.op = s[j].op /\ e.arg = s[j].arg
                  /\ e.live = (s[j].live /\ s[j].op \notin D)
                  /\ e.state = s[j].state /\ e.answer = s[j].answer
<1> DEFINE t == Unheard(s, D)
<1>1. Len(s) \in Nat /\ DOMAIN s = 1..Len(s)
  BY CallsAreSeq
<1>2. DOMAIN t = 1..Len(s)
      /\ \A j \in 1..Len(s) :
           t[j] = IF s[j].op \in D THEN [s[j] EXCEPT !.live = FALSE] ELSE s[j]
  BY <1>1 DEF Unheard
<1>3. t = [j \in 1..Len(s) |-> t[j]]
  BY <1>1 DEF Unheard
<1> HIDE DEF t
<1>4. t \in Seq({t[j] : j \in 1..Len(s)})
  <2>1. t \in [1..Len(s) -> {t[j] : j \in 1..Len(s)}]
    BY <1>3
  <2> QED BY <1>1, <2>1, SeqDef
<1>5. Len(t) = Len(s)
  <2> DEFINE T == {t[j] : j \in 1..Len(s)}
  <2>1. t \in Seq(T)
    BY <1>4
  <2>2. Len(t) \in Nat /\ DOMAIN t = 1..Len(t)
    BY <2>1, LenProperties
  <2> QED BY <1>1, <1>2, <2>2
<1>6. ASSUME NEW j \in 1..Len(s)
      PROVE  /\ DOMAIN t[j] = CallFields /\ t[j].live \in BOOLEAN
             /\ t[j].op = s[j].op /\ t[j].arg = s[j].arg
             /\ t[j].live = (s[j].live /\ s[j].op \notin D)
             /\ t[j].state = s[j].state /\ t[j].answer = s[j].answer
  <2>1. DOMAIN s[j] = CallFields /\ s[j].live \in BOOLEAN
    BY DEF IsCalls
  <2>2. CASE s[j].op \in D
    <3>1. t[j] = [s[j] EXCEPT !.live = FALSE]
      BY <1>2, <2>2
    <3> QED BY <2>1, <2>2, <3>1 DEF CallFields
  <2>3. CASE s[j].op \notin D
    <3>1. t[j] = s[j]
      BY <1>2, <2>3
    <3> QED BY <2>1, <2>3, <3>1
  <2> QED BY <2>2, <2>3
<1>7. IsCalls(t)
  BY <1>4, <1>5, <1>6 DEF IsCalls
<1>8. /\ Len(t) = Len(s)
      /\ \A j \in 1..Len(s) : LET e == t[j]
                              IN  /\ e.op = s[j].op /\ e.arg = s[j].arg
                                  /\ e.live = (s[j].live /\ s[j].op \notin D)
                                  /\ e.state = s[j].state /\ e.answer = s[j].answer
  BY <1>5, <1>6
<1> QED BY <1>7, <1>8 DEF t

-----------------------------------------------------------------------------
(* A flag of the screen, that disables a button or hides a list.           *)

\* The flag b is for the calls of ops among c, one at most; k: an answer never came,
\* and the flag may wait for nothing.
Flag(c, ops, b, k) ==
    /\ OneWaits(c, ops)
    /\ Waits(c, ops) => b
    /\ b /\ ~k => Waits(c, ops)

\* The flag of calls that are all forgotten: it is down.
Never == FALSE

LEMMA FlagStays ==
  ASSUME NEW s, NEW t, Same(s, t), NEW ops, NEW b, NEW k, Flag(s, ops, b, k)
  PROVE  Flag(t, ops, b, k)
<1>1. (Waits(t, ops) <=> Waits(s, ops)) /\ (OneWaits(s, ops) => OneWaits(t, ops))
  BY DEF Same, Waits, OneWaits
<1> QED BY <1>1 DEF Flag

\* The i-th call is over, and lowers its flag unless its answer never came.
LEMMA FlagLess ==
  ASSUME NEW s, IsCalls(s), NEW i \in 1..Len(s), NEW ops, NEW b, NEW k, Flag(s, ops, b, k),
         NEW bb, NEW kk, k => kk,
         s[i].op \in ops /\ s[i].live => kk \/ ~bb,
         ~(s[i].op \in ops /\ s[i].live) => (bb <=> b)
  PROVE  Flag(Less(s, i), ops, bb, kk)
<1> DEFINE t == Less(s, i)
<1>1. Over(s, t, i)
  BY CallOver
<1> HIDE DEF t
<1>2. /\ Waits(t, ops) => Waits(s, ops)
      /\ ~(s[i].op \in ops /\ s[i].live) => (Waits(t, ops) <=> Waits(s, ops))
      /\ OneWaits(s, ops) => OneWaits(t, ops)
      /\ OneWaits(s, ops) /\ s[i].op \in ops /\ s[i].live => ~Waits(t, ops)
  BY <1>1, WaitsOver
<1>3. Flag(t, ops, bb, kk)
  BY <1>2 DEF Flag
<1> QED BY <1>3 DEF t

\* A call is made, and raises its flag.
LEMMA FlagMore ==
  ASSUME NEW s, IsCalls(s), NEW op, NEW arg, NEW ops, NEW b, NEW k, Flag(s, ops, b, k),
         NEW bb, op \in ops => ~b /\ bb, op \notin ops => (bb <=> b)
  PROVE  Flag(Append(s, NewCall(op, arg)), ops, bb, k)
<1> DEFINE c == NewCall(op, arg)
           t == Append(s, c)
<1>1. DOMAIN c = CallFields /\ c.live = TRUE /\ c.op = op
  BY DEF NewCall, CallFields
<1> HIDE DEF c
<1>2. Made(s, t, c)
  BY <1>1, CallMade
<1> HIDE DEF t
<1>3. /\ Waits(t, ops) <=> Waits(s, ops) \/ (c.op \in ops /\ c.live)
      /\ OneWaits(s, ops) /\ ~(Waits(s, ops) /\ c.op \in ops /\ c.live) => OneWaits(t, ops)
  BY <1>2, WaitsMore
<1>4. Flag(t, ops, bb, k)
  BY <1>1, <1>3 DEF Flag
<1> QED BY <1>4 DEF t, c

\* The calls of D are forgotten: their flag may be lowered, the others stay.
LEMMA FlagForgets ==
  ASSUME NEW s, IsCalls(s), NEW D, NEW ops, NEW b, NEW k, Flag(s, ops, b, k)
  PROVE  /\ (\A o \in ops : o \in D) => \A kk : Flag(Unheard(s, D), ops, Never, kk)
         /\ (\A o \in ops : o \notin D) => Flag(Unheard(s, D), ops, b, k)
<1> DEFINE t == Unheard(s, D)
<1>1. /\ Len(t) = Len(s)
      /\ \A j \in 1..Len(s) : t[j].op = s[j].op /\ t[j].live = (s[j].live /\ s[j].op \notin D)
  BY CallsUnheard
<1> HIDE DEF t
<1>2. ASSUME \A o \in ops : o \in D
      PROVE  \A kk : Flag(t, ops, Never, kk)
  BY <1>1, <1>2 DEF Flag, Waits, OneWaits, Never
<1>3. ASSUME \A o \in ops : o \notin D
      PROVE  Flag(t, ops, b, k)
  <2>1. (Waits(t, ops) <=> Waits(s, ops)) /\ (OneWaits(s, ops) => OneWaits(t, ops))
    BY <1>1, <1>3 DEF Waits, OneWaits
  <2> QED BY <2>1 DEF Flag
<1> QED BY <1>2, <1>3 DEF t

\* Nothing is waited for any more.
Silent(s) == [i \in DOMAIN s |-> [s[i] EXCEPT !.live = FALSE]]

LEMMA CallsSilent ==
  ASSUME NEW s, IsCalls(s)
  PROVE  /\ IsCalls(Silent(s)) /\ Len(Silent(s)) = Len(s)
         /\ \A j \in 1..Len(s) :
              /\ Silent(s)[j].op = s[j].op /\ Silent(s)[j].arg = s[j].arg
              /\ Silent(s)[j].live = FALSE
<1> DEFINE D == {s[i].op : i \in DOMAIN s}
<1>1. Silent(s) = Unheard(s, D)
  BY DEF Silent, Unheard
<1>2. \A j \in 1..Len(s) : s[j].op \in D
  BY CallsAreSeq
<1> HIDE DEF D
<1> DEFINE t == Unheard(s, D)
<1>3. /\ IsCalls(t) /\ Len(t) = Len(s)
      /\ \A j \in 1..Len(s) :
           t[j].op = s[j].op /\ t[j].arg = s[j].arg /\ t[j].live = (s[j].live /\ s[j].op \notin D)
  BY CallsUnheard
<1> HIDE DEF t
<1>4. Silent(s) = t
  BY <1>1 DEF t
<1> QED BY <1>2, <1>3, <1>4

LEMMA FlagSilent ==
  ASSUME NEW s, IsCalls(s), NEW ops, NEW k
  PROVE  Flag(Silent(s), ops, Never, k)
BY CallsSilent DEF Flag, Waits, OneWaits, Never

\* At the start there is one call, and its flag.
LEMMA FlagStarts ==
  ASSUME NEW op, NEW arg, NEW ops, NEW b, b <=> op \in ops
  PROVE  \A k : Flag(<<NewCall(op, arg)>>, ops, b, k)
<1> DEFINE c == NewCall(op, arg)
           t == <<c>>
<1>1. DOMAIN c = CallFields /\ c.live = TRUE /\ c.op = op
  BY DEF NewCall, CallFields
<1> HIDE DEF c
<1>2. Len(t) = 1 /\ t[1] = c
  BY <1>1, OneCall
<1> HIDE DEF t
<1>3. \A k : Flag(t, ops, b, k)
  BY <1>1, <1>2 DEF Flag, Waits, OneWaits
<1> QED BY <1>3 DEF t, c

LEMMA StartIsCalls ==
  ASSUME NEW op, NEW arg
  PROVE  /\ IsCalls(<<NewCall(op, arg)>>) /\ Len(<<NewCall(op, arg)>>) = 1
         /\ <<NewCall(op, arg)>>[1] = NewCall(op, arg)
<1> DEFINE c == NewCall(op, arg)
<1>1. DOMAIN c = CallFields /\ c.live \in BOOLEAN
  BY NewCallIs
<1> HIDE DEF c
<1>2. IsCalls(<<c>>) /\ Len(<<c>>) = 1 /\ <<c>>[1] = c
  BY <1>1, OneCall
<1> QED BY <1>2 DEF c

\* While every call is waited for.
LEMMA AllLiveAtStart ==
  ASSUME NEW op, NEW arg
  PROVE  IsCalls(<<NewCall(op, arg)>>) /\ AllLive(<<NewCall(op, arg)>>)
<1> DEFINE t == <<NewCall(op, arg)>>
<1>1. IsCalls(t) /\ Len(t) = 1 /\ t[1].live = TRUE
  BY StartIsCalls, NewCallIs
<1> HIDE DEF t
<1>2. IsCalls(t) /\ AllLive(t)
  BY <1>1 DEF AllLive
<1> QED BY <1>2 DEF t

LEMMA AllLiveMore ==
  ASSUME NEW s, IsCalls(s), AllLive(s), NEW op, NEW arg
  PROVE  IsCalls(Append(s, NewCall(op, arg))) /\ AllLive(Append(s, NewCall(op, arg)))
<1> DEFINE t == Append(s, NewCall(op, arg))
<1>1. More(s, t, NewCall(op, arg)) /\ NewCall(op, arg).live = TRUE
  BY CallMore, NewCallIs
<1> HIDE DEF t
<1>2. IsCalls(t) /\ AllLive(t)
  BY <1>1 DEF More, AllLive
<1> QED BY <1>2 DEF t

LEMMA AllLiveLess ==
  ASSUME NEW s, IsCalls(s), AllLive(s), NEW i \in 1..Len(s)
  PROVE  IsCalls(Less(s, i)) /\ AllLive(Less(s, i))
<1> DEFINE t == Less(s, i)
<1>1. Left(s, t, i)
  BY CallLeft
<1> HIDE DEF t
<1>2. IsCalls(t) /\ AllLive(t)
  BY <1>1 DEF Left, Others, AllLive
<1> QED BY <1>2 DEF t

\* What is still waited for when the i-th call is over, and when one is made.
LEMMA WaitsLess ==
  ASSUME NEW s, IsCalls(s), NEW i \in 1..Len(s), NEW ops, s[i].op \notin ops, Waits(s, ops)
  PROVE  Waits(Less(s, i), ops)
<1> DEFINE t == Less(s, i)
<1>1. Left(s, t, i)
  BY CallLeft
<1> HIDE DEF t
<1>2. Waits(t, ops)
  BY <1>1 DEF Left, Others, Waits
<1> QED BY <1>2 DEF t

LEMMA WaitsAppended ==
  ASSUME NEW s, IsCalls(s), NEW op, NEW arg, NEW ops, Waits(s, ops) \/ op \in ops
  PROVE  Waits(Append(s, NewCall(op, arg)), ops)
<1> DEFINE c == NewCall(op, arg)
           t == Append(s, c)
<1>1. More(s, t, c) /\ c.op = op /\ c.live = TRUE
  BY CallMore, NewCallIs
<1> HIDE DEF t, c
<1>2. Waits(t, ops)
  BY <1>1 DEF More, Waits
<1> QED BY <1>2 DEF t, c

LEMMA WaitsSame ==
  ASSUME NEW s, NEW t, Same(s, t)
  PROVE  /\ \A ops : Waits(s, ops) => Waits(t, ops)
         /\ AllLive(s) => AllLive(t)
BY DEF Same, Waits, AllLive

-----------------------------------------------------------------------------
(* The generator of contents (GeneratorScreen).                            *)

GeneratorFits(v, p, c) ==
    /\ IsCalls(c) /\ AllLive(c)
    /\ DOMAIN v = {"ideas", "idea", "format", "topic", "brief", "draft", "from", "loading",
                   "generating", "saving", "gone"}
    /\ DOMAIN p = {"changed", "stuck", "archived"}
    /\ Flag(c, {"load"}, v.loading, p.stuck)
    /\ Flag(c, {"generate"}, v.generating, p.stuck)
    /\ Flag(c, {"save"}, v.saving, p.stuck)

LEMMA GeneratorStarts ==
  ASSUME Generator!Init
  PROVE  GeneratorFits(view, past, call)
<1>1. PICK x : call = <<NewCall("load", x)>>
  BY DEF Generator!Init, Generator!Call, NewCall
<1>2. /\ DOMAIN view = {"ideas", "idea", "format", "topic", "brief", "draft", "from", "loading",
                        "generating", "saving", "gone"}
      /\ view.loading = TRUE /\ view.generating = FALSE /\ view.saving = FALSE
  BY DEF Generator!Init
<1>3. DOMAIN past = {"changed", "stuck", "archived"}
  BY DEF Generator!Init
<1>4. IsCalls(call) /\ AllLive(call)
  BY <1>1, AllLiveAtStart
<1>5. /\ Flag(call, {"load"}, view.loading, past.stuck)
      /\ Flag(call, {"generate"}, view.generating, past.stuck)
      /\ Flag(call, {"save"}, view.saving, past.stuck)
  BY <1>1, <1>2, FlagStarts
<1> QED BY <1>2, <1>3, <1>4, <1>5 DEF GeneratorFits

LEMMA GeneratorStays ==
  ASSUME GeneratorFits(view, past, call), Same(call, call'), DOMAIN view' = DOMAIN view,
         view'.loading = view.loading, view'.generating = view.generating,
         view'.saving = view.saving, DOMAIN past' = DOMAIN past, past'.stuck = past.stuck
  PROVE  GeneratorFits(view', past', call')
<1>1. IsCalls(call') /\ (AllLive(call) => AllLive(call'))
  BY DEF Same, AllLive
<1> QED BY <1>1, FlagStays DEF GeneratorFits

\* A call is made.
LEMMA GeneratorSends ==
  ASSUME GeneratorFits(view, past, call), NEW op \in {"generate", "save"}, NEW arg,
         call' = Append(call, NewCall(op, arg)), past' = past,
         \/ op = "generate" /\ ~view.generating /\ view' = [view EXCEPT !.generating = TRUE]
         \/ op = "save" /\ ~view.saving /\ view' = [view EXCEPT !.saving = TRUE]
  PROVE  GeneratorFits(view', past', call')
<1>0. IsCalls(call) /\ AllLive(call)
  BY DEF GeneratorFits
<1>1. IsCalls(call') /\ AllLive(call')
  BY <1>0, AllLiveMore
<1>2. /\ DOMAIN view' = DOMAIN view /\ view'.loading = view.loading
      /\ op = "generate" => ~view.generating /\ view'.generating /\ view'.saving = view.saving
      /\ op = "save" => ~view.saving /\ view'.saving /\ view'.generating = view.generating
  BY DEF GeneratorFits
<1>3. /\ Flag(call', {"load"}, view'.loading, past'.stuck)
      /\ Flag(call', {"generate"}, view'.generating, past'.stuck)
      /\ Flag(call', {"save"}, view'.saving, past'.stuck)
  BY <1>0, <1>2, FlagMore DEF GeneratorFits
<1> QED BY <1>1, <1>2, <1>3 DEF GeneratorFits

\* A call is over.
LEMMA GeneratorTakes ==
  ASSUME GeneratorFits(view, past, call), NEW i \in 1..Len(call),
         Generator!Answer(i)
  PROVE  GeneratorFits(view', past', call')
<1> DEFINE op == call[i].op
<1>0. IsCalls(call) /\ AllLive(call) /\ call[i].live
  BY DEF GeneratorFits, AllLive
<1>1. call' = Less(call, i)
  BY DEF Generator!Answer, Generator!LoadAnswer, Generator!GenerateAnswer, Generator!SaveAnswer,
         Generator!Rest, Generator!WithoutAt, Less
<1>2. /\ DOMAIN view' = DOMAIN view /\ DOMAIN past' = DOMAIN past
      /\ past.stuck => past'.stuck
      /\ op = "load" => past'.stuck \/ ~view'.loading
      /\ op # "load" => view'.loading = view.loading
      /\ op = "generate" => past'.stuck \/ ~view'.generating
      /\ op # "generate" => view'.generating = view.generating
      /\ op = "save" => past'.stuck \/ ~view'.saving
      /\ op # "save" => view'.saving = view.saving
  <2>1. CASE Generator!LoadAnswer(i)
    BY <2>1 DEF GeneratorFits, Generator!LoadAnswer, Generator!Takes, Generator!Throws,
                Generator!HydrateSelectedIdea
  <2>2. CASE Generator!GenerateAnswer(i)
    BY <2>2 DEF GeneratorFits, Generator!GenerateAnswer, Generator!Takes, Generator!Throws
  <2>3. CASE Generator!SaveAnswer(i)
    BY <2>3 DEF GeneratorFits, Generator!SaveAnswer, Generator!Takes, Generator!Throws
  <2> QED BY <2>1, <2>2, <2>3 DEF Generator!Answer
<1>3. IsCalls(call') /\ AllLive(call')
  BY <1>0, <1>1, AllLiveLess
<1>4. /\ Flag(call', {"load"}, view'.loading, past'.stuck)
      /\ Flag(call', {"generate"}, view'.generating, past'.stuck)
      /\ Flag(call', {"save"}, view'.saving, past'.stuck)
  BY <1>0, <1>1, <1>2, FlagLess DEF GeneratorFits
<1> QED BY <1>2, <1>3, <1>4 DEF GeneratorFits

LEMMA GeneratorGoesOn ==
  ASSUME GeneratorFits(view, past, call), Generator!Next \/ UNCHANGED screen
  PROVE  GeneratorFits(view', past', call')
<1>0. IsCalls(call) /\ DOMAIN call = 1..Len(call)
  BY CallsAreSeq DEF GeneratorFits
<1>1. CASE UNCHANGED screen
  BY <1>1 DEF screen, GeneratorFits
<1>2. ASSUME NEW i \in DOMAIN call,
             Generator!Serve(i) \/ Generator!Refuses(i) \/ Generator!Breaks(i)
      PROVE  GeneratorFits(view', past', call')
  <2>1. Progresses(call, call') /\ UNCHANGED <<view, past>>
    <3>1. ASSUME NEW a, Generator!Serves(i, a) PROVE Progresses(call, call') /\ UNCHANGED <<view, past>>
      BY <3>1 DEF Progresses, Served, Generator!Serves
    <3>2. CASE Generator!NotFound(i) \/ Generator!Refuses(i) \/ Generator!Breaks(i)
      BY <3>2 DEF Progresses, Marked, Generator!NotFound, Generator!Refuses, Generator!Breaks
    <3> QED BY <1>2, <3>1, <3>2 DEF Generator!Serve, Generator!ListSourceIdeas,
                Generator!GenerateDraft, Generator!SaveContent
  <2>2. Same(call, call')
    BY <1>0, <2>1, Progressing
  <2> QED BY <2>1, <2>2, GeneratorStays
<1>3. ASSUME NEW i \in DOMAIN call, Generator!Answer(i)
      PROVE  GeneratorFits(view', past', call')
  BY <1>0, <1>3, GeneratorTakes
<1>4. CASE Generator!ArchivedElsewhere
  BY <1>0, <1>4, SameAgain, GeneratorStays DEF Generator!ArchivedElsewhere, GeneratorFits
<1>5. CASE Generator!ChooseFormat \/ Generator!Type \/ Generator!HandleIdeaChange
  <2>1. /\ call' = call /\ DOMAIN past' = DOMAIN past /\ past'.stuck = past.stuck
        /\ DOMAIN view' = DOMAIN view /\ view'.loading = view.loading
        /\ view'.generating = view.generating /\ view'.saving = view.saving
    BY <1>5 DEF Generator!ChooseFormat, Generator!Type, Generator!HandleIdeaChange,
         Generator!Fills, Generator!HydrateSelectedIdea, GeneratorFits
  <2> QED BY <1>0, <2>1, SameAgain, GeneratorStays
<1>6. CASE Generator!HandleGenerate
  BY <1>6, GeneratorSends DEF Generator!HandleGenerate, Generator!Call, NewCall
<1>7. CASE Generator!HandleSave
  BY <1>7, GeneratorSends DEF Generator!HandleSave, Generator!Call, NewCall
<1> QED BY <1>1, <1>2, <1>3, <1>4, <1>5, <1>6, <1>7 DEF Generator!Next, Generator!Member

LEMMA GeneratorWaits ==
  ASSUME GeneratorFits(view, past, call)
  PROVE  Generator!WaitsForCall
<1>1. DOMAIN call = 1..Len(call) /\ AllLive(call)
  BY CallsAreSeq DEF GeneratorFits
<1>2. \A op : Generator!Under({op}) <=> Waits(call, {op})
  BY <1>1 DEF Generator!Under, Waits, AllLive
<1> QED BY <1>2 DEF Generator!WaitsForCall, GeneratorFits, Flag

-----------------------------------------------------------------------------
(* The account (ProfileScreen).                                            *)

\* Nothing throws there.
AccountFits(v, c) ==
    /\ IsCalls(c) /\ AllLive(c)
    /\ DOMAIN v = {"shown", "typed", "bar", "loading", "failed", "saving", "changing",
                   "deleting", "asking", "gone"}
    /\ ~v.gone =>
        /\ Flag(c, {"load"}, v.loading, Never)
        /\ Flag(c, {"save"}, v.saving, Never)
        /\ Flag(c, {"password"}, v.changing, Never)
        /\ Flag(c, {"delete"}, v.deleting, Never)
        /\ v.deleting => v.asking

LEMMA AccountStarts ==
  ASSUME Account!Init
  PROVE  AccountFits(view, call)
<1>1. call = <<NewCall("load", <<>>)>>
  BY DEF Account!Init, Account!Call, NewCall
<1>2. /\ DOMAIN view = {"shown", "typed", "bar", "loading", "failed", "saving", "changing",
                        "deleting", "asking", "gone"}
      /\ view.loading = TRUE /\ view.saving = FALSE /\ view.changing = FALSE
      /\ view.deleting = FALSE
  BY DEF Account!Init
<1>3. IsCalls(call) /\ AllLive(call)
  BY <1>1, AllLiveAtStart
<1>4. /\ Flag(call, {"load"}, view.loading, Never)
      /\ Flag(call, {"save"}, view.saving, Never)
      /\ Flag(call, {"password"}, view.changing, Never)
      /\ Flag(call, {"delete"}, view.deleting, Never)
  BY <1>1, <1>2, FlagStarts
<1> QED BY <1>2, <1>3, <1>4 DEF AccountFits

LEMMA AccountStays ==
  ASSUME AccountFits(view, call), Same(call, call'), DOMAIN view' = DOMAIN view,
         view'.loading = view.loading, view'.saving = view.saving, view'.gone = view.gone,
         view'.changing = view.changing, view'.deleting = view.deleting,
         view'.asking = view.asking \/ ~view.deleting
  PROVE  AccountFits(view', call')
<1>1. IsCalls(call') /\ (AllLive(call) => AllLive(call'))
  BY DEF Same, AllLive
<1> QED BY <1>1, FlagStays DEF AccountFits

LEMMA AccountSends ==
  ASSUME AccountFits(view, call), ~view.gone, NEW op, NEW arg,
         call' = Append(call, NewCall(op, arg)),
         \/ op = "load" /\ ~view.loading /\ view' = [view EXCEPT !.loading = TRUE, !.failed = FALSE]
         \/ op = "save" /\ ~view.saving /\ view' = [view EXCEPT !.saving = TRUE]
         \/ op = "password" /\ ~view.changing /\ view' = [view EXCEPT !.changing = TRUE]
         \/ op = "delete" /\ ~view.deleting /\ view.asking /\ view' = [view EXCEPT !.deleting = TRUE]
         \/ op = "logout" /\ view' = view
  PROVE  AccountFits(view', call')
<1>0. IsCalls(call) /\ AllLive(call)
  BY DEF AccountFits
<1>1. IsCalls(call') /\ AllLive(call')
  BY <1>0, AllLiveMore
<1>2. /\ DOMAIN view' = DOMAIN view /\ view'.gone = view.gone /\ view'.asking = view.asking
      /\ op \in {"load", "save", "password", "delete", "logout"}
      /\ op = "load" => ~view.loading /\ view'.loading
      /\ op # "load" => view'.loading = view.loading
      /\ op = "save" => ~view.saving /\ view'.saving
      /\ op # "save" => view'.saving = view.saving
      /\ op = "password" => ~view.changing /\ view'.changing
      /\ op # "password" => view'.changing = view.changing
      /\ op = "delete" => ~view.deleting /\ view'.deleting /\ view.asking
      /\ op # "delete" => view'.deleting = view.deleting
  BY DEF AccountFits
<1>3. /\ Flag(call', {"load"}, view'.loading, Never)
      /\ Flag(call', {"save"}, view'.saving, Never)
      /\ Flag(call', {"password"}, view'.changing, Never)
      /\ Flag(call', {"delete"}, view'.deleting, Never)
  <2>0. ASSUME NEW ops, NEW b, NEW bb, Flag(call, ops, b, Never),
               op \in ops => ~b /\ bb, op \notin ops => (bb <=> b)
        PROVE  Flag(call', ops, bb, Never)
    BY <1>0, <2>0, FlagMore
  <2>1. Flag(call', {"load"}, view'.loading, Never)
    BY <1>2, <2>0 DEF AccountFits
  <2>2. Flag(call', {"save"}, view'.saving, Never)
    BY <1>2, <2>0 DEF AccountFits
  <2>3. Flag(call', {"password"}, view'.changing, Never)
    BY <1>2, <2>0 DEF AccountFits
  <2>4. Flag(call', {"delete"}, view'.deleting, Never)
    BY <1>2, <2>0 DEF AccountFits
  <2> QED BY <2>1, <2>2, <2>3, <2>4
<1> QED BY <1>1, <1>2, <1>3 DEF AccountFits

LEMMA AccountTakes ==
  ASSUME AccountFits(view, call), ~view.gone, NEW i \in 1..Len(call), Account!Answer(i)
  PROVE  AccountFits(view', call')
<1> DEFINE op == call[i].op
<1>0. IsCalls(call) /\ AllLive(call) /\ call[i].live
  BY DEF AccountFits, AllLive
<1>1. call' = Less(call, i)
  BY DEF Account!Answer, Account!Leaves, Account!LoadAnswer, Account!SaveAnswer,
         Account!PasswordAnswer, Account!LogoutAnswer, Account!DeleteAnswer, Account!Rest,
         Account!WithoutAt, Less
<1>2. /\ DOMAIN view' = DOMAIN view
      /\ ~view'.gone =>
           /\ op = "load" => ~view'.loading
           /\ op # "load" => view'.loading = view.loading
           /\ op = "save" => ~view'.saving
           /\ op # "save" => view'.saving = view.saving
           /\ op = "password" => ~view'.changing
           /\ op # "password" => view'.changing = view.changing
           /\ op = "delete" => ~view'.deleting
           /\ op # "delete" => view'.deleting = view.deleting /\ view'.asking = view.asking
  <2>1. CASE Account!Leaves(i)
    BY <2>1 DEF AccountFits, Account!Leaves
  <2>2. CASE Account!LoadAnswer(i)
    BY <2>2 DEF AccountFits, Account!LoadAnswer, Account!Takes
  <2>3. CASE Account!SaveAnswer(i)
    BY <2>3 DEF AccountFits, Account!SaveAnswer, Account!Takes
  <2>4. CASE Account!PasswordAnswer(i)
    BY <2>4 DEF AccountFits, Account!PasswordAnswer, Account!Takes
  <2>5. CASE Account!LogoutAnswer(i)
    BY <2>5 DEF AccountFits, Account!LogoutAnswer, Account!Takes
  <2>6. CASE Account!DeleteAnswer(i)
    BY <2>6 DEF AccountFits, Account!DeleteAnswer, Account!Takes
  <2> QED BY <2>1, <2>2, <2>3, <2>4, <2>5, <2>6 DEF Account!Answer
<1>3. IsCalls(call') /\ AllLive(call')
  BY <1>0, <1>1, AllLiveLess
<1>4. ~view'.gone =>
        /\ Flag(call', {"load"}, view'.loading, Never)
        /\ Flag(call', {"save"}, view'.saving, Never)
        /\ Flag(call', {"password"}, view'.changing, Never)
        /\ Flag(call', {"delete"}, view'.deleting, Never)
  <2>0. ASSUME NEW ops, NEW b, NEW bb, Flag(call, ops, b, Never),
               op \in ops => ~bb, op \notin ops => (bb <=> b)
        PROVE  Flag(call', ops, bb, Never)
    BY <1>0, <1>1, <2>0, FlagLess
  <2>1. ~view'.gone => Flag(call', {"load"}, view'.loading, Never)
    BY <1>2, <2>0 DEF AccountFits
  <2>2. ~view'.gone => Flag(call', {"save"}, view'.saving, Never)
    BY <1>2, <2>0 DEF AccountFits
  <2>3. ~view'.gone => Flag(call', {"password"}, view'.changing, Never)
    BY <1>2, <2>0 DEF AccountFits
  <2>4. ~view'.gone => Flag(call', {"delete"}, view'.deleting, Never)
    BY <1>2, <2>0 DEF AccountFits
  <2> QED BY <2>1, <2>2, <2>3, <2>4
<1> QED BY <1>2, <1>3, <1>4 DEF AccountFits

LEMMA AccountGoesOn ==
  ASSUME AccountFits(view, call), Account!Next \/ UNCHANGED screen
  PROVE  AccountFits(view', call')
<1>0. IsCalls(call) /\ DOMAIN call = 1..Len(call)
  BY CallsAreSeq DEF AccountFits
<1>1. CASE UNCHANGED screen
  BY <1>1 DEF screen, AccountFits
<1>2. ASSUME NEW i \in DOMAIN call,
             Account!Serve(i) \/ Account!Refuses(i) \/ Account!Breaks(i)
      PROVE  AccountFits(view', call')
  <2>1. Progresses(call, call') /\ view' = view
    <3>1. ASSUME NEW a, Account!Serves(i, a)
          PROVE  Progresses(call, call') /\ view' = view
      BY <3>1 DEF Progresses, Served, Account!Serves
    <3>2. ASSUME NEW x, call' = [call EXCEPT ![i].state = x], view' = view
          PROVE  Progresses(call, call') /\ view' = view
      BY <3>2 DEF Progresses, Marked
    <3>3. CASE Account!NotFound(i) \/ Account!Refuses(i) \/ Account!Breaks(i)
      BY <3>2, <3>3 DEF Account!NotFound, Account!Refuses, Account!Breaks
    <3>4. CASE /\ Account!Serve(i)
               /\ \A a : ~Account!Serves(i, a)
               /\ ~Account!NotFound(i)
      <4>1. call' = [call EXCEPT ![i].state = "unauthorized"] /\ view' = view
        BY <3>4 DEF Account!Serve, Account!GetProfile, Account!UpdateProfile,
             Account!ChangePassword, Account!Logout, Account!DeleteAccount
      <4> QED BY <3>2, <4>1
    <3> QED BY <1>2, <3>1, <3>3, <3>4
  <2>2. Same(call, call')
    BY <1>0, <2>1, Progressing
  <2> QED BY <2>1, <2>2, AccountStays DEF AccountFits
<1>3. ASSUME NEW i \in DOMAIN call, Account!Answer(i), ~view.gone
      PROVE  AccountFits(view', call')
  BY <1>0, <1>3, AccountTakes
<1>4. CASE Account!ChangedElsewhere
  BY <1>0, <1>4, SameAgain, AccountStays DEF Account!ChangedElsewhere, AccountFits
<1>5. CASE Account!TypeName \/ Account!Ask
  <2>1. /\ call' = call /\ DOMAIN view' = DOMAIN view /\ view'.loading = view.loading
        /\ view'.saving = view.saving /\ view'.gone = view.gone
        /\ view'.changing = view.changing /\ view'.deleting = view.deleting
        /\ view.deleting => view'.asking = view.asking
    BY <1>5 DEF Account!TypeName, Account!Ask, AccountFits
  <2> QED BY <1>0, <2>1 DEF AccountFits
<1>6. CASE /\ ~view.gone
           /\ \/ Account!Retry \/ Account!HandleProfileSubmit \/ Account!HandlePasswordSubmit
              \/ Account!HandleLogout \/ Account!HandleDeleteAccount
  BY <1>6, AccountSends DEF Account!Retry, Account!HandleProfileSubmit,
        Account!HandlePasswordSubmit, Account!HandleLogout, Account!HandleDeleteAccount,
        Account!Sends, Account!Call, NewCall
<1> QED BY <1>1, <1>2, <1>3, <1>4, <1>5, <1>6 DEF Account!Next, Account!Member

LEMMA AccountWaits ==
  ASSUME AccountFits(view, call)
  PROVE  Account!WaitsForCall
<1>1. DOMAIN call = 1..Len(call) /\ AllLive(call)
  BY CallsAreSeq DEF AccountFits
<1>2. \A op : Account!Under({op}) <=> Waits(call, {op})
  BY <1>1 DEF Account!Under, Waits, AllLive
<1> QED BY <1>2 DEF Account!WaitsForCall, AccountFits, Flag, Never

-----------------------------------------------------------------------------
(* The calendar (CalendarScreen).                                          *)

CalendarChanges == {"save", "delete", "reload"}

CalendarFits(v, p, c) ==
    /\ IsCalls(c)
    /\ DOMAIN v = {"query", "there", "shown", "editing", "form", "loading", "saving"}
    /\ DOMAIN p = {"stale", "picked", "stuck"}
    /\ Flag(c, {"load"}, v.loading, p.stuck)
    /\ Flag(c, CalendarChanges, v.saving, p.stuck)

LEMMA CalendarStarts ==
  ASSUME Calendar!Init
  PROVE  CalendarFits(view, past, call)
<1>1. PICK x : call = <<NewCall("load", x)>>
  BY DEF Calendar!Init, Calendar!Load, Calendar!Call, NewCall
<1>2. /\ DOMAIN view = {"query", "there", "shown", "editing", "form", "loading", "saving"}
      /\ view.loading = TRUE /\ view.saving = FALSE
  BY DEF Calendar!Init, Calendar!Opened
<1>3. DOMAIN past = {"stale", "picked", "stuck"}
  BY DEF Calendar!Init
<1>4. IsCalls(call)
  BY <1>1, StartIsCalls
<1>5. /\ Flag(call, {"load"}, view.loading, past.stuck)
      /\ Flag(call, CalendarChanges, view.saving, past.stuck)
  BY <1>1, <1>2, FlagStarts DEF CalendarChanges
<1> QED BY <1>2, <1>3, <1>4, <1>5 DEF CalendarFits

LEMMA CalendarStays ==
  ASSUME CalendarFits(view, past, call), Same(call, call'), DOMAIN view' = DOMAIN view,
         view'.loading = view.loading, view'.saving = view.saving,
         DOMAIN past' = DOMAIN past, past'.stuck = past.stuck
  PROVE  CalendarFits(view', past', call')
<1>1. IsCalls(call')
  BY DEF Same
<1> QED BY <1>1, FlagStays DEF CalendarFits

\* The plans are read for another month, or from the start.
LEMMA CalendarReads ==
  ASSUME CalendarFits(view, past, call), Calendar!ChangeQuery \/ Calendar!Reopen
  PROVE  CalendarFits(view', past', call')
<1>0. IsCalls(call)
  BY DEF CalendarFits
<1>1. CASE Calendar!ChangeQuery
  <2> DEFINE kept == Unheard(call, {"load"})
  <2>1. PICK x : call' = Append(kept, NewCall("load", x))
    BY <1>1 DEF Calendar!ChangeQuery, Calendar!Forgets, Calendar!Load, Calendar!Call, NewCall,
         Unheard
  <2>2. /\ DOMAIN view' = DOMAIN view /\ view'.loading = TRUE /\ view'.saving = view.saving
        /\ DOMAIN past' = DOMAIN past /\ past'.stuck = past.stuck
    BY <1>1 DEF Calendar!ChangeQuery, CalendarFits
  <2>3. /\ IsCalls(kept) /\ Flag(kept, {"load"}, Never, past.stuck)
        /\ Flag(kept, CalendarChanges, view.saving, past.stuck)
    BY <1>0, CallsUnheard, FlagForgets DEF CalendarFits, CalendarChanges
  <2> HIDE DEF kept
  <2>4. IsCalls(call')
    BY <2>1, <2>3, CallMore DEF More
  <2>5. Flag(call', {"load"}, view'.loading, past'.stuck)
    BY <2>1, <2>2, <2>3, FlagMore DEF Never
  <2>6. Flag(call', CalendarChanges, view'.saving, past'.stuck)
    <3>1. "load" \notin CalendarChanges
      BY DEF CalendarChanges
    <3> QED BY <2>1, <2>2, <2>3, <3>1, FlagMore
  <2> QED BY <2>2, <2>4, <2>5, <2>6 DEF CalendarFits
<1>2. CASE Calendar!Reopen
  <2> DEFINE kept == Silent(call)
  <2>1. PICK x : call' = Append(kept, NewCall("load", x))
    BY <1>2 DEF Calendar!Reopen, Calendar!Forgotten, Calendar!Load, Calendar!Call, NewCall,
         Silent
  <2>2. /\ DOMAIN view' = {"query", "there", "shown", "editing", "form", "loading", "saving"}
        /\ view'.loading = TRUE /\ view'.saving = FALSE
        /\ DOMAIN past' = {"stale", "picked", "stuck"}
    BY <1>2 DEF Calendar!Reopen, Calendar!Opened
  <2>3. /\ IsCalls(kept) /\ Flag(kept, {"load"}, Never, past'.stuck)
        /\ Flag(kept, CalendarChanges, Never, past'.stuck)
    BY <1>0, CallsSilent, FlagSilent
  <2> HIDE DEF kept
  <2>4. IsCalls(call')
    BY <2>1, <2>3, CallMore DEF More
  <2>5. Flag(call', {"load"}, view'.loading, past'.stuck)
    BY <2>1, <2>2, <2>3, FlagMore DEF Never
  <2>6. Flag(call', CalendarChanges, view'.saving, past'.stuck)
    <3>1. "load" \notin CalendarChanges
      BY DEF CalendarChanges
    <3> QED BY <2>1, <2>2, <2>3, <3>1, FlagMore DEF Never
  <2> QED BY <2>2, <2>4, <2>5, <2>6 DEF CalendarFits
<1> QED BY <1>1, <1>2

\* A change is asked for.
LEMMA CalendarSends ==
  ASSUME CalendarFits(view, past, call), NEW op \in {"save", "delete"}, NEW x,
         Calendar!Changes(op, x)
  PROVE  CalendarFits(view', past', call')
<1>0. IsCalls(call) /\ op \in CalendarChanges /\ op \notin {"load"}
  BY DEF CalendarFits, CalendarChanges
<1>1. PICK a : call' = Append(call, NewCall(op, a))
  BY DEF Calendar!Changes, Calendar!Call, NewCall
<1>2. /\ DOMAIN view' = DOMAIN view /\ view'.loading = view.loading
      /\ ~view.saving /\ view'.saving
      /\ DOMAIN past' = DOMAIN past /\ past'.stuck = past.stuck
  BY DEF Calendar!Changes, Calendar!MayChange, CalendarFits
<1>3. IsCalls(call')
  BY <1>0, <1>1, CallMore DEF More
<1>4. Flag(call', {"load"}, view'.loading, past'.stuck)
  BY <1>0, <1>1, <1>2, FlagMore DEF CalendarFits
<1>5. Flag(call', CalendarChanges, view'.saving, past'.stuck)
  <2>1. Flag(call, CalendarChanges, view.saving, past.stuck)
    BY DEF CalendarFits
  <2>2. op \in CalendarChanges => ~view.saving /\ view'.saving
    BY <1>2
  <2>3. Flag(Append(call, NewCall(op, a)), CalendarChanges, view'.saving, past.stuck)
    BY <1>0, <2>1, <2>2, FlagMore
  <2> QED BY <1>1, <1>2, <2>3
<1> QED BY <1>2, <1>3, <1>4, <1>5 DEF CalendarFits

\* A call is over.
LEMMA CalendarTakes ==
  ASSUME CalendarFits(view, past, call), NEW i \in 1..Len(call),
         Calendar!Answer(i) \/ Calendar!Drops(i)
  PROVE  CalendarFits(view', past', call')
<1> DEFINE op == call[i].op
           mid == Less(call, i)
<1>0. /\ IsCalls(call)
      /\ DOMAIN view = {"query", "there", "shown", "editing", "form", "loading", "saving"}
      /\ DOMAIN past = {"stale", "picked", "stuck"}
      /\ Flag(call, {"load"}, view.loading, past.stuck)
      /\ Flag(call, CalendarChanges, view.saving, past.stuck)
  BY DEF CalendarFits
<1>1. IsCalls(mid)
  BY <1>0, CallLeft DEF Left
<1> HIDE DEF mid
\* No call follows.
<1>2. ASSUME call' = mid, DOMAIN view' = DOMAIN view, DOMAIN past' = DOMAIN past,
             past.stuck => past'.stuck,
             op \in {"load"} /\ call[i].live => past'.stuck \/ ~view'.loading,
             ~(op \in {"load"} /\ call[i].live) => view'.loading = view.loading,
             op \in CalendarChanges /\ call[i].live => past'.stuck \/ ~view'.saving,
             ~(op \in CalendarChanges /\ call[i].live) => view'.saving = view.saving
      PROVE  CalendarFits(view', past', call')
  <2>1. Flag(mid, {"load"}, view'.loading, past'.stuck)
    BY <1>0, <1>2, FlagLess DEF mid
  <2>2. Flag(mid, CalendarChanges, view'.saving, past'.stuck)
    BY <1>0, <1>2, FlagLess DEF mid
  <2> QED BY <1>0, <1>1, <1>2, <2>1, <2>2 DEF CalendarFits
\* The plans are read again, and the change goes on with that call.
<1>3. ASSUME Calendar!ThenReads(i) = call', op \in CalendarChanges, call[i].live,
             DOMAIN view' = DOMAIN view, DOMAIN past' = DOMAIN past, past'.stuck = past.stuck,
             view'.loading = view.loading, view'.saving = view.saving
      PROVE  CalendarFits(view', past', call')
  <2>1. PICK x : call' = Append(mid, NewCall("reload", x))
    BY <1>3 DEF Calendar!ThenReads, Calendar!Rest, Calendar!WithoutAt, Less, Calendar!Call,
         NewCall, mid
  <2>2. view.saving
    BY <1>0, <1>3 DEF Flag, Waits
  <2>3. op \notin {"load"} /\ "reload" \notin {"load"} /\ "reload" \in CalendarChanges
    BY <1>3 DEF CalendarChanges
  <2>4. Flag(mid, {"load"}, view.loading, past.stuck)
    BY <1>0, <1>3, <2>3, FlagLess DEF mid
  <2>5. Flag(mid, CalendarChanges, Never, past.stuck)
    <3>1. ~Never
      BY DEF Never
    <3> QED BY <1>0, <1>3, <3>1, FlagLess DEF mid
  <2>6. IsCalls(call')
    BY <1>1, <2>1, CallMore DEF More
  <2>7. Flag(call', {"load"}, view'.loading, past'.stuck)
    BY <1>1, <1>3, <2>1, <2>3, <2>4, FlagMore
  <2>8. Flag(call', CalendarChanges, view'.saving, past'.stuck)
    BY <1>1, <1>3, <2>1, <2>2, <2>3, <2>5, FlagMore DEF Never
  <2> QED BY <1>0, <1>3, <2>6, <2>7, <2>8 DEF CalendarFits
<1>4. \A a : a = Calendar!Rest(i) => a = mid
  BY DEF Calendar!Rest, Calendar!WithoutAt, Less, mid
<1>5. CASE Calendar!LoadAnswer(i)
  <2>0. op = "load" /\ op \in {"load"} /\ op \notin CalendarChanges /\ call' = mid
    BY <1>4, <1>5 DEF Calendar!LoadAnswer, Calendar!Takes, CalendarChanges
  <2>1. /\ DOMAIN view' = DOMAIN view /\ view'.saving = view.saving
        /\ DOMAIN past' = DOMAIN past /\ (past.stuck => past'.stuck)
        /\ past'.stuck \/ ~view'.loading
    BY <1>0, <1>5 DEF Calendar!LoadAnswer, Calendar!Takes
  <2>2. call[i].live
    BY <1>5 DEF Calendar!LoadAnswer, Calendar!Takes
  <2> QED BY <1>2, <2>0, <2>1, <2>2
<1>6. CASE Calendar!SaveAnswer(i)
  BY <1>0, <1>2, <1>3, <1>4, <1>6 DEF Calendar!SaveAnswer, Calendar!Takes, Calendar!IsRefused,
       Calendar!Throws, Calendar!Emptied, CalendarChanges
<1>7. CASE Calendar!DeleteAnswer(i)
  BY <1>0, <1>2, <1>3, <1>4, <1>7 DEF Calendar!DeleteAnswer, Calendar!Takes,
       Calendar!IsRefused, Calendar!Throws, Calendar!Emptied, CalendarChanges
<1>8. CASE Calendar!ReloadAnswer(i)
  BY <1>0, <1>2, <1>4, <1>8 DEF Calendar!ReloadAnswer, Calendar!Takes, Calendar!IsRefused,
       Calendar!Throws, CalendarChanges
<1>9. CASE Calendar!Drops(i)
  BY <1>0, <1>2, <1>4, <1>9 DEF Calendar!Drops
<1> QED BY <1>5, <1>6, <1>7, <1>8, <1>9 DEF Calendar!Answer

LEMMA CalendarGoesOn ==
  ASSUME CalendarFits(view, past, call), Calendar!Next \/ UNCHANGED screen
  PROVE  CalendarFits(view', past', call')
<1>0. IsCalls(call) /\ DOMAIN call = 1..Len(call)
  BY CallsAreSeq DEF CalendarFits
<1>1. CASE UNCHANGED screen
  BY <1>1 DEF screen, CalendarFits
<1>2. ASSUME NEW i \in DOMAIN call,
             Calendar!Serve(i) \/ Calendar!Refuses(i) \/ Calendar!Breaks(i)
      PROVE  CalendarFits(view', past', call')
  <2>1. Progresses(call, call') /\ UNCHANGED <<view, past>>
    <3>1. ASSUME NEW a, Calendar!Serves(i, a)
          PROVE  Progresses(call, call') /\ UNCHANGED <<view, past>>
      BY <3>1 DEF Progresses, Served, Calendar!Serves
    <3>2. CASE Calendar!NotFound(i) \/ Calendar!Refuses(i) \/ Calendar!Breaks(i)
      BY <3>2 DEF Progresses, Marked, Calendar!NotFound, Calendar!Refuses, Calendar!Breaks
    <3> QED BY <1>2, <3>1, <3>2 DEF Calendar!Serve, Calendar!ServeList, Calendar!ServeSave,
                Calendar!ServeDelete
  <2>2. Same(call, call')
    BY <1>0, <2>1, Progressing
  <2> QED BY <2>1, <2>2, CalendarStays
<1>3. ASSUME NEW i \in DOMAIN call, Calendar!Answer(i) \/ Calendar!Drops(i)
      PROVE  CalendarFits(view', past', call')
  BY <1>0, <1>3, CalendarTakes
<1>4. CASE Calendar!ChangeQuery \/ Calendar!Reopen
  BY <1>4, CalendarReads
<1>5. CASE \/ Calendar!SelectPlan \/ Calendar!PlanDay \/ Calendar!Type \/ Calendar!ResetForm
  <2>1. /\ call' = call /\ DOMAIN past' = DOMAIN past /\ past'.stuck = past.stuck
        /\ DOMAIN view' = DOMAIN view /\ view'.loading = view.loading
        /\ view'.saving = view.saving
    BY <1>5 DEF Calendar!SelectPlan, Calendar!PlanDay, Calendar!Type, Calendar!ResetForm,
         Calendar!Emptied, CalendarFits
  <2> QED BY <1>0, <2>1, SameAgain, CalendarStays
<1>6. CASE Calendar!HandleSubmit
  BY <1>6, CalendarSends DEF Calendar!HandleSubmit
<1>7. CASE Calendar!HandleDelete
  BY <1>7, CalendarSends DEF Calendar!HandleDelete
<1> QED BY <1>1, <1>2, <1>3, <1>4, <1>5, <1>6, <1>7 DEF Calendar!Next, Calendar!Member

LEMMA CalendarWaits ==
  ASSUME CalendarFits(view, past, call)
  PROVE  Calendar!WaitsForCall
<1>1. DOMAIN call = 1..Len(call)
  BY CallsAreSeq DEF CalendarFits
<1>2. \A ops : Calendar!UnderLive(ops) <=> Waits(call, ops)
  BY <1>1 DEF Calendar!UnderLive, Waits
<1> QED BY <1>2 DEF Calendar!WaitsForCall, CalendarFits, Flag, Calendar!Mutations, CalendarChanges

-----------------------------------------------------------------------------
(* The list of the library (LibraryList).                                  *)

LibraryFits(v, p, c) ==
    /\ IsCalls(c)
    /\ DOMAIN v = {"draft", "same", "filter", "page", "there", "library", "loading", "failed"}
    /\ DOMAIN p = {"read", "stale", "stuck"}
    /\ Flag(c, {"load"}, v.loading, p.stuck)

LEMMA LibraryStarts ==
  ASSUME Library!Init
  PROVE  LibraryFits(view, past, call)
<1>1. PICK x : call = <<NewCall("load", x)>>
  BY DEF Library!Init, Library!Load, Library!Call, NewCall
<1>2. /\ DOMAIN view = {"draft", "same", "filter", "page", "there", "library", "loading",
                        "failed"}
      /\ view.loading = TRUE
  BY DEF Library!Init, Library!Opened
<1>3. DOMAIN past = {"read", "stale", "stuck"}
  BY DEF Library!Init
<1>4. IsCalls(call)
  BY <1>1, StartIsCalls
<1>5. Flag(call, {"load"}, view.loading, past.stuck)
  BY <1>1, <1>2, FlagStarts
<1> QED BY <1>2, <1>3, <1>4, <1>5 DEF LibraryFits

LEMMA LibraryStays ==
  ASSUME LibraryFits(view, past, call), Same(call, call'), DOMAIN view' = DOMAIN view,
         view'.loading = view.loading, DOMAIN past' = DOMAIN past, past'.stuck = past.stuck
  PROVE  LibraryFits(view', past', call')
<1>1. IsCalls(call')
  BY DEF Same
<1> QED BY <1>1, FlagStays DEF LibraryFits

\* A list is read for other filters or another page; or nothing is.
LEMMA LibraryApplies ==
  ASSUME LibraryFits(view, past, call), NEW v, NEW anew, Library!Applies(v, anew),
         DOMAIN v = DOMAIN view, v.loading = view.loading
  PROVE  LibraryFits(view', past', call')
<1>0. IsCalls(call)
  BY DEF LibraryFits
<1>1. CASE anew \/ v.page # view.page
  <2> DEFINE kept == Unheard(call, {"load"})
  <2>1. PICK x : call' = Append(kept, NewCall("load", x))
    BY <1>1 DEF Library!Applies, Library!Forgets, Library!Load, Library!Call, NewCall, Unheard
  <2>2. /\ DOMAIN view' = DOMAIN view /\ view'.loading = TRUE
        /\ DOMAIN past' = DOMAIN past
    BY <1>1 DEF Library!Applies, LibraryFits
  <2>3. IsCalls(kept) /\ Flag(kept, {"load"}, Never, past'.stuck)
    BY <1>0, CallsUnheard, FlagForgets DEF LibraryFits
  <2> HIDE DEF kept
  <2>4. IsCalls(call')
    BY <2>1, <2>3, CallMore DEF More
  <2>5. Flag(call', {"load"}, view'.loading, past'.stuck)
    BY <2>1, <2>2, <2>3, FlagMore DEF Never
  <2> QED BY <2>2, <2>4, <2>5 DEF LibraryFits
<1>2. CASE ~(anew \/ v.page # view.page)
  BY <1>0, <1>2, SameAgain, LibraryStays DEF Library!Applies
<1> QED BY <1>1, <1>2

\* A call is over.
LEMMA LibraryTakes ==
  ASSUME LibraryFits(view, past, call), NEW i \in 1..Len(call),
         Library!LoadAnswer(i) \/ Library!Drops(i)
  PROVE  LibraryFits(view', past', call')
<1> DEFINE mine == call[i].op \in {"load"} /\ call[i].live
<1>0. IsCalls(call) /\ call' = Less(call, i)
  BY DEF LibraryFits, Library!LoadAnswer, Library!Drops, Library!Rest, Library!WithoutAt, Less
<1>1. IsCalls(call')
  BY <1>0, CallLeft DEF Left
<1>2. /\ DOMAIN view' = DOMAIN view /\ DOMAIN past' = DOMAIN past
      /\ past.stuck => past'.stuck
      /\ mine => past'.stuck \/ ~view'.loading
      /\ ~mine => view'.loading = view.loading
  <2>1. CASE Library!LoadAnswer(i)
    BY <2>1 DEF Library!LoadAnswer, Library!Takes, LibraryFits
  <2>2. CASE Library!Drops(i)
    BY <2>2 DEF Library!Drops
  <2> QED BY <2>1, <2>2
<1>3. Flag(call', {"load"}, view'.loading, past'.stuck)
  BY <1>0, <1>2, FlagLess DEF LibraryFits
<1> QED BY <1>1, <1>2, <1>3 DEF LibraryFits

LEMMA LibraryGoesOn ==
  ASSUME LibraryFits(view, past, call), Library!Next \/ UNCHANGED screen
  PROVE  LibraryFits(view', past', call')
<1>0. IsCalls(call) /\ DOMAIN call = 1..Len(call)
  BY CallsAreSeq DEF LibraryFits
<1>1. CASE UNCHANGED screen
  BY <1>1 DEF screen, LibraryFits
<1>2. ASSUME NEW i \in DOMAIN call,
             Library!Serve(i) \/ Library!Refuses(i) \/ Library!Breaks(i)
      PROVE  LibraryFits(view', past', call')
  <2>1. Progresses(call, call') /\ UNCHANGED <<view, past>>
    <3>1. ASSUME NEW a, Library!Serves(i, a)
          PROVE  Progresses(call, call') /\ UNCHANGED <<view, past>>
      BY <3>1 DEF Progresses, Served, Library!Serves
    <3>2. CASE Library!Refuses(i) \/ Library!Breaks(i)
      BY <3>2 DEF Progresses, Marked, Library!Refuses, Library!Breaks
    <3>3. CASE Library!FindMany(i)
      BY <3>3 DEF Progresses, Stepped, Library!FindMany
    <3> QED BY <1>2, <3>1, <3>2, <3>3 DEF Library!Serve, Library!Count
  <2>2. Same(call, call')
    BY <1>0, <2>1, Progressing
  <2> QED BY <2>1, <2>2, LibraryStays
<1>3. ASSUME NEW i \in DOMAIN call, Library!LoadAnswer(i) \/ Library!Drops(i)
      PROVE  LibraryFits(view', past', call')
  BY <1>0, <1>3, LibraryTakes
<1>4. CASE Library!ChangedElsewhere \/ Library!EditFilter
  <2>1. /\ call' = call /\ DOMAIN past' = DOMAIN past /\ past'.stuck = past.stuck
        /\ DOMAIN view' = DOMAIN view /\ view'.loading = view.loading
    BY <1>4 DEF Library!ChangedElsewhere, Library!EditFilter, LibraryFits
  <2> QED BY <1>0, <2>1, SameAgain, LibraryStays
<1>5. CASE Library!HandleSubmit
  <2> DEFINE v == [view EXCEPT !.filter = view.draft, !.same = TRUE, !.page = 1]
  <2>1. Library!Applies(v, ~view.same)
    BY <1>5 DEF Library!HandleSubmit
  <2>2. DOMAIN v = DOMAIN view /\ v.loading = view.loading
    BY DEF LibraryFits
  <2> HIDE DEF v
  <2> QED BY <2>1, <2>2, LibraryApplies
<1>6. CASE Library!HandleReset
  <2> DEFINE v == [view EXCEPT !.draft = EveryKind, !.same = TRUE,
                               !.filter = EveryKind, !.page = 1]
  <2>1. PICK other \in BOOLEAN : Library!Applies(v, other)
    BY <1>6 DEF Library!HandleReset
  <2>2. DOMAIN v = DOMAIN view /\ v.loading = view.loading
    BY DEF LibraryFits
  <2> HIDE DEF v
  <2> QED BY <2>1, <2>2, LibraryApplies
<1>7. CASE Library!TurnPage
  <2>1. PICK n \in {view.page - 1, view.page + 1} : Library!Applies([view EXCEPT !.page = n], FALSE)
    BY <1>7 DEF Library!TurnPage
  <2> DEFINE v == [view EXCEPT !.page = n]
  <2>2. DOMAIN v = DOMAIN view /\ v.loading = view.loading
    BY DEF LibraryFits
  <2>3. Library!Applies(v, FALSE)
    BY <2>1
  <2> HIDE DEF v
  <2> QED BY <2>2, <2>3, LibraryApplies
<1> QED BY <1>1, <1>2, <1>3, <1>4, <1>5, <1>6, <1>7 DEF Library!Next, Library!Member

LEMMA LibraryWaits ==
  ASSUME LibraryFits(view, past, call)
  PROVE  Library!WaitsForCall
<1>1. DOMAIN call = 1..Len(call)
  BY CallsAreSeq DEF LibraryFits
<1>2. \A ops : Library!UnderLive(ops) <=> Waits(call, ops)
  BY <1>1 DEF Library!UnderLive, Waits
<1> QED BY <1>2 DEF Library!WaitsForCall, LibraryFits, Flag

-----------------------------------------------------------------------------
(* The page of the members (MembersPage).                                  *)

MemberChanges == {"invite", "resend", "revoke", "member"}

MembersFit(v, p, c) ==
    /\ IsCalls(c) /\ AllLive(c)
    /\ DOMAIN v = {"status", "shown", "busy"}
    /\ DOMAIN p = {"readings", "newest", "stale", "stuck"}
    /\ \A i \in 1..Len(c) : c[i].op \in {"load"} \cup MemberChanges
    /\ ~p.stuck =>
        /\ v.status = "loading" => Waits(c, {"load"})
        /\ v.busy # Members!NoKey => Waits(c, MemberChanges)

LEMMA MembersStart ==
  ASSUME Members!Init
  PROVE  MembersFit(view, past, call)
<1>1. call = <<NewCall("load", 0)>>
  BY DEF Members!Init, Members!Call, NewCall
<1>2. DOMAIN view = {"status", "shown", "busy"} /\ view.busy = Members!NoKey
  BY DEF Members!Init
<1>3. DOMAIN past = {"readings", "newest", "stale", "stuck"}
  BY DEF Members!Init
<1>c. NewCall("load", 0).op = "load"
  BY DEF NewCall
<1>s. IsCalls(call) /\ AllLive(call) /\ Len(call) = 1 /\ call[1] = NewCall("load", 0)
  BY <1>1, StartIsCalls, AllLiveAtStart
<1>4. IsCalls(call) /\ AllLive(call) /\ Len(call) = 1 /\ call[1].op = "load"
  BY <1>c, <1>s
<1>5. Waits(call, {"load"})
  BY <1>4 DEF Waits, AllLive
<1> QED BY <1>2, <1>3, <1>4, <1>5 DEF MembersFit

LEMMA MembersStay ==
  ASSUME MembersFit(view, past, call), Same(call, call'), view' = view,
         DOMAIN past' = DOMAIN past, past'.stuck = past.stuck
  PROVE  MembersFit(view', past', call')
<1>1. /\ IsCalls(call') /\ AllLive(call')
      /\ \A ops : Waits(call, ops) => Waits(call', ops)
  BY WaitsSame DEF Same, MembersFit
<1>2. \A i \in 1..Len(call') : call'[i].op \in {"load"} \cup MemberChanges
  BY DEF Same, MembersFit
<1> QED BY <1>1, <1>2 DEF MembersFit

LEMMA MembersSend ==
  ASSUME MembersFit(view, past, call), NEW key, NEW op \in MemberChanges, NEW arg,
         Members!Starts(key, op, arg)
  PROVE  MembersFit(view', past', call')
<1>0. IsCalls(call) /\ AllLive(call)
  BY DEF MembersFit
<1>1. call' = Append(call, NewCall(op, arg))
  BY DEF Members!Starts, Members!Call, NewCall
<1>2. /\ DOMAIN view' = DOMAIN view /\ view'.status = "ready" /\ past' = past
  BY DEF Members!Starts, MembersFit
<1>3. IsCalls(call') /\ AllLive(call') /\ Waits(call', MemberChanges)
  BY <1>0, <1>1, AllLiveMore, WaitsAppended
<1>4. \A i \in 1..Len(call') : call'[i].op \in {"load"} \cup MemberChanges
  <2>1. More(call, call', NewCall(op, arg)) /\ NewCall(op, arg).op = op
    BY <1>0, <1>1, CallMore, NewCallIs
  <2> QED BY <2>1 DEF More, MembersFit
<1> QED BY <1>2, <1>3, <1>4 DEF MembersFit

LEMMA MembersTake ==
  ASSUME MembersFit(view, past, call), NEW i \in 1..Len(call),
         Members!ChangeAnswer(i) \/ Members!Load(i)
  PROVE  MembersFit(view', past', call')
<1> DEFINE mid == Less(call, i)
<1>0. /\ IsCalls(call) /\ AllLive(call)
      /\ DOMAIN view = {"status", "shown", "busy"}
      /\ DOMAIN past = {"readings", "newest", "stale", "stuck"}
  BY DEF MembersFit
<1>1. /\ IsCalls(mid) /\ AllLive(mid)
      /\ \A j \in 1..Len(mid) : mid[j].op \in {"load"} \cup MemberChanges
  <2>1. Left(call, mid, i)
    BY <1>0, CallLeft
  <2> QED BY <1>0, <2>1, AllLiveLess DEF Left, Others, MembersFit
<1>2. /\ call[i].op \notin {"load"} => (Waits(call, {"load"}) => Waits(mid, {"load"}))
      /\ call[i].op \notin MemberChanges => (Waits(call, MemberChanges) => Waits(mid, MemberChanges))
  BY <1>0, WaitsLess
<1>3. \A a : a = Members!Rest(i) => a = mid
  BY DEF Members!Rest, Members!WithoutAt, Less
<1> HIDE DEF mid
\* No call follows.
<1>4. ASSUME call' = mid, DOMAIN view' = DOMAIN view, DOMAIN past' = DOMAIN past,
             past.stuck => past'.stuck,
             call[i].op = "load" => /\ past'.stuck \/ view'.status # "loading"
                                    /\ view'.busy = view.busy,
             call[i].op # "load" => /\ past'.stuck \/ view'.busy = Members!NoKey
                                    /\ view'.status = view.status
      PROVE  MembersFit(view', past', call')
  <2>1. CASE call[i].op = "load"
    <3>1. call[i].op \notin MemberChanges
      BY <2>1 DEF MemberChanges
    <3> QED BY <1>0, <1>1, <1>2, <1>4, <2>1, <3>1 DEF MembersFit
  <2>2. CASE call[i].op # "load"
    BY <1>0, <1>1, <1>2, <1>4, <2>2 DEF MembersFit
  <2> QED BY <2>1, <2>2
<1>5. CASE Members!Load(i)
  BY <1>0, <1>3, <1>4, <1>5 DEF Members!Load, Members!Takes, Members!Throws
<1>6. CASE Members!ChangeAnswer(i) /\ call[i].state = "ok"
  <2>1. PICK x : call' = Append(mid, NewCall("load", x))
    BY <1>3, <1>6 DEF Members!ChangeAnswer, Members!Throws, Members!Call, NewCall
  <2>2. /\ DOMAIN view' = DOMAIN view /\ view'.busy = Members!NoKey
        /\ DOMAIN past' = DOMAIN past /\ past'.stuck = past.stuck
    BY <1>0, <1>6 DEF Members!ChangeAnswer, Members!Throws
  <2>3. IsCalls(call') /\ AllLive(call') /\ Waits(call', {"load"})
    BY <1>1, <2>1, AllLiveMore, WaitsAppended
  <2>4. \A j \in 1..Len(call') : call'[j].op \in {"load"} \cup MemberChanges
    <3>1. More(mid, call', NewCall("load", x)) /\ NewCall("load", x).op = "load"
      BY <1>1, <2>1, CallMore, NewCallIs
    <3> QED BY <1>1, <3>1 DEF More
  <2> QED BY <1>0, <2>2, <2>3, <2>4 DEF MembersFit
<1>7. CASE Members!ChangeAnswer(i) /\ call[i].state # "ok"
  BY <1>0, <1>3, <1>4, <1>7 DEF Members!ChangeAnswer, Members!Takes, Members!Throws
<1> QED BY <1>5, <1>6, <1>7

LEMMA MembersGoOn ==
  ASSUME MembersFit(view, past, call), Members!Next \/ UNCHANGED screen
  PROVE  MembersFit(view', past', call')
<1>0. IsCalls(call) /\ DOMAIN call = 1..Len(call)
  BY CallsAreSeq DEF MembersFit
<1>1. CASE UNCHANGED screen
  BY <1>1 DEF screen, MembersFit
<1>2. ASSUME NEW i \in DOMAIN call,
             Members!Serve(i) \/ Members!Refuses(i) \/ Members!Breaks(i)
      PROVE  MembersFit(view', past', call')
  <2>1. Progresses(call, call') /\ UNCHANGED <<view, past>>
    <3>1. ASSUME NEW a, Members!Serves(i, a)
          PROVE  Progresses(call, call') /\ UNCHANGED <<view, past>>
      BY <3>1 DEF Progresses, Served, Members!Serves
    <3>2. ASSUME NEW x, call' = [call EXCEPT ![i].state = x], UNCHANGED <<view, past>>
          PROVE  Progresses(call, call') /\ UNCHANGED <<view, past>>
      BY <3>2 DEF Progresses, Marked
    <3>3. CASE Members!NotFound(i) \/ Members!Refuses(i) \/ Members!Breaks(i)
      BY <3>2, <3>3 DEF Members!NotFound, Members!Refuses, Members!Breaks
    <3>4. CASE Members!Serve(i) /\ (\A a : ~Members!Serves(i, a)) /\ ~Members!NotFound(i)
      <4>1. call' = [call EXCEPT ![i].state = "forbidden"] /\ UNCHANGED <<view, past>>
        BY <3>4 DEF Members!Serve, Members!ListTeam, Members!Invite, Members!AnswerInvitation,
             Members!ChangeMember, Members!Writes
      <4> QED BY <3>2, <4>1
    <3> QED BY <1>2, <3>1, <3>3, <3>4
  <2>2. Same(call, call')
    BY <1>0, <2>1, Progressing
  <2> QED BY <2>1, <2>2, MembersStay
<1>3. ASSUME NEW i \in DOMAIN call, Members!ChangeAnswer(i) \/ Members!Load(i)
      PROVE  MembersFit(view', past', call')
  BY <1>0, <1>3, MembersTake
<1>4. CASE Members!JoinsElsewhere
  BY <1>0, <1>4, SameAgain, MembersStay DEF Members!JoinsElsewhere, MembersFit
<1>5. CASE Members!Administrator
  <2>1. \E key, arg : \E op \in MemberChanges : Members!Starts(key, op, arg)
    BY <1>5 DEF Members!Administrator, Members!HandleInvite, Members!HandleResend,
         Members!HandleRevoke, Members!OnInvitation, Members!HandleRole, Members!HandleRemove,
         Members!OnMember, MemberChanges
  <2> QED BY <2>1, MembersSend
<1> QED BY <1>1, <1>2, <1>3, <1>4, <1>5 DEF Members!Next

LEMMA MembersWait ==
  ASSUME MembersFit(view, past, call)
  PROVE  Members!WaitsForCall
<1>1. DOMAIN call = 1..Len(call) /\ AllLive(call)
  BY CallsAreSeq DEF MembersFit
<1>2. \A ops : Members!Under(ops) <=> Waits(call, ops)
  BY <1>1 DEF Members!Under, Waits, AllLive
<1> QED BY <1>2 DEF Members!WaitsForCall, MembersFit, MemberChanges

-----------------------------------------------------------------------------
(* The page of curation (CurationScreen).                                  *)

CurationOps == {"add", "addFeed", "importFeed", "summarize", "use", "save"}

\* One of the calls c is the operation that the key of the screen v names.
CurationBusy(v, c) ==
    \E i \in 1..Len(c) : c[i].op = v.busy.op /\ (c[i].op # "save" => c[i].arg = v.busy)

CurationFits(v, p, c) ==
    /\ IsCalls(c) /\ AllLive(c)
    /\ DOMAIN v = {"resources", "feeds", "loading", "failed", "busy", "draft"}
    /\ DOMAIN p = {"stale", "stuck", "mixed"}
    /\ Flag(c, {"load"}, v.loading, p.stuck)
    /\ v.busy # Curation!NoKey => v.busy.op \in CurationOps
    /\ ~p.stuck /\ v.busy # Curation!NoKey => CurationBusy(v, c)

LEMMA CurationStarts ==
  ASSUME Curation!Init
  PROVE  CurationFits(view, past, call)
<1>1. call = <<NewCall("load", Curation!NoKey)>>
  BY DEF Curation!Init, Curation!Load, Curation!Call, NewCall
<1>2. /\ DOMAIN view = {"resources", "feeds", "loading", "failed", "busy", "draft"}
      /\ view.busy = Curation!NoKey /\ view.loading = TRUE
  BY DEF Curation!Init
<1>3. DOMAIN past = {"stale", "stuck", "mixed"}
  BY DEF Curation!Init
<1>4. IsCalls(call) /\ AllLive(call)
  BY <1>1, AllLiveAtStart
<1>5. Flag(call, {"load"}, view.loading, past.stuck)
  BY <1>1, <1>2, FlagStarts
<1> QED BY <1>2, <1>3, <1>4, <1>5 DEF CurationFits

LEMMA CurationStays ==
  ASSUME CurationFits(view, past, call), Same(call, call'), view' = view, past' = past
  PROVE  CurationFits(view', past', call')
<1>1. IsCalls(call') /\ AllLive(call')
  BY WaitsSame DEF Same, CurationFits
<1>2. Flag(call', {"load"}, view'.loading, past'.stuck)
  BY FlagStays DEF CurationFits
<1>3. CurationBusy(view, call) => CurationBusy(view', call')
  BY DEF CurationBusy, Same
<1> QED BY <1>1, <1>2, <1>3 DEF CurationFits

LEMMA CurationSends ==
  ASSUME CurationFits(view, past, call), NEW key, NEW arg, Curation!Starts(key, arg),
         key.op \in CurationOps, key.op # "save" => arg = key
  PROVE  CurationFits(view', past', call')
<1>0. IsCalls(call) /\ AllLive(call) /\ key.op \notin {"load"}
  BY DEF CurationFits, CurationOps
<1>1. call' = Append(call, NewCall(key.op, arg))
  BY DEF Curation!Starts, Curation!Call, NewCall
<1>2. /\ DOMAIN view' = DOMAIN view /\ view'.loading = view.loading /\ view'.busy = key
      /\ DOMAIN past' = DOMAIN past /\ past'.stuck = past.stuck
  BY DEF Curation!Starts, CurationFits
<1>3. IsCalls(call') /\ AllLive(call')
  BY <1>0, <1>1, AllLiveMore
<1>4. Flag(call', {"load"}, view'.loading, past'.stuck)
  BY <1>0, <1>1, <1>2, FlagMore DEF CurationFits
<1>5. CurationBusy(view', call')
  <2> DEFINE c == NewCall(key.op, arg)
  <2>1. c.op = key.op /\ c.arg = arg
    BY DEF NewCall
  <2>2. More(call, call', c)
    BY <1>0, <1>1, CallMore
  <2> HIDE DEF c
  <2> QED BY <1>2, <2>1, <2>2 DEF More, CurationBusy
<1> QED BY <1>2, <1>3, <1>4, <1>5 DEF CurationFits

LEMMA CurationTakes ==
  ASSUME CurationFits(view, past, call), NEW i \in 1..Len(call), Curation!Answer(i)
  PROVE  CurationFits(view', past', call')
<1> DEFINE mid == Less(call, i)
           op == call[i].op
<1>0. /\ IsCalls(call) /\ AllLive(call) /\ call[i].live
      /\ DOMAIN view = {"resources", "feeds", "loading", "failed", "busy", "draft"}
      /\ DOMAIN past = {"stale", "stuck", "mixed"}
  BY DEF CurationFits, AllLive
<1>1. IsCalls(mid) /\ AllLive(mid)
  BY <1>0, AllLiveLess
<1>2. \A a : a = Curation!Rest(i) => a = mid
  BY DEF Curation!Rest, Curation!WithoutAt, Less
\* The screen forgets its key when an operation is over.
<1>3. ASSUME DOMAIN view' = DOMAIN view, DOMAIN past' = DOMAIN past, past.stuck => past'.stuck,
             op = "load" => past'.stuck \/ ~view'.loading,
             op # "load" => view'.loading = view.loading,
             op \in CurationOps => past'.stuck \/ view'.busy = Curation!NoKey,
             op \in {"load", "reload"} => view'.busy = view.busy,
             op \in CurationOps \cup {"load", "reload"},
             view'.busy \in {view.busy, Curation!NoKey}
      PROVE  CurationFits(view', past', mid)
  <2>1. Flag(mid, {"load"}, view'.loading, past'.stuck)
    BY <1>0, <1>3, FlagLess DEF CurationFits
  <2>2. ASSUME ~past'.stuck, view'.busy # Curation!NoKey
        PROVE  CurationBusy(view', mid)
    <3>1. CurationBusy(view, call) /\ view'.busy = view.busy /\ view.busy.op \in CurationOps
      BY <1>3, <2>2 DEF CurationFits
    <3>2. op \notin CurationOps
      BY <1>3, <2>2
    <3>3. Left(call, mid, i)
      BY <1>0, CallLeft
    <3>4. PICK k \in 1..Len(call) :
            call[k].op = view.busy.op /\ (call[k].op # "save" => call[k].arg = view.busy)
      BY <3>1 DEF CurationBusy
    <3>5. k # i
      BY <3>1, <3>2, <3>4
    <3> HIDE DEF mid
    <3>6. PICK j \in 1..Len(mid) : mid[j] = call[k]
      BY <3>3, <3>5 DEF Left, Others
    <3> QED BY <3>1, <3>4, <3>6 DEF CurationBusy
  <2> HIDE DEF mid
  <2> QED BY <1>0, <1>1, <1>3, <2>1, <2>2 DEF CurationFits
\* The list is read again after an operation.
<1>4. ASSUME CurationFits(view', past', mid), Curation!ThenReads(i) = call'
      PROVE  CurationFits(view', past', call')
  <2>1. call' = Append(mid, NewCall("reload", Curation!NoKey))
    BY <1>2, <1>4 DEF Curation!ThenReads, Curation!Call, NewCall
  <2> DEFINE c == NewCall("reload", Curation!NoKey)
  <2>2. More(mid, call', c)
    BY <1>1, <2>1, CallMore
  <2>3. IsCalls(call') /\ AllLive(call')
    BY <1>1, <2>1, AllLiveMore
  <2>4. Flag(call', {"load"}, view'.loading, past'.stuck)
    <3>1. "reload" \notin {"load"} /\ Flag(mid, {"load"}, view'.loading, past'.stuck)
      BY <1>4 DEF CurationFits
    <3> HIDE DEF mid
    <3> QED BY <1>1, <2>1, <3>1, FlagMore
  <2> HIDE DEF c, mid
  <2>5. CurationBusy(view', mid) => CurationBusy(view', call')
    BY <2>2 DEF More, CurationBusy
  <2> QED BY <1>4, <2>3, <2>4, <2>5 DEF CurationFits
<1> HIDE DEF mid
<1> DEFINE quiet == /\ DOMAIN view' = DOMAIN view /\ DOMAIN past' = DOMAIN past
                    /\ past.stuck => past'.stuck
<1>5. CASE Curation!LoadAnswer(i)
  <2>1. quiet /\ op = "load" /\ op \notin CurationOps /\ view'.busy = view.busy /\ call' = mid
    BY <1>0, <1>2, <1>5 DEF Curation!LoadAnswer, Curation!Takes, Curation!Throws,
         Curation!Listed, CurationOps
  <2>2. past'.stuck \/ ~view'.loading
    BY <1>0, <1>5 DEF Curation!LoadAnswer, Curation!Takes, Curation!Throws, Curation!Listed
  <2> QED BY <1>3, <2>1, <2>2
<1>6. CASE Curation!ReloadAnswer(i)
  <2>1. quiet /\ op = "reload" /\ op \notin CurationOps /\ view'.busy = view.busy /\ call' = mid
    BY <1>0, <1>2, <1>6 DEF Curation!ReloadAnswer, Curation!Takes, Curation!Listed, CurationOps
  <2>2. view'.loading = view.loading
    BY <1>0, <1>6 DEF Curation!ReloadAnswer, Curation!Listed
  <2> QED BY <1>3, <2>1, <2>2
<1>7. CASE \/ Curation!AddAnswer(i) \/ Curation!SummarizeAnswer(i) \/ Curation!SaveAnswer(i)
           \/ Curation!FeedAnswer(i) \/ Curation!UseAnswer(i)
  <2>1. quiet /\ op \in CurationOps /\ op \notin {"load", "reload"} /\ view'.loading = view.loading
    BY <1>0, <1>7 DEF Curation!AddAnswer, Curation!SummarizeAnswer, Curation!SaveAnswer,
         Curation!FeedAnswer, Curation!UseAnswer, Curation!Takes, Curation!Throws,
         Curation!IsRefused, CurationOps
  <2>2. (view'.busy = Curation!NoKey) \/ (past'.stuck /\ view'.busy = view.busy)
    BY <1>0, <1>7 DEF Curation!AddAnswer, Curation!SummarizeAnswer, Curation!SaveAnswer,
         Curation!FeedAnswer, Curation!UseAnswer, Curation!Throws, Curation!IsRefused
  <2>3. call' = mid \/ call' = Curation!ThenReads(i)
    BY <1>2, <1>7 DEF Curation!AddAnswer, Curation!SummarizeAnswer, Curation!SaveAnswer,
         Curation!FeedAnswer, Curation!UseAnswer, Curation!Throws, Curation!IsRefused
  <2>4. CurationFits(view', past', mid)
    BY <1>3, <2>1, <2>2
  <2> QED BY <1>4, <2>3, <2>4
<1> QED BY <1>5, <1>6, <1>7 DEF Curation!Answer

LEMMA CurationGoesOn ==
  ASSUME CurationFits(view, past, call), Curation!Next \/ UNCHANGED screen
  PROVE  CurationFits(view', past', call')
<1>0. IsCalls(call) /\ DOMAIN call = 1..Len(call)
  BY CallsAreSeq DEF CurationFits
<1>1. CASE UNCHANGED screen
  BY <1>1 DEF screen, CurationFits, CurationBusy
<1>2. ASSUME NEW i \in DOMAIN call,
             Curation!Serve(i) \/ Curation!Refuses(i) \/ Curation!Breaks(i)
      PROVE  CurationFits(view', past', call')
  <2>1. Progresses(call, call') /\ UNCHANGED <<view, past>>
    <3>1. ASSUME NEW a, Curation!Serves(i, a)
          PROVE  Progresses(call, call') /\ UNCHANGED <<view, past>>
      BY <3>1 DEF Progresses, Served, Curation!Serves
    <3>2. CASE Curation!NotFound(i) \/ Curation!Refuses(i) \/ Curation!Breaks(i)
      BY <3>2 DEF Progresses, Marked, Curation!NotFound, Curation!Refuses, Curation!Breaks
    <3> QED BY <1>2, <3>1, <3>2 DEF Curation!Serve, Curation!ListCuration, Curation!AddResource,
                Curation!ImportFeed, Curation!Summarize, Curation!UseForGeneration,
                Curation!SaveContent
  <2>2. Same(call, call')
    BY <1>0, <2>1, Progressing
  <2> QED BY <2>1, <2>2, CurationStays
<1>3. ASSUME NEW i \in DOMAIN call, Curation!Answer(i)
      PROVE  CurationFits(view', past', call')
  BY <1>0, <1>3, CurationTakes
<1>4. ASSUME NEW op \in CurationOps \ {"save"}, NEW x, Curation!Does(op, x)
      PROVE  CurationFits(view', past', call')
  <2> DEFINE key == [op |-> op, of |-> x]
  <2>1. Curation!Starts(key, key) /\ key.op \in CurationOps
    BY <1>4 DEF Curation!Does
  <2> HIDE DEF key
  <2> QED BY <2>1, CurationSends
<1>5. CASE Curation!HandleSaveDraft
  <2> DEFINE key == [op |-> "save", of |-> "-"]
  <2>1. PICK arg : Curation!Starts(key, arg)
    BY <1>5 DEF Curation!HandleSaveDraft
  <2>2. key.op \in CurationOps /\ key.op = "save"
    BY DEF CurationOps
  <2> HIDE DEF key
  <2> QED BY <2>1, <2>2, CurationSends
<1>6. Curation!Member =>
        (\E op \in CurationOps \ {"save"} : \E x : Curation!Does(op, x)) \/ Curation!HandleSaveDraft
  BY DEF Curation!Member, Curation!HandleAddResource, Curation!HandleAddFeed,
       Curation!HandleImportFeed, Curation!HandleSummarize, Curation!HandleUseResource, CurationOps
<1> QED BY <1>1, <1>2, <1>3, <1>4, <1>5, <1>6 DEF Curation!Next

LEMMA CurationWaits ==
  ASSUME CurationFits(view, past, call)
  PROVE  Curation!WaitsForCall
<1>1. DOMAIN call = 1..Len(call) /\ AllLive(call)
  BY CallsAreSeq DEF CurationFits
<1>2. \A ops : Curation!Under(ops) <=> Waits(call, ops)
  BY <1>1 DEF Curation!Under, Waits, AllLive
<1> QED BY <1>1, <1>2 DEF Curation!WaitsForCall, CurationFits, Flag, CurationBusy

-----------------------------------------------------------------------------
(* The pages of the automations (AutomationPages).                         *)

AutomationChanges == {"read", "readAll", "apply", "dismiss", "rule", "preference"}

\* One of the calls c is the change that the key of the screen v names.
AutomationsBusy(v, c) ==
    \E i \in 1..Len(c) : c[i].op = v.busy.op /\ c[i].arg.of = v.busy.of

AutomationsFit(v, p, c) ==
    /\ IsCalls(c) /\ AllLive(c)
    /\ DOMAIN v = {"page", "there", "shown", "loading", "busy", "admin"}
    /\ DOMAIN p = {"readings", "newest", "stale", "stuck"}
    /\ Flag(c, {"load"}, v.loading, p.stuck)
    /\ v.busy # Automations!NoKey => v.busy.op \in AutomationChanges
    /\ ~p.stuck /\ v.busy # Automations!NoKey => AutomationsBusy(v, c)

LEMMA AutomationsStart ==
  ASSUME Automations!Init
  PROVE  AutomationsFit(view, past, call)
<1>1. call = <<NewCall("load", 0)>>
  BY DEF Automations!Init, Automations!Call, NewCall
<1>2. /\ DOMAIN view = {"page", "there", "shown", "loading", "busy", "admin"}
      /\ view.busy = Automations!NoKey /\ view.loading = TRUE
  BY DEF Automations!Init
<1>3. DOMAIN past = {"readings", "newest", "stale", "stuck"}
  BY DEF Automations!Init
<1>4. IsCalls(call) /\ AllLive(call)
  BY <1>1, AllLiveAtStart
<1>5. Flag(call, {"load"}, view.loading, past.stuck)
  BY <1>1, <1>2, FlagStarts
<1> QED BY <1>2, <1>3, <1>4, <1>5 DEF AutomationsFit

LEMMA AutomationsStay ==
  ASSUME AutomationsFit(view, past, call), Same(call, call'), view' = view,
         DOMAIN past' = DOMAIN past, past'.stuck = past.stuck
  PROVE  AutomationsFit(view', past', call')
<1>1. IsCalls(call') /\ AllLive(call')
  BY WaitsSame DEF Same, AutomationsFit
<1>2. Flag(call', {"load"}, view'.loading, past'.stuck)
  BY FlagStays DEF AutomationsFit
<1>3. AutomationsBusy(view, call) => AutomationsBusy(view', call')
  BY DEF AutomationsBusy, Same
<1> QED BY <1>1, <1>2, <1>3 DEF AutomationsFit

LEMMA AutomationsSend ==
  ASSUME AutomationsFit(view, past, call), NEW op \in AutomationChanges, NEW x, NEW on,
         Automations!Starts(op, x, on)
  PROVE  AutomationsFit(view', past', call')
<1> DEFINE arg == [of |-> x, on |-> on]
           c == NewCall(op, arg)
<1>0. IsCalls(call) /\ AllLive(call) /\ op \notin {"load"}
  BY DEF AutomationsFit, AutomationChanges
<1>1. call' = Append(call, NewCall(op, arg))
  BY DEF Automations!Starts, Automations!Call, NewCall
<1>2. /\ DOMAIN view' = DOMAIN view /\ view'.loading = view.loading
      /\ view'.busy.op = op /\ view'.busy.of = x /\ past' = past
  BY DEF Automations!Starts, AutomationsFit
<1>3. IsCalls(call') /\ AllLive(call')
  BY <1>0, <1>1, AllLiveMore
<1>4. Flag(call', {"load"}, view'.loading, past'.stuck)
  <2> HIDE DEF arg
  <2> QED BY <1>0, <1>1, <1>2, FlagMore DEF AutomationsFit
<1>5. AutomationsBusy(view', call')
  <2>0. arg.of = x
    OBVIOUS
  <2> HIDE DEF arg
  <2>1. c.op = op /\ c.arg = arg
    BY DEF NewCall
  <2>2. More(call, call', c)
    BY <1>0, <1>1, CallMore
  <2> HIDE DEF c
  <2> QED BY <1>2, <2>0, <2>1, <2>2 DEF More, AutomationsBusy
<1> QED BY <1>2, <1>3, <1>4, <1>5 DEF AutomationsFit

LEMMA AutomationsTake ==
  ASSUME AutomationsFit(view, past, call), NEW i \in 1..Len(call), Automations!Answer(i)
  PROVE  AutomationsFit(view', past', call')
<1> DEFINE mid == Less(call, i)
           op == call[i].op
<1>0. /\ IsCalls(call) /\ AllLive(call) /\ call[i].live
      /\ DOMAIN view = {"page", "there", "shown", "loading", "busy", "admin"}
      /\ DOMAIN past = {"readings", "newest", "stale", "stuck"}
  BY DEF AutomationsFit, AllLive
<1>1. IsCalls(mid) /\ AllLive(mid)
  BY <1>0, AllLiveLess
<1>2. \A a : a = Automations!Rest(i) => a = mid
  BY DEF Automations!Rest, Automations!WithoutAt, Less
\* The screen forgets its key when a change is over.
<1>3. ASSUME DOMAIN view' = DOMAIN view, DOMAIN past' = DOMAIN past, past.stuck => past'.stuck,
             op = "load" => past'.stuck \/ ~view'.loading,
             op # "load" => view'.loading = view.loading,
             op \in AutomationChanges => past'.stuck \/ view'.busy = Automations!NoKey,
             view'.busy \in {view.busy, Automations!NoKey}
      PROVE  AutomationsFit(view', past', mid)
  <2>1. Flag(mid, {"load"}, view'.loading, past'.stuck)
    BY <1>0, <1>3, FlagLess DEF AutomationsFit
  <2>2. ASSUME ~past'.stuck, view'.busy # Automations!NoKey
        PROVE  AutomationsBusy(view', mid)
    <3>1. AutomationsBusy(view, call) /\ view'.busy = view.busy
            /\ view.busy.op \in AutomationChanges
      BY <1>3, <2>2 DEF AutomationsFit
    <3>2. op \notin AutomationChanges
      BY <1>3, <2>2
    <3>3. Left(call, mid, i)
      BY <1>0, CallLeft
    <3>4. PICK k \in 1..Len(call) : call[k].op = view.busy.op /\ call[k].arg.of = view.busy.of
      BY <3>1 DEF AutomationsBusy
    <3>5. k # i
      BY <3>1, <3>2, <3>4
    <3> HIDE DEF mid
    <3>6. PICK j \in 1..Len(mid) : mid[j] = call[k]
      BY <3>3, <3>5 DEF Left, Others
    <3> QED BY <3>1, <3>4, <3>6 DEF AutomationsBusy
  <2> HIDE DEF mid
  <2> QED BY <1>0, <1>1, <1>3, <2>1, <2>2 DEF AutomationsFit
<1> HIDE DEF mid
<1>4. CASE Automations!LoadAnswer(i)
  <2>1. op = "load" /\ op \notin AutomationChanges /\ view'.busy = view.busy /\ call' = mid
    BY <1>0, <1>2, <1>4 DEF Automations!LoadAnswer, Automations!Takes, Automations!Throws,
         AutomationChanges
  <2>2. /\ DOMAIN view' = DOMAIN view /\ DOMAIN past' = DOMAIN past
        /\ past.stuck => past'.stuck
        /\ past'.stuck \/ ~view'.loading
    BY <1>0, <1>4 DEF Automations!LoadAnswer, Automations!Throws
  <2> QED BY <1>3, <2>1, <2>2
<1>5. CASE Automations!ReloadAnswer(i)
  <2>1. op = "reload" /\ op \notin AutomationChanges /\ view'.busy = view.busy /\ call' = mid
    BY <1>0, <1>2, <1>5 DEF Automations!ReloadAnswer, Automations!Takes, AutomationChanges
  <2>2. /\ DOMAIN view' = DOMAIN view /\ DOMAIN past' = DOMAIN past
        /\ past.stuck => past'.stuck
        /\ view'.loading = view.loading
    BY <1>0, <1>5 DEF Automations!ReloadAnswer
  <2> QED BY <1>3, <2>1, <2>2
<1>6. CASE Automations!ChangeAnswer(i)
  <2>1. op \in AutomationChanges /\ op # "load"
    BY <1>6 DEF Automations!ChangeAnswer, Automations!Changes, AutomationChanges
  <2>2. /\ DOMAIN view' = DOMAIN view /\ DOMAIN past' = DOMAIN past
        /\ past.stuck => past'.stuck
        /\ view'.loading = view.loading
        /\ (view'.busy = Automations!NoKey) \/ (past'.stuck /\ view'.busy = view.busy)
    BY <1>0, <1>6 DEF Automations!ChangeAnswer, Automations!Throws
  <2>3. AutomationsFit(view', past', mid)
    BY <1>3, <2>1, <2>2
  <2>4. CASE call' = mid
    BY <2>3, <2>4
  \* Everything is read again.
  <2>5. ASSUME NEW x, call' = Append(mid, NewCall("reload", x))
        PROVE  AutomationsFit(view', past', call')
    <3> DEFINE c == NewCall("reload", x)
    <3>1. More(mid, call', c)
      BY <1>1, <2>5, CallMore
    <3>2. IsCalls(call') /\ AllLive(call')
      BY <1>1, <2>5, AllLiveMore
    <3>3. Flag(call', {"load"}, view'.loading, past'.stuck)
      <4>1. "reload" \notin {"load"} /\ Flag(mid, {"load"}, view'.loading, past'.stuck)
        BY <2>3 DEF AutomationsFit
      <4> QED BY <1>1, <2>5, <4>1, FlagMore
    <3> HIDE DEF c
    <3>4. AutomationsBusy(view', mid) => AutomationsBusy(view', call')
      BY <3>1 DEF More, AutomationsBusy
    <3> QED BY <2>3, <3>2, <3>3, <3>4 DEF AutomationsFit
  <2>6. call' = mid \/ \E x : call' = Append(mid, NewCall("reload", x))
    <3>1. CASE call[i].state = "ok"
      <4>1. call' = Append(Automations!Rest(i), Automations!Call("reload", past.readings + 1))
        BY <1>6, <3>1 DEF Automations!ChangeAnswer, Automations!Throws
      <4>2. call' = Append(mid, NewCall("reload", past.readings + 1))
        BY <1>2, <4>1 DEF Automations!Call, NewCall
      <4> QED BY <4>2
    <3>2. CASE call[i].state # "ok"
      BY <1>2, <1>6, <3>2 DEF Automations!ChangeAnswer, Automations!Throws
    <3> QED BY <3>1, <3>2
  <2> QED BY <2>4, <2>5, <2>6
<1> QED BY <1>4, <1>5, <1>6 DEF Automations!Answer

LEMMA AutomationsGoOn ==
  ASSUME AutomationsFit(view, past, call), Automations!Next \/ UNCHANGED screen
  PROVE  AutomationsFit(view', past', call')
<1>0. IsCalls(call) /\ DOMAIN call = 1..Len(call)
  BY CallsAreSeq DEF AutomationsFit
<1>1. CASE UNCHANGED screen
  BY <1>1 DEF screen, AutomationsFit, AutomationsBusy
<1>2. ASSUME NEW i \in DOMAIN call,
             Automations!Serve(i) \/ Automations!Refuses(i) \/ Automations!Breaks(i)
      PROVE  AutomationsFit(view', past', call')
  <2>1. Progresses(call, call') /\ UNCHANGED <<view, past>>
    <3>1. ASSUME NEW a, Automations!Serves(i, a)
          PROVE  Progresses(call, call') /\ UNCHANGED <<view, past>>
      BY <3>1 DEF Progresses, Served, Automations!Serves
    <3>2. CASE Automations!Refuses(i) \/ Automations!Breaks(i)
      BY <3>2 DEF Progresses, Marked, Automations!Refuses, Automations!Breaks
    <3> QED BY <1>2, <3>1, <3>2 DEF Automations!Serve, Automations!GetState,
                Automations!UpdateRule, Automations!UpdatePreferences,
                Automations!MarkNotificationAsRead, Automations!MarkAllNotificationsAsRead,
                Automations!UpdateRecommendationStatus, Automations!Writes
  <2>2. Same(call, call')
    BY <1>0, <2>1, Progressing
  <2> QED BY <2>1, <2>2, AutomationsStay
<1>3. ASSUME NEW i \in DOMAIN call, Automations!Answer(i)
      PROVE  AutomationsFit(view', past', call')
  BY <1>0, <1>3, AutomationsTake
<1>4. CASE Automations!ChangedElsewhere
  BY <1>0, <1>4, SameAgain, AutomationsStay DEF Automations!ChangedElsewhere, AutomationsFit
<1>5. CASE Automations!Member
  <2>1. \E op \in AutomationChanges : \E x, on : Automations!Starts(op, x, on)
    <3>1. Automations!HandleRead => \E x : Automations!Starts("read", x, FALSE)
      BY DEF Automations!HandleRead
    <3>2. Automations!HandleReadAll => Automations!Starts("readAll", "-", FALSE)
      BY DEF Automations!HandleReadAll
    <3>3. Automations!HandleRecommendationStatus \/ Automations!HandleRecommendation =>
            \E op \in {"apply", "dismiss"} : \E x : Automations!Starts(op, x, FALSE)
      BY DEF Automations!HandleRecommendationStatus, Automations!HandleRecommendation,
           Automations!Answers
    <3>4. Automations!HandleToggleRule => \E x, on : Automations!Starts("rule", x, on)
      BY DEF Automations!HandleToggleRule
    <3>5. Automations!HandlePreference => \E on : Automations!Starts("preference", "-", on)
      BY DEF Automations!HandlePreference
    <3> QED BY <1>5, <3>1, <3>2, <3>3, <3>4, <3>5 DEF Automations!Member, AutomationChanges
  <2> QED BY <2>1, AutomationsSend
<1> QED BY <1>1, <1>2, <1>3, <1>4, <1>5 DEF Automations!Next

LEMMA AutomationsWait ==
  ASSUME AutomationsFit(view, past, call)
  PROVE  Automations!WaitsForCall
<1>1. DOMAIN call = 1..Len(call) /\ AllLive(call)
  BY CallsAreSeq DEF AutomationsFit
<1>2. \A ops : Automations!Under(ops) <=> Waits(call, ops)
  BY <1>1 DEF Automations!Under, Waits, AllLive
<1> QED BY <1>1, <1>2 DEF Automations!WaitsForCall, AutomationsFit, Flag, AutomationsBusy

-----------------------------------------------------------------------------
(* The onboarding (OnboardingScreen).                                      *)

Submitted == {"create", "context", "preset", "complete", "skip"}

\* The call e is one that the screen waits for; it is the first reading.
Awaits(e) == e.op \in Submitted \/ (e.op = "load" /\ e.arg.after)

ReadsFirst(e) == e.op = "load" /\ ~e.arg.after

OnboardingFits(v, p, c) ==
    /\ IsCalls(c) /\ AllLive(c)
    /\ DOMAIN v = {"status", "payload", "submitting", "editing"}
    /\ DOMAIN p = {"stale", "stuck", "freed"}
    /\ v.status # "gone" =>
        /\ ~p.stuck /\ v.submitting => \E i \in 1..Len(c) : Awaits(c[i])
        /\ ~p.freed /\ (\E i \in 1..Len(c) : Awaits(c[i])) => v.submitting
        /\ ~p.freed => \A i, j \in 1..Len(c) : Awaits(c[i]) /\ Awaits(c[j]) => i = j
        /\ v.status = "loading" <=> \E i \in 1..Len(c) : ReadsFirst(c[i])
        /\ v.status = "loading" => \A i, j \in 1..Len(c) : ReadsFirst(c[i]) /\ i = j

LEMMA OnboardingStarts ==
  ASSUME Onboarding!Init
  PROVE  OnboardingFits(view, past, call)
<1> DEFINE arg == [org |-> Onboarding!None, after |-> FALSE]
<1>1. call = <<NewCall("load", arg)>>
  BY DEF Onboarding!Init, Onboarding!Load, Onboarding!Call, NewCall
<1>2. /\ DOMAIN view = {"status", "payload", "submitting", "editing"}
      /\ view.status = "loading" /\ view.submitting = FALSE
  BY DEF Onboarding!Init
<1>3. DOMAIN past = {"stale", "stuck", "freed"}
  BY DEF Onboarding!Init
<1>4. arg.after = FALSE
  OBVIOUS
<1>c. NewCall("load", arg).op = "load" /\ NewCall("load", arg).arg = arg
  BY DEF NewCall
<1> HIDE DEF arg
<1>s. IsCalls(call) /\ AllLive(call) /\ Len(call) = 1 /\ call[1] = NewCall("load", arg)
  BY <1>1, StartIsCalls, AllLiveAtStart
<1>5. IsCalls(call) /\ AllLive(call) /\ Len(call) = 1
        /\ call[1].op = "load" /\ call[1].arg = arg
  BY <1>c, <1>s
<1>6. ReadsFirst(call[1]) /\ ~Awaits(call[1]) /\ \A i \in 1..Len(call) : i = 1
  BY <1>4, <1>5 DEF ReadsFirst, Awaits, Submitted
<1> QED BY <1>2, <1>3, <1>5, <1>6 DEF OnboardingFits

LEMMA OnboardingStays ==
  ASSUME OnboardingFits(view, past, call), Same(call, call'), view' = view,
         DOMAIN past' = DOMAIN past, past'.stuck = past.stuck, past'.freed = past.freed
  PROVE  OnboardingFits(view', past', call')
<1>1. /\ IsCalls(call') /\ AllLive(call') /\ Len(call') = Len(call)
      /\ \A i \in 1..Len(call) :
            /\ Awaits(call'[i]) <=> Awaits(call[i])
            /\ ReadsFirst(call'[i]) <=> ReadsFirst(call[i])
  BY WaitsSame DEF Same, Awaits, ReadsFirst, OnboardingFits
<1> QED BY <1>1 DEF OnboardingFits

\* What the member starts.
LEMMA OnboardingMore ==
  ASSUME OnboardingFits(view, past, call), view.status = "ready", NEW op, NEW arg,
         op # "load", call' = Append(call, NewCall(op, arg)), past' = past,
         DOMAIN view' = DOMAIN view, view'.status = view.status,
         op \in Submitted => ~view.submitting /\ view'.submitting,
         op \notin Submitted => view'.submitting = view.submitting
  PROVE  OnboardingFits(view', past', call')
<1> DEFINE c == NewCall(op, arg)
<1>0. IsCalls(call) /\ AllLive(call)
  BY DEF OnboardingFits
<1>1. More(call, call', c) /\ AllLive(call') /\ c.op = op
  BY <1>0, CallMore, AllLiveMore, NewCallIs
<1> HIDE DEF c
<1>2. (Awaits(c) <=> op \in Submitted) /\ ~ReadsFirst(c)
  BY <1>1 DEF Awaits, ReadsFirst
<1>3. /\ \A j \in 1..Len(call') : (j \in 1..Len(call) /\ call'[j] = call[j]) \/
                                   (j = Len(call') /\ call'[j] = c)
      /\ \A j \in 1..Len(call) : j \in 1..Len(call') /\ call'[j] = call[j]
      /\ Len(call') \in 1..Len(call') /\ call'[Len(call')] = c
  BY <1>1 DEF More
<1>4. ~ \E i \in 1..Len(call') : ReadsFirst(call'[i])
  BY <1>2, <1>3 DEF OnboardingFits
<1>5. (\E i \in 1..Len(call) : Awaits(call[i])) => \E j \in 1..Len(call') : Awaits(call'[j])
  BY <1>3
<1>6. CASE op \in Submitted
  <2>1. \E j \in 1..Len(call') : Awaits(call'[j])
    BY <1>2, <1>3, <1>6
  <2>2. ASSUME ~past.freed
        PROVE  \A i, j \in 1..Len(call') : Awaits(call'[i]) /\ Awaits(call'[j]) => i = j
    <3>1. \A i \in 1..Len(call) : ~Awaits(call[i])
      BY <1>6, <2>2 DEF OnboardingFits
    <3> QED BY <1>3, <3>1
  <2> QED BY <1>0, <1>1, <1>4, <1>6, <2>1, <2>2 DEF OnboardingFits, More
<1>7. CASE op \notin Submitted
  <2>1. \A j \in 1..Len(call') : Awaits(call'[j]) => j \in 1..Len(call) /\ Awaits(call[j])
    BY <1>2, <1>3, <1>7
  <2>2. \A j \in 1..Len(call) : Awaits(call[j]) => Awaits(call'[j])
    BY <1>3
  <2> QED BY <1>0, <1>1, <1>3, <1>4, <1>7, <2>1, <2>2 DEF OnboardingFits, More
<1> QED BY <1>6, <1>7

LEMMA OnboardingSends ==
  ASSUME OnboardingFits(view, past, call), Onboarding!Member
  PROVE  OnboardingFits(view', past', call')
<1>0. /\ IsCalls(call)
      /\ DOMAIN view = {"status", "payload", "submitting", "editing"}
      /\ DOMAIN past = {"stale", "stuck", "freed"}
  BY DEF OnboardingFits
<1>1. ASSUME NEW op \in Submitted, NEW confirmed, Onboarding!Submits(op, confirmed)
      PROVE  OnboardingFits(view', past', call')
  <2> DEFINE arg == [org |-> view.payload.active, confirmed |-> confirmed]
  <2>1. call' = Append(call, NewCall(op, arg))
    BY <1>1 DEF Onboarding!Submits, Onboarding!Sends, Onboarding!Call, NewCall
  <2>2. /\ view.status = "ready" /\ op # "load" /\ past' = past
        /\ DOMAIN view' = DOMAIN view /\ view'.status = view.status
        /\ ~view.submitting /\ view'.submitting
    BY <1>0, <1>1 DEF Onboarding!Submits, Onboarding!IsOpen, Submitted
  <2> HIDE DEF arg
  <2> QED BY <2>1, <2>2, OnboardingMore
<1>2. CASE Onboarding!HandleSkipToGuest
  <2> DEFINE arg == [org |-> view.payload.active, confirmed |-> FALSE]
  <2>1. call' = Append(call, NewCall("guest", arg))
    BY <1>2 DEF Onboarding!HandleSkipToGuest, Onboarding!Sends, Onboarding!Call, NewCall
  <2>2. view.status = "ready" /\ past' = past /\ view' = view /\ "guest" \notin Submitted
    BY <1>2 DEF Onboarding!HandleSkipToGuest, Onboarding!IsOpen, Submitted
  <2> HIDE DEF arg
  <2> QED BY <2>1, <2>2, OnboardingMore
<1>3. CASE Onboarding!Edit
  <2>1. /\ call' = call /\ past' = past /\ DOMAIN view' = DOMAIN view
        /\ view'.status = view.status /\ view'.submitting = view.submitting
    BY <1>0, <1>3 DEF Onboarding!Edit
  <2> QED BY <2>1 DEF OnboardingFits
<1>4. ASSUME Onboarding!Member, ~Onboarding!HandleSkipToGuest, ~Onboarding!Edit
      PROVE  \E op \in Submitted, confirmed \in BOOLEAN : Onboarding!Submits(op, confirmed)
  BY <1>4 DEF Onboarding!Member, Onboarding!HandleCreateOrganization, Onboarding!HandleSaveContext,
       Onboarding!HandleCompleteOnboarding, Onboarding!HandleApplyPreset,
       Onboarding!HandleSkipAdvanced, Submitted
<1> QED BY <1>1, <1>2, <1>3, <1>4

LEMMA OnboardingTakes ==
  ASSUME OnboardingFits(view, past, call), NEW i \in 1..Len(call), view.status # "gone",
         Onboarding!Answer(i)
  PROVE  OnboardingFits(view', past', call')
<1> DEFINE mid == Less(call, i)
           e == call[i]
<1>0. /\ IsCalls(call) /\ AllLive(call)
      /\ DOMAIN view = {"status", "payload", "submitting", "editing"}
      /\ DOMAIN past = {"stale", "stuck", "freed"}
  BY DEF OnboardingFits
<1>1. IsCalls(mid) /\ AllLive(mid) /\ Left(call, mid, i)
  BY <1>0, AllLiveLess, CallLeft
<1>2. \A a : a = Onboarding!Rest(i) => a = mid
  BY DEF Onboarding!Rest, Onboarding!WithoutAt, Less
<1>idle. LET v == Onboarding!Idle(view)
         IN  /\ DOMAIN v = DOMAIN view /\ v.submitting = FALSE /\ v.status = view.status
  BY <1>0 DEF Onboarding!Idle
<1> HIDE DEF mid
\* The first reading is over, if it was not before.
<1>3. ~ \E j \in 1..Len(mid) : ReadsFirst(mid[j])
  BY <1>1 DEF Left, Others, OnboardingFits
<1>4. ~past.freed => \A j, k \in 1..Len(mid) : Awaits(mid[j]) /\ Awaits(mid[k]) => j = k
  <2> SUFFICES ASSUME ~past.freed, NEW j \in 1..Len(mid), NEW k \in 1..Len(mid),
                      Awaits(mid[j]), Awaits(mid[k]), j # k
               PROVE  FALSE
    OBVIOUS
  <2>1. PICK m, n \in 1..Len(call) : m # n /\ mid[j] = call[m] /\ mid[k] = call[n]
    BY <1>1 DEF Left
  <2> QED BY <2>1 DEF OnboardingFits
<1>5. ~past.freed /\ Awaits(e) => \A j \in 1..Len(mid) : ~Awaits(mid[j])
  BY <1>1 DEF Left, Others, OnboardingFits
<1>6. /\ \A j \in 1..Len(mid) : Awaits(mid[j]) => \E k \in 1..Len(call) : Awaits(call[k])
      /\ ~Awaits(e) /\ (\E k \in 1..Len(call) : Awaits(call[k])) => \E j \in 1..Len(mid) : Awaits(mid[j])
  BY <1>1 DEF Left, Others
\* A call that the screen waits for lowers the flag.
<1>7. ASSUME call' = mid, DOMAIN view' = DOMAIN view, DOMAIN past' = DOMAIN past,
             past.stuck => past'.stuck, past.freed => past'.freed,
             view'.status # "loading", view'.submitting => view.submitting,
             Awaits(e) => (past'.stuck /\ (view'.submitting <=> view.submitting)) \/ ~view'.submitting,
             ~Awaits(e) => (view'.submitting <=> view.submitting) \/ (~view'.submitting /\ past'.freed)
      PROVE  OnboardingFits(view', past', call')
  <2>1. ASSUME ~past'.stuck, view'.submitting
        PROVE  \E j \in 1..Len(mid) : Awaits(mid[j])
    <3>1. ~Awaits(e)
      BY <1>7, <2>1
    <3>2. \E k \in 1..Len(call) : Awaits(call[k])
      BY <1>7, <2>1 DEF OnboardingFits
    <3> QED BY <1>6, <3>1, <3>2
  <2>2. ASSUME ~past'.freed, \E j \in 1..Len(mid) : Awaits(mid[j])
        PROVE  view'.submitting
    <3>1. ~Awaits(e) /\ (view'.submitting <=> view.submitting)
      BY <1>5, <1>7, <2>2
    <3>2. view.submitting
      BY <1>6, <1>7, <2>2 DEF OnboardingFits
    <3> QED BY <3>1, <3>2
  <2> QED BY <1>0, <1>1, <1>3, <1>4, <1>7, <2>1, <2>2 DEF OnboardingFits
<1>8. CASE Onboarding!LoadAnswer(i)
  <2>1. CASE e.arg.after
    <3>1. Awaits(e)
      BY <1>8, <2>1 DEF Awaits, Onboarding!LoadAnswer, Onboarding!Takes
    <3> DEFINE v == Onboarding!Idle(view)
    <3>2. DOMAIN v = DOMAIN view /\ v.submitting = FALSE
      BY <1>idle
    <3>3. \/ view' = [v EXCEPT !.status = "ready", !.payload = e.answer]
          \/ view' = [v EXCEPT !.status = "error"]
      BY <1>8, <2>1 DEF Onboarding!LoadAnswer
    <3> HIDE DEF v
    <3>4. DOMAIN view' = DOMAIN view /\ view'.status # "loading" /\ view'.submitting = FALSE
      BY <1>0, <3>2, <3>3
    <3>5. call' = mid /\ past' = past
      BY <1>2, <1>8 DEF Onboarding!LoadAnswer
    <3> QED BY <1>7, <3>1, <3>4, <3>5
  <2>2. CASE ~e.arg.after
    <3>1. ~Awaits(e)
      BY <1>8, <2>2 DEF Awaits, Submitted, Onboarding!LoadAnswer, Onboarding!Takes
    <3>2. /\ call' = mid /\ DOMAIN view' = DOMAIN view /\ past' = past
          /\ view'.status # "loading" /\ view'.submitting = view.submitting
      BY <1>0, <1>2, <1>8, <2>2 DEF Onboarding!LoadAnswer
    <3> QED BY <1>7, <3>1, <3>2
  <2> QED BY <2>1, <2>2
\* Once something was sent, the first reading is over.
<1>9. ~ReadsFirst(e) => view.status # "loading"
  BY DEF OnboardingFits
<1>10. ASSUME Onboarding!IsRefused(i), call' = mid, e.op \in Submitted \cup {"guest"}
       PROVE  OnboardingFits(view', past', call')
  <2>1. ~ReadsFirst(e) /\ (e.op # "guest" => Awaits(e))
    BY <1>10 DEF ReadsFirst, Awaits, Submitted
  <2>2. DOMAIN view' = DOMAIN view /\ view'.status = view.status /\ view'.submitting = FALSE
    BY <1>10, <1>idle DEF Onboarding!IsRefused
  <2>3. DOMAIN past' = DOMAIN past /\ past'.stuck = past.stuck
    BY <1>0, <1>10 DEF Onboarding!IsRefused
  <2>4. /\ past.freed => past'.freed
        /\ e.op = "guest" /\ view.submitting => past'.freed
    BY <1>0, <1>10 DEF Onboarding!IsRefused
  <2> QED BY <1>7, <1>9, <1>10, <2>1, <2>2, <2>3, <2>4
<1>11. ASSUME Onboarding!Shows(i), call' = mid, e.op \in Submitted
       PROVE  OnboardingFits(view', past', call')
  <2>1. Awaits(e)
    BY <1>11 DEF Awaits
  <2>2. /\ DOMAIN view' = DOMAIN view /\ past' = past
        /\ view'.status = "ready" /\ ~view'.submitting
    BY <1>0, <1>11, <1>idle DEF Onboarding!Shows
  <2> QED BY <1>7, <1>11, <2>1, <2>2
<1>12. CASE Onboarding!CreateAnswer(i) /\ e.state = "ok"
  <2> DEFINE arg == [org |-> e.answer.active, after |-> TRUE]
             c == NewCall("load", arg)
  <2>1. call' = Append(mid, c) /\ view' = view /\ past' = past
    <3>1. call' = Append(Onboarding!Rest(i), Onboarding!Call("load", arg))
            /\ view' = view /\ past' = past
      BY <1>12 DEF Onboarding!CreateAnswer
    <3> HIDE DEF arg
    <3> QED BY <1>2, <3>1 DEF Onboarding!Call, NewCall
  <2>2. arg.after
    OBVIOUS
  <2> HIDE DEF arg
  <2>3. c.op = "load" /\ c.arg = arg
    BY DEF NewCall
  <2>4. More(mid, call', c) /\ AllLive(call')
    BY <1>1, <2>1, CallMore, AllLiveMore
  <2> HIDE DEF c
  <2>5. Awaits(c) /\ ~ReadsFirst(c) /\ Awaits(e) /\ ~ReadsFirst(e)
    BY <1>12, <2>2, <2>3 DEF Awaits, ReadsFirst, Submitted, Onboarding!CreateAnswer, Onboarding!Takes
  <2>6. /\ \A j \in 1..Len(call') : (j \in 1..Len(mid) /\ call'[j] = mid[j]) \/
                                     (j = Len(call') /\ call'[j] = c)
        /\ Len(call') \in 1..Len(call') /\ call'[Len(call')] = c
    BY <2>4 DEF More
  <2>7. ~ \E j \in 1..Len(call') : ReadsFirst(call'[j])
    BY <1>3, <2>5, <2>6
  <2>8. ~past.freed => /\ \A j, k \in 1..Len(call') : Awaits(call'[j]) /\ Awaits(call'[k]) => j = k
                       /\ view.submitting
    BY <1>5, <2>5, <2>6 DEF OnboardingFits
  <2> QED BY <1>0, <1>9, <2>1, <2>4, <2>5, <2>6, <2>7, <2>8 DEF OnboardingFits, More
<1>13. CASE Onboarding!CreateAnswer(i) /\ e.state # "ok"
  BY <1>2, <1>10, <1>13 DEF Onboarding!CreateAnswer, Onboarding!Takes, Submitted
<1>14. ASSUME call' = mid, view' = [view EXCEPT !.status = "gone"], past' = past
       PROVE  OnboardingFits(view', past', call')
  BY <1>0, <1>1, <1>14 DEF OnboardingFits
<1>15. CASE Onboarding!GuestAnswer(i)
  BY <1>2, <1>10, <1>14, <1>15 DEF Onboarding!GuestAnswer, Onboarding!Takes, Submitted
<1>16. CASE Onboarding!CompleteAnswer(i)
  BY <1>2, <1>10, <1>14, <1>16 DEF Onboarding!CompleteAnswer, Onboarding!Takes, Submitted
<1>17. CASE Onboarding!ContextAnswer(i)
  BY <1>2, <1>10, <1>11, <1>17 DEF Onboarding!ContextAnswer, Onboarding!Takes, Submitted
<1>18. CASE Onboarding!AdvancedAnswer(i)
  <2>1. call' = mid /\ e.op \in {"preset", "skip"}
    BY <1>2, <1>18 DEF Onboarding!AdvancedAnswer
  <2>2. e.op \in Submitted /\ Awaits(e) /\ ~ReadsFirst(e)
    BY <2>1 DEF Submitted, Awaits, ReadsFirst
  <2>3. CASE Onboarding!Throws(i)
    <3>1. /\ view' = view /\ DOMAIN past' = DOMAIN past /\ past'.stuck
          /\ past'.freed = past.freed
      BY <1>0, <2>3 DEF Onboarding!Throws
    <3> QED BY <1>7, <1>9, <2>1, <2>2, <3>1
  <2> QED BY <1>10, <1>11, <1>18, <2>1, <2>2, <2>3 DEF Onboarding!AdvancedAnswer
<1> QED BY <1>8, <1>12, <1>13, <1>15, <1>16, <1>17, <1>18 DEF Onboarding!Answer

LEMMA OnboardingGoesOn ==
  ASSUME OnboardingFits(view, past, call), Onboarding!Next \/ UNCHANGED screen
  PROVE  OnboardingFits(view', past', call')
<1>0. IsCalls(call) /\ DOMAIN call = 1..Len(call)
  BY CallsAreSeq DEF OnboardingFits
<1>1. CASE UNCHANGED screen
  BY <1>1 DEF screen, OnboardingFits
<1>2. ASSUME NEW i \in DOMAIN call,
             Onboarding!Serve(i) \/ Onboarding!Refuses(i) \/ Onboarding!Breaks(i)
      PROVE  OnboardingFits(view', past', call')
  <2>1. Progresses(call, call') /\ UNCHANGED <<view, past>>
    <3>1. ASSUME NEW a, Onboarding!Serves(i, a)
          PROVE  Progresses(call, call') /\ UNCHANGED <<view, past>>
      BY <3>1 DEF Progresses, Served, Onboarding!Serves
    <3>2. ASSUME NEW a, Onboarding!Write(i, a), UNCHANGED past
          PROVE  Progresses(call, call') /\ UNCHANGED <<view, past>>
      BY <3>2 DEF Progresses, Stepped, Onboarding!Write
    <3>3. CASE Onboarding!NotFound(i) \/ Onboarding!Refuses(i) \/ Onboarding!Breaks(i)
      BY <3>3 DEF Progresses, Marked, Onboarding!NotFound, Onboarding!Refuses, Onboarding!Breaks
    <3> QED BY <1>2, <3>1, <3>2, <3>3 DEF Onboarding!Serve, Onboarding!CreateOrganization,
                Onboarding!NoOrgLeft, Onboarding!SkipOnboardingForGuest,
                Onboarding!SaveEditorialContext, Onboarding!ApplyPreset,
                Onboarding!CompleteOnboarding, Onboarding!SkipAdvanced, Onboarding!GetState
  <2>2. Same(call, call')
    BY <1>0, <2>1, Progressing
  <2> QED BY <2>1, <2>2, OnboardingStays
<1>3. ASSUME NEW i \in DOMAIN call, view.status # "gone", Onboarding!Answer(i)
      PROVE  OnboardingFits(view', past', call')
  BY <1>0, <1>3, OnboardingTakes
<1>4. CASE Onboarding!ChangedElsewhere
  <2>1. call' = call /\ view' = view /\ DOMAIN past' = DOMAIN past
          /\ past'.stuck = past.stuck /\ past'.freed = past.freed
    BY <1>4 DEF Onboarding!ChangedElsewhere, OnboardingFits
  <2> QED BY <1>0, <2>1, SameAgain, OnboardingStays
<1>5. CASE Onboarding!Member
  BY <1>5, OnboardingSends
<1> QED BY <1>1, <1>2, <1>3, <1>4, <1>5 DEF Onboarding!Next

LEMMA OnboardingWaits ==
  ASSUME OnboardingFits(view, past, call)
  PROVE  Onboarding!WaitsForCall
<1>1. DOMAIN call = 1..Len(call)
  BY CallsAreSeq DEF OnboardingFits
<1>2. \A i \in 1..Len(call) :
        Awaits(call[i]) <=> \/ call[i].op \in Onboarding!Writes \ {"guest"}
                            \/ call[i].op = "load" /\ call[i].arg.after
  BY DEF Awaits, Submitted, Onboarding!Writes
<1> QED BY <1>1, <1>2 DEF Onboarding!WaitsForCall, OnboardingFits, ReadsFirst

-----------------------------------------------------------------------------
(* The saved ideas (IdeasScreen).                                          *)

\* What the call e is about: an idea, or what a suggestion says.
About(e) == IF e.op = "update" THEN e.arg.idea ELSE e.arg

Doing(e, op) == e.op = op /\ e.live

\* The buttons of the things in b are disabled for the calls of op, one call for
\* one thing; k: an answer never came, and a button may wait for nothing.
Buttons(c, op, b, k) ==
    /\ \A i \in 1..Len(c) : Doing(c[i], op) => About(c[i]) \in b
    /\ \A i, j \in 1..Len(c) :
          Doing(c[i], op) /\ Doing(c[j], op) /\ About(c[i]) = About(c[j]) => i = j
    /\ ~k => \A x \in b : \E i \in 1..Len(c) : Doing(c[i], op) /\ About(c[i]) = x

LEMMA ButtonsStay ==
  ASSUME NEW s, NEW t, Same(s, t), NEW op, NEW b, NEW k, Buttons(s, op, b, k)
  PROVE  Buttons(t, op, b, k)
<1>1. /\ Len(t) = Len(s)
      /\ \A j \in 1..Len(s) : About(t[j]) = About(s[j]) /\ (Doing(t[j], op) <=> Doing(s[j], op))
  BY DEF Same, About, Doing
<1> QED BY <1>1 DEF Buttons

\* A call is over, and its button waits no more, unless its answer never came.
LEMMA ButtonsLess ==
  ASSUME NEW s, IsCalls(s), NEW i \in 1..Len(s), NEW op, NEW b, NEW k, Buttons(s, op, b, k),
         NEW bb, NEW kk, k => kk,
         ~Doing(s[i], op) => bb = b,
         Doing(s[i], op) => bb = b \ {About(s[i])} \/ (kk /\ bb = b)
  PROVE  Buttons(Less(s, i), op, bb, kk)
<1> DEFINE t == Less(s, i)
<1>1. Left(s, t, i)
  BY CallLeft
<1> HIDE DEF t
<1>2. \A j \in 1..Len(t) : \E m \in 1..Len(s) : m # i /\ t[j] = s[m]
  BY <1>1 DEF Left, Others
<1>3. ASSUME NEW j \in 1..Len(t), Doing(t[j], op)
      PROVE  About(t[j]) \in bb
  <2>1. PICK m \in 1..Len(s) : m # i /\ t[j] = s[m]
    BY <1>2
  <2>2. About(s[m]) \in b /\ (Doing(s[i], op) => About(s[m]) # About(s[i]))
    BY <1>3, <2>1 DEF Buttons
  <2> QED BY <2>1, <2>2
<1>4. ASSUME NEW j \in 1..Len(t), NEW n \in 1..Len(t), Doing(t[j], op), Doing(t[n], op),
             About(t[j]) = About(t[n]), j # n
      PROVE  FALSE
  <2>1. PICK x, y \in 1..Len(s) : x # y /\ t[j] = s[x] /\ t[n] = s[y]
    BY <1>1, <1>4 DEF Left
  <2> QED BY <1>4, <2>1 DEF Buttons
<1>5. ASSUME ~kk, NEW x \in bb
      PROVE  \E j \in 1..Len(t) : Doing(t[j], op) /\ About(t[j]) = x
  <2>1. x \in b /\ (Doing(s[i], op) => x # About(s[i]))
    BY <1>5
  <2>2. PICK m \in 1..Len(s) : Doing(s[m], op) /\ About(s[m]) = x
    BY <1>5, <2>1 DEF Buttons
  <2>3. m # i
    BY <2>1, <2>2
  <2>4. \E j \in 1..Len(t) : t[j] = s[m]
    BY <1>1, <2>3 DEF Left, Others
  <2> QED BY <2>2, <2>4
<1>6. Buttons(t, op, bb, kk)
  BY <1>3, <1>4, <1>5 DEF Buttons
<1> QED BY <1>6 DEF t

\* A call is made: its button was enabled.
LEMMA ButtonsMore ==
  ASSUME NEW s, IsCalls(s), NEW op, NEW arg, NEW o, NEW b, NEW k, Buttons(s, o, b, k), NEW bb,
         o # op => bb = b,
         o = op => LET x == About(NewCall(op, arg)) IN x \notin b /\ bb = b \cup {x}
  PROVE  Buttons(Append(s, NewCall(op, arg)), o, bb, k)
<1> DEFINE c == NewCall(op, arg)
           t == Append(s, c)
<1>1. More(s, t, c) /\ c.op = op /\ c.live = TRUE
  BY CallMore, NewCallIs
<1>2. o = op => About(c) \notin b /\ bb = b \cup {About(c)}
  OBVIOUS
<1> HIDE DEF c, t
<1>3. /\ \A j \in 1..Len(t) : (j \in 1..Len(s) /\ t[j] = s[j]) \/ (j = Len(t) /\ t[j] = c)
      /\ \A j \in 1..Len(s) : j \in 1..Len(t) /\ t[j] = s[j]
      /\ Len(t) \in 1..Len(t) /\ t[Len(t)] = c
  BY <1>1 DEF More
<1>4. Doing(c, o) <=> o = op
  BY <1>1 DEF Doing
<1>5. \A j \in 1..Len(t) : Doing(t[j], o) => About(t[j]) \in bb
  BY <1>2, <1>3, <1>4 DEF Buttons
<1>6. \A j, n \in 1..Len(t) : Doing(t[j], o) /\ Doing(t[n], o) /\ About(t[j]) = About(t[n]) => j = n
  BY <1>2, <1>3, <1>4 DEF Buttons
<1>7. ASSUME ~k, NEW x \in bb
      PROVE  \E j \in 1..Len(t) : Doing(t[j], o) /\ About(t[j]) = x
  <2>1. CASE x \in b
    BY <1>3, <1>7, <2>1 DEF Buttons
  <2>2. CASE x \notin b
    BY <1>2, <1>3, <1>4, <1>7, <2>2
  <2> QED BY <2>1, <2>2
<1>8. Buttons(t, o, bb, k)
  BY <1>5, <1>6, <1>7 DEF Buttons
<1> QED BY <1>8 DEF t, c

LEMMA ButtonsSilent ==
  ASSUME NEW s, IsCalls(s), NEW op, NEW k
  PROVE  Buttons(Silent(s), op, {}, k)
BY CallsSilent DEF Buttons, Doing

IdeasFit(v, p, c) ==
    /\ IsCalls(c)
    /\ DOMAIN v = {"saved", "suggested", "page", "loading", "generating", "saving", "updating"}
    /\ DOMAIN p = {"stale", "stuck"}
    /\ Flag(c, {"load"}, v.loading, p.stuck)
    /\ Flag(c, {"generate"}, v.generating, p.stuck)
    /\ Buttons(c, "save", v.saving, p.stuck)
    /\ Buttons(c, "update", v.updating, p.stuck)

LEMMA IdeasStart ==
  ASSUME Ideas!Init
  PROVE  IdeasFit(view, past, call)
<1>1. call = <<NewCall("load", <<>>)>>
  BY DEF Ideas!Init, Ideas!Load, Ideas!Call, NewCall
<1>2. /\ DOMAIN view = {"saved", "suggested", "page", "loading", "generating", "saving", "updating"}
      /\ view.loading = TRUE /\ view.generating = FALSE
      /\ view.saving = {} /\ view.updating = {}
  BY DEF Ideas!Init, Ideas!Opened
<1>3. DOMAIN past = {"stale", "stuck"}
  BY DEF Ideas!Init
<1>4. IsCalls(call) /\ Len(call) = 1 /\ call[1].op = "load"
  BY <1>1, StartIsCalls, NewCallIs
<1>5. Flag(call, {"load"}, view.loading, past.stuck)
        /\ Flag(call, {"generate"}, view.generating, past.stuck)
  BY <1>1, <1>2, FlagStarts
<1>6. Buttons(call, "save", view.saving, past.stuck)
        /\ Buttons(call, "update", view.updating, past.stuck)
  BY <1>2, <1>4 DEF Buttons, Doing
<1> QED BY <1>2, <1>3, <1>4, <1>5, <1>6 DEF IdeasFit

LEMMA IdeasStay ==
  ASSUME IdeasFit(view, past, call), Same(call, call'), DOMAIN view' = DOMAIN view,
         view'.loading = view.loading, view'.generating = view.generating,
         view'.saving = view.saving, view'.updating = view.updating,
         DOMAIN past' = DOMAIN past, past'.stuck = past.stuck
  PROVE  IdeasFit(view', past', call')
<1>1. /\ Flag(call', {"load"}, view'.loading, past'.stuck)
      /\ Flag(call', {"generate"}, view'.generating, past'.stuck)
  BY FlagStays DEF IdeasFit
<1>2. /\ Buttons(call', "save", view'.saving, past'.stuck)
      /\ Buttons(call', "update", view'.updating, past'.stuck)
  BY ButtonsStay DEF IdeasFit
<1> QED BY <1>1, <1>2 DEF IdeasFit, Same

LEMMA IdeasSend ==
  ASSUME IdeasFit(view, past, call), Ideas!Member
  PROVE  IdeasFit(view', past', call')
<1>0. /\ IsCalls(call)
      /\ DOMAIN view = {"saved", "suggested", "page", "loading", "generating", "saving", "updating"}
      /\ DOMAIN past = {"stale", "stuck"}
  BY DEF IdeasFit
<1>1. CASE Ideas!TurnPage \/ Ideas!HandleDismissGenerated
  <2>1. /\ DOMAIN view' = DOMAIN view
        /\ view'.loading = view.loading /\ view'.generating = view.generating
        /\ view'.saving = view.saving /\ view'.updating = view.updating
        /\ call' = call /\ past' = past
    BY <1>0, <1>1 DEF Ideas!TurnPage, Ideas!HandleDismissGenerated
  <2> QED BY <1>0, <2>1, SameAgain, IdeasStay
<1>2. CASE Ideas!Reopen
  <2> DEFINE mid == Silent(call)
  <2>1. call' = Append(mid, NewCall("load", <<>>))
    BY <1>2 DEF Ideas!Reopen, Ideas!Forgotten, Ideas!Load, Ideas!Call, NewCall, Silent
  <2>2. /\ DOMAIN view' = {"saved", "suggested", "page", "loading", "generating", "saving", "updating"}
        /\ view'.loading = TRUE /\ view'.generating = FALSE
        /\ view'.saving = {} /\ view'.updating = {}
    BY <1>2 DEF Ideas!Reopen, Ideas!Opened
  <2>3. DOMAIN past' = {"stale", "stuck"} /\ past'.stuck = FALSE
    BY <1>2 DEF Ideas!Reopen
  <2>4. /\ IsCalls(mid)
        /\ Flag(mid, {"load"}, Never, past'.stuck) /\ Flag(mid, {"generate"}, Never, past'.stuck)
        /\ Buttons(mid, "save", {}, past'.stuck) /\ Buttons(mid, "update", {}, past'.stuck)
    BY <1>0, CallsSilent, FlagSilent, ButtonsSilent
  <2> HIDE DEF mid
  <2>5. /\ Flag(call', {"load"}, view'.loading, past'.stuck)
        /\ Flag(call', {"generate"}, view'.generating, past'.stuck)
    <3>1. ~Never
      BY DEF Never
    <3> QED BY <2>1, <2>2, <2>4, <3>1, FlagMore
  <2>6. /\ Buttons(call', "save", view'.saving, past'.stuck)
        /\ Buttons(call', "update", view'.updating, past'.stuck)
    BY <2>1, <2>2, <2>4, ButtonsMore
  <2>7. IsCalls(call')
    BY <2>1, <2>4, CallMore DEF More
  <2> QED BY <2>2, <2>3, <2>5, <2>6, <2>7 DEF IdeasFit
<1>3. CASE Ideas!HandleGenerate
  <2>1. call' = Append(call, NewCall("generate", <<>>))
    BY <1>3 DEF Ideas!HandleGenerate, Ideas!Call, NewCall
  <2>2. /\ DOMAIN view' = DOMAIN view /\ ~view.generating /\ view'.generating = TRUE
        /\ view'.loading = view.loading
        /\ view'.saving = view.saving /\ view'.updating = view.updating /\ past' = past
    BY <1>0, <1>3 DEF Ideas!HandleGenerate
  <2>3. /\ Flag(call', {"load"}, view'.loading, past'.stuck)
        /\ Flag(call', {"generate"}, view'.generating, past'.stuck)
    BY <2>1, <2>2, FlagMore DEF IdeasFit
  <2>4. /\ Buttons(call', "save", view'.saving, past'.stuck)
        /\ Buttons(call', "update", view'.updating, past'.stuck)
    BY <2>1, <2>2, ButtonsMore DEF IdeasFit
  <2>5. IsCalls(call')
    BY <1>0, <2>1, CallMore DEF More
  <2> QED BY <1>0, <2>2, <2>3, <2>4, <2>5 DEF IdeasFit
<1>4. CASE Ideas!HandleSave
  <2>1. PICK x : /\ x \notin view.saving /\ view' = [view EXCEPT !.saving = @ \cup {x}]
                 /\ call' = Append(call, NewCall("save", x))
    BY <1>4 DEF Ideas!HandleSave, Ideas!Call, NewCall
  <2>2. /\ DOMAIN view' = DOMAIN view /\ view'.saving = view.saving \cup {x}
        /\ view'.loading = view.loading /\ view'.generating = view.generating
        /\ view'.updating = view.updating
    BY <1>0, <2>1
  <2>3. DOMAIN past' = DOMAIN past /\ past'.stuck = past.stuck
    BY <1>0, <1>4 DEF Ideas!HandleSave
  <2>4. /\ Flag(call', {"load"}, view'.loading, past'.stuck)
        /\ Flag(call', {"generate"}, view'.generating, past'.stuck)
    BY <2>1, <2>2, <2>3, FlagMore DEF IdeasFit
  <2>5. About(NewCall("save", x)) = x
    <3> DEFINE c == NewCall("save", x)
    <3>1. c.op = "save" /\ c.arg = x
      BY DEF NewCall
    <3> HIDE DEF c
    <3>2. About(c) = x
      BY <3>1 DEF About
    <3> QED BY <3>2 DEF c
  <2>6. /\ Buttons(call', "save", view'.saving, past'.stuck)
        /\ Buttons(call', "update", view'.updating, past'.stuck)
    BY <2>1, <2>2, <2>3, <2>5, ButtonsMore DEF IdeasFit
  <2>7. IsCalls(call')
    BY <1>0, <2>1, CallMore DEF More
  <2> QED BY <1>0, <2>2, <2>3, <2>4, <2>6, <2>7 DEF IdeasFit
<1>5. ASSUME NEW x, NEW status, Ideas!Updates(x, status)
      PROVE  IdeasFit(view', past', call')
  <2> DEFINE arg == [idea |-> x, status |-> status]
  <2>1. call' = Append(call, NewCall("update", arg))
    BY <1>5 DEF Ideas!Updates, Ideas!Call, NewCall
  <2>2. /\ DOMAIN view' = DOMAIN view /\ view'.updating = view.updating \cup {x}
        /\ x \notin view.updating
        /\ view'.loading = view.loading /\ view'.generating = view.generating
        /\ view'.saving = view.saving /\ past' = past
    BY <1>0, <1>5 DEF Ideas!Updates
  <2>3. arg.idea = x
    OBVIOUS
  <2> HIDE DEF arg
  <2>4. /\ Flag(call', {"load"}, view'.loading, past'.stuck)
        /\ Flag(call', {"generate"}, view'.generating, past'.stuck)
    BY <2>1, <2>2, FlagMore DEF IdeasFit
  <2>5. About(NewCall("update", arg)) = x
    <3> DEFINE c == NewCall("update", arg)
    <3>1. c.op = "update" /\ c.arg = arg
      BY DEF NewCall
    <3> HIDE DEF c
    <3>2. About(c) = x
      BY <2>3, <3>1 DEF About
    <3> QED BY <3>2 DEF c
  <2>6. /\ Buttons(call', "save", view'.saving, past'.stuck)
        /\ Buttons(call', "update", view'.updating, past'.stuck)
    BY <2>1, <2>2, <2>5, ButtonsMore DEF IdeasFit
  <2>7. IsCalls(call')
    BY <1>0, <2>1, CallMore DEF More
  <2> QED BY <1>0, <2>2, <2>4, <2>6, <2>7 DEF IdeasFit
<1>6. CASE Ideas!HandleArchive \/ Ideas!HandleMarkUsed
  BY <1>5, <1>6 DEF Ideas!HandleArchive, Ideas!HandleMarkUsed
<1> QED BY <1>1, <1>2, <1>3, <1>4, <1>6 DEF Ideas!Member

LEMMA IdeasTake ==
  ASSUME IdeasFit(view, past, call), NEW i \in 1..Len(call),
         Ideas!Answer(i) \/ Ideas!Drops(i)
  PROVE  IdeasFit(view', past', call')
<1> DEFINE mid == Less(call, i)
           e == call[i]
<1>0. /\ IsCalls(call)
      /\ DOMAIN view = {"saved", "suggested", "page", "loading", "generating", "saving", "updating"}
      /\ DOMAIN past = {"stale", "stuck"}
  BY DEF IdeasFit
<1>1. IsCalls(mid)
  BY <1>0, CallLeft DEF Left
<1>2. \A a : a = Ideas!Rest(i) => a = mid
  BY DEF Ideas!Rest, Ideas!WithoutAt, Less
<1> HIDE DEF mid
\* What a call waited for is told by its operation.
<1>3. ASSUME call' = mid, DOMAIN view' = DOMAIN view, DOMAIN past' = DOMAIN past,
             past.stuck => past'.stuck,
             Doing(e, "load") => past'.stuck \/ ~view'.loading,
             ~Doing(e, "load") => (view'.loading <=> view.loading),
             Doing(e, "generate") => past'.stuck \/ ~view'.generating,
             ~Doing(e, "generate") => (view'.generating <=> view.generating),
             Doing(e, "save") => \/ view'.saving = view.saving \ {About(e)}
                                 \/ past'.stuck /\ view'.saving = view.saving,
             ~Doing(e, "save") => view'.saving = view.saving,
             Doing(e, "update") => \/ view'.updating = view.updating \ {About(e)}
                                   \/ past'.stuck /\ view'.updating = view.updating,
             ~Doing(e, "update") => view'.updating = view.updating
      PROVE  IdeasFit(view', past', call')
  <2>1. Flag(mid, {"load"}, view'.loading, past'.stuck)
    BY <1>0, <1>3, FlagLess DEF mid, IdeasFit, Doing
  <2>2. Flag(mid, {"generate"}, view'.generating, past'.stuck)
    BY <1>0, <1>3, FlagLess DEF mid, IdeasFit, Doing
  <2>3. Buttons(mid, "save", view'.saving, past'.stuck)
    BY <1>0, <1>3, ButtonsLess DEF mid, IdeasFit
  <2>4. Buttons(mid, "update", view'.updating, past'.stuck)
    BY <1>0, <1>3, ButtonsLess DEF mid, IdeasFit
  <2> QED BY <1>0, <1>1, <1>3, <2>1, <2>2, <2>3, <2>4 DEF IdeasFit
<1>4. ASSUME Ideas!Throws(i)
      PROVE  IdeasFit(view', past', call')
  <2>1. call' = mid /\ view' = view /\ DOMAIN past' = DOMAIN past /\ past'.stuck = TRUE
    BY <1>0, <1>2, <1>4 DEF Ideas!Throws
  <2> QED BY <1>3, <2>1
<1>5. CASE Ideas!LoadAnswer(i) /\ ~Ideas!Throws(i)
  <2>1. /\ DOMAIN view' = DOMAIN view /\ ~view'.loading /\ view'.generating = view.generating
        /\ view'.saving = view.saving /\ view'.updating = view.updating
    <3> DEFINE v == [view EXCEPT !.saved = e.answer, !.loading = FALSE]
    <3>1. /\ DOMAIN v = DOMAIN view /\ ~v.loading /\ v.generating = view.generating
          /\ v.saving = view.saving /\ v.updating = view.updating
      BY <1>0
    <3>2. CASE view' = Ideas!Clamped(v)
      <4> HIDE DEF v
      <4> QED BY <1>0, <3>1, <3>2 DEF Ideas!Clamped
    <3>3. CASE view' = [view EXCEPT !.loading = FALSE]
      BY <1>0, <3>3
    <3> QED BY <1>5, <3>2, <3>3 DEF Ideas!LoadAnswer
  <2>2. call' = mid /\ DOMAIN past' = DOMAIN past /\ past'.stuck = past.stuck
    BY <1>0, <1>2, <1>5 DEF Ideas!LoadAnswer
  <2>3. e.op = "load"
    BY <1>5 DEF Ideas!LoadAnswer, Ideas!Takes
  <2>4. Doing(e, "load") /\ ~Doing(e, "generate") /\ ~Doing(e, "save") /\ ~Doing(e, "update")
    BY <1>5, <2>3 DEF Doing, Ideas!LoadAnswer, Ideas!Takes
  <2> QED BY <1>3, <2>1, <2>2, <2>4
<1>6. CASE Ideas!GenerateAnswer(i) /\ ~Ideas!Throws(i)
  <2>1. /\ DOMAIN view' = DOMAIN view /\ ~view'.generating /\ view'.loading = view.loading
        /\ view'.saving = view.saving /\ view'.updating = view.updating
    BY <1>0, <1>6 DEF Ideas!GenerateAnswer
  <2>2. call' = mid /\ past' = past /\ e.op = "generate" /\ e.live
    BY <1>2, <1>6 DEF Ideas!GenerateAnswer, Ideas!Takes
  <2>3. Doing(e, "generate") /\ ~Doing(e, "load") /\ ~Doing(e, "save") /\ ~Doing(e, "update")
    BY <2>2 DEF Doing
  <2> QED BY <1>3, <2>1, <2>2, <2>3
<1>7. CASE Ideas!SaveAnswer(i) /\ ~Ideas!Throws(i)
  <2>1. /\ DOMAIN view' = DOMAIN view /\ view'.saving = view.saving \ {e.arg}
        /\ view'.loading = view.loading /\ view'.generating = view.generating
        /\ view'.updating = view.updating
    <3> DEFINE v == [view EXCEPT !.saving = @ \ {e.arg}]
    <3>1. /\ DOMAIN v = DOMAIN view /\ v.saving = view.saving \ {e.arg}
          /\ v.loading = view.loading /\ v.generating = view.generating
          /\ v.updating = view.updating
      BY <1>0
    <3>2. view' = Ideas!Saved(v, e.answer) \/ view' = v
      BY <1>7 DEF Ideas!SaveAnswer
    <3> HIDE DEF v
    <3> QED BY <1>0, <3>1, <3>2 DEF Ideas!Saved
  <2>2. call' = mid /\ past' = past /\ e.op = "save" /\ e.live
    BY <1>2, <1>7 DEF Ideas!SaveAnswer, Ideas!Takes
  <2>3. /\ Doing(e, "save") /\ ~Doing(e, "load") /\ ~Doing(e, "generate") /\ ~Doing(e, "update")
        /\ About(e) = e.arg
    BY <2>2 DEF Doing, About
  <2> QED BY <1>3, <2>1, <2>2, <2>3
<1>8. CASE Ideas!UpdateAnswer(i) /\ ~Ideas!Throws(i)
  <2>1. /\ DOMAIN view' = DOMAIN view /\ view'.updating = view.updating \ {e.arg.idea}
        /\ view'.loading = view.loading /\ view'.generating = view.generating
        /\ view'.saving = view.saving
    <3> DEFINE v == [view EXCEPT !.updating = @ \ {e.arg.idea}]
    <3>1. /\ DOMAIN v = DOMAIN view /\ v.updating = view.updating \ {e.arg.idea}
          /\ v.loading = view.loading /\ v.generating = view.generating
          /\ v.saving = view.saving
      BY <1>0
    <3>2. view' = Ideas!Updated(v, e.answer) \/ view' = v
      BY <1>8 DEF Ideas!UpdateAnswer
    <3> HIDE DEF v
    <3>3. CASE view' = v
      BY <3>1, <3>3
    <3>4. CASE view' = Ideas!Updated(v, e.answer)
      <4>1. PICK x : view' = Ideas!Clamped([v EXCEPT !.saved = x])
        BY <3>4 DEF Ideas!Updated
      <4> DEFINE w == [v EXCEPT !.saved = x]
      <4>2. /\ DOMAIN w = DOMAIN v /\ w.updating = v.updating /\ w.loading = v.loading
            /\ w.generating = v.generating /\ w.saving = v.saving
        BY <1>0, <3>1
      <4>3. view' = Ideas!Clamped(w)
        BY <4>1
      <4> HIDE DEF w
      <4> QED BY <1>0, <3>1, <4>2, <4>3 DEF Ideas!Clamped
    <3> QED BY <3>2, <3>3, <3>4
  <2>2. call' = mid /\ past' = past /\ e.op = "update" /\ e.live
    BY <1>2, <1>8 DEF Ideas!UpdateAnswer, Ideas!Takes
  <2>3. /\ Doing(e, "update") /\ ~Doing(e, "load") /\ ~Doing(e, "generate") /\ ~Doing(e, "save")
        /\ About(e) = e.arg.idea
    BY <2>2 DEF Doing, About
  <2> QED BY <1>3, <2>1, <2>2, <2>3
<1>9. CASE Ideas!Drops(i)
  <2>1. call' = mid /\ view' = view /\ past' = past /\ ~e.live
    BY <1>2, <1>9 DEF Ideas!Drops
  <2>2. \A op : ~Doing(e, op)
    BY <2>1 DEF Doing
  <2> QED BY <1>3, <2>1, <2>2
<1> QED BY <1>4, <1>5, <1>6, <1>7, <1>8, <1>9 DEF Ideas!Answer

LEMMA IdeasGoOn ==
  ASSUME IdeasFit(view, past, call), Ideas!Next \/ UNCHANGED screen
  PROVE  IdeasFit(view', past', call')
<1>0. IsCalls(call) /\ DOMAIN call = 1..Len(call)
  BY CallsAreSeq DEF IdeasFit
<1>1. CASE UNCHANGED screen
  BY <1>1 DEF screen, IdeasFit
<1>2. ASSUME NEW i \in DOMAIN call, Ideas!Serve(i) \/ Ideas!Refuses(i) \/ Ideas!Breaks(i)
      PROVE  IdeasFit(view', past', call')
  <2>1. Progresses(call, call') /\ UNCHANGED <<view, past>>
    <3>1. ASSUME NEW a, Ideas!Serves(i, a)
          PROVE  Progresses(call, call') /\ UNCHANGED <<view, past>>
      BY <3>1 DEF Progresses, Served, Ideas!Serves
    <3>2. ASSUME NEW a, call' = [call EXCEPT ![i].answer = a], UNCHANGED <<view, past>>
          PROVE  Progresses(call, call') /\ UNCHANGED <<view, past>>
      BY <3>2 DEF Progresses, Stepped
    <3>3. CASE Ideas!NotFound(i) \/ Ideas!Refuses(i) \/ Ideas!Breaks(i)
      BY <3>3 DEF Progresses, Marked, Ideas!NotFound, Ideas!Refuses, Ideas!Breaks
    <3>4. ASSUME Ideas!ListIdeas(i) \/ Ideas!GenerateIdeas(i) \/ Ideas!SaveIdea(i)
                   \/ Ideas!UpdateIdeaStatus(i)
          PROVE  \E a : Ideas!Serves(i, a)
      BY <3>4 DEF Ideas!ListIdeas, Ideas!GenerateIdeas, Ideas!SaveIdea, Ideas!UpdateIdeaStatus
    <3>5. CASE Ideas!NoIdeaLeft(i) \/ Ideas!FindIdea(i)
      BY <3>2, <3>3, <3>5 DEF Ideas!NoIdeaLeft, Ideas!FindIdea
    <3> QED BY <1>2, <3>1, <3>3, <3>4, <3>5 DEF Ideas!Serve
  <2>2. Same(call, call')
    BY <1>0, <2>1, Progressing
  <2> QED BY <2>1, <2>2, IdeasStay
<1>3. ASSUME NEW i \in DOMAIN call, Ideas!Answer(i) \/ Ideas!Drops(i)
      PROVE  IdeasFit(view', past', call')
  BY <1>0, <1>3, IdeasTake
<1>4. CASE Ideas!ArchivedElsewhere
  <2>1. call' = call /\ view' = view /\ DOMAIN past' = DOMAIN past /\ past'.stuck = past.stuck
    BY <1>4 DEF Ideas!ArchivedElsewhere, IdeasFit
  <2> QED BY <1>0, <2>1, SameAgain, IdeasStay
<1>5. CASE Ideas!Member
  BY <1>5, IdeasSend
<1> QED BY <1>1, <1>2, <1>3, <1>4, <1>5 DEF Ideas!Next

LEMMA IdeasWait ==
  ASSUME IdeasFit(view, past, call)
  PROVE  Ideas!WaitsForCall
<1> DEFINE under(op) == {call[i].arg : i \in {j \in DOMAIN call : call[j].live /\ call[j].op = op}}
<1>1. DOMAIN call = 1..Len(call)
  BY CallsAreSeq DEF IdeasFit
<1>2. \A op : under(op) # {} <=> Waits(call, {op})
  BY <1>1 DEF Waits
<1>3. \A op, a : a \in under(op) <=> \E i \in 1..Len(call) : Doing(call[i], op) /\ a = call[i].arg
  BY <1>1 DEF Doing
<1> HIDE DEF under
<1>4. ASSUME ~past.stuck
      PROVE  /\ view.loading <=> under("load") # {}
             /\ view.generating <=> under("generate") # {}
             /\ view.saving = under("save")
             /\ view.updating = {a.idea : a \in under("update")}
  <2>1. \A i \in 1..Len(call) : Doing(call[i], "save") => About(call[i]) = call[i].arg
    BY DEF Doing, About
  <2>2. \A i \in 1..Len(call) : Doing(call[i], "update") => About(call[i]) = call[i].arg.idea
    BY DEF Doing, About
  <2>3. view.saving = under("save")
    <3>1. \A x : x \in view.saving <=> x \in under("save")
      BY <1>3, <1>4, <2>1 DEF IdeasFit, Buttons
    <3> QED BY <3>1
  <2>4. view.updating = {a.idea : a \in under("update")}
    <3>1. ASSUME NEW x \in view.updating
          PROVE  \E a \in under("update") : x = a.idea
      BY <1>3, <1>4, <2>2 DEF IdeasFit, Buttons
    <3>2. ASSUME NEW a \in under("update")
          PROVE  a.idea \in view.updating
      BY <1>3, <1>4, <2>2 DEF IdeasFit, Buttons
    <3> QED BY <3>1, <3>2
  <2> QED BY <1>2, <1>4, <2>3, <2>4 DEF IdeasFit, Flag
<1> QED BY <1>4 DEF Ideas!WaitsForCall, under

-----------------------------------------------------------------------------
(* The Notion integration (NotionPanel).                                   *)

\* The operation that is over when the call e is.
Finishes(e) == IF e.op = "load" THEN e.arg.after
           ELSE IF e.op = "lists" THEN Notion!None ELSE e.op

Holds(e) == e.live /\ Finishes(e) # Notion!None

\* The panel holds b for a call of c, one at most.
Held(c, b) ==
    /\ \A i \in 1..Len(c) : Holds(c[i]) => b = Finishes(c[i])
    /\ \A i, j \in 1..Len(c) : Holds(c[i]) /\ Holds(c[j]) => i = j
    /\ b # Notion!None => \E i \in 1..Len(c) : Holds(c[i])

LEMMA HeldStays ==
  ASSUME NEW s, NEW t, Same(s, t), NEW b, Held(s, b)
  PROVE  Held(t, b)
<1>1. Len(t) = Len(s) /\ \A j \in 1..Len(s) : Finishes(t[j]) = Finishes(s[j]) /\ (Holds(t[j]) <=> Holds(s[j]))
  BY DEF Same, Finishes, Holds
<1> QED BY <1>1 DEF Held

LEMMA HeldLess ==
  ASSUME NEW s, IsCalls(s), NEW i \in 1..Len(s), NEW b, Held(s, b), NEW bb,
         ~Holds(s[i]) => bb = b, Holds(s[i]) => bb = Notion!None
  PROVE  Held(Less(s, i), bb)
<1> DEFINE t == Less(s, i)
<1>1. Left(s, t, i)
  BY CallLeft
<1> HIDE DEF t
<1>2. \A j \in 1..Len(t) : \E m \in 1..Len(s) : m # i /\ t[j] = s[m]
  BY <1>1 DEF Left, Others
<1>3. \A j \in 1..Len(t) : Holds(t[j]) => bb = Finishes(t[j])
  BY <1>2 DEF Held
<1>4. ASSUME NEW j \in 1..Len(t), NEW n \in 1..Len(t), Holds(t[j]), Holds(t[n]), j # n
      PROVE  FALSE
  <2>1. PICK x, y \in 1..Len(s) : x # y /\ t[j] = s[x] /\ t[n] = s[y]
    BY <1>1, <1>4 DEF Left
  <2> QED BY <1>4, <2>1 DEF Held
<1>5. ASSUME bb # Notion!None
      PROVE  \E j \in 1..Len(t) : Holds(t[j])
  <2>1. PICK m \in 1..Len(s) : Holds(s[m])
    BY <1>5 DEF Held
  <2>2. m # i
    BY <1>5, <2>1
  <2>3. \E j \in 1..Len(t) : t[j] = s[m]
    BY <1>1, <2>2 DEF Left, Others
  <2> QED BY <2>1, <2>3
<1>6. Held(t, bb)
  BY <1>3, <1>4, <1>5 DEF Held
<1> QED BY <1>6 DEF t

LEMMA HeldMore ==
  ASSUME NEW s, IsCalls(s), NEW op, NEW arg, NEW b, Held(s, b), NEW bb, NEW e,
         e = Finishes(NewCall(op, arg)),
         e = Notion!None => bb = b, e # Notion!None => b = Notion!None /\ bb = e
  PROVE  Held(Append(s, NewCall(op, arg)), bb)
<1> DEFINE c == NewCall(op, arg)
           t == Append(s, c)
<1>1. More(s, t, c) /\ c.live = TRUE
  BY CallMore, NewCallIs
<1>2. e = Finishes(c)
  OBVIOUS
<1> HIDE DEF c, t
<1>3. /\ \A j \in 1..Len(t) : (j \in 1..Len(s) /\ t[j] = s[j]) \/ (j = Len(t) /\ t[j] = c)
      /\ \A j \in 1..Len(s) : j \in 1..Len(t) /\ t[j] = s[j]
      /\ Len(t) \in 1..Len(t) /\ t[Len(t)] = c
  BY <1>1 DEF More
<1>4. Holds(c) <=> e # Notion!None
  BY <1>1, <1>2 DEF Holds
<1>5. b = Notion!None => \A j \in 1..Len(s) : ~Holds(s[j])
  BY DEF Held, Holds
<1>6. CASE e = Notion!None
  <2>1. \A j \in 1..Len(t) : Holds(t[j]) => j \in 1..Len(s) /\ t[j] = s[j]
    BY <1>3, <1>4, <1>6
  <2>2. Held(t, bb)
    BY <1>3, <1>6, <2>1 DEF Held
  <2> QED BY <2>2 DEF t, c
<1>7. CASE e # Notion!None
  <2>1. \A j \in 1..Len(t) : Holds(t[j]) => j = Len(t) /\ t[j] = c
    BY <1>3, <1>5, <1>7
  <2>2. Held(t, bb)
    BY <1>2, <1>3, <1>4, <1>7, <2>1 DEF Held
  <2> QED BY <2>2 DEF t, c
<1> QED BY <1>6, <1>7

\* What a new call ends.
LEMMA EndsNew ==
  ASSUME NEW op, NEW arg
  PROVE  Finishes(NewCall(op, arg)) =
            IF op = "load" THEN arg.after ELSE IF op = "lists" THEN Notion!None ELSE op
<1> DEFINE c == NewCall(op, arg)
<1>1. c.op = op /\ c.arg = arg
  BY DEF NewCall
<1> HIDE DEF c
<1>2. Finishes(c) = IF op = "load" THEN arg.after ELSE IF op = "lists" THEN Notion!None ELSE op
  BY <1>1 DEF Finishes
<1> QED BY <1>2 DEF c

NotionFields ==
    {"org", "there", "integration", "listed", "form", "busy", "asksToProvision", "asksToRepair"}

NotionFits(v, c) ==
    /\ IsCalls(c)
    /\ DOMAIN v = NotionFields
    /\ Held(c, v.busy)

LEMMA OpensBusy ==
  ASSUME NEW o
  PROVE  DOMAIN Notion!Opened(o) = NotionFields /\ Notion!Opened(o).busy = Notion!None
BY DEF Notion!Opened, NotionFields

\* With the reading of an organization alone, nothing is held.
LEMMA NotionOpens ==
  ASSUME NEW o, view' = Notion!Opened(o), call' = <<Notion!Load(o, Notion!None)>>
  PROVE  NotionFits(view', call')
<1> DEFINE arg == [org |-> o, after |-> Notion!None]
<1>1. call' = <<NewCall("load", arg)>>
  BY DEF Notion!Load, Notion!Call, NewCall
<1>2. arg.after = Notion!None
  OBVIOUS
<1> HIDE DEF arg
<1>3. IsCalls(call') /\ Len(call') = 1 /\ Finishes(call'[1]) = Notion!None
  <2>1. Finishes(NewCall("load", arg)) = Notion!None
    BY <1>2, EndsNew
  <2> QED BY <1>1, <2>1, StartIsCalls
<1>4. \A i \in 1..Len(call') : ~Holds(call'[i])
  BY <1>3 DEF Holds
<1> QED BY <1>3, <1>4, OpensBusy DEF NotionFits, Held

LEMMA NotionStarts ==
  ASSUME Notion!Init
  PROVE  NotionFits(view, call)
<1>1. PICK o : view = Notion!Opened(o) /\ call = <<Notion!Load(o, Notion!None)>>
  BY DEF Notion!Init
<1> DEFINE arg == [org |-> o, after |-> Notion!None]
<1>2. call = <<NewCall("load", arg)>>
  BY <1>1 DEF Notion!Load, Notion!Call, NewCall
<1>3. arg.after = Notion!None
  OBVIOUS
<1> HIDE DEF arg
<1>4. IsCalls(call) /\ Len(call) = 1 /\ Finishes(call[1]) = Notion!None
  <2>1. Finishes(NewCall("load", arg)) = Notion!None
    BY <1>3, EndsNew
  <2> QED BY <1>2, <2>1, StartIsCalls
<1>5. \A i \in 1..Len(call) : ~Holds(call[i])
  BY <1>4 DEF Holds
<1> QED BY <1>1, <1>4, <1>5, OpensBusy DEF NotionFits, Held

LEMMA NotionStays ==
  ASSUME NotionFits(view, call), Same(call, call'), DOMAIN view' = DOMAIN view,
         view'.busy = view.busy
  PROVE  NotionFits(view', call')
<1>1. Held(call', view'.busy)
  BY HeldStays DEF NotionFits
<1> QED BY <1>1 DEF NotionFits, Same

LEMMA NotionSends ==
  ASSUME NotionFits(view, call), Notion!Member
  PROVE  NotionFits(view', call')
<1>0. IsCalls(call) /\ DOMAIN view = NotionFields
  BY DEF NotionFits
<1>1. CASE Notion!SwitchOrganization
  <2>1. PICK o : view' = Notion!Opened(o) /\ call' = Append(Notion!Forgotten, Notion!Load(o, Notion!None))
    BY <1>1 DEF Notion!SwitchOrganization
  <2> DEFINE arg == [org |-> o, after |-> Notion!None]
             mid == Silent(call)
  <2>2. call' = Append(mid, NewCall("load", arg))
    BY <2>1 DEF Notion!Load, Notion!Call, NewCall, Notion!Forgotten, Silent
  <2>3. arg.after = Notion!None
    OBVIOUS
  <2> HIDE DEF arg
  <2>4. IsCalls(mid) /\ \A i \in 1..Len(mid) : ~Holds(mid[i])
    BY <1>0, CallsSilent DEF Holds
  <2> HIDE DEF mid
  <2>5. Held(mid, Notion!None)
    BY <2>4 DEF Held
  <2>6. Finishes(NewCall("load", arg)) = Notion!None
    BY <2>3, EndsNew
  <2>7. Held(call', view'.busy)
    BY <2>1, <2>2, <2>4, <2>5, <2>6, HeldMore, OpensBusy
  <2>8. IsCalls(call')
    BY <2>2, <2>4, CallMore DEF More
  <2> QED BY <2>1, <2>7, <2>8, OpensBusy DEF NotionFits
<1>2. CASE Notion!Edit \/ Notion!OpenProvision \/ Notion!OpenRepair \/ Notion!Cancel
  <2>1. call' = call /\ DOMAIN view' = DOMAIN view /\ view'.busy = view.busy
    BY <1>0, <1>2 DEF NotionFields, Notion!Edit, Notion!OpenProvision, Notion!OpenRepair, Notion!Cancel
  <2> QED BY <1>0, <2>1, SameAgain, NotionStays
<1>3. ASSUME NEW op \in Notion!Operation, Notion!Runs(op)
      PROVE  NotionFits(view', call')
  <2> DEFINE arg == [org |-> view.org, form |-> view.form]
  <2>1. call' = Append(call, NewCall(op, arg))
    BY <1>3 DEF Notion!Runs, Notion!Call, NewCall
  <2> HIDE DEF arg
  <2>2. view.busy = Notion!None /\ DOMAIN view' = DOMAIN view /\ view'.busy = op
    BY <1>0, <1>3 DEF NotionFields, Notion!Runs
  <2>3. Finishes(NewCall(op, arg)) = op /\ op # Notion!None
    BY <1>3, EndsNew DEF Notion!Operation, Notion!None
  <2>4. Held(call', view'.busy)
    BY <1>0, <2>1, <2>2, <2>3, HeldMore DEF NotionFits
  <2>5. IsCalls(call')
    BY <1>0, <2>1, CallMore DEF More
  <2> QED BY <1>0, <2>2, <2>4, <2>5 DEF NotionFits
<1>4. ASSUME Notion!HandleConnect \/ Notion!HandleDisconnect \/ Notion!HandleProvision
               \/ Notion!HandleSaveMapping \/ Notion!HandleHealthCheck \/ Notion!HandleRepair
               \/ Notion!HandleSync
      PROVE  \E op \in Notion!Operation : Notion!Runs(op)
  BY <1>4 DEF Notion!HandleConnect, Notion!HandleDisconnect, Notion!HandleProvision,
       Notion!HandleSaveMapping, Notion!HandleHealthCheck, Notion!HandleRepair,
       Notion!HandleSync, Notion!Operation
<1> QED BY <1>1, <1>2, <1>3, <1>4 DEF Notion!Member

LEMMA NotionTakes ==
  ASSUME NotionFits(view, call), NEW i \in 1..Len(call), Notion!Answer(i)
  PROVE  NotionFits(view', call')
<1> DEFINE mid == Less(call, i)
           e == call[i]
<1>0. IsCalls(call) /\ DOMAIN view = NotionFields /\ Held(call, view.busy)
  BY DEF NotionFits
<1>1. IsCalls(mid)
  BY <1>0, CallLeft DEF Left
<1>2. \A a : a = Notion!Rest(i) => a = mid
  BY DEF Notion!Rest, Notion!WithoutAt, Less
<1>3. \A b : (~Holds(e) => b = view.busy) /\ (Holds(e) => b = Notion!None) => Held(mid, b)
  BY <1>0, HeldLess
<1> HIDE DEF mid
\* A call that the panel does not wait for is over.
<1>4. ASSUME ~Holds(e), call' = mid, DOMAIN view' = DOMAIN view, view'.busy = view.busy
      PROVE  NotionFits(view', call')
  BY <1>0, <1>1, <1>3, <1>4 DEF NotionFits
<1>5. CASE Notion!LoadAnswer(i)
  <2>1. e.op = "load" /\ e.live /\ Finishes(e) = e.arg.after /\ (Holds(e) <=> e.arg.after # Notion!None)
    BY <1>5 DEF Notion!LoadAnswer, Notion!Takes, Finishes, Holds
  <2>2. DOMAIN view' = DOMAIN view /\ (~Holds(e) => view'.busy = view.busy)
          /\ (Holds(e) => view'.busy = Notion!None)
    <3> DEFINE v == IF e.arg.after = Notion!None THEN view ELSE [view EXCEPT !.busy = Notion!None]
    <3>1. /\ DOMAIN v = DOMAIN view /\ (~Holds(e) => v.busy = view.busy)
          /\ (Holds(e) => v.busy = Notion!None)
      BY <1>0, <2>1 DEF NotionFields
    <3>2. \/ view' = v
          \/ \E x, y : view' = [v EXCEPT !.there = TRUE, !.integration = x, !.form = y]
      BY <1>5 DEF Notion!LoadAnswer
    <3> HIDE DEF v
    <3> QED BY <1>0, <3>1, <3>2 DEF NotionFields
  <2>3. Held(mid, view'.busy)
    BY <1>3, <2>2
  <2>4. CASE call' = mid
    BY <1>0, <1>1, <2>2, <2>3, <2>4 DEF NotionFits
  \* The lists may be read again.
  <2>5. ASSUME NEW was, NEW is, call' = Notion!ThenLists(i, was, is)
        PROVE  NotionFits(view', call')
    <3> DEFINE kept == IF was # is THEN Unheard(call, {"lists"}) ELSE call
               rest == Less(kept, i)
               arg == [org |-> view.org]
    <3>1. call' = rest \/ call' = Append(rest, NewCall("lists", arg))
      BY <2>5 DEF Notion!ThenLists, Unheard, Less, Notion!WithoutAt, Notion!Call, NewCall
    <3> HIDE DEF arg
    <3>2. /\ IsCalls(kept) /\ Len(kept) = Len(call)
          /\ \A j \in 1..Len(call) : /\ Finishes(kept[j]) = Finishes(call[j])
                                     /\ Holds(kept[j]) <=> Holds(call[j])
      <4>1. CASE was = is
        BY <1>0, <4>1
      <4>2. CASE was # is
        <5> DEFINE t == Unheard(call, {"lists"})
        <5>1. /\ IsCalls(t) /\ Len(t) = Len(call)
              /\ \A j \in 1..Len(call) : /\ t[j].op = call[j].op /\ t[j].arg = call[j].arg
                                         /\ t[j].live = (call[j].live /\ call[j].op \notin {"lists"})
          BY <1>0, CallsUnheard
        <5>2. kept = t
          BY <4>2
        <5> HIDE DEF t, kept
        <5>3. ASSUME NEW j \in 1..Len(call)
              PROVE  Finishes(t[j]) = Finishes(call[j]) /\ (Holds(t[j]) <=> Holds(call[j]))
          <6>1. Finishes(t[j]) = Finishes(call[j])
            BY <5>1 DEF Finishes
          <6>2. CASE call[j].op = "lists"
            BY <5>1, <6>2 DEF Finishes, Holds
          <6>3. CASE call[j].op # "lists"
            BY <5>1, <6>1, <6>3 DEF Holds
          <6> QED BY <6>1, <6>2, <6>3
        <5> QED BY <5>1, <5>2, <5>3
      <4> QED BY <4>1, <4>2
    <3> HIDE DEF kept
    <3>3. Held(kept, view.busy)
      BY <1>0, <3>2 DEF Held
    <3>4. Held(rest, view'.busy) /\ IsCalls(rest)
      BY <2>2, <3>2, <3>3, HeldLess, CallLeft DEF Left
    <3> HIDE DEF rest
    <3>5. CASE call' = rest
      BY <1>0, <2>2, <3>4, <3>5 DEF NotionFits
    <3>6. CASE call' = Append(rest, NewCall("lists", arg))
      <4>1. Finishes(NewCall("lists", arg)) = Notion!None
        BY EndsNew
      <4>2. Held(call', view'.busy)
        BY <3>4, <3>6, <4>1, HeldMore
      <4>3. IsCalls(call')
        BY <3>4, <3>6, CallMore DEF More
      <4> QED BY <1>0, <2>2, <4>2, <4>3 DEF NotionFits
    <3> QED BY <3>1, <3>5, <3>6
  <2>6. call' = mid \/ \E was, is : call' = Notion!ThenLists(i, was, is)
    BY <1>2, <1>5 DEF Notion!LoadAnswer
  <2> QED BY <2>4, <2>5, <2>6
<1>6. CASE Notion!ListsAnswer(i)
  <2>1. ~Holds(e)
    BY <1>6 DEF Notion!ListsAnswer, Notion!Takes, Holds, Finishes
  <2>2. call' = mid /\ DOMAIN view' = DOMAIN view /\ view'.busy = view.busy
    BY <1>0, <1>2, <1>6 DEF NotionFields, Notion!ListsAnswer
  <2> QED BY <1>4, <2>1, <2>2
<1>7. CASE Notion!ConnectAnswer(i)
  BY <1>7, NotionOpens DEF Notion!ConnectAnswer
<1>8. CASE Notion!OperationAnswer(i)
  <2>1. e.op \in Notion!Operation /\ e.live
    BY <1>8 DEF Notion!OperationAnswer, Notion!Takes
  <2>2. Finishes(e) = e.op /\ Holds(e) /\ e.op # Notion!None
    BY <2>1 DEF Finishes, Holds, Notion!Operation, Notion!None
  <2>3. Held(mid, Notion!None) /\ view.busy = e.op
    BY <1>0, <1>3, <2>2 DEF Held
  <2>4. CASE call' = mid /\ view' = [view EXCEPT !.busy = Notion!None]
    BY <1>0, <1>1, <2>3, <2>4 DEF NotionFits, NotionFields
  <2>5. CASE call' = Notion!ThenReads(i) /\ (view' = view \/ view' = Notion!Done(view, e.op))
    <3> DEFINE arg == [org |-> e.arg.org, after |-> e.op]
    <3>1. call' = Append(mid, NewCall("load", arg))
      <4>1. call' = Append(Notion!Rest(i), Notion!Call("load", arg))
        BY <2>5 DEF Notion!ThenReads, Notion!Load
      <4> HIDE DEF arg
      <4> QED BY <1>2, <4>1 DEF Notion!Call, NewCall
    <3>2. arg.after = e.op
      OBVIOUS
    <3> HIDE DEF arg
    <3>3. DOMAIN view' = DOMAIN view /\ view'.busy = view.busy
      BY <1>0, <2>5 DEF NotionFields, Notion!Done
    <3>4. Finishes(NewCall("load", arg)) = e.op
      BY <3>2, EndsNew
    <3>5. Held(call', view'.busy)
      BY <1>1, <2>2, <2>3, <3>1, <3>3, <3>4, HeldMore
    <3>6. IsCalls(call')
      BY <1>1, <3>1, CallMore DEF More
    <3> QED BY <1>0, <3>3, <3>5, <3>6 DEF NotionFits
  <2>6. \/ call' = mid /\ view' = [view EXCEPT !.busy = Notion!None]
        \/ call' = Notion!ThenReads(i) /\ (view' = view \/ view' = Notion!Done(view, e.op))
    BY <1>2, <1>8 DEF Notion!OperationAnswer
  <2> QED BY <2>4, <2>5, <2>6
<1>9. CASE Notion!LateAnswer(i)
  <2>1. ~Holds(e) /\ call' = mid
    BY <1>2, <1>9 DEF Notion!LateAnswer, Holds
  <2>2. DOMAIN view' = DOMAIN view /\ view'.busy = view.busy
    BY <1>0, <1>9 DEF NotionFields, Notion!LateAnswer, Notion!Done
  <2> QED BY <1>4, <2>1, <2>2
<1>10. CASE Notion!Drops(i)
  BY <1>2, <1>4, <1>10 DEF Notion!Drops, Holds
<1> QED BY <1>5, <1>6, <1>7, <1>8, <1>9, <1>10 DEF Notion!Answer

LEMMA NotionGoesOn ==
  ASSUME NotionFits(view, call), Notion!Next \/ UNCHANGED screen
  PROVE  NotionFits(view', call')
<1>0. IsCalls(call) /\ DOMAIN call = 1..Len(call)
  BY CallsAreSeq DEF NotionFits
<1>1. CASE UNCHANGED screen
  BY <1>1 DEF screen, NotionFits
<1>2. ASSUME NEW i \in DOMAIN call, Notion!Serve(i) \/ Notion!Refuses(i) \/ Notion!Breaks(i)
      PROVE  NotionFits(view', call')
  <2>1. Progresses(call, call') /\ view' = view
    <3>1. ASSUME NEW a, Notion!Serves(i, a)
          PROVE  Progresses(call, call') /\ view' = view
      BY <3>1 DEF Progresses, Served, Notion!Serves
    <3>2. CASE Notion!NotFound(i) \/ Notion!Refuses(i) \/ Notion!Breaks(i)
      BY <3>2 DEF Progresses, Marked, Notion!NotFound, Notion!Refuses, Notion!Breaks
    <3>3. CASE Notion!ServeReading(i)
      BY <3>1, <3>2, <3>3 DEF Notion!ServeReading
    <3>4. CASE Notion!ServeOperation(i)
      BY <3>1, <3>4 DEF Notion!ServeOperation
    <3>5. CASE Notion!Conflicts(i)
      BY <3>2, <3>5 DEF Notion!Conflicts
    <3> QED BY <1>2, <3>2, <3>3, <3>4, <3>5 DEF Notion!Serve
  <2>2. Same(call, call')
    BY <1>0, <2>1, Progressing
  <2> QED BY <2>1, <2>2, NotionStays
<1>3. ASSUME NEW i \in DOMAIN call, Notion!Answer(i)
      PROVE  NotionFits(view', call')
  BY <1>0, <1>3, NotionTakes
<1>4. CASE Notion!Member
  BY <1>4, NotionSends
<1> QED BY <1>1, <1>2, <1>3, <1>4 DEF Notion!Next

LEMMA NotionWaits ==
  ASSUME NotionFits(view, call)
  PROVE  Notion!WaitsForCall
<1> DEFINE waits(i) == CASE call[i].op = "load" -> call[i].arg.after
                         [] call[i].op = "lists" -> Notion!None
                         [] OTHER -> call[i].op
           own == {i \in DOMAIN call : call[i].live /\ waits(i) # Notion!None}
<1>1. DOMAIN call = 1..Len(call)
  BY CallsAreSeq DEF NotionFits
<1>2. \A i : waits(i) = Finishes(call[i])
  BY DEF Finishes
<1> HIDE DEF waits
<1>3. \A i : i \in own <=> i \in 1..Len(call) /\ Holds(call[i])
  BY <1>1, <1>2 DEF Holds
<1> HIDE DEF own
<1>4. CASE view.busy = Notion!None
  <2>1. own = {}
    BY <1>3, <1>4 DEF NotionFits, Held, Holds
  <2> QED BY <1>4, <2>1 DEF Notion!WaitsForCall, own, waits
<1>5. CASE view.busy # Notion!None
  <2>1. PICK i \in 1..Len(call) : Holds(call[i])
    BY <1>5 DEF NotionFits, Held
  <2>2. i \in own /\ waits(i) = view.busy
    BY <1>2, <1>3, <2>1 DEF NotionFits, Held
  <2>3. own = {i}
    BY <1>3, <2>1 DEF NotionFits, Held
  <2> QED BY <1>5, <2>2, <2>3 DEF Notion!WaitsForCall, own, waits
<1> QED BY <1>4, <1>5

-----------------------------------------------------------------------------
(* The thirteen screens.                                                   *)

ScreensInv ==
    /\ part = "calendar" => CalendarFits(view, past, call)
    /\ part = "saved ideas" => IdeasFit(view, past, call)
    /\ part = "notion" => NotionFits(view, call)
    /\ part = "library" => LibraryFits(view, past, call)
    /\ part = "curation" => CurationFits(view, past, call)
    /\ part = "onboarding" => OnboardingFits(view, past, call)
    /\ part = "generator" => GeneratorFits(view, past, call)
    /\ part = "automations" => AutomationsFit(view, past, call)
    /\ part = "members" => MembersFit(view, past, call)
    /\ part = "account" => AccountFits(view, call)
    /\ EditingInv

LEMMA ScreensStart == AllInit => ScreensInv
<1> SUFFICES ASSUME AllInit PROVE ScreensInv
  OBVIOUS
<1>1. CASE part = "plans"
  BY <1>1 DEF ScreensInv, EditingInv
<1>2. CASE EditingInit
  <2>1. part \in {"content", "editor", "settings"}
    BY <1>2 DEF EditingInit
  <2> QED BY <1>2, <2>1, EditingStarts DEF ScreensInv
<1>3. CASE part = "calendar" /\ Calendar!Init
  BY <1>3, CalendarStarts DEF ScreensInv, EditingInv
<1>4. CASE part = "saved ideas" /\ Ideas!Init
  BY <1>4, IdeasStart DEF ScreensInv, EditingInv
<1>5. CASE part = "notion" /\ Notion!Init
  BY <1>5, NotionStarts DEF ScreensInv, EditingInv
<1>6. CASE part = "library" /\ Library!Init
  BY <1>6, LibraryStarts DEF ScreensInv, EditingInv
<1>7. CASE part = "curation" /\ Curation!Init
  BY <1>7, CurationStarts DEF ScreensInv, EditingInv
<1>8. CASE part = "onboarding" /\ Onboarding!Init
  BY <1>8, OnboardingStarts DEF ScreensInv, EditingInv
<1>9. CASE part = "generator" /\ Generator!Init
  BY <1>9, GeneratorStarts DEF ScreensInv, EditingInv
<1>10. CASE part = "automations" /\ Automations!Init
  BY <1>10, AutomationsStart DEF ScreensInv, EditingInv
<1>11. CASE part = "members" /\ Members!Init
  BY <1>11, MembersStart DEF ScreensInv, EditingInv
<1>12. CASE part = "account" /\ Account!Init
  BY <1>12, AccountStarts DEF ScreensInv, EditingInv
<1> QED BY <1>1, <1>2, <1>3, <1>4, <1>5, <1>6, <1>7, <1>8, <1>9, <1>10, <1>11, <1>12
        DEF AllInit, ScreenInit

\* A behaviour is about one part, and a step is one of that part.
LEMMA OnePart ==
  ASSUME [AllNext]_all
  PROVE  /\ part' = part
         /\ part = "calendar" => Calendar!Next \/ UNCHANGED screen
         /\ part = "saved ideas" => Ideas!Next \/ UNCHANGED screen
         /\ part = "notion" => Notion!Next \/ UNCHANGED screen
         /\ part = "library" => Library!Next \/ UNCHANGED screen
         /\ part = "curation" => Curation!Next \/ UNCHANGED screen
         /\ part = "onboarding" => Onboarding!Next \/ UNCHANGED screen
         /\ part = "generator" => Generator!Next \/ UNCHANGED screen
         /\ part = "automations" => Automations!Next \/ UNCHANGED screen
         /\ part = "members" => Members!Next \/ UNCHANGED screen
         /\ part = "account" => Account!Next \/ UNCHANGED screen
         /\ part \in {"content", "editor", "settings"} => [EditingNext]_<<part, screen>>
BY DEF AllNext, all, PlansNext, On, CalendarNext, SavedIdeasNext, NotionNext, LibraryNext,
   CurationNext, OnboardingNext, GeneratorNext, AutomationsNext, MembersNext, AccountNext,
   EditsNext, EditingNext, ContentNext, EditorNext, SettingsNext, Stops

LEMMA ScreensGoOn == ScreensInv /\ [AllNext]_all => ScreensInv' /\ [Guarded]_screen
<1> SUFFICES ASSUME ScreensInv, [AllNext]_all PROVE ScreensInv' /\ [Guarded]_screen
  OBVIOUS
<1>0. part' = part
  BY OnePart
\* The three screens where contents and settings are edited are no other.
<1>1. CASE part \in {"content", "editor", "settings"}
  <2>1. EditingInv' /\ [Guarded]_screen
    BY <1>1, OnePart, EditingGoesOn DEF ScreensInv
  <2> QED BY <1>0, <1>1, <2>1 DEF ScreensInv
<1>2. ASSUME part \notin {"content", "editor", "settings"}
      PROVE  EditingInv' /\ Guarded
  BY <1>0, <1>2 DEF EditingInv, Guarded
<1>3. CASE part = "calendar"
  <2>1. CalendarFits(view', past', call')
    BY <1>3, OnePart, CalendarGoesOn DEF ScreensInv
  <2> QED BY <1>0, <1>2, <1>3, <2>1 DEF ScreensInv
<1>4. CASE part = "saved ideas"
  <2>1. IdeasFit(view', past', call')
    BY <1>4, OnePart, IdeasGoOn DEF ScreensInv
  <2> QED BY <1>0, <1>2, <1>4, <2>1 DEF ScreensInv
<1>5. CASE part = "notion"
  <2>1. NotionFits(view', call')
    BY <1>5, OnePart, NotionGoesOn DEF ScreensInv
  <2> QED BY <1>0, <1>2, <1>5, <2>1 DEF ScreensInv
<1>6. CASE part = "library"
  <2>1. LibraryFits(view', past', call')
    BY <1>6, OnePart, LibraryGoesOn DEF ScreensInv
  <2> QED BY <1>0, <1>2, <1>6, <2>1 DEF ScreensInv
<1>7. CASE part = "curation"
  <2>1. CurationFits(view', past', call')
    BY <1>7, OnePart, CurationGoesOn DEF ScreensInv
  <2> QED BY <1>0, <1>2, <1>7, <2>1 DEF ScreensInv
<1>8. CASE part = "onboarding"
  <2>1. OnboardingFits(view', past', call')
    BY <1>8, OnePart, OnboardingGoesOn DEF ScreensInv
  <2> QED BY <1>0, <1>2, <1>8, <2>1 DEF ScreensInv
<1>9. CASE part = "generator"
  <2>1. GeneratorFits(view', past', call')
    BY <1>9, OnePart, GeneratorGoesOn DEF ScreensInv
  <2> QED BY <1>0, <1>2, <1>9, <2>1 DEF ScreensInv
<1>10. CASE part = "automations"
  <2>1. AutomationsFit(view', past', call')
    BY <1>10, OnePart, AutomationsGoOn DEF ScreensInv
  <2> QED BY <1>0, <1>2, <1>10, <2>1 DEF ScreensInv
<1>11. CASE part = "members"
  <2>1. MembersFit(view', past', call')
    BY <1>11, OnePart, MembersGoOn DEF ScreensInv
  <2> QED BY <1>0, <1>2, <1>11, <2>1 DEF ScreensInv
<1>12. CASE part = "account"
  <2>1. AccountFits(view', call')
    BY <1>12, OnePart, AccountGoesOn DEF ScreensInv
  <2> QED BY <1>0, <1>2, <1>12, <2>1 DEF ScreensInv
<1>13. CASE part \notin {"calendar", "saved ideas", "notion", "library", "curation", "onboarding",
                         "generator", "automations", "members", "account",
                         "content", "editor", "settings"}
  BY <1>0, <1>2, <1>13 DEF ScreensInv
<1> QED BY <1>1, <1>3, <1>4, <1>5, <1>6, <1>7, <1>8, <1>9, <1>10, <1>11, <1>12, <1>13

\* A run of MC_Screens is, for the plans, a run of MC_EditorialCalendar: what is
\* proved of that one holds beside the screens.
LEMMA PlansRun == AllSpec => MCSpec
<1>1. AllInit => crossing \in BOOLEAN /\ Init
  BY DEF AllInit
<1>2. [AllNext]_all => [MCNext /\ UNCHANGED crossing]_<<vars, crossing>>
  BY DEF AllNext, all, PlansNext, On, CalendarNext, SavedIdeasNext, NotionNext, LibraryNext,
     CurationNext, OnboardingNext, GeneratorNext, AutomationsNext, MembersNext, AccountNext,
     EditsNext, Stops
<1> QED BY <1>1, <1>2, PTL DEF AllSpec, MCSpec

\* Whatever the rows, however many things the member and others do, in whatever
\* order the calls are served and their answers arrive, and however many are refused
\* or lost: none of the thirteen screens waits for a call that is not under way, and
\* what a screen disables or hides for a call stays so until its answer is there,
\* unless one threw.
THEOREM ScreensAlwaysWait == AllSpec => []ScreensWaitForCalls
<1>1. ScreensInv => ScreensWaitForCalls
  BY CalendarWaits, IdeasWait, NotionWaits, LibraryWaits, CurationWaits, OnboardingWaits,
     GeneratorWaits, AutomationsWait, MembersWait, AccountWaits, EditsWait
     DEF ScreensInv, ScreensWaitForCalls
<1> QED BY <1>1, ScreensStart, ScreensGoOn, PTL DEF AllSpec

\* Beside the other screens as alone, what the content, the editor and the settings
\* write is what the member saw and may write.
THEOREM ScreensWriteGuarded == AllSpec => WritesAreGuarded
<1>1. AllSpec => [][Guarded]_screen
  BY ScreensStart, ScreensGoOn, PTL DEF AllSpec
<1> QED BY <1>1 DEF WritesAreGuarded, Guarded

\* Beside the screens as alone: a content that is shown as scheduled has a plan.
THEOREM ScheduledIsPlannedToo ==
  ASSUME "SCHEDULED" \notin Wanted
  PROVE  AllSpec => []AloneScheduledHasPlan
BY PlansRun, ScheduledIsPlanned
=============================================================================
