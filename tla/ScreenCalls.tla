----------------------------- MODULE ScreenCalls -----------------------------
(***************************************************************************)
(* What the screens of the web application have in common: a component     *)
(* with its state, the calls it has made and whose answers are on their    *)
(* way, and the rows of the API that it shows.  A handler runs up to its   *)
(* next await; what follows the await is the handler of the answer.        *)
(*                                                                         *)
(* The API serves calls in any order and the answers arrive in any order.  *)
(* A call is refused (readApiResponse returns the error that the API gave) *)
(* or broken: fetch throws, whether the API has served the call or not.    *)
(*                                                                         *)
(* ItemsOf and WithoutAt are ToSet and RemoveAt of SequencesExt, whose     *)
(* hundred definitions every instance of every screen would carry.         *)
(***************************************************************************)
EXTENDS Naturals, Sequences

CONSTANTS
    MaxAsked,       \* bound of the model on what the member does
    MaxTroubles     \* bound of the model on the calls that are refused or broken

VARIABLES
    view,           \* the state of the component
    call,           \* the calls under way, in the order they were made
    server,         \* the rows of the API
    past,           \* history, for the properties
    asked,          \* how many things the member has done
    troubles        \* how many calls were refused or broken

ItemsOf(s) == {s[k] : k \in DOMAIN s}

WithoutAt(s, i) == SubSeq(s, 1, i - 1) \o SubSeq(s, i + 1, Len(s))

screenVars == <<view, call, server, past, asked, troubles>>

\* live: the closure that made the call still belongs to what is on screen
\* (isMounted, loadGeneration).
Call(op, arg) == [op |-> op, arg |-> arg, state |-> "sent", answer |-> <<>>, live |-> TRUE]

Under(ops) == \E i \in DOMAIN call : call[i].op \in ops

UnderLive(ops) == \E i \in DOMAIN call : call[i].op \in ops /\ call[i].live

\* The effects that made these calls are cleaned up.
Forgets(ops) ==
    [i \in DOMAIN call |->
        IF call[i].op \in ops THEN [call[i] EXCEPT !.live = FALSE] ELSE call[i]]

Forgotten == [i \in DOMAIN call |-> [call[i] EXCEPT !.live = FALSE]]

\* The member does something.
Asks == asked < MaxAsked /\ asked' = asked + 1 /\ UNCHANGED <<server, troubles>>

\* Mutant: the answer to a former effect is taken too (no isMounted).
Takes_Dead(i, op) ==
    /\ call[i].op = op /\ call[i].state # "sent"
    /\ UNCHANGED <<server, asked, troubles>>

\* An answer is taken.
Takes(i, op) ==
    /\ call[i].op = op /\ call[i].live /\ call[i].state # "sent"
    /\ UNCHANGED <<server, asked, troubles>>

Rest(i) == WithoutAt(call, i)

\* The API serves a call, with an answer.
Serves(i, answer) ==
    /\ call' = [call EXCEPT ![i].state = "ok", ![i].answer = answer]
    /\ UNCHANGED <<view, past, asked, troubles>>

\* The API refuses a call that it may always refuse: the session is over, the
\* role has changed.
Refuses(i) ==
    /\ call[i].state = "sent" /\ troubles < MaxTroubles
    /\ call' = [call EXCEPT ![i].state = "error"]
    /\ troubles' = troubles + 1
    /\ UNCHANGED <<view, server, past, asked>>

\* The API refuses a call whose row is not there.
NotFound(i) ==
    /\ call' = [call EXCEPT ![i].state = "error"]
    /\ UNCHANGED <<view, server, past, asked, troubles>>

Breaks(i) ==
    /\ call[i].state \in {"sent", "ok"} /\ troubles < MaxTroubles
    /\ call' = [call EXCEPT ![i].state = "thrown"]
    /\ troubles' = troubles + 1
    /\ UNCHANGED <<view, server, past, asked>>

\* Nobody waits for this answer any more: setting the state of a component that
\* is gone does nothing.
Drops(i) ==
    /\ ~call[i].live /\ call[i].state # "sent"
    /\ call' = Rest(i)
    /\ UNCHANGED <<view, server, past, asked, troubles>>
=============================================================================
