--------------------------- MODULE DiscoveryDeck ---------------------------
(***************************************************************************)
(* The deck of idea discovery in one browser tab (apps/web, ideas).  A     *)
(* card leaves the deck as soon as its member reacts to it, while the call *)
(* goes on; it comes back if the call fails.  The answers arrive in any    *)
(* order, and the member may have moved to another organization, or to     *)
(* another and back, before they do.                                       *)
(*                                                                         *)
(* The server is what IdeaDiscovery describes, seen by one member: a first *)
(* reaction to a card stands, and the version of a profile is the number   *)
(* of its resets and the reactions counted since the last one.             *)
(***************************************************************************)
EXTENDS Integers, FiniteSets, Sequences, Functions

CONSTANTS
    Org,        \* organizations of the member
    Batch,      \* the cards of an organization are numbered 1..Batch
    Reaction,   \* among LIKE, SKIP, DISLIKE, and REASON for a DISLIKE with a reason
    MaxCalls    \* bound of the model on the calls that are made

VARIABLES
    slug,       \* organizationSlug
    epoch,      \* requestEpochRef
    feed,       \* the feed on screen
    pending,    \* pendingCandidateIdsRef
    count,      \* pendingFeedbackCount
    ui,         \* the flags of the component, and the card the reasons are shown for
    call,       \* the calls that have been made
    server,     \* the profiles, the reactions, and how many cards were generated
    seen,       \* history: the cards shown since the organization was chosen
    done,       \* history: the cards whose reaction was confirmed since then
    visited,    \* history: the organizations chosen so far
    again,      \* history: one was chosen a second time
    blurred     \* history: a profile may be on screen that is not the last one

screen == <<slug, epoch, feed, pending, count, ui>>

vars == <<slug, epoch, feed, pending, count, ui, call, server, seen, done, visited, again,
          blurred>>

Card == Org \X (1..Batch)

Version == [reset : Nat, learned : Nat]

Before(v, w) == v.reset < w.reset \/ (v.reset = w.reset /\ v.learned < w.learned)

NoVersion == [reset |-> 0, learned |-> 0]

NoFeed == [there |-> FALSE, cards |-> <<>>, profile |-> NoVersion]

NoCard == <<>>

\* cards, profile: what the answer carries.  held: the profile of the empty feed
\* that load has received before it asks for a first selection.
Call == [kind : {"none", "load", "first", "generate", "react", "reset"}, org : Org, epoch : Nat,
         card : Card, reaction : Reaction, state : {"sent", "ok", "error", "done"},
         cards : Seq(Card), profile : Version, held : Version]

NoCall == [kind |-> "none", org |-> CHOOSE o \in Org : TRUE, epoch |-> 0,
           card |-> CHOOSE c \in Card : TRUE, reaction |-> CHOOSE r \in Reaction : TRUE,
           state |-> "done", cards |-> <<>>, profile |-> NoVersion,
           held |-> NoVersion]

Calls == 1..MaxCalls

TypeOK ==
    /\ slug \in Org /\ epoch \in Nat
    /\ feed \in [there : BOOLEAN, cards : Seq(Card), profile : Version]
    /\ pending \in SUBSET Card /\ count \in Nat
    /\ ui \in [loading : BOOLEAN, generating : BOOLEAN, resetting : BOOLEAN,
               rejecting : BOOLEAN, picked : Card \cup {NoCard}]
    /\ call \in [Calls -> Call]
    /\ server \in [Org -> [profile : Version, made : 0..Batch,
                           reacted : [1..Batch -> Reaction \cup {"NONE"}]]]
    /\ seen \in SUBSET Card /\ done \in SUBSET Card
    /\ visited \in SUBSET Org
    /\ again \in BOOLEAN /\ blurred \in BOOLEAN

-----------------------------------------------------------------------------
(* The server, and the network.                                            *)

\* The candidates without a reaction of the member, the newest first.
FeedOf(o, s) ==
    LET left == {n \in 1..s.made : s.reacted[n] = "NONE"}
    IN  CHOOSE cards \in [1..Cardinality(left) -> {o} \X left] :
            \A i, j \in DOMAIN cards : i < j => cards[i][2] > cards[j][2]

Learns(r) == r # "SKIP"

InFlight(i) == call[i].state \in {"sent", "ok", "error"}

Answers(i, cards, profile) ==
    call' = [call EXCEPT ![i].state = "ok", ![i].cards = cards, ![i].profile = profile]

Errors(i) == call' = [call EXCEPT ![i].state = "error"]

ServeLoad(i) ==
    /\ call[i].kind = "load"
    /\ LET o == call[i].org IN Answers(i, FeedOf(o, server[o]), server[o].profile)
    /\ UNCHANGED server

\* The AI has nothing new, or one more card.
ServeGenerate(i) ==
    /\ call[i].kind \in {"first", "generate"}
    /\ LET o == call[i].org
           s == [server[o] EXCEPT !.made = @ + 1]
       IN  /\ server[o].made < Batch
           /\ server' = [server EXCEPT ![o] = s]
           /\ Answers(i, FeedOf(o, s), s.profile)

\* The first reaction is stored; the same one again is confirmed, another one
\* is refused.
ServeReaction(i) ==
    /\ call[i].kind = "react"
    /\ LET o == call[i].org
           n == call[i].card[2]
           r == call[i].reaction
       IN  IF server[o].reacted[n] \in {"NONE", r}
           THEN LET s == [server[o] EXCEPT
                            !.reacted[n] = r,
                            !.profile.learned = IF server[o].reacted[n] = "NONE" /\ Learns(r)
                                                THEN @ + 1 ELSE @]
                IN  server' = [server EXCEPT ![o] = s] /\ Answers(i, <<>>, s.profile)
           ELSE Errors(i) /\ UNCHANGED server

ServeReset(i) ==
    /\ call[i].kind = "reset"
    /\ LET o == call[i].org
           v == [reset |-> server[o].profile.reset + 1, learned |-> 0]
       IN  server' = [server EXCEPT ![o].profile = v] /\ Answers(i, <<>>, v)

Serve(i) ==
    /\ call[i].state = "sent"
    /\ ServeLoad(i) \/ ServeGenerate(i) \/ ServeReaction(i) \/ ServeReset(i)
    /\ UNCHANGED <<screen, seen, done, visited, again, blurred>>

\* requestIdeaDiscovery turns whatever the network does into an error, whether
\* the server has served the call or not.
Loses(i) ==
    /\ call[i].state \in {"sent", "ok"}
    /\ Errors(i)
    /\ blurred' = (blurred \/ (call[i].state = "ok" /\ call[i].kind \in {"react", "reset"}))
    /\ UNCHANGED <<screen, server, seen, done, visited, again>>

-----------------------------------------------------------------------------
(* The component.                                                          *)

Quiet == \A i \in Calls : ~InFlight(i)

NewCall(kind, o, e, card, reaction) ==
    [NoCall EXCEPT !.kind = kind, !.org = o, !.epoch = e, !.card = card,
                   !.reaction = reaction, !.state = "sent"]

\* The next call, in a table in which none is free again.
Sends(table, c) ==
    \E i \in Calls :
        /\ table[i].kind = "none" /\ \A j \in Calls : j < i => table[j].kind # "none"
        /\ call' = [table EXCEPT ![i] = c]

Asks(kind, card, reaction) ==
    Sends(call, NewCall(kind, slug, epoch, card, reaction))

Received(i) == [call EXCEPT ![i].state = "done"]

Clear == [loading |-> TRUE, generating |-> FALSE, resetting |-> FALSE, rejecting |-> FALSE,
          picked |-> NoCard]

Init ==
    /\ slug \in Org /\ epoch = 1
    /\ feed = NoFeed /\ pending = {} /\ count = 0 /\ ui = Clear
    /\ call = [[i \in Calls |-> NoCall] EXCEPT
                 ![1] = NewCall("load", slug, 1, NoCall.card, NoCall.reaction)]
    /\ \E n \in 0..Batch :
        server = [o \in Org |-> [profile |-> NoVersion, made |-> n,
                                 reacted |-> [m \in 1..Batch |-> "NONE"]]]
    /\ seen = {} /\ done = {} /\ visited = {slug}
    /\ again = FALSE /\ blurred = FALSE

\* The effect of a change of organizationSlug, up to its call.
Switch(o) ==
    /\ o # slug
    /\ slug' = o /\ epoch' = epoch + 1
    /\ feed' = NoFeed /\ pending' = {} /\ count' = 0 /\ ui' = Clear
    /\ Sends(call, NewCall("load", o, epoch + 1, NoCall.card, NoCall.reaction))
    /\ seen' = {} /\ done' = {}
    /\ visited' = visited \cup {o}
    /\ again' = (again \/ o \in visited)
    /\ blurred' = (blurred \/ ~Quiet)
    /\ UNCHANGED server

Shows(i) == IF call[i].state = "ok"
            THEN [there |-> TRUE, cards |-> call[i].cards, profile |-> call[i].profile]
            ELSE [there |-> TRUE, cards |-> <<>>, profile |-> call[i].held]

Takes(i) ==
    /\ feed' = Shows(i)
    /\ seen' = seen \cup Range(feed'.cards)

\* load is over when the component has unmounted or changed organization.
IsMounted(i) == call[i].epoch = epoch

LoadAnswer(i) ==
    /\ call[i].kind = "load" /\ call[i].state \in {"ok", "error"}
    /\ IF ~IsMounted(i)
       THEN call' = Received(i) /\ UNCHANGED <<feed, ui, seen>>
       ELSE \/ /\ call[i].state = "error"
               /\ ui' = [ui EXCEPT !.loading = FALSE]
               /\ call' = Received(i)
               /\ UNCHANGED <<feed, seen>>
            \/ /\ call[i].state = "ok" /\ call[i].cards # <<>>
               /\ ui' = [ui EXCEPT !.loading = FALSE]
               /\ call' = Received(i)
               /\ Takes(i)
            \/ /\ call[i].state = "ok" /\ call[i].cards = <<>>
               /\ ui' = [ui EXCEPT !.generating = TRUE]
               /\ Sends(Received(i), [NewCall("first", slug, epoch, NoCall.card, NoCall.reaction)
                                        EXCEPT !.held = call[i].profile])
               /\ UNCHANGED <<feed, seen>>
    /\ UNCHANGED <<slug, epoch, pending, count, server, done, visited, again, blurred>>

\* The second call of load; if it fails the empty feed of the first is shown.
FirstAnswer(i) ==
    /\ call[i].kind = "first" /\ call[i].state \in {"ok", "error"}
    /\ call' = Received(i)
    /\ IF ~IsMounted(i)
       THEN UNCHANGED <<feed, ui, seen>>
       ELSE /\ ui' = [ui EXCEPT !.loading = FALSE, !.generating = FALSE]
            /\ Takes(i)
    /\ UNCHANGED <<slug, epoch, pending, count, server, done, visited, again, blurred>>

\* generateNewSelection, when no card is left, or no feed could be loaded.
GenerateNewSelection ==
    /\ ~ui.loading /\ feed.cards = <<>>
    /\ ~ui.generating /\ count = 0
    /\ ui' = [ui EXCEPT !.generating = TRUE, !.rejecting = FALSE, !.picked = NoCard]
    /\ Asks("generate", NoCall.card, NoCall.reaction)
    /\ blurred' = (blurred \/ ~Quiet)
    /\ UNCHANGED <<slug, epoch, feed, pending, count, server, seen, done, visited, again>>

\* organizationSlugRef: a selection or a reset concerns any visit.
OnScreen(i) == call[i].org = slug

GenerateAnswer(i) ==
    /\ call[i].kind = "generate" /\ call[i].state \in {"ok", "error"}
    /\ call' = Received(i)
    /\ IF ~OnScreen(i)
       THEN UNCHANGED <<feed, ui, seen>>
       ELSE /\ ui' = [ui EXCEPT !.generating = FALSE]
            /\ IF call[i].state = "ok" THEN Takes(i) ELSE UNCHANGED <<feed, seen>>
    /\ UNCHANGED <<slug, epoch, pending, count, server, done, visited, again, blurred>>

\* "Pas pour nous" and "Annuler" on the card that is shown.
OpenReasons ==
    /\ ~ui.loading /\ feed.cards # <<>> /\ ~ui.rejecting /\ "REASON" \in Reaction
    /\ ui' = [ui EXCEPT !.rejecting = TRUE, !.picked = Head(feed.cards)]
    /\ UNCHANGED <<slug, epoch, feed, pending, count, call, server, seen, done, visited, again,
                   blurred>>

CancelReasons ==
    /\ ~ui.loading /\ feed.cards # <<>> /\ ui.rejecting
    /\ ui' = [ui EXCEPT !.rejecting = FALSE, !.picked = NoCard]
    /\ UNCHANGED <<slug, epoch, feed, pending, count, call, server, seen, done, visited, again,
                   blurred>>

\* removeDiscoveryCandidate, of a deck whose cards differ.
Without(cards, card) ==
    LET i == CHOOSE i \in 1..Len(cards) :
                 cards[i] = card /\ \A j \in 1..(i - 1) : cards[j] # card
    IN  SubSeq(cards, 1, i - 1) \o SubSeq(cards, i + 1, Len(cards))

MayReact(card) == card \notin pending

\* sendFeedback, up to its call: a swipe, a button, or a reason confirmed.
SendFeedback(r) ==
    /\ ~ui.loading /\ feed.cards # <<>>
    /\ IF r \in {"REASON", "DISLIKE"} THEN TRUE ELSE ~ui.rejecting
    /\ r = "REASON" => ui.rejecting
    /\ LET card == Head(feed.cards)
       IN  /\ MayReact(card)
           /\ pending' = pending \cup {card}
           /\ count' = count + 1
           /\ feed' = [feed EXCEPT !.cards = Without(@, card)]
           /\ Asks("react", card, r)
    /\ ui' = [ui EXCEPT !.rejecting = FALSE, !.picked = NoCard]
    /\ blurred' = (blurred \/ \E i \in Calls : InFlight(i) /\ call[i].kind # "react")
    /\ UNCHANGED <<slug, epoch, server, seen, done, visited, again>>

\* Mutant of Concerns: the answer of an earlier visit counts for this one.
Concerns_SameOrganization(i) == call[i].org = slug

Concerns(i) == call[i].org = slug /\ call[i].epoch = epoch

\* restoreDiscoveryCandidate
Restored(cards, card) == IF card \in Range(cards) THEN cards ELSE <<card>> \o cards

\* Mutant of IsOlder: the last answer to arrive is the one that counts.
IsOlder_Never(v, w) == FALSE

IsOlder(v, w) == Before(v, w)

\* mergeCanonicalDiscoveryProfile
Merged(current, v) == IF IsOlder(v, current) THEN current ELSE v

\* A rejection that failed is given back with its reasons open; any other
\* failure closes those of the card it covers.
ReasonsReopen(i) == call[i].reaction = "REASON"

FeedbackAnswer(i) ==
    /\ call[i].kind = "react" /\ call[i].state \in {"ok", "error"}
    /\ call' = Received(i)
    /\ IF ~Concerns(i)
       THEN UNCHANGED <<feed, ui, done, pending, count>>
       ELSE /\ IF call[i].state = "error"
               THEN /\ feed' = [feed EXCEPT !.cards = IF feed.there THEN Restored(@, call[i].card)
                                                                    ELSE @]
                    /\ ui' = [ui EXCEPT !.rejecting = ReasonsReopen(i),
                                        !.picked = IF call[i].reaction = "REASON"
                                                   THEN call[i].card ELSE NoCard]
                    /\ UNCHANGED done
               ELSE /\ feed' = [feed EXCEPT !.profile = Merged(@, call[i].profile)]
                    /\ done' = done \cup {call[i].card}
                    /\ UNCHANGED ui
            /\ pending' = pending \ {call[i].card}
            /\ count' = IF count = 0 THEN 0 ELSE count - 1
    /\ UNCHANGED <<slug, epoch, server, seen, visited, again, blurred>>

\* resetPreferences, from a dialog that opens when there is something to reset.
ResetPreferences ==
    /\ ~ui.loading /\ feed.there /\ feed.profile.learned > 0
    /\ ~ui.resetting /\ count = 0
    /\ ui' = [ui EXCEPT !.resetting = TRUE]
    /\ Asks("reset", NoCall.card, NoCall.reaction)
    /\ blurred' = (blurred \/ ~Quiet)
    /\ UNCHANGED <<slug, epoch, feed, pending, count, server, seen, done, visited, again>>

\* The profile of the answer is shown whatever was shown before.
ResetAnswer(i) ==
    /\ call[i].kind = "reset" /\ call[i].state \in {"ok", "error"}
    /\ call' = Received(i)
    /\ IF ~OnScreen(i)
       THEN UNCHANGED <<feed, ui>>
       ELSE /\ ui' = [ui EXCEPT !.resetting = FALSE]
            /\ feed' = IF call[i].state = "ok" /\ feed.there
                       THEN [feed EXCEPT !.profile = call[i].profile] ELSE feed
    /\ UNCHANGED <<slug, epoch, pending, count, server, seen, done, visited, again, blurred>>

Next ==
    \/ \E o \in Org : Switch(o)
    \/ \E i \in Calls :
        \/ Serve(i) \/ Loses(i)
        \/ LoadAnswer(i) \/ FirstAnswer(i) \/ GenerateAnswer(i) \/ FeedbackAnswer(i)
        \/ ResetAnswer(i)
    \/ GenerateNewSelection \/ OpenReasons \/ CancelReasons \/ ResetPreferences
    \/ \E r \in Reaction : SendFeedback(r)

Spec == Init /\ [][Next]_vars

-----------------------------------------------------------------------------
(* Properties.                                                             *)

\* The calls that the badge "en cours" is about.
Live == {i \in Calls : call[i].kind = "react" /\ InFlight(i) /\ call[i].epoch = epoch}

\* docs/implementation/spec-fluid-idea-discovery-ui.md:21: the reactions under
\* way are counted, a card is not sent twice, and the answers of an
\* organization that was left are ignored, also when it is chosen again.
CountIsPending ==
    /\ count = Cardinality(Live)
    /\ pending = {call[i].card : i \in Live}
    /\ Cardinality(pending) = count

\* docs/implementation/spec-fluid-idea-discovery-ui.md:65: a failure gives back
\* the card it is about and no other.  Every card that was shown is in the
\* deck, on its way or confirmed, and in one of them only, however the answers
\* are ordered; a second visit, which a late selection can reach, is left out.
EachCardOnce ==
    ~again =>
        /\ feed.there => seen \subseteq Range(feed.cards) \cup pending \cup done
        /\ IsInjective(feed.cards)
        /\ Range(feed.cards) \cap (pending \cup done) = {}
        /\ pending \cap done = {}

\* The reasons that are open are about the card that is on top, also after a
\* failure has put another card there.
ReasonsForTopCard ==
    ~again /\ ui.rejecting => feed.cards # <<>> /\ ui.picked = Head(feed.cards)

\* When nothing is under way the profile on screen is that of the server,
\* whatever the order in which the answers to the reactions arrived: unless an
\* answer was lost, or a reset or a selection crossed another call.
ShownIsServers ==
    Quiet /\ feed.there /\ ~blurred => feed.profile = server[slug].profile

\* The screen waits only for a call that is under way.
WaitsForCall ==
    /\ ui.loading => \E i \in Calls : InFlight(i) /\ call[i].kind \in {"load", "first"} /\ IsMounted(i)
    /\ ui.generating => \E i \in Calls : InFlight(i) /\ call[i].kind \in {"first", "generate"}
                                            /\ call[i].org = slug
    /\ ui.resetting => \E i \in Calls : InFlight(i) /\ call[i].kind = "reset" /\ call[i].org = slug
=============================================================================
