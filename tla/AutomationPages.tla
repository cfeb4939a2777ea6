--------------------------- MODULE AutomationPages ---------------------------
(***************************************************************************)
(* The two pages of the automations (apps/web): the rules with the         *)
(* preference of the member, and the notifications; the recommendations    *)
(* are on both.  A change is followed by the reading of everything again.  *)
(* The pages hold one key for the change under way (busyKey): another may  *)
(* start before it has ended, and their readings may cross.  The handlers  *)
(* are those of apps/api, automations; meanwhile the jobs notify and       *)
(* recommend, and another administrator changes a rule.                    *)
(***************************************************************************)
EXTENDS ScreenCalls

CONSTANTS Note, Reco, Rule

NoKey == [op |-> "none", of |-> "-"]

Key == [op : {"read", "apply", "dismiss", "rule"}, of : Note \cup Reco \cup Rule]
         \cup {[op |-> "readAll", of |-> "-"], [op |-> "preference", of |-> "-"]}

\* The notifications that are there and those not read, the recommendations that
\* are open, the rules that are active.
Payload == [notes : SUBSET Note, unread : SUBSET Note, open : SUBSET Reco,
            active : SUBSET Rule, inApp : BOOLEAN]

\* taken: the last reading that was shown.
View == [page : {"notifications", "automations"}, there : BOOLEAN, shown : Payload,
         loading : BOOLEAN, busy : Key \cup {NoKey}, admin : BOOLEAN]

\* readings: how many were asked for.  stale: something changed elsewhere, an
\* answer was lost, or a reading was shown after a later one.
Past == [readings : Nat, newest : Nat, stale : BOOLEAN, stuck : BOOLEAN]

TypeOK ==
    /\ view \in View /\ past \in Past
    /\ server \in Payload /\ server.unread \subseteq server.notes
    /\ asked \in Nat /\ troubles \in Nat

Init ==
    /\ server \in {s \in Payload : s.unread = s.notes}
    /\ \E page \in {"notifications", "automations"}, admin \in BOOLEAN :
        view = [page |-> page, there |-> FALSE, loading |-> TRUE, busy |-> NoKey,
                admin |-> admin,
                shown |-> [notes |-> {}, unread |-> {}, open |-> {}, active |-> {},
                           inApp |-> TRUE]]
    /\ call = <<Call("load", 0)>>
    /\ past = [readings |-> 0, newest |-> 0, stale |-> FALSE, stuck |-> FALSE]
    /\ asked = 0 /\ troubles = 0

-----------------------------------------------------------------------------
(* The API.                                                                *)

GetState(i) == call[i].op \in {"load", "reload"} /\ Serves(i, server) /\ UNCHANGED server

Writes(i, s) == server' = s /\ Serves(i, <<>>)

\* A rule or a preference is given the value asked for, not its opposite.
Given(set, x, on) == IF on THEN set \cup {x} ELSE set \ {x}

UpdateRule(i) ==
    /\ call[i].op = "rule"
    /\ Writes(i, [server EXCEPT !.active = Given(@, call[i].arg.of, call[i].arg.on)])

UpdatePreferences(i) ==
    call[i].op = "preference" /\ Writes(i, [server EXCEPT !.inApp = call[i].arg.on])

MarkNotificationAsRead(i) ==
    call[i].op = "read" /\ Writes(i, [server EXCEPT !.unread = @ \ {call[i].arg.of}])

MarkAllNotificationsAsRead(i) ==
    call[i].op = "readAll" /\ Writes(i, [server EXCEPT !.unread = {}])

UpdateRecommendationStatus(i) ==
    /\ call[i].op \in {"apply", "dismiss"}
    /\ Writes(i, [server EXCEPT !.open = @ \ {call[i].arg.of}])

Serve(i) ==
    /\ call[i].state = "sent"
    /\ \/ GetState(i) \/ UpdateRule(i) \/ UpdatePreferences(i) \/ MarkNotificationAsRead(i)
       \/ MarkAllNotificationsAsRead(i) \/ UpdateRecommendationStatus(i)

\* A job notifies or recommends, another administrator changes a rule.
ChangedElsewhere ==
    /\ asked < MaxAsked /\ asked' = asked + 1
    /\ \/ \E n \in Note \ server.notes :
            server' = [server EXCEPT !.notes = @ \cup {n}, !.unread = @ \cup {n}]
       \/ \E r \in Reco \ server.open : server' = [server EXCEPT !.open = @ \cup {r}]
       \/ \E r \in Rule : server' = [server EXCEPT !.active = Given(@, r, r \notin @)]
    /\ past' = [past EXCEPT !.stale = TRUE]
    /\ UNCHANGED <<view, call, troubles>>

-----------------------------------------------------------------------------
(* What the member does.                                                   *)

IsOpen == view.there /\ ~view.loading

\* The button of a change waits for that change only, while no other was started.
Starts(op, x, on) ==
    LET key == [op |-> op, of |-> x]
    IN  /\ Asks /\ IsOpen /\ view.busy # key
        /\ view' = [view EXCEPT !.busy = key]
        /\ call' = Append(call, Call(op, [of |-> x, on |-> on]))
        /\ UNCHANGED past

OnNotifications == view.page = "notifications"

OnAutomations == view.page = "automations"

HandleRead ==
    OnNotifications /\ \E n \in view.shown.unread : Starts("read", n, FALSE)

HandleReadAll ==
    OnNotifications /\ view.shown.unread # {} /\ Starts("readAll", "-", FALSE)

\* One key for the two answers to a recommendation.
Answers(r) ==
    /\ view.busy \notin {[op |-> "apply", of |-> r], [op |-> "dismiss", of |-> r]}
    /\ \E op \in {"apply", "dismiss"} : Starts(op, r, FALSE)

HandleRecommendationStatus == OnNotifications /\ \E r \in view.shown.open : Answers(r)

HandleRecommendation == OnAutomations /\ \E r \in view.shown.open : Answers(r)

\* The status that is not the one on screen.
HandleToggleRule ==
    OnAutomations /\ view.admin /\ \E r \in Rule : Starts("rule", r, r \notin view.shown.active)

HandlePreference == OnAutomations /\ Starts("preference", "-", ~view.shown.inApp)

-----------------------------------------------------------------------------
(* What the answers do.                                                    *)

Changes == {"read", "readAll", "apply", "dismiss", "rule", "preference"}

Throws(i) ==
    /\ call[i].state = "thrown" /\ call' = Rest(i)
    /\ past' = [past EXCEPT !.stale = TRUE, !.stuck = TRUE]
    /\ UNCHANGED view

LoadAnswer(i) ==
    /\ Takes(i, "load")
    /\ \/ /\ call[i].state = "ok" /\ call' = Rest(i)
          /\ view' = [view EXCEPT !.there = TRUE, !.shown = call[i].answer, !.loading = FALSE]
          /\ UNCHANGED past
       \/ /\ call[i].state = "error" /\ call' = Rest(i)
          /\ view' = [view EXCEPT !.loading = FALSE] /\ UNCHANGED past
       \/ Throws(i)

\* The key is freed, whoever holds it; then everything is read again.
ChangeAnswer(i) ==
    /\ call[i].op \in Changes /\ Takes(i, call[i].op)
    /\ \/ /\ call[i].state = "ok"
          /\ view' = [view EXCEPT !.busy = NoKey]
          /\ call' = Append(Rest(i), Call("reload", past.readings + 1))
          /\ past' = [past EXCEPT !.readings = @ + 1]
       \/ /\ call[i].state = "error" /\ call' = Rest(i)
          /\ view' = [view EXCEPT !.busy = NoKey] /\ UNCHANGED past
       \/ Throws(i)

\* Nothing tells a reading from a later one.
ReloadAnswer(i) ==
    /\ Takes(i, "reload") /\ call' = Rest(i)
    /\ IF call[i].state = "ok"
       THEN /\ view' = [view EXCEPT !.shown = call[i].answer]
            /\ past' = [past EXCEPT !.newest = call[i].arg,
                                    !.stale = @ \/ call[i].arg < past.newest]
       ELSE past' = [past EXCEPT !.stale = TRUE] /\ UNCHANGED view

Member ==
    \/ HandleRead \/ HandleReadAll \/ HandleRecommendationStatus
    \/ HandleRecommendation \/ HandleToggleRule \/ HandlePreference

Answer(i) == LoadAnswer(i) \/ ChangeAnswer(i) \/ ReloadAnswer(i)

Next ==
    \/ Member \/ ChangedElsewhere
    \/ \E i \in DOMAIN call : Serve(i) \/ Refuses(i) \/ Breaks(i) \/ Answer(i)

Spec == Init /\ [][Next]_screenVars

-----------------------------------------------------------------------------

\* At rest a page shows what the API holds, unless something changed elsewhere, an
\* answer was lost or a reading was shown after a later one.
ShowsTheAutomations ==
    call = <<>> /\ view.there /\ ~past.stale => view.shown = server

\* The page waits only for a change under way, unless one threw.
WaitsForCall ==
    ~past.stuck =>
        /\ view.loading <=> Under({"load"})
        /\ view.busy # NoKey => \E i \in DOMAIN call :
            call[i].op = view.busy.op /\ call[i].arg.of = view.busy.of
=============================================================================
