---------------------------- MODULE ProfileScreen ----------------------------
(***************************************************************************)
(* The account on screen (apps/web, settings/profile-settings, and the bar *)
(* of the shell that shows the name): its name, its password, the end of   *)
(* the session and the deletion.  Unlike on the other screens a request    *)
(* that throws is an error like another (requestAccountApi, try), so       *)
(* nothing waits for ever.  The API is in Accounts; here another tab       *)
(* changes the name or the password.                                       *)
(***************************************************************************)
EXTENDS ScreenCalls

CONSTANT Name

NoName == "-"

\* shown: the profile; typed: the field of the form, which keeps its own text;
\* bar: the name that the shell shows.
View == [shown : Name \cup {NoName}, typed : Name \cup {NoName}, bar : Name,
         loading : BOOLEAN, failed : BOOLEAN, saving : BOOLEAN, changing : BOOLEAN,
         deleting : BOOLEAN, asking : BOOLEAN, gone : BOOLEAN]

\* The account: its name, its password by a number, whether it is there.
Account == [name : Name, password : Nat, there : BOOLEAN]

\* edited: the field was changed since the form was made.  stale: the name was
\* changed elsewhere, or an answer was lost.
Past == [edited : BOOLEAN, stale : BOOLEAN]

TypeOK ==
    /\ view \in View /\ server \in Account /\ past \in Past
    /\ asked \in Nat /\ troubles \in Nat

Init ==
    /\ \E n \in Name :
        /\ server = [name |-> n, password |-> 1, there |-> TRUE]
        /\ view = [shown |-> NoName, typed |-> NoName, bar |-> n, loading |-> TRUE,
                   failed |-> FALSE, saving |-> FALSE, changing |-> FALSE, deleting |-> FALSE,
                   asking |-> FALSE, gone |-> FALSE]
    /\ call = <<Call("load", <<>>)>>
    /\ past = [edited |-> FALSE, stale |-> FALSE]
    /\ asked = 0 /\ troubles = 0

-----------------------------------------------------------------------------
(* The API: the session of an account that is gone is refused.             *)

GetProfile(i) == call[i].op = "load" /\ Serves(i, server.name) /\ UNCHANGED server

UpdateProfile(i) ==
    /\ call[i].op = "save"
    /\ server' = [server EXCEPT !.name = call[i].arg] /\ Serves(i, call[i].arg)

\* A password that was changed by another request since this one was sent, or that
\* the member does not know, is refused (Refuses).
ChangePassword(i) ==
    /\ call[i].op = "password"
    /\ IF call[i].arg = server.password
       THEN server' = [server EXCEPT !.password = @ + 1] /\ Serves(i, <<>>)
       ELSE NotFound(i)

Logout(i) == call[i].op = "logout" /\ Serves(i, <<>>) /\ UNCHANGED server

DeleteAccount(i) ==
    call[i].op = "delete" /\ server' = [server EXCEPT !.there = FALSE] /\ Serves(i, <<>>)

Serve(i) ==
    /\ call[i].state = "sent"
    /\ IF server.there \/ call[i].op = "logout"
       THEN \/ GetProfile(i) \/ UpdateProfile(i) \/ ChangePassword(i) \/ Logout(i)
            \/ DeleteAccount(i)
       ELSE call' = [call EXCEPT ![i].state = "unauthorized"]
            /\ UNCHANGED <<view, server, past, asked, troubles>>

ChangedElsewhere ==
    /\ server.there /\ asked < MaxAsked /\ asked' = asked + 1
    /\ \/ /\ \E n \in Name \ {server.name} : server' = [server EXCEPT !.name = n]
          /\ past' = [past EXCEPT !.stale = TRUE]
       \/ server' = [server EXCEPT !.password = @ + 1] /\ UNCHANGED past
    /\ UNCHANGED <<view, call, troubles>>

-----------------------------------------------------------------------------
(* What the member does.                                                   *)

\* The profile is on screen.
IsOpen == ~view.loading /\ ~view.failed /\ view.shown # NoName

Sends(op, arg, v) ==
    /\ Asks /\ view' = v /\ call' = Append(call, Call(op, arg))
    /\ UNCHANGED past

\* "Réessayer": the field is made again with the profile.
Retry ==
    /\ ~view.loading /\ ~IsOpen
    /\ Sends("load", <<>>, [view EXCEPT !.loading = TRUE, !.failed = FALSE])

TypeName ==
    /\ Asks /\ IsOpen /\ ~view.asking
    /\ \E n \in Name \ {view.typed} : view' = [view EXCEPT !.typed = n]
    /\ past' = [past EXCEPT !.edited = TRUE]
    /\ UNCHANGED call

HandleProfileSubmit ==
    /\ IsOpen /\ ~view.asking /\ ~view.saving
    /\ Sends("save", view.typed, [view EXCEPT !.saving = TRUE])

\* The password that is current when the member types it.
HandlePasswordSubmit ==
    /\ IsOpen /\ ~view.asking /\ ~view.changing
    /\ Sends("password", server.password, [view EXCEPT !.changing = TRUE])

\* Nothing says that a logout is under way.
HandleLogout == IsOpen /\ ~view.asking /\ Sends("logout", <<>>, view)

\* The dialog before a deletion; it stays while the account is being deleted.
Ask ==
    /\ Asks /\ IsOpen /\ ~view.deleting
    /\ view' = [view EXCEPT !.asking = ~@]
    /\ UNCHANGED <<call, past>>

HandleDeleteAccount ==
    /\ IsOpen /\ view.asking /\ ~view.deleting
    /\ Sends("delete", <<>>, [view EXCEPT !.deleting = TRUE])

-----------------------------------------------------------------------------
(* What the answers do.                                                    *)

\* A change whose answer was lost may have been made.
MayBeMade(i) == [past EXCEPT !.stale = @ \/ call[i].state = "thrown"]

IsRefused(i) == call[i].state \in {"error", "thrown"}

\* readApiResponse leaves for the login when the session is refused.
Leaves(i) ==
    /\ call[i].state = "unauthorized" /\ call' = Rest(i)
    /\ call[i].live /\ view' = [view EXCEPT !.gone = TRUE]
    /\ UNCHANGED <<server, past, asked, troubles>>

LoadAnswer(i) ==
    /\ Takes(i, "load") /\ call' = Rest(i)
    /\ \/ /\ call[i].state = "ok"
          /\ view' = [view EXCEPT !.shown = call[i].answer, !.typed = call[i].answer,
                                  !.loading = FALSE]
          /\ past' = [past EXCEPT !.edited = FALSE]
       \/ /\ IsRefused(i)
          /\ view' = [view EXCEPT !.loading = FALSE, !.failed = TRUE] /\ UNCHANGED past

\* The form is made again when the name that it was made for has changed: what was
\* typed in the meantime is kept or lost accordingly.  The event tells the bar.
SaveAnswer(i) ==
    LET made == call[i].answer # view.shown
    IN  /\ Takes(i, "save") /\ call' = Rest(i)
        /\ \/ /\ call[i].state = "ok"
              /\ view' = [view EXCEPT !.shown = call[i].answer, !.bar = call[i].answer,
                                      !.saving = FALSE,
                                      !.typed = IF made THEN call[i].answer ELSE @]
              /\ past' = [past EXCEPT !.edited = @ /\ ~made]
           \/ IsRefused(i) /\ view' = [view EXCEPT !.saving = FALSE] /\ past' = MayBeMade(i)

PasswordAnswer(i) ==
    /\ Takes(i, "password") /\ call' = Rest(i)
    /\ call[i].state # "unauthorized"
    /\ view' = [view EXCEPT !.changing = FALSE]
    /\ UNCHANGED past

LogoutAnswer(i) ==
    /\ Takes(i, "logout") /\ call' = Rest(i)
    /\ view' = [view EXCEPT !.gone = call[i].state = "ok"]
    /\ UNCHANGED past

\* The account may be gone though the screen says that it could not be deleted.
DeleteAnswer(i) ==
    /\ Takes(i, "delete") /\ call' = Rest(i)
    /\ \/ /\ call[i].state = "ok"
          /\ view' = [view EXCEPT !.deleting = FALSE, !.asking = FALSE, !.gone = TRUE]
          /\ UNCHANGED past
       \/ IsRefused(i) /\ view' = [view EXCEPT !.deleting = FALSE] /\ past' = MayBeMade(i)

Member ==
    \/ Retry \/ TypeName \/ HandleProfileSubmit \/ HandlePasswordSubmit
    \/ HandleLogout \/ Ask \/ HandleDeleteAccount

Answer(i) ==
    \/ Leaves(i) \/ LoadAnswer(i) \/ SaveAnswer(i) \/ PasswordAnswer(i)
    \/ LogoutAnswer(i) \/ DeleteAnswer(i)

Next ==
    /\ ~view.gone
    /\ \/ Member \/ ChangedElsewhere
       \/ \E i \in DOMAIN call : Serve(i) \/ Refuses(i) \/ Breaks(i) \/ Answer(i)

Spec == Init /\ [][Next]_screenVars

-----------------------------------------------------------------------------

\* At rest the name on screen is the one stored, the form holds it unless it was
\* edited, the bar agrees with what was saved here, and the account is there,
\* unless the name was changed elsewhere or an answer was lost.
ShowsTheProfile ==
    call = <<>> /\ ~past.stale /\ ~view.gone =>
        /\ server.there
        /\ IsOpen => view.shown = server.name /\ view.bar = server.name
        /\ IsOpen /\ ~past.edited => view.typed = view.shown

\* The screen waits for the calls under way and for nothing else, even after one
\* threw; the dialog stays while the account is being deleted.
WaitsForCall ==
    ~view.gone =>
        /\ view.loading <=> Under({"load"})
        /\ view.saving <=> Under({"save"})
        /\ view.changing <=> Under({"password"})
        /\ view.deleting <=> Under({"delete"})
        /\ view.deleting => view.asking
=============================================================================
