----------------------------- MODULE MembersPage -----------------------------
(***************************************************************************)
(* The page of the members (apps/web, members-list): the team, the pending *)
(* invitations, and what an administrator does to them.  A change is       *)
(* followed by the reading of the team again, whose refusal takes the page *)
(* away: so it goes for the administrator that has demoted itself.         *)
(* What the API does in detail is in TeamInvitations.                      *)
(***************************************************************************)
EXTENDS ScreenCalls

CONSTANTS
    Me,         \* the administrator before the screen
    Other,      \* the other members
    Address     \* addresses that may be invited

Role == {"ADMIN", "READER"}

Member == {Me} \cup Other

None == "none"

NoKey == [op |-> "none", of |-> "-"]

Team == [roles : [Member -> Role \cup {None}], pending : SUBSET Address]

View == [status : {"loading", "ready", "denied", "error"}, shown : Team,
         busy : [op : {"none", "invite", "member", "invitation"}, of : Member \cup Address \cup {"-"}]]

\* As for the pages of the automations.
Past == [readings : Nat, newest : Nat, stale : BOOLEAN, stuck : BOOLEAN]

TypeOK ==
    /\ view \in View /\ past \in Past /\ server \in Team
    /\ asked \in Nat /\ troubles \in Nat

Init ==
    /\ \E others \in [Other -> Role \cup {None}], pending \in SUBSET Address :
        server = [roles |-> [m \in Member |-> IF m = Me THEN "ADMIN" ELSE others[m]],
                  pending |-> pending]
    /\ view = [status |-> "loading", busy |-> NoKey,
               shown |-> [roles |-> [m \in Member |-> None], pending |-> {}]]
    /\ call = <<Call("load", 0)>>
    /\ past = [readings |-> 0, newest |-> 0, stale |-> FALSE, stuck |-> FALSE]
    /\ asked = 0 /\ troubles = 0

-----------------------------------------------------------------------------
(* The API: every request is for administrators.                           *)

Writes(i, s) == server' = s /\ Serves(i, <<>>)

ListTeam(i) == call[i].op = "load" /\ Serves(i, server) /\ UNCHANGED server

Invite(i) ==
    call[i].op = "invite" /\ Writes(i, [server EXCEPT !.pending = @ \cup {call[i].arg.of}])

\* resend makes the invitation again; revoke removes it.
AnswerInvitation(i) ==
    /\ call[i].op \in {"resend", "revoke"}
    /\ IF call[i].arg.of \notin server.pending THEN NotFound(i)
       ELSE Writes(i, [server EXCEPT
                !.pending = IF call[i].op = "revoke" THEN @ \ {call[i].arg.of} ELSE @])

\* A role, or a removal; the last administrator stays.
ChangeMember(i) ==
    LET x     == call[i].arg.of
        roles == [server.roles EXCEPT ![x] = call[i].arg.role]
    IN  /\ call[i].op = "member"
        /\ IF server.roles[x] # None /\ \E m \in Member : roles[m] = "ADMIN"
           THEN Writes(i, [server EXCEPT !.roles = roles])
           ELSE NotFound(i)

Serve(i) ==
    /\ call[i].state = "sent"
    /\ IF server.roles[Me] = "ADMIN"
       THEN ListTeam(i) \/ Invite(i) \/ AnswerInvitation(i) \/ ChangeMember(i)
       ELSE call' = [call EXCEPT ![i].state = "forbidden"]
            /\ UNCHANGED <<view, server, past, asked, troubles>>

\* An invitation is accepted.
JoinsElsewhere ==
    /\ asked < MaxAsked /\ asked' = asked + 1
    /\ \E a \in server.pending, m \in Other :
        /\ server.roles[m] = None
        /\ server' = [roles |-> [server.roles EXCEPT ![m] = "READER"],
                      pending |-> server.pending \ {a}]
    /\ past' = [past EXCEPT !.stale = TRUE]
    /\ UNCHANGED <<view, call, troubles>>

-----------------------------------------------------------------------------
(* What the administrator does.                                            *)

Starts(key, op, arg) ==
    /\ Asks /\ view.status = "ready"
    /\ view' = [view EXCEPT !.busy = key]
    /\ call' = Append(call, Call(op, arg))
    /\ UNCHANGED past

\* The invitations wait for everything.
MayInvite == view.busy = NoKey

HandleInvite ==
    MayInvite /\ \E a \in Address : Starts([op |-> "invite", of |-> "-"], "invite", [of |-> a])

OnInvitation(op) ==
    MayInvite /\ \E a \in view.shown.pending :
        Starts([op |-> "invitation", of |-> a], op, [of |-> a])

HandleResend == OnInvitation("resend")

HandleRevoke == OnInvitation("revoke")

\* A member waits for its own change only.
OnMember(role) ==
    \E m \in Member :
        LET key == [op |-> "member", of |-> m]
        IN  /\ view.shown.roles[m] \notin {None, role} /\ view.busy # key
            /\ Starts(key, "member", [of |-> m, role |-> role])

HandleRole == \E r \in Role : OnMember(r)

HandleRemove == OnMember(None)

-----------------------------------------------------------------------------
(* What the answers do.                                                    *)

Throws(i) ==
    /\ call[i].state = "thrown" /\ call' = Rest(i)
    /\ past' = [past EXCEPT !.stale = TRUE, !.stuck = TRUE]
    /\ UNCHANGED view

\* The key is freed, whoever holds it; then the team is read again.
ChangeAnswer(i) ==
    /\ call[i].op # "load" /\ Takes(i, call[i].op)
    /\ \/ /\ call[i].state = "ok"
          /\ view' = [view EXCEPT !.busy = NoKey]
          /\ call' = Append(Rest(i), Call("load", past.readings + 1))
          /\ past' = [past EXCEPT !.readings = @ + 1]
       \/ /\ call[i].state \in {"error", "forbidden"} /\ call' = Rest(i)
          /\ view' = [view EXCEPT !.busy = NoKey] /\ UNCHANGED past
       \/ Throws(i)

\* The first reading and the others are the same; a refusal takes the page away
\* until a later reading.
Load(i) ==
    /\ Takes(i, "load")
    /\ \/ /\ call[i].state = "ok" /\ call' = Rest(i)
          /\ view' = [view EXCEPT !.status = "ready", !.shown = call[i].answer]
          /\ past' = [past EXCEPT !.newest = call[i].arg,
                                  !.stale = @ \/ call[i].arg < past.newest]
       \/ /\ call[i].state \in {"error", "forbidden"} /\ call' = Rest(i)
          /\ view' = [view EXCEPT !.status = IF call[i].state = "error" THEN "error" ELSE "denied"]
          /\ past' = [past EXCEPT !.newest = call[i].arg,
                                  !.stale = @ \/ call[i].arg < past.newest]
       \/ Throws(i)

Administrator == HandleInvite \/ HandleResend \/ HandleRevoke \/ HandleRole \/ HandleRemove

Next ==
    \/ Administrator \/ JoinsElsewhere
    \/ \E i \in DOMAIN call :
        Serve(i) \/ Refuses(i) \/ Breaks(i) \/ ChangeAnswer(i) \/ Load(i)

Spec == Init /\ [][Next]_screenVars

-----------------------------------------------------------------------------

\* At rest the page shows the team of the organization, to an administrator, unless
\* an invitation was accepted, an answer was lost or a reading was shown after a
\* later one.
ShowsTheTeam ==
    call = <<>> /\ ~past.stale =>
        /\ view.status = "ready" => view.shown = server
        /\ view.status = "ready" => server.roles[Me] = "ADMIN"
        /\ view.status = "denied" => server.roles[Me] # "ADMIN"

\* The page waits only for a change under way, unless one threw.
WaitsForCall ==
    ~past.stuck =>
        /\ view.status = "loading" => Under({"load"})
        /\ view.busy # NoKey => Under({"invite", "resend", "revoke", "member"})
=============================================================================
