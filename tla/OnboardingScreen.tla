-------------------------- MODULE OnboardingScreen --------------------------
(***************************************************************************)
(* The onboarding on screen (apps/web, onboarding): the first organization *)
(* of a new member, its editorial context, by hand or from a preset, and   *)
(* the dashboard.  Every answer brings the whole state of the onboarding,  *)
(* which the screen shows in the place of the former one.  Meanwhile the   *)
(* member may be taken into an organization, and another member may write  *)
(* the context (apps/api, onboarding; the steps of the advanced onboarding *)
(* are in Onboarding).                                                     *)
(***************************************************************************)
EXTENDS ScreenCalls

CONSTANTS Org, Role

None == "none"

Context == {"NONE", "OWN", "PRESET"}

\* What an answer brings; active is None for a member of no organization.
Payload == [active : Org \cup {None}, role : Role, context : Context, skipped : BOOLEAN,
            done : BOOLEAN]

\* status: gone when the member went to the dashboard.
View == [status : {"loading", "ready", "error", "gone"}, payload : Payload,
         submitting : BOOLEAN, editing : BOOLEAN]

\* stale: what is shown may not be what the API holds.  stuck: an answer never
\* came.  freed: a guest's answer freed the screen while it waited for another.
Past == [stale : BOOLEAN, stuck : BOOLEAN, freed : BOOLEAN]

\* joined: in the order of the memberships; role: the one given there.
TypeOK ==
    /\ view \in View /\ past \in Past
    /\ server.role \in [Org -> Role] /\ server.context \in [Org -> Context]
    /\ server.joined \in Seq(Org) /\ server.skipped \subseteq Org /\ server.done \in BOOLEAN
    /\ asked \in Nat /\ troubles \in Nat

-----------------------------------------------------------------------------
(* The API.                                                                *)

\* resolveActiveOrganization: the one asked for, or the first with a context, or
\* the first.
Active(preferred) ==
    LET ready == SelectSeq(server.joined, LAMBDA o : server.context[o] # "NONE")
    IN  IF preferred \in ItemsOf(server.joined) THEN preferred
        ELSE IF ready # <<>> THEN ready[1]
        ELSE IF server.joined # <<>> THEN server.joined[1] ELSE None

Nobody == [active |-> None, role |-> "READER", context |-> "NONE", skipped |-> FALSE]

\* getState: a member of no organization is done when it has skipped.
State(preferred) ==
    LET o == Active(preferred)
        is(p, done) == [active |-> p.active, role |-> p.role, context |-> p.context,
                        skipped |-> p.skipped, done |-> done]
    IN  IF o = None THEN is(Nobody, server.done)
        ELSE is([active |-> o, role |-> server.role[o], context |-> server.context[o],
                 skipped |-> o \in server.skipped], server.done /\ server.context[o] # "NONE")

Writes == {"create", "guest", "context", "preset", "complete", "skip"}

Written == <<"written">>

At(i, step) == call[i].state = "sent" /\ call[i].answer = step

\* What a request writes, before it reads the state.
Write(i, anew) ==
    /\ server' = anew
    /\ call' = [call EXCEPT ![i].answer = Written]
    /\ UNCHANGED <<view, asked, troubles>>

CreateOrganization(i) ==
    /\ call[i].op = "create"
    /\ \E o \in Org \ ItemsOf(server.joined) :
        Write(i, [server EXCEPT !.joined = Append(@, o), !.role[o] = "ADMIN"])
    /\ UNCHANGED past

\* The bound Org.
NoOrgLeft(i) == call[i].op = "create" /\ Org \subseteq ItemsOf(server.joined) /\ NotFound(i)

SkipOnboardingForGuest(i) ==
    call[i].op = "guest" /\ Write(i, [server EXCEPT !.done = TRUE]) /\ UNCHANGED past

SaveEditorialContext(i) ==
    /\ call[i].op = "context" /\ Write(i, [server EXCEPT !.context[call[i].arg.org] = "OWN"])
    /\ UNCHANGED past

\* A context that is there is only replaced when the member was asked.
MayReplace(i) == server.context[call[i].arg.org] = "NONE" \/ call[i].arg.confirmed

ApplyPreset(i) ==
    LET o == call[i].arg.org
    IN  /\ call[i].op = "preset"
        /\ IF MayReplace(i)
           THEN Write(i, [server EXCEPT !.context[o] = "PRESET"]) /\ UNCHANGED past
           ELSE NotFound(i)

CompleteOnboarding(i) ==
    /\ call[i].op = "complete"
    /\ IF server.context[call[i].arg.org] = "NONE" THEN NotFound(i)
       ELSE Write(i, [server EXCEPT !.done = TRUE]) /\ UNCHANGED past

SkipAdvanced(i) ==
    /\ call[i].op = "skip" /\ Write(i, [server EXCEPT !.skipped = @ \cup {call[i].arg.org}])
    /\ UNCHANGED past

\* The state of the organization that the request names.
GetState(i) ==
    /\ \/ call[i].op = "load" /\ At(i, <<>>)
       \/ call[i].op \in Writes /\ At(i, Written)
    /\ Serves(i, State(call[i].arg.org)) /\ UNCHANGED server

Serve(i) ==
    \/ /\ At(i, <<>>)
       /\ \/ CreateOrganization(i) \/ NoOrgLeft(i) \/ SkipOnboardingForGuest(i) \/ SaveEditorialContext(i)
          \/ ApplyPreset(i) \/ CompleteOnboarding(i) \/ SkipAdvanced(i)
    \/ GetState(i)

\* The member is taken into an organization, or its context is written.
ChangedElsewhere ==
    /\ asked < MaxAsked /\ asked' = asked + 1
    /\ \E o \in Org :
        \/ /\ o \notin ItemsOf(server.joined)
           /\ \E r \in Role : server' = [server EXCEPT !.joined = Append(@, o), !.role[o] = r]
        \/ /\ server.context[o] = "NONE" /\ o \in ItemsOf(server.joined)
           /\ server' = [server EXCEPT !.context[o] = "OWN"]
    /\ past' = [past EXCEPT !.stale = TRUE]
    /\ UNCHANGED <<view, call, troubles>>

-----------------------------------------------------------------------------

Load(o) == Call("load", [org |-> o, after |-> FALSE])

Init ==
    /\ \E o \in Org, r \in Role, in \in BOOLEAN, c \in Context :
        server = [joined |-> IF in THEN <<o>> ELSE <<>>, role |-> [x \in Org |-> r],
                  context |-> [x \in Org |-> IF in /\ x = o THEN c ELSE "NONE"],
                  skipped |-> {}, done |-> FALSE]
    /\ view = [status |-> "loading", submitting |-> FALSE, editing |-> FALSE,
               payload |-> [active |-> None, role |-> "READER", context |-> "NONE",
                            skipped |-> FALSE, done |-> FALSE]]
    /\ call = <<Load(None)>>
    /\ past = [stale |-> FALSE, stuck |-> FALSE, freed |-> FALSE]
    /\ asked = 0 /\ troubles = 0

-----------------------------------------------------------------------------
(* What the member does.                                                   *)

IsOpen == view.status = "ready"

CanEditContext == view.payload.role \in {"ADMIN", "EDITOR"}

\* renderCurrentStep
Step ==
    CASE view.payload.active = None -> "organization"
      [] view.payload.active # None /\ CanEditContext
            /\ (view.payload.context = "NONE" \/ view.editing) -> "context"
      [] OTHER -> "completion"

Sends(op, confirmed) ==
    call' = Append(call, Call(op, [org |-> view.payload.active, confirmed |-> confirmed]))

Submits(op, confirmed) ==
    /\ Asks /\ IsOpen /\ ~view.submitting
    /\ view' = [view EXCEPT !.submitting = TRUE]
    /\ Sends(op, confirmed)
    /\ UNCHANGED past

HandleCreateOrganization == Step = "organization" /\ Submits("create", FALSE)

\* Nothing says that the member goes on as a guest: it may be asked again.
HandleSkipToGuest ==
    /\ Asks /\ IsOpen /\ Step = "organization" /\ ~view.submitting
    /\ Sends("guest", FALSE)
    /\ UNCHANGED <<view, past>>

HandleSaveContext == Step = "context" /\ Submits("context", FALSE)

HandleCompleteOnboarding ==
    /\ Step = "completion" /\ CanEditContext /\ view.payload.context # "NONE"
    /\ Submits("complete", FALSE)

\* The member is asked when it sees a context that would be replaced.
HandleApplyPreset ==
    /\ Step = "completion" /\ view.payload.role = "ADMIN"
    /\ Submits("preset", view.payload.context # "NONE")

HandleSkipAdvanced == Step = "completion" /\ Submits("skip", FALSE)

Edit ==
    /\ Asks /\ IsOpen /\ Step = "completion" /\ CanEditContext
    /\ view' = [view EXCEPT !.editing = TRUE]
    /\ UNCHANGED <<call, past>>

-----------------------------------------------------------------------------
(* What the answers do.                                                    *)

Idle(v) == [v EXCEPT !.submitting = FALSE]

Is(i, op, state) == call[i].op = op /\ Takes(i, op) /\ call[i].state = state

\* loadState catches what throws; the creation that waits for it is over.
LoadAnswer(i) ==
    /\ Takes(i, "load") /\ call' = Rest(i)
    /\ LET v == IF call[i].arg.after THEN Idle(view) ELSE view
       IN  IF call[i].state = "ok"
           THEN view' = [v EXCEPT !.status = "ready", !.payload = call[i].answer]
           ELSE view' = [v EXCEPT !.status = "error"]
    /\ UNCHANGED past

\* An error after the write, and an answer lost, leave a screen that may be stale.
IsRefused(i) ==
    /\ view' = Idle(view)
    /\ past' = [past EXCEPT !.stale = @ \/ call[i].answer # <<>> \/ call[i].state = "thrown",
                            !.freed = @ \/ (call[i].op = "guest" /\ view.submitting)]

CreateAnswer(i) ==
    /\ Takes(i, "create")
    /\ \/ /\ call[i].state = "ok"
          /\ call' = Append(Rest(i), Call("load", [org |-> call[i].answer.active, after |-> TRUE]))
          /\ UNCHANGED <<view, past>>
       \/ call[i].state # "ok" /\ call' = Rest(i) /\ IsRefused(i)

GuestAnswer(i) ==
    /\ Takes(i, "guest") /\ call' = Rest(i)
    /\ \/ call[i].state = "ok" /\ view' = [view EXCEPT !.status = "gone"] /\ UNCHANGED past
       \/ call[i].state # "ok" /\ IsRefused(i)

CompleteAnswer(i) ==
    /\ Takes(i, "complete") /\ call' = Rest(i)
    /\ \/ call[i].state = "ok" /\ view' = [view EXCEPT !.status = "gone"] /\ UNCHANGED past
       \/ call[i].state # "ok" /\ IsRefused(i)

\* The state of the answer is shown; only a context saved ends its edition.
Shows(i) ==
    /\ call[i].state = "ok"
    /\ view' = [Idle(view) EXCEPT !.status = "ready", !.payload = call[i].answer,
                                  !.editing = @ /\ call[i].op # "context"]
    /\ UNCHANGED past

ContextAnswer(i) ==
    /\ Takes(i, "context") /\ call' = Rest(i)
    /\ Shows(i) \/ (call[i].state # "ok" /\ IsRefused(i))

\* What throws is not caught here.
Throws(i) ==
    /\ call[i].state = "thrown"
    /\ past' = [past EXCEPT !.stale = TRUE, !.stuck = TRUE]
    /\ UNCHANGED view

AdvancedAnswer(i) ==
    /\ call[i].op \in {"preset", "skip"} /\ Takes(i, call[i].op) /\ call' = Rest(i)
    /\ Shows(i) \/ (call[i].state = "error" /\ IsRefused(i)) \/ Throws(i)

Member ==
    \/ HandleCreateOrganization \/ HandleSkipToGuest \/ HandleSaveContext
    \/ HandleCompleteOnboarding \/ HandleApplyPreset \/ HandleSkipAdvanced \/ Edit

Answer(i) ==
    \/ LoadAnswer(i) \/ CreateAnswer(i) \/ GuestAnswer(i) \/ CompleteAnswer(i)
    \/ ContextAnswer(i) \/ AdvancedAnswer(i)

Next ==
    /\ view.status # "gone"
    /\ \/ Member \/ ChangedElsewhere
       \/ \E i \in DOMAIN call : Serve(i) \/ Refuses(i) \/ Breaks(i) \/ Answer(i)

Spec == Init /\ [][Next]_screenVars

-----------------------------------------------------------------------------

\* At rest the onboarding on screen is what the API would answer again for the
\* organization shown, unless something changed elsewhere or an answer was lost.
\* The member goes to the dashboard only when it is done with the onboarding.
ShowsTheOnboarding ==
    /\ call = <<>> /\ view.status = "ready" /\ ~past.stale =>
        view.payload = State(view.payload.active)
    /\ view.status = "gone" => server.done

\* The screen waits only for a call under way, unless one threw; and a call is
\* waited for, unless the refusal of a guest freed the screen.
WaitsForCall ==
    LET awaited == \E i \in DOMAIN call :
            \/ call[i].op \in Writes \ {"guest"}
            \/ call[i].op = "load" /\ call[i].arg.after
    IN  ~past.stuck /\ view.status # "gone" =>
        /\ view.submitting => awaited
        /\ awaited /\ ~past.freed => view.submitting
        /\ view.status = "loading" <=> \E i \in DOMAIN call : call[i].op = "load" /\ ~call[i].arg.after
=============================================================================
