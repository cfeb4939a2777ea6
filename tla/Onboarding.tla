----------------------------- MODULE Onboarding -----------------------------
(***************************************************************************)
(* The advanced onboarding of one member in one organization               *)
(* (apps/api/src/onboarding).  Every answer, also that of a read, computes *)
(* the progress again from what the organization holds and writes it, in   *)
(* statements that other requests come between.                            *)
(***************************************************************************)
EXTENDS Naturals, Sequences

CONSTANTS
    Proc,       \* requests of the member
    Roles,      \* the roles that the member is given in turn
    MaxChanges  \* bound of the model on what is asked for besides reads, and done elsewhere

VARIABLES
    role,       \* the role of the member
    context,    \* the editorial context: none, written by hand, or of a preset
    has,        \* the steps done elsewhere: an idea, a content of the member
    row,        \* the row of the progress
    left,       \* what is left of MaxChanges
    req         \* the requests

vars == <<role, context, has, row, left, req>>

\* getAvailableAdvancedSteps, without DONE, which ends each.
Required(r) ==
    CASE r = "READER" -> <<"CHECKLIST">>
      [] r = "EDITOR" -> <<"CHECKLIST", "FIRST_IDEA", "FIRST_CONTENT">>
      [] r = "ADMIN" -> <<"CHECKLIST", "PRESET", "FIRST_IDEA", "FIRST_CONTENT">>

StepsOf(r) == {Required(r)[i] : i \in 1..Len(Required(r))}

Steps == StepsOf("ADMIN") \cup {"DONE"}

Row == [there : BOOLEAN, steps : SUBSET Steps, current : Steps, done : BOOLEAN,
        skipped : BOOLEAN]

NoRow == [there |-> FALSE, steps |-> {}, current |-> "CHECKLIST", done |-> FALSE,
          skipped |-> FALSE]

\* seen: the row as read.  facts: the steps done elsewhere, as read.  fresh:
\* nothing that the transaction writes was written since its snapshot.  alone,
\* had: nothing came in between so far, and whether the preset was done at the
\* start or asked for (history).
Request == [stage : {"idle", "mark", "preset", "state", "reads", "facts", "row", "save"},
            role : Roles, step : Steps, on : BOOLEAN, confirm : BOOLEAN, seen : Row,
            facts : SUBSET Steps, fresh : BOOLEAN, alone : BOOLEAN, had : BOOLEAN]

Idle == [stage |-> "idle", role |-> CHOOSE r \in Roles : TRUE, step |-> "DONE", on |-> FALSE,
         confirm |-> FALSE, seen |-> NoRow, facts |-> {}, fresh |-> TRUE, alone |-> TRUE,
         had |-> FALSE]

TypeOK ==
    /\ role \in Roles
    /\ context \in {"NONE", "OWN", "PRESET"}
    /\ has \in SUBSET {"FIRST_IDEA", "FIRST_CONTENT"}
    /\ row \in Row
    /\ left \in 0..MaxChanges
    /\ req \in [Proc -> Request]

Init ==
    /\ role \in Roles
    /\ context = "NONE" /\ has = {}
    /\ row = NoRow
    /\ left = MaxChanges
    /\ req = [p \in Proc |-> Idle]

-----------------------------------------------------------------------------

At(p, stage) == req[p].stage = stage

Alone(p) == \A q \in Proc \ {p} : At(q, "idle")

\* A request goes on as r; the others see it come in between, and a transaction
\* whose rows it writes cannot commit any more.
Goes(p, r, writes) ==
    req' = [q \in Proc |->
              IF q = p THEN r
              ELSE IF At(q, "idle") THEN Idle
              ELSE [req[q] EXCEPT !.alone = FALSE,
                                  !.fresh = @ /\ (writes => ~At(q, "preset"))]]

Starts(p, r, writes) ==
    Goes(p, [r EXCEPT !.role = role, !.alone = Alone(p),
                      !.had = "PRESET" \in row.steps \/ (r.on /\ r.step = "PRESET")], writes)

\* The answer is left to compute.
ToState(p) ==
    [Idle EXCEPT !.stage = "state", !.alone = req[p].alone, !.had = req[p].had]

Counts == left > 0 /\ left' = left - 1

\* resolveCurrentAdvancedStep
Current(steps, r) ==
    IF StepsOf(r) \subseteq steps THEN "DONE"
    ELSE LET s == Required(r)
         IN  s[CHOOSE i \in 1..Len(s) : s[i] \notin steps /\ \A j \in 1..(i - 1) : s[j] \in steps]

-----------------------------------------------------------------------------
(* Requests.                                                               *)

\* getState, by itself, up to the role that it reads.
Read(p) ==
    /\ At(p, "idle")
    /\ Starts(p, [Idle EXCEPT !.stage = "reads"], FALSE)
    /\ UNCHANGED <<role, context, has, row, left>>

\* markAdvancedStep: the row is read.
MarkStep(p, step, on) ==
    /\ At(p, "idle")
    /\ Counts
    /\ step \in StepsOf(role) \cup {"DONE"}
    /\ Starts(p, [Idle EXCEPT !.stage = "mark", !.step = step, !.on = on, !.seen = row], FALSE)
    /\ UNCHANGED <<role, context, has, row>>

\* The row with these steps, as an upsert leaves it.
Marked(steps, r) ==
    [row EXCEPT !.there = TRUE,
                !.steps = IF StepsOf(r) \subseteq steps THEN steps \cup {"DONE"} ELSE steps,
                !.done = StepsOf(r) \subseteq steps,
                !.current = Current(steps, r)]

WriteMark(p) ==
    /\ At(p, "mark")
    /\ LET old == req[p].seen.steps \ {"DONE"}
       IN  row' = Marked(IF req[p].on THEN old \cup {req[p].step} ELSE old \ {req[p].step},
                         req[p].role)
    /\ Goes(p, [ToState(p) EXCEPT !.had = IF req[p].on THEN @ ELSE @ /\ req[p].step # "PRESET"],
            TRUE)
    /\ UNCHANGED <<role, context, has, left>>

\* applyPreset: the snapshot; a context that is there is not replaced unasked.
ApplyPreset(p, confirm) ==
    /\ At(p, "idle")
    /\ Counts
    /\ role = "ADMIN"
    /\ context = "NONE" \/ confirm
    /\ Starts(p, [Idle EXCEPT !.stage = "preset", !.confirm = confirm, !.seen = row,
                              !.step = "PRESET", !.on = TRUE], FALSE)
    /\ UNCHANGED <<role, context, has, row>>

Commits(p) == req[p].fresh

CommitPreset(p) ==
    /\ At(p, "preset")
    /\ IF Commits(p)
       THEN /\ context' = "PRESET"
            /\ row' = LET steps == (req[p].seen.steps \ {"DONE"}) \cup {"PRESET"}
                      IN  [row EXCEPT !.there = TRUE, !.steps = steps, !.done = FALSE,
                                      !.current = Current(steps, "ADMIN")]
            /\ Goes(p, ToState(p), TRUE)
       ELSE Goes(p, Idle, FALSE) /\ UNCHANGED <<context, row>>
    /\ UNCHANGED <<role, has, left>>

SkipAdvanced(p) ==
    /\ At(p, "idle")
    /\ Counts
    /\ row' = [row EXCEPT !.there = TRUE, !.current = "DONE", !.skipped = TRUE]
    /\ Starts(p, [Idle EXCEPT !.stage = "state"], TRUE)
    /\ UNCHANGED <<role, context, has>>

SaveEditorialContext(p) ==
    /\ At(p, "idle")
    /\ Counts
    /\ role # "READER"
    /\ context' = "OWN"
    /\ Starts(p, [Idle EXCEPT !.stage = "state"], TRUE)
    /\ UNCHANGED <<role, has, row>>

-----------------------------------------------------------------------------
(* getState, at the end of each, and getAdvancedPayload.  Its four reads   *)
(* are sent at once: here the row and the three others, in either order.   *)

\* The role counts that the member has by now.
ReadOrganizations(p) ==
    /\ At(p, "state")
    /\ Goes(p, [req[p] EXCEPT !.stage = "reads", !.role = role], FALSE)
    /\ UNCHANGED <<role, context, has, row, left>>

Facts == has \cup (IF context # "NONE" THEN {"CHECKLIST"} ELSE {})

ReadRow(p) ==
    /\ req[p].stage \in {"reads", "facts"}
    /\ Goes(p, [req[p] EXCEPT !.seen = row,
                              !.stage = IF At(p, "reads") THEN "row" ELSE "save"], FALSE)
    /\ UNCHANGED <<role, context, has, row, left>>

ReadFacts(p) ==
    /\ req[p].stage \in {"reads", "row"}
    /\ Goes(p, [req[p] EXCEPT !.facts = Facts,
                              !.stage = IF At(p, "reads") THEN "facts" ELSE "save"], FALSE)
    /\ UNCHANGED <<role, context, has, row, left>>

Derived == {"CHECKLIST", "FIRST_IDEA", "FIRST_CONTENT"}

\* Mutants of Reconciled: steps are only ever added; only what is derived stays.
Reconciled_Adds(stored, facts, r) == (stored \cup facts) \cap StepsOf(r)

\* reconcileCompletedAdvancedSteps, up to DONE.
Reconciled(stored, facts, r) == ((stored \ Derived) \cup facts) \cap StepsOf(r)

AllDone(steps, skipped, r) == skipped \/ StepsOf(r) \subseteq steps

\* The update leaves skippedAt alone; the insert writes it as it was read.
SkippedAfter(p) == IF row.there THEN row.skipped ELSE req[p].seen.skipped

SaveProgress(p) ==
    /\ At(p, "save")
    /\ LET r == req[p].role
           steps == Reconciled(req[p].seen.steps, req[p].facts, r)
           all == AllDone(steps, req[p].seen.skipped, r)
       IN  row' = [there |-> TRUE, done |-> all, skipped |-> SkippedAfter(p),
                   steps |-> IF all THEN steps \cup {"DONE"} ELSE steps,
                   current |-> IF all THEN "DONE" ELSE Current(steps, r)]
    /\ Goes(p, Idle, TRUE)
    /\ UNCHANGED <<role, context, has, left>>

\* A statement fails, or the server stops.
Fails(p) ==
    /\ ~At(p, "idle")
    /\ Goes(p, Idle, FALSE)
    /\ UNCHANGED <<role, context, has, row, left>>

-----------------------------------------------------------------------------
(* Elsewhere.                                                              *)

Disturbs == req' = [q \in Proc |-> IF At(q, "idle") THEN Idle ELSE [req[q] EXCEPT !.alone = FALSE]]

\* An idea or a content is created, or the last one deleted.
Work(s) ==
    /\ Counts
    /\ has' = IF s \in has THEN has \ {s} ELSE has \cup {s}
    /\ Disturbs
    /\ UNCHANGED <<role, context, row>>

ChangeRole(r) ==
    /\ r # role /\ role' = r
    /\ Counts
    /\ Disturbs
    /\ UNCHANGED <<context, has, row>>

Handle(p) ==
    \/ Read(p) \/ SkipAdvanced(p) \/ SaveEditorialContext(p)
    \/ \E s \in Steps, on \in BOOLEAN : MarkStep(p, s, on)
    \/ \E confirm \in BOOLEAN : ApplyPreset(p, confirm)
    \/ WriteMark(p) \/ CommitPreset(p) \/ ReadOrganizations(p) \/ ReadRow(p) \/ ReadFacts(p) \/ SaveProgress(p)
    \/ Fails(p)

Next ==
    \/ \E p \in Proc : Handle(p)
    \/ \E s \in {"FIRST_IDEA", "FIRST_CONTENT"} : Work(s)
    \/ \E r \in Roles : ChangeRole(r)

Spec == Init /\ [][Next]_vars

-----------------------------------------------------------------------------
(* Properties.                                                             *)

\* docs/specs/30-features-v2/03-onboarding-avance.md:55: a preset does not
\* replace the context of an organization without a confirmation, also when
\* somebody writes that context while the preset is being applied.
ReplacesOnlyAsked ==
    context = "OWN" /\ context' = "PRESET" =>
        \E p \in Proc : At(p, "preset") /\ req[p].confirm

PresetAsked == [][ReplacesOnlyAsked]_vars

\* The row says what the organization holds.
Says(p) ==
    LET r == req[p].role
        all == row'.skipped \/ StepsOf(r) \subseteq row'.steps
    IN  /\ row'.steps \cap Derived = Facts \cap StepsOf(r)
        /\ "PRESET" \in row'.steps <=> req[p].had /\ "PRESET" \in StepsOf(r)
        /\ "DONE" \in row'.steps <=> all
        /\ row'.done = all
        /\ row'.current = (IF all THEN "DONE" ELSE Current(row'.steps, r))

\* A request that nothing came in between, whatever requests that crossed left
\* behind before it, ends with a progress that is exact: what is done and only
\* that, the first step that is left, completed or not.
EndsExact ==
    \A p \in Proc :
        At(p, "save") /\ req[p].alone /\ row' # row /\ req'[p].stage = "idle" => Says(p)

AloneIsExact == [][EndsExact]_vars

\* A member who has skipped the path is not brought back to it by an answer
\* that was computed before.
StaysSkipped == row.skipped => row'.skipped

SkippedStays == [][StaysSkipped]_vars

\* The choice of a preset, which nothing else in the organization tells, is
\* lost only to the member's own unmarking, to another role, or to a request
\* that crossed another one.
LosesPreset ==
    "PRESET" \in row.steps /\ "PRESET" \notin row'.steps =>
        \E p \in Proc :
            \/ At(p, "mark") /\ req[p].step = "PRESET" /\ ~req[p].on
            \/ req[p].stage \in {"mark", "save"} /\ (~req[p].alone \/ req[p].role # "ADMIN")

PresetKept == [][LosesPreset]_vars
=============================================================================
