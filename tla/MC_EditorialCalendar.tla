----------------------- MODULE MC_EditorialCalendar -----------------------
(***************************************************************************)
(* Two instances in one.  When requests come one at a time there are two   *)
(* contents and two plans, so that a plan can move between contents, and a *)
(* content can have a second plan.  When requests cross, they are about    *)
(* the same content and the same plan.                                     *)
(***************************************************************************)
EXTENDS EditorialCalendar, TLC

VARIABLE crossing

Active(p) == req[p].stage # "idle"

AloneNext ==
    \/ \E p \in Proc : (\A q \in Proc : Active(q) => q = p) /\ Handle(p)
    \/ \E c \in Content : SaveContent(c)

\* Requests start on the same content and plan, and stay there.
CrossingNext ==
    \/ \E p \in Proc : Handle(p) /\ req'[p].x = SomePlan /\ req'[p].to = SomeContent
    \/ SaveContent(SomeContent)

MCNext == IF crossing THEN CrossingNext ELSE AloneNext

MCSpec ==
    /\ crossing \in BOOLEAN /\ Init
    /\ [][MCNext /\ UNCHANGED crossing]_<<vars, crossing>>

RequestsAreAlike == Permutations(Proc)

\* With one request at a time, and nobody setting the status by hand, a
\* content shown as scheduled has a plan: cancelling, moving or deleting its
\* last plan frees it (relaxScheduledContentIfUnused).
AloneScheduledHasPlan == ~crossing => ScheduledHasPlan

\* With one request at a time, the content that a plan is scheduled for, or
\* moved to, becomes scheduled in the same transaction.
AloneSchedulingMarksContent == [][~crossing => SchedulingMarksContent]_vars
=============================================================================
