--------------------------- MODULE MC_NotionSync ---------------------------
(***************************************************************************)
(* Two instances in one.  When requests come one at a time, everything may *)
(* be edited between their steps, and their transactions do not expire     *)
(* (nobody would take the lock).  When they cross, transactions expire,    *)
(* and only what the lock protects is edited.                              *)
(***************************************************************************)
EXTENDS NotionSync, TLC

CONSTANT EditsCrossing      \* bound of the model on edits, when requests cross

VARIABLE crossing

Starts ==
    /\ crossing \in BOOLEAN
    /\ Init
    /\ item.text # Archived
    /\ item.body = SomeItem.body

Active(p) == req[p].stage # "idle"

\* A later edit is seen by no request.
Seen == asked < MaxAsked \/ \E p \in Proc : Active(p)

\* A resource takes no date from Notion.  What comes within the tolerance
\* matters for one property as for another.
EditPage ==
    /\ EditInNotion
    /\ kind = "RESOURCE" => \A g \in Page : page'[g].date = page[g].date
    /\ now' = now + 1 => \E g \in Page : page'[g].text # page[g].text

\* The title or the body, and plans without the row of their content: the
\* other edits are sums of these.
EditOne ==
    \/ EditItem /\ (item'.text = item.text \/ item'.body = item.body)
    \/ ChangePlan /\ item'.at = item.at

AloneNext ==
    \/ \E p \in Proc :
        /\ \A q \in Proc : Active(q) => q = p
        /\ Handle(p)
        /\ req'[p].stage \in {"idle", "listed"} \/ req'[p].open
    \/ Seen /\ (EditOne \/ EditPage)

EditBoth == EditItem /\ item'.text \notin {item.text, Removed} /\ item'.body # item.body

EditText ==
    /\ EditInNotion
    /\ now' = now + 1 + Tolerance
    /\ \E g \in Page : page'[g].text \notin {page[g].text, Blank, Removed}

CrossingNext ==
    /\ \/ \E p \in Proc : Handle(p) /\ req'[p].rule # "NEWEST_WINS"
       \/ Seen /\ (EditBoth \/ EditText)
    /\ edits' <= EditsCrossing

\* Pages are alike: they are created in the order of their numbers.
InOrder == \A g, h \in Page : g < h /\ page'[h] # NoRemote => page'[g] # NoRemote

MCNext == (IF crossing THEN CrossingNext ELSE AloneNext) /\ InOrder

MCSpec ==
    /\ Starts
    /\ [][MCNext /\ UNCHANGED crossing]_<<vars, crossing>>

RequestsAreAlike == Permutations(Proc)
=============================================================================
