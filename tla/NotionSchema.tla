---------------------------- MODULE NotionSchema ----------------------------
(***************************************************************************)
(* The schema of the mapped Notion database (apps/api/src/integrations):   *)
(* the columns that the mapping holds by their ids, their diagnosis, their *)
(* repair, and the backfill of mappings older than the ids.  Meanwhile     *)
(* members change columns in Notion and administrators bind anew.          *)
(*                                                                         *)
(* channel stands for the date and the URL too: fields of one type.  The   *)
(* title is left out: Notion neither deletes nor converts it.  A database  *)
(* gives its columns and its home (databaseId) in one answer.  A backfill  *)
(* that gives the mapping another source also deletes the sync states,     *)
(* which are left out here (those of a binding are in NotionBinding).      *)
(***************************************************************************)
EXTENDS Naturals, SequencesExt

CONSTANTS
    Proc,           \* requests
    Edited,         \* sources whose columns members change
    MaxRequests,    \* bound of the model
    MaxChanges,     \* bound of the model on everybody else
    MaxLost         \* bound of the model on errors and stops

VARIABLES
    cols,           \* the columns in Notion; an id is a place, and is not used again
    home,           \* the database of each source
    row,            \* the row of the mapping
    whole,          \* updated_at, in microseconds, is a whole number of milliseconds
    req,            \* the requests under way
    asked, changes, lost

schemaVars == <<cols, home, row, whole, req, asked, changes, lost>>

Source == {"s1", "s2"}

Database == {"b1", "b2"}

\* Object.keys(DEFAULT_NOTION_PROPERTY_MAPPING)
Order == <<"channel", "entityType", "status">>

Field == ToSet(Order)

expectedNotionTypes ==
    [channel |-> {"select"}, entityType |-> {"select"}, status |-> {"select", "status"}]

Default == [channel |-> <<"Canal", 0>>, entityType |-> <<"Type", 0>>, status |-> <<"Statut", 0>>]

DefaultNames == {Default[f] : f \in Field}

\* managed: the options of MANAGED_NOTION_STATUS_OPTIONS; own: a member's.
Column(s, name, type, options) ==
    [in |-> s, name |-> name, type |-> type, options |-> options, there |-> TRUE]

NoIds == [f \in Field |-> 0]

NoRow == [source |-> "none", database |-> "none", managed |-> FALSE, ids |-> NoIds,
          names |-> Default, type |-> "select", status |-> "none"]

\* fresh: nobody has written the row since it was read.  sure (history):
\* nobody has changed the columns since.  blurred (history): see Borrowed.
Idle == [stage |-> "idle", op |-> "none", row |-> NoRow, fresh |-> FALSE, sure |-> FALSE,
         blurred |-> FALSE, creates |-> {}, extend |-> 0, options |-> {}]

ManagedColumns(s) == [i \in 1..3 |-> Column(s, Default[Order[i]],
                                     IF Order[i] = "status" THEN "status" ELSE "select",
                                     IF Order[i] = "status" THEN {"managed"} ELSE {})]

ManagedRow == [source |-> "s1", database |-> "b1", managed |-> TRUE,
               ids |-> [channel |-> 1, entityType |-> 2, status |-> 3],
               names |-> Default, type |-> "status", status |-> "READY"]

LegacyRow == [NoRow EXCEPT !.database = "b1", !.status = "UNCHECKED"]

Init ==
    /\ cols = ManagedColumns("s1") \o ManagedColumns("s2")
    /\ \/ home = [s1 |-> "b1", s2 |-> "b2"] /\ row \in {ManagedRow, LegacyRow}
       \/ home = [s1 |-> "b1", s2 |-> "b1"] /\ row = LegacyRow
    /\ whole \in BOOLEAN
    /\ req = [p \in Proc |-> Idle]
    /\ asked = 0 /\ changes = 0 /\ lost = 0

-----------------------------------------------------------------------------
(* Operators on columns.                                                   *)

Here(cs, s) == {i \in DOMAIN cs : cs[i].there /\ cs[i].in = s}

Fits(cs, s, f, i) == i \in Here(cs, s) /\ cs[i].type \in expectedNotionTypes[f]

Healthy(cs, s, ids) ==
    \A f \in Field : /\ Fits(cs, s, f, ids[f])
                     /\ f = "status" => "managed" \in cs[ids[f]].options

assessNotionSchema(cs, h, r) ==
    IF h[r.source] = r.database /\ Healthy(cs, r.source, r.ids) THEN "READY" ELSE "DRIFTED"

Named(cs, s, n) == {i \in Here(cs, s) : cs[i].name = n}

validateNotionPropertyMapping(cs, s, names) ==
    /\ \A f, g \in Field : names[f] = names[g] => f = g
    /\ \A f \in Field : \E i \in Named(cs, s, names[f]) : Fits(cs, s, f, i)

mapPropertyIds(cs, s, names) == [f \in Field |-> CHOOSE i \in Named(cs, s, names[f]) : TRUE]

mapAvailablePropertyIds(cs, s, names) ==
    [f \in Field |-> LET fit == {i \in Named(cs, s, names[f]) : Fits(cs, s, f, i)} IN
                     IF fit = {} THEN 0 ELSE CHOOSE i \in fit : TRUE]

StatusType(cs, ids) == IF ids["status"] # 0 THEN cs[ids["status"]].type ELSE "select"

reconcilePropertyNames(cs, r) ==
    [f \in Field |-> IF Fits(cs, r.source, f, r.ids[f]) THEN cs[r.ids[f]].name ELSE r.names[f]]

\* The row that the columns of these names make of r.
Mapped(cs, h, r, s, names) ==
    LET ids == mapPropertyIds(cs, s, names)
        m == [r EXCEPT !.source = s, !.names = names, !.ids = ids, !.type = StatusType(cs, ids)] IN
    [m EXCEPT !.status = assessNotionSchema(cs, h, m)]

uniquePropertyName(base, names) ==
    CHOOSE n \in {<<base[1], k>> : k \in 0..9} :
        n \notin names /\ \A k \in 0..(n[2] - 1) : <<base[1], k>> \in names

\* Field by field: the column of the stored id, or else one of the stored
\* name that no field before has claimed, or else a new one.
buildNotionSchemaRepair(cs, r) ==
    LET s == r.source
        Adopt(a, f, i) == [a EXCEPT
            !.claimed = @ \cup {i}, !.names[f] = cs[i].name,
            !.extend = IF f = "status" /\ "managed" \notin cs[i].options THEN i ELSE @]
        Create(a, f) == LET n == uniquePropertyName(Default[f], a.used) IN
            [a EXCEPT !.names[f] = n, !.used = @ \cup {n}, !.creates = @ \cup {f}]
        Claim(a, f) ==
            LET free == {i \in Named(cs, s, a.names[f]) \ a.claimed : Fits(cs, s, f, i)} IN
            IF Fits(cs, s, f, r.ids[f]) THEN Adopt(a, f, r.ids[f])
            ELSE IF free # {} THEN Adopt(a, f, CHOOSE i \in free : TRUE)
            ELSE Create(a, f)
    IN FoldLeft(Claim, [claimed |-> {}, names |-> r.names, creates |-> {}, extend |-> 0,
                        used |-> {cs[i].name : i \in Here(cs, s)}], Order)

\* What Notion makes of the request: a key that names a column, or is its id,
\* gives it the type of the value, and its options; another key is a new column.
updateDataSource(cs, q) ==
    LET Type(f) == IF f = "status" THEN q.row.type ELSE "select"
        Options(f) == IF f = "status" THEN {"managed"} ELSE {}
        Put(c, f) ==
            LET same == Named(c, q.row.source, q.row.names[f])
                new == Column(q.row.source, q.row.names[f], Type(f), Options(f)) IN
            IF f \notin q.creates THEN c
            ELSE IF same = {} THEN Append(c, new)
            ELSE [c EXCEPT ![CHOOSE i \in same : TRUE] = new]
        extended == IF q.extend = 0 THEN cs
                    ELSE [cs EXCEPT ![q.extend].options = q.options \cup {"managed"}]
    IN FoldLeft(Put, extended, Order)

-----------------------------------------------------------------------------
(* The requests of an administrator.                                       *)

\* Whoever writes the row sets updated_at to now(), in microseconds; there is none
\* without a row.
Stamped == whole' \in (IF row' = NoRow THEN {FALSE} ELSE BOOLEAN)

Unfresh(rs) == [q \in Proc |-> [rs[q] EXCEPT !.fresh = FALSE]]

Unsure(rs) == [q \in Proc |-> [rs[q] EXCEPT !.sure = FALSE]]

elsewhere == <<asked, changes>>

\* getConnection
Ask(p) ==
    /\ req[p].stage = "idle" /\ asked < MaxRequests /\ row # NoRow
    /\ asked' = asked + 1
    /\ \E op \in {"diagnose", "repair"} :
        req' = [req EXCEPT ![p] = [Idle EXCEPT
            !.op = op, !.row = row, !.fresh = TRUE,
            !.stage = IF row.source = "none" \/ (~row.managed /\ \E f \in Field : row.ids[f] = 0)
                      THEN "backfill" ELSE "retrieve"]]
    /\ UNCHANGED <<cols, home, row, whole, changes, lost>>

\* backfillLegacyNotionMapping: the source of the row, or the only one of its
\* database, or the only one that fits.
Chosen(r) ==
    LET sources == {s \in Source : home[s] = r.database}
        compatible == {s \in sources : validateNotionPropertyMapping(cols, s, r.names)} IN
    IF r.source \in sources THEN {r.source}
    ELSE IF Cardinality(sources) = 1 THEN sources
    ELSE IF Cardinality(compatible) = 1 THEN compatible ELSE {}

ReadSources(p) ==
    LET r == req[p].row
        fit == {s \in Chosen(r) : validateNotionPropertyMapping(cols, s, r.names)} IN
    /\ req[p].stage = "backfill"
    /\ IF fit = {} THEN req' = [req EXCEPT ![p] = Idle]
       ELSE \E s \in fit :
            req' = [req EXCEPT ![p].stage = "store_backfill", ![p].sure = TRUE,
                               ![p].row = Mapped(cols, home, r, s, r.names)]
    /\ UNCHANGED <<cols, home, row, whole, elsewhere, lost>>

\* The database and the names in use stay those of the row as it is.
StoreBackfill(p) ==
    LET m == req[p].row
        r == [row EXCEPT !.source = m.source, !.names = m.names, !.ids = m.ids,
                         !.type = m.type, !.status = m.status] IN
    /\ req[p].stage = "store_backfill" /\ row # NoRow
    /\ row' = r /\ Stamped
    /\ req' = [Unfresh(req) EXCEPT ![p].stage = "retrieve", ![p].row = r, ![p].fresh = TRUE]
    /\ UNCHANGED <<cols, home, elsewhere, lost>>

\* A field whose column is not there any more finds its name on the column of
\* a field after it.
Borrowed(cs, r) ==
    \E i, j \in DOMAIN Order :
        /\ i < j /\ Fits(cs, r.source, Order[j], r.ids[Order[j]])
        /\ ~Fits(cs, r.source, Order[i], r.ids[Order[i]])
        /\ cs[r.ids[Order[j]]].name = r.names[Order[i]]

RetrieveToInspect(p) ==
    LET r == req[p].row IN
    /\ req[p].stage = "retrieve" /\ req[p].op = "diagnose"
    /\ req' = [req EXCEPT ![p].stage = "store", ![p].sure = TRUE,
                          ![p].row.status = assessNotionSchema(cols, home, r),
                          ![p].row.names = reconcilePropertyNames(cols, r)]
    /\ UNCHANGED <<cols, home, row, whole, elsewhere, lost>>

\* What the answer of Notion makes of the request, or of its refusal.
Repaired(q, cs, h) ==
    IF validateNotionPropertyMapping(cs, q.row.source, q.row.names)
    THEN [q EXCEPT !.stage = "store", !.row = Mapped(cs, h, q.row, q.row.source, q.row.names)]
    ELSE Idle

\* A mismatch of the source is not reparable.
RetrieveToRepair(p) ==
    LET r == req[p].row
        a == buildNotionSchemaRepair(cols, r)
        q == [req[p] EXCEPT !.stage = "update", !.sure = TRUE, !.blurred = Borrowed(cols, r),
                            !.row.names = a.names, !.creates = a.creates, !.extend = a.extend,
                            !.options = IF a.extend = 0 THEN {} ELSE cols[a.extend].options] IN
    /\ req[p].stage = "retrieve" /\ req[p].op = "repair"
    /\ req' = [req EXCEPT ![p] =
        IF home[r.source] # r.database THEN Idle
        ELSE IF a.creates = {} /\ a.extend = 0 THEN Repaired(q, cols, home)
        ELSE q]
    /\ UNCHANGED <<cols, home, row, whole, elsewhere, lost>>

\* The answer to a diagnosis is an error.
Unavailable(p) ==
    /\ req[p].stage = "retrieve" /\ req[p].op = "diagnose" /\ lost < MaxLost
    /\ lost' = lost + 1
    /\ req' = [req EXCEPT ![p].stage = "store_unavailable"]
    /\ UNCHANGED <<cols, home, row, whole, elsewhere>>

\* Notion refuses to extend what is no longer a column of that type; the
\* answer may be lost.
UpdateDataSource(p) ==
    LET q == req[p] IN
    /\ q.stage = "update"
    /\ q.extend # 0 => Fits(cols, q.row.source, "status", q.extend)
    /\ cols' = updateDataSource(cols, q)
    /\ \/ /\ req' = [Unsure(req) EXCEPT ![p] = Repaired(q, cols', home)]
          /\ UNCHANGED lost
       \/ /\ lost < MaxLost /\ lost' = lost + 1
          /\ req' = [Unsure(req) EXCEPT ![p] = Idle]
    /\ UNCHANGED <<home, row, whole, elsewhere>>

\* Mutant of Unread: the row is found by its organization only.
Unread_Any(p) == row # NoRow

\* Where updatedAt is what was read: Prisma reads it in milliseconds.
Unread(p) == req[p].fresh /\ whole

\* inspectAndPersistSchema
StoreHealth(p) ==
    /\ req[p].stage = "store" /\ req[p].op = "diagnose"
    /\ IF Unread(p)
       THEN /\ row' = [row EXCEPT !.status = req[p].row.status, !.names = req[p].row.names]
            /\ Stamped
            /\ req' = [Unfresh(req) EXCEPT ![p] = Idle]
       ELSE UNCHANGED <<row, whole>> /\ req' = [req EXCEPT ![p] = Idle]
    /\ UNCHANGED <<cols, home, elsewhere, lost>>

StoreUnavailable(p) ==
    /\ req[p].stage = "store_unavailable"
    /\ IF Unread(p)
       THEN /\ row' = [row EXCEPT !.status = "UNAVAILABLE"] /\ Stamped
            /\ req' = [Unfresh(req) EXCEPT ![p] = Idle]
       ELSE UNCHANGED <<row, whole>> /\ req' = [req EXCEPT ![p] = Idle]
    /\ UNCHANGED <<cols, home, elsewhere, lost>>

\* repairNotionSchema: where organizationId.
StoreRepair(p) ==
    LET m == req[p].row IN
    /\ req[p].stage = "store" /\ req[p].op = "repair" /\ row # NoRow
    /\ row' = [row EXCEPT !.names = m.names, !.ids = m.ids, !.type = m.type, !.status = m.status]
    /\ Stamped
    /\ req' = [Unfresh(req) EXCEPT ![p] = Idle]
    /\ UNCHANGED <<cols, home, elsewhere, lost>>

\* There is no row to write any more, Notion refuses, or the server stops.
Fails(p) ==
    /\ req[p].stage # "idle"
    /\ \/ req[p].stage \in {"store", "store_backfill"} /\ row = NoRow /\ UNCHANGED lost
       \/ /\ req[p].stage = "update" /\ req[p].extend # 0
          /\ ~Fits(cols, req[p].row.source, "status", req[p].extend) /\ UNCHANGED lost
       \/ lost < MaxLost /\ lost' = lost + 1
    /\ req' = [req EXCEPT ![p] = Idle]
    /\ UNCHANGED <<cols, home, row, whole, elsewhere>>

-----------------------------------------------------------------------------
(* Everybody else.                                                         *)

Changes == changes < MaxChanges /\ changes' = changes + 1 /\ UNCHANGED <<asked, lost>>

\* saveNotionMapping, from the names that an administrator has chosen.
SaveMapping ==
    /\ Changes
    /\ \E s \in Source : \E names \in [Field -> {cols[i].name : i \in Here(cols, s)}] :
        /\ validateNotionPropertyMapping(cols, s, names)
        /\ row' = Mapped(cols, home, [NoRow EXCEPT !.database = home[s]], s, names)
    /\ Stamped
    /\ req' = Unfresh(req)
    /\ UNCHANGED <<cols, home>>

\* persistNotionBinding: what the mapping of the same source holds is kept.
PersistBinding ==
    /\ Changes
    /\ \E s \in Source :
        LET same == row.managed /\ row.source = s /\ row.database = home[s]
            r == IF same THEN row
                 ELSE [NoRow EXCEPT !.source = s, !.database = home[s], !.managed = TRUE,
                                    !.ids = mapAvailablePropertyIds(cols, s, Default)]
            m == [r EXCEPT !.names = reconcilePropertyNames(cols, r),
                           !.type = IF Fits(cols, s, "status", r.ids["status"])
                                    THEN cols[r.ids["status"]].type ELSE "select"] IN
        row' = [m EXCEPT !.status = assessNotionSchema(cols, home, m)]
    /\ Stamped
    /\ req' = Unfresh(req)
    /\ UNCHANGED <<cols, home>>

Disconnect ==
    /\ Changes
    /\ row # NoRow /\ row' = NoRow /\ Stamped
    /\ req' = Unfresh(req)
    /\ UNCHANGED <<cols, home>>

\* Members rename, delete, convert, add a column, drop the options, or move a
\* source to another database.
ChangeColumn ==
    /\ Changes
    /\ \E i \in DOMAIN cols : LET c == cols[i] IN
        /\ c.there /\ c.in \in Edited
        /\ \/ \E n \in DefaultNames \cup {<<"Autre", 0>>} :
                Named(cols, c.in, n) = {} /\ cols' = [cols EXCEPT ![i].name = n]
           \/ cols' = [cols EXCEPT ![i].there = FALSE]
           \/ \E t \in {"select", "status", "text"} \ {c.type} :
                cols' = [cols EXCEPT ![i].type = t, ![i].options = {}]
           \/ c.type # "text" /\ cols' = [cols EXCEPT ![i].options = {"own"}]
    /\ req' = Unsure(req)
    /\ UNCHANGED <<home, row, whole>>

AddColumn ==
    /\ Changes
    /\ \E s \in Edited, n \in DefaultNames, t \in {"select", "text"} :
        Named(cols, s, n) = {} /\ cols' = Append(cols, Column(s, n, t, {}))
    /\ req' = Unsure(req)
    /\ UNCHANGED <<home, row, whole>>

MoveSource ==
    /\ Changes
    /\ \E s \in Source, b \in Database : home[s] # b /\ home' = [home EXCEPT ![s] = b]
    /\ req' = Unsure(req)
    /\ UNCHANGED <<cols, row, whole>>

Handle(p) ==
    \/ Ask(p)
    \/ ReadSources(p)
    \/ StoreBackfill(p)
    \/ RetrieveToInspect(p)
    \/ RetrieveToRepair(p)
    \/ Unavailable(p)
    \/ UpdateDataSource(p)
    \/ StoreHealth(p)
    \/ StoreUnavailable(p)
    \/ StoreRepair(p)
    \/ Fails(p)

SchemaNext ==
    \/ \E p \in Proc : Handle(p)
    \/ SaveMapping
    \/ PersistBinding
    \/ Disconnect
    \/ ChangeColumn
    \/ AddColumn
    \/ MoveSource

-----------------------------------------------------------------------------

\* docs/operations/integrations.md:14: a repair of the columns it has read
\* deletes and converts none and keeps their options.
RepairsKeepColumns ==
    \A p \in Proc : req[p].stage = "update" /\ req[p].sure /\ req'[p].stage # "update" =>
        \A i \in DOMAIN cols :
            /\ [cols'[i] EXCEPT !.options = {}] = [cols[i] EXCEPT !.options = {}]
            /\ cols[i].options \subseteq cols'[i].options

\* docs/implementation/spec-managed-notion-database-setup.md:61: a repair of
\* the columns it has read makes the schema READY, unless a field finds its
\* name on the column of another.
RepairsEndReady ==
    \A p \in Proc : LET q == req[p] IN
        /\ q.op = "repair" /\ q.stage \in {"retrieve", "update"}
        /\ req'[p].stage # q.stage /\ lost' = lost
        /\ IF q.stage = "update" THEN q.sure /\ ~q.blurred /\ cols' # cols
           ELSE home[q.row.source] = q.row.database /\ ~Borrowed(cols, q.row)
        => req'[p].stage = "update" \/ (req'[p].stage = "store" /\ req'[p].row.status = "READY")

\* The health that is stored is that of the columns of the row, as far as
\* the columns have not changed since they were read, nor, for a repair and
\* a backfill, the row.  A diagnosis is not always stored: see Unread.
StoredHealthIsTrue ==
    \A p \in Proc :
        /\ req[p].stage \in {"store", "store_backfill"} /\ req'[p].stage # req[p].stage
        /\ req[p].sure /\ (req[p].op = "repair" \/ req[p].stage = "store_backfill" => req[p].fresh)
        /\ row' # row
        => row'.status = assessNotionSchema(cols, home, row')
=============================================================================
