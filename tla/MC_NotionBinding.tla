-------------------------- MODULE MC_NotionBinding --------------------------
(***************************************************************************)
(* Three instances in one, of which the first state chooses.  Two have two *)
(* databases that Notion may create and one entity: when requests come one *)
(* at a time, the organization also has a database of its own; when they   *)
(* cross, it has none.  The third is the schema of a mapped database, with *)
(* two requests and two changes around them.                               *)
(***************************************************************************)
EXTENDS NotionBinding, TLC

VARIABLES part, cols, home, row, whole, inspection, asked, changes, lost

Schema == INSTANCE NotionSchema WITH
    req <- inspection, Edited <- {"s1"}, MaxRequests <- 2, MaxChanges <- 2, MaxLost <- 1

schemaVars == <<cols, home, row, whole, inspection, asked, changes, lost>>

Active(p) == req[p].stage # "idle"

AloneNext == \E p \in Proc : (\A q \in Proc : Active(q) => q = p) /\ Handle(p)

CrossingNext == \E p \in Proc : Handle(p) /\ req'[p].source \notin Own

Around == Connect \/ RecordCredentialError \/ Expire \/ DeleteInNotion

Stops == (\A p \in Proc : inspection[p] = Schema!Idle) /\ UNCHANGED schemaVars

MCInit ==
    /\ part \in {"alone", "crossing", "schema"}
    /\ Init
    /\ IF part = "schema" THEN Schema!Init
       ELSE cols = <<>> /\ home = <<>> /\ row = <<>> /\ whole = FALSE
            /\ inspection = <<>>
            /\ asked = 0 /\ changes = 0 /\ lost = 0

MCNext ==
    \/ /\ \/ part = "alone" /\ AloneNext
          \/ part = "crossing" /\ CrossingNext
          \/ part # "schema" /\ Around
       /\ UNCHANGED <<part, schemaVars>>
    \/ part = "schema" /\ (Schema!SchemaNext \/ Stops) /\ UNCHANGED <<part, vars>>

MCSpec == MCInit /\ [][MCNext]_<<vars, part, schemaVars>>

RequestsAreAlike == Permutations(Proc) \cup Permutations(Managed)

\* With one request at a time, whatever stops or gets lost, the states point
\* into the mapped database (persistNotionBinding, saveNotionMapping).
AloneStatesOfMappedSource == part = "alone" => StatesOfMappedSource

\* With one request at a time, nothing is left where there is no credential
\* (disconnectNotion).
AloneNothingWithoutCredential == part = "alone" => NothingWithoutCredential

\* A repair of the columns it has read deletes and converts none, keeps their
\* options and makes the schema READY, unless a field finds its name on the
\* column of another (repairNotionSchema); and the health that is stored is
\* that of the columns of the row, though columns and row change under
\* diagnoses and repairs (inspectAndPersistSchema).
SchemaIsExact ==
    [][part = "schema" => /\ Schema!RepairsKeepColumns
                          /\ Schema!RepairsEndReady
                          /\ Schema!StoredHealthIsTrue]_schemaVars
=============================================================================
