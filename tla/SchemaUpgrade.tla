---------------------------- MODULE SchemaUpgrade ----------------------------
(***************************************************************************)
(* Database.init_schema (app/repositories/database.py): what a start does  *)
(* to the database it finds, statement by statement, with a kill or an     *)
(* exception between any two.                                              *)
(*                                                                         *)
(* The driver opens a transaction before the first INSERT or UPDATE and    *)
(* none before DDL: an ALTER TABLE commits by itself unless an UPDATE came *)
(* first.  executescript commits what is pending and then commits every    *)
(* statement by itself.                                                    *)
(***************************************************************************)
EXTENDS Naturals, FiniteSets

CONSTANT MaxStops    \* bound: kills and failures

ASSUME SchemaAssumption == MaxStops \in Nat

VARIABLES
  disk,      \* the committed database
  view,      \* the database as the connection sees it
  open,      \* whether the connection has a transaction open
  pc,        \* what init_schema does next; "off", "up" and "refused" outside
  stops,     \* how often a start was cut short
  origin,    \* history: the database before the first start
  cut        \* history: a start was cut between the column of identities and its commit

schemaVars == <<disk, view, open, pc, stops, origin, cut>>

Current == 4
Alpha == {1, 2, 3}
Tables == {"product_meta", "content", "users"}   \* in the order of SCHEMA_SQL
MeetingColumns == {"transcript_state", "processing_manifest_json"}
SampleColumns == {"effective_speech_sec", "audio_sha256"}
Columns == MeetingColumns \cup {"identity_status"} \cup SampleColumns

(* names: whether identity_status agrees with the confirmations it is about. *)
Empty == [tables |-> {}, version |-> 0, columns |-> {}, names |-> TRUE,
          index |-> "valid", admin |-> FALSE]
OldDatabases ==
  {[tables |-> Tables, version |-> v, columns |-> cols, names |-> "identity_status" \in cols,
    index |-> ix, admin |-> TRUE] :
     v \in 1..5, ix \in {"valid", "stale"}, cols \in SUBSET Columns}
Legacy ==
  {db \in OldDatabases : /\ db.version \in {2, 3} => MeetingColumns \subseteq db.columns
                         /\ db.version >= Current => db.columns = Columns}

SchemaInit ==
  /\ disk \in Legacy \cup {Empty}
  /\ origin = disk /\ view = disk
  /\ pc = "off" /\ open = FALSE /\ stops = 0 /\ cut = FALSE

(* One statement: it goes from step a to step b and makes the database db. *)
Statement(a, b, db, transaction) ==
  /\ pc = a /\ pc' = b
  /\ view' = db /\ open' = transaction
  /\ disk' = IF transaction THEN disk ELSE db
  /\ UNCHANGED <<stops, origin>>
DDL(a, b, db) == Statement(a, b, db, open)
DML(a, b, db) == Statement(a, b, db, TRUE)
Committing(a, b, db) == Statement(a, b, db, FALSE)

Adding(cols) == [view EXCEPT !.columns = @ \cup cols]

(* connect: a database without product_meta gets the schema at once.       *)
Open ==
  /\ pc = "off"
  /\ view' = disk /\ open' = FALSE
  /\ pc' = IF "product_meta" \in disk.tables THEN "inspect" ELSE "bootstrap"
  /\ UNCHANGED <<disk, stops, origin, cut>>

Inspect ==
  /\ DDL("inspect", IF view.version \in Alpha THEN "meetings" ELSE "script", view)
  /\ UNCHANGED cut

AlterMeetings ==
  /\ \/ \E c \in MeetingColumns \ view.columns :
          view.version = 1 /\ DDL("meetings", "meetings", Adding({c}))
     \/ /\ view.version # 1 \/ MeetingColumns \subseteq view.columns
        /\ DDL("meetings", "speakers", view)
  /\ UNCHANGED cut

AlterSpeakers ==
  /\ IF "identity_status" \in view.columns
       THEN DDL("speakers", "samples", view)
       ELSE DDL("speakers", "backfill", [Adding({"identity_status"}) EXCEPT !.names = FALSE])
  /\ UNCHANGED cut

\* Mutant: the UPDATE only comes with the column of the sample hashes.
BackfilledWithHash == [view EXCEPT !.names = "audio_sha256" \notin view.columns]
Backfilled == [view EXCEPT !.names = TRUE]
Backfill == DML("backfill", "samples", Backfilled) /\ UNCHANGED cut

AlterSamples ==
  /\ \/ \E c \in SampleColumns \ view.columns : DDL("samples", "samples", Adding({c}))
     \/ SampleColumns \subseteq view.columns /\ DDL("samples", "version", view)
  /\ UNCHANGED cut

SetVersion == DML("version", "script", [view EXCEPT !.version = Current]) /\ UNCHANGED cut

(* executescript: its first effect is a COMMIT; then every table that is not *)
(* there, with all its columns, and the version, if there is none.           *)
Made(t) ==
  CASE t = "product_meta" -> [view EXCEPT !.tables = @ \cup {t}]
    [] t = "content" -> [view EXCEPT !.tables = @ \cup {t}, !.columns = Columns]
    [] OTHER -> [view EXCEPT !.tables = @ \cup {t}]

Following(step) == IF step = "bootstrap" THEN "inspect" ELSE "index"

Script ==
  /\ \E step \in {"bootstrap", "script"} :
       IF open THEN Committing(step, step, view)
       ELSE IF "product_meta" \notin view.tables THEN Committing(step, step, Made("product_meta"))
       ELSE IF view.version = 0 THEN Committing(step, step, [view EXCEPT !.version = Current])
       ELSE IF "content" \notin view.tables THEN Committing(step, step, Made("content"))
       ELSE IF "users" \notin view.tables THEN Committing(step, step, Made("users"))
       ELSE Committing(step, IF view.version = Current /\ view.columns = Columns
                               THEN Following(step) ELSE "refused", view)
  /\ UNCHANGED cut

(* _repair_transcript_search_index: the rebuild waits for the last commit. *)
RepairIndex ==
  /\ IF view.index = "valid" THEN DDL("index", "admin", view)
     ELSE DML("index", "admin", [view EXCEPT !.index = "valid"])
  /\ UNCHANGED cut

(* _ensure_default_admin, and the commit that ends init_schema.            *)
EnsureAdmin == Committing("admin", "up", [view EXCEPT !.admin = TRUE]) /\ UNCHANGED cut

(* The process is killed, or a statement raises and the connection closes: *)
(* what is not committed is gone.                                          *)
Stop ==
  /\ pc \notin {"off", "refused"} /\ stops < MaxStops
  /\ stops' = stops + 1
  /\ pc' = "off" /\ open' = FALSE /\ view' = disk
  /\ cut' = (cut \/ (~disk.names /\ "identity_status" \in disk.columns))
  /\ UNCHANGED <<disk, origin>>

SchemaNext ==
  \/ Open \/ Inspect \/ AlterMeetings \/ AlterSpeakers \/ Backfill \/ AlterSamples
  \/ SetVersion \/ Script \/ RepairIndex \/ EnsureAdmin \/ Stop

SchemaSpec == SchemaInit /\ [][SchemaNext]_schemaVars

-----------------------------------------------------------------------------
SchemaTypes ==
  /\ disk.tables \subseteq Tables /\ disk.columns \subseteq Columns
  /\ disk.version \in 0..5 /\ open \in BOOLEAN /\ stops \in 0..MaxStops
  /\ ~open => view = disk

(* A start refuses a database only when its version is unknown: whatever    *)
(* start was cut short before, and after whatever statement, the next one   *)
(* completes the upgrade ("small and idempotent", lines 199-201).           *)
OnlyUnknownRefused == pc = "refused" => origin.version \notin Alpha \cup {0, Current}

(* A server that is up has every column, a version, an account and a valid  *)
(* index; and every confirmed speaker still has the name it was confirmed   *)
(* with, unless a start was cut after the identity column was added and     *)
(* before the update that fills it was committed: the column is then there, *)
(* and no later start fills it.                                             *)
UpMeansUpgraded ==
  pc = "up" =>
    /\ disk.columns = Columns /\ disk.version = Current /\ disk.tables = Tables
    /\ disk.index = "valid" /\ disk.admin
    /\ disk.names \/ cut

(* An upgrade always completes, and what is up is completely upgraded.       *)
UpgradesComplete == OnlyUnknownRefused /\ UpMeansUpgraded
=============================================================================
