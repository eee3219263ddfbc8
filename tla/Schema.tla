------------------------------- MODULE Schema -------------------------------
(***************************************************************************)
(* storage_index.engine.connect: a process opens the database and migrates *)
(* it.  The connection is in autocommit mode, so every statement of a step *)
(* is durable on its own, and the version row is written after the last    *)
(* step: a process that dies on the way leaves a database that is ahead of *)
(* its version, and two processes (the desktop and the command line) may   *)
(* migrate at the same time.                                               *)
(***************************************************************************)
EXTENDS Naturals, FiniteSets, Sequences

CONSTANTS
    Openers,        \* processes
    OldVersions,    \* versions the database may have at first
    MaxCrashes      \* bound on the processes that die

VARIABLES
    db,             \* names of the tables and of the columns added later
    version,        \* meta.schema_version, 0 when the row is missing
    opener,         \* per process: where it is and the columns it last read
    raced,          \* processes that had company while they migrated
    crashed         \* processes that died so far

schemaVars == <<db, version, opener, raced, crashed>>

SCHEMA_VERSION == 15

\* A database is new or of this release or an older one.
ASSUME SchemaAssumption == OldVersions \subseteq 0..SCHEMA_VERSION /\ MaxCrashes \in Nat

Columns(names) == <<[kind |-> "read", name |-> ""]>>
                  \o [i \in 1..Len(names) |-> [kind |-> "column", name |-> names[i]]]
Tables(names) == [i \in 1..Len(names) |-> [kind |-> "table", name |-> names[i]]]

ChunkColumns == <<"content", "body", "memory_type", "status", "source", "created_at",
                  "modified_at", "metadata", "meta_json">>

\* The columns CREATE TABLE brings along that a later step also looks for.
CreatedWith(table) ==
    CASE table = "memory_chunks" -> {ChunkColumns[i] : i \in 1..Len(ChunkColumns)}
      [] table = "messages" -> {"emotion"}
      [] table = "job_tasks" -> {"error"}
      [] OTHER -> {}

\* The statements of _init_v<v>, in order.
init_v1 == Tables(<<"sessions", "messages", "memory_chunks", "memory_fts", "consent_artifacts">>)
init_v2 == Tables(<<"memory_drafts">>)
init_v3 == Columns(<<"embedding_blob">>)
init_v4 == Columns(ChunkColumns)
init_v5 == Columns(<<"embedding_blob", "embedding_model", "embedding_dim">>)
init_v6 == Columns(<<"emotion">>)
init_v7 == Tables(<<"job_tasks", "message_execution_records", "dead_letter_queue">>)
           \o Columns(<<"error">>)
init_v8 == Tables(<<"extension_status">>)
init_v9 == Tables(<<"personas">>)
init_v10 == Tables(<<"plans", "plan_steps">>)
init_v11 == Columns(<<"message_status">>) \o Tables(<<"stream_events">>)
init_v12 == Tables(<<"semantic_events">>)
init_v13 == Columns(<<"persona_snapshot_json", "persona_snapshot_schema",
                      "persona_snapshot_sha256", "persona_snapshot_source",
                      "switch_request_id">>)
            \o Tables(<<"desktop_session_state">>)
init_v14 == <<[kind |-> "rows", name |-> "snapshot_sources"]>>
init_v15 == init_v9 \o Columns(<<"derived_traits_json", "derived_levels_json",
                                 "derived_cutpoint_version">>)
            \o Tables(<<"persona_migration_state">>)

Statements == <<init_v1, init_v2, init_v3, init_v4, init_v5, init_v6, init_v7, init_v8,
                init_v9, init_v10, init_v11, init_v12, init_v13, init_v14, init_v15>>

\* What a database of version v holds.
Holds(v) == (UNION {{s.name} \cup CreatedWith(s.name) :
                      s \in UNION {{Statements[w][i] : i \in 1..Len(Statements[w])} : w \in 1..v}})
            \ {""}

Closed == [at |-> "closed", step |-> 1, statement |-> 1, cols |-> {}]

SchemaInit ==
    /\ version \in OldVersions
    /\ db = Holds(version)
    /\ opener = [o \in Openers |-> Closed]
    /\ raced = {}
    /\ crashed = 0

-----------------------------------------------------------------------------
Migrating(o) == opener[o].at = "step"

\* connect: PRAGMAs, the meta table, the version row.
Connect(o) ==
    /\ opener[o].at = "closed"
    /\ opener' = [opener EXCEPT ![o] = [Closed EXCEPT !.at = "step", !.step = version + 1]]
    /\ raced' = LET others == {q \in Openers \ {o} : Migrating(q)}
                IN  IF others = {} THEN raced \ {o} ELSE raced \cup others \cup {o}
    /\ UNCHANGED <<db, version, crashed>>

Statement(o) == Statements[opener[o].step][opener[o].statement]

Advanced(o) ==
    IF opener[o].statement < Len(Statements[opener[o].step])
    THEN [opener[o] EXCEPT !.statement = @ + 1]
    ELSE [opener[o] EXCEPT !.step = @ + 1, !.statement = 1, !.cols = {}]

\* ALTER TABLE only for a column the PRAGMA did not list.
\* Mutant: without looking at what is there.
SkipsColumn_Never(o) == FALSE
SkipsColumn(o) == Statement(o).name \in opener[o].cols

RunStatement(o) ==
    /\ Migrating(o) /\ opener[o].step <= SCHEMA_VERSION
    /\ LET s == Statement(o)
           duplicate == s.kind = "column" /\ ~SkipsColumn(o) /\ s.name \in db
       IN  /\ opener' = [opener EXCEPT ![o] =
                           IF duplicate THEN [@ EXCEPT !.at = "failed"]
                           ELSE IF s.kind = "read" THEN [Advanced(o) EXCEPT !.cols = db]
                           ELSE Advanced(o)]
           /\ db' = IF s.kind = "read" \/ duplicate THEN db
                    ELSE db \cup {s.name} \cup IF s.name \in db THEN {} ELSE CreatedWith(s.name)
    /\ UNCHANGED <<version, raced, crashed>>

\* INSERT INTO meta ... ON CONFLICT DO UPDATE.
StoreVersion(o) ==
    /\ Migrating(o) /\ opener[o].step = SCHEMA_VERSION + 1
    /\ version' = SCHEMA_VERSION
    /\ opener' = [opener EXCEPT ![o].at = "open"]
    /\ UNCHANGED <<db, raced, crashed>>

\* The process dies, or gives up after a failed statement, and is started again.
Die(o) ==
    /\ opener[o].at # "closed" /\ crashed < MaxCrashes
    /\ crashed' = crashed + 1
    /\ opener' = [opener EXCEPT ![o] = Closed]
    /\ UNCHANGED <<db, version, raced>>

SchemaNext == \E o \in Openers : Connect(o) \/ RunStatement(o) \/ StoreVersion(o) \/ Die(o)

SchemaSpec == SchemaInit /\ [][SchemaNext]_schemaVars

-----------------------------------------------------------------------------
SchemaTypeOK ==
    /\ db \subseteq Holds(SCHEMA_VERSION)
    /\ version \in 0..SCHEMA_VERSION
    /\ \A o \in Openers :
         /\ opener[o].at \in {"closed", "step", "open", "failed"}
         /\ opener[o].step \in 1..SCHEMA_VERSION + 1
         /\ opener[o].statement \in Nat
         /\ opener[o].cols \subseteq db
    /\ raced \subseteq Openers
    /\ crashed \in 0..MaxCrashes

\* Whatever the earlier processes left behind when they died, a process that
\* opened the database finds every table and column there, and one that fails
\* on a column (engine._init_v3 .. _init_v15) had another process migrating
\* at the same time: starting again is always enough.
MigrationHeals ==
    \A o \in Openers : /\ opener[o].at = "open" => db = Holds(SCHEMA_VERSION)
                       /\ opener[o].at = "failed" => o \in raced
=============================================================================
