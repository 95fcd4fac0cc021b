-------------------------- MODULE SchemaMigration ---------------------------
(* Opening voom.db (plugins/sqlite-store/src/schema.rs): create_schema runs the
   SCHEMA_SQL batch and then migrate, statement by statement.  Every statement
   commits by itself, so a crash or a second process opening the same file may
   fall between any two of them.

   A database is what SQLite's catalogue says of it: its tables, those columns
   that some migration may have to add ("late" columns; the others came with
   their table), and its indexes.  Of the rows only those a migration rewrites
   are kept, or that may stop one: duplicate subtitle rows, files superseded by
   the same file, and the types of the video tracks. *)
EXTENDS FiniteSets, Naturals, Sequences, SequencesExt

CONSTANTS SmOpeners,     \* processes that open the database
          SmDatabases,   \* the databases the first open may find
          SmMaxRestarts  \* bound: opens tried again after one died or was refused

\* One statement of a batch or one guarded migration step.
\* "batch" is how many statements the check in front of a migration step guards.
Stmt(k, n, t, cs) == [kind |-> k, name |-> n, on |-> t, cols |-> cs, batch |-> 1]

TableStmt(t, cs) == Stmt("table", t, t, cs)
IndexStmt(i, t, cs) == Stmt("index", i, t, cs)
ColumnStmt(t, c) == Stmt("column", c, t, {c})

PlansColumns == <<"skip_reason", "policy_hash", "evaluated_at">>

FilesColumns ==
  <<"expected_hash", "status", "missing_since", "superseded_by", "crop_left",
    "crop_top", "crop_right", "crop_bottom", "crop_detected_at", "crop_settings_fingerprint">>

TracksColumns ==
  <<"is_animation", "loudness_integrated_lufs", "loudness_true_peak_db", "loudness_range_lu",
    "loudness_measured_at", "color_primaries", "color_transfer", "color_matrix", "max_cll",
    "max_fall", "master_display", "dolby_vision_profile">>

ProcessingColumns ==
  <<"duration_ms", "actions_taken", "tracks_modified", "outcome", "policy_name", "phase_name">>

CaptureColumns == <<"error_message", "session_id">>

TransitionsColumns ==
  ProcessingColumns \o <<"metadata_snapshot">> \o CaptureColumns \o <<"from_path">>

\* The tables the batch creates whose shape no migration has to bring up to date.
StableTables ==
  {"jobs", "plugin_data", "bad_files", "discovered_files", "health_checks", "event_log",
   "subtitles", "library_snapshots", "pending_operations", "verifications",
   "transcode_outcomes", "estimate_runs", "estimate_files", "cost_model_samples",
   "plugin_stats"}

\* The tables migrate_missing_tables creates when they are missing; all of them
\* are also created by the batch that ran before it.
MissingTables == StableTables \ {"jobs", "plugin_data", "bad_files", "plugin_stats"}

SCHEMA_SQL ==
  <<TableStmt("files", ToSet(FilesColumns) \cup {"last_seen_session_id"}),
    TableStmt("tracks", ToSet(TracksColumns)),
    TableStmt("plans", ToSet(PlansColumns) \cup {"session_id"}),
    TableStmt("file_transitions", ToSet(TransitionsColumns)),
    IndexStmt("idx_transitions_from_path", "file_transitions", {"from_path"}),
    Stmt("tables", "", "", {}),
    TableStmt("scan_sessions", {"last_heartbeat_at"}),
    IndexStmt("idx_files_expected_hash_status", "files", {"expected_hash", "status"}),
    IndexStmt("idx_files_superseded_by", "files", {"superseded_by"}),
    IndexStmt("idx_files_superseded_by_unique", "files", {"superseded_by"}),
    IndexStmt("idx_files_last_seen_session", "files", {"last_seen_session_id"}),
    IndexStmt("idx_tracks_type", "tracks", {}),
    TableStmt("scan_session_mutations", {})>>

\* Mutant: the loop stops one column short.
Columns_AllButLast(t, cs) == [k \in 1..(Len(cs) - 1) |-> ColumnStmt(t, cs[k])]

Columns(t, cs) == [k \in 1..Len(cs) |-> ColumnStmt(t, cs[k])]

migrate_scan_sessions ==
  <<[ColumnStmt("files", "last_seen_session_id") EXCEPT !.batch = 2],
    IndexStmt("idx_files_last_seen_session", "files", {"last_seen_session_id"}),
    TableStmt("scan_sessions", {}),
    ColumnStmt("scan_sessions", "last_heartbeat_at")>>

migrate_indexes_and_constraints ==
  <<IndexStmt("idx_tracks_type", "tracks", {}),
    IndexStmt("idx_files_superseded_by", "files", {"superseded_by"}),
    IndexStmt("idx_files_superseded_by_unique", "files", {"superseded_by"}),
    [Stmt("dedupe", "idx_subtitles_unique", "subtitles", {}) EXCEPT !.batch = 2],
    Stmt("unique", "idx_subtitles_unique", "subtitles", {}),
    IndexStmt("idx_jobs_completed_at", "jobs", {}),
    IndexStmt("idx_event_log_created_at", "event_log", {}),
    IndexStmt("idx_transitions_created_at", "file_transitions", {}),
    IndexStmt("idx_files_expected_hash_status", "files", {"expected_hash", "status"})>>

migrate_execution_capture_columns ==
  Columns("file_transitions", CaptureColumns)
  \o <<IndexStmt("idx_transitions_session", "file_transitions", {"session_id"}),
       ColumnStmt("plans", "session_id"),
       IndexStmt("idx_plans_session", "plans", {"session_id"})>>

migrate_from_path_column ==
  <<ColumnStmt("file_transitions", "from_path"),
    IndexStmt("idx_transitions_path", "file_transitions", {}),
    IndexStmt("idx_transitions_from_path", "file_transitions", {"from_path"})>>

migrate_cover_art_track_types ==
  <<[Stmt("stills", "", "tracks", {}) EXCEPT !.batch = 2], Stmt("mjpeg", "", "tracks", {})>>

migrate_scan_session_mutations ==
  <<TableStmt("scan_session_mutations", {}), Stmt("rebuild", "", "scan_session_mutations", {})>>

migrate ==
  <<Stmt("missing", "", "", {}),
    Stmt("drop", "", "file_history", {}),
    TableStmt("file_transitions", {})>>
  \o Columns("plans", PlansColumns)
  \o Columns("files", FilesColumns)
  \o migrate_scan_sessions
  \o Columns("tracks", TracksColumns)
  \o migrate_indexes_and_constraints
  \o Columns("file_transitions", ProcessingColumns)
  \o <<Stmt("drop", "", "processing_stats", {})>>
  \o Columns("file_transitions", <<"metadata_snapshot">>)
  \o migrate_execution_capture_columns
  \o migrate_from_path_column
  \o migrate_cover_art_track_types
  \o migrate_scan_session_mutations

create_schema == SCHEMA_SQL \o migrate

-----------------------------------------------------------------------------

VARIABLES smDb,       \* [tables, cols, indexes, dups, forked, tracks]: the file on disk
          smPc,       \* opener -> next statement, 0 = not opening
          smDecided,  \* openers whose check told them to run the statement
          smFirst,    \* ghost: the database the first open found
          smAlone,    \* ghost: openers whose last open overlapped no other
          smRestarts

smVars == <<smDb, smPc, smDecided, smFirst, smAlone, smRestarts>>

Opened == Len(create_schema) + 1
Refused == Len(create_schema) + 2
Died == Len(create_schema) + 3

Stills == {"png", "bmp", "gif", "webp"}

IsVideo(t) == t.type = "video"

Videos(ts) == {t \in ts : IsVideo(t)}

\* UPDATE tracks SET track_type = 'attachment' WHERE ...
Attach(ts, which) ==
  {IF t \in which THEN [t EXCEPT !.type = "attachment"] ELSE t : t \in ts}

ReclassifyStills(ts) == Attach(ts, {t \in Videos(ts) : t.codec \in Stills})

ReclassifyMjpeg(ts) ==
  IF Cardinality(Videos(ts)) > 1
  THEN Attach(ts, {t \in Videos(ts) : t.codec = "mjpeg"})
  ELSE ts

has_column(db, t, c) == <<t, c>> \in db.cols

\* The check in front of a guarded statement: has_column, has_index,
\* has_candidates, has_original_path.
Needed(db, s) ==
  CASE s.kind = "column" -> ~has_column(db, s.on, s.name)
    [] s.kind = "dedupe" -> s.name \notin db.indexes
    [] s.kind \in {"stills", "mjpeg"} /\ s.batch = 2 ->
         \E f \in DOMAIN db.tracks :
           \E t \in Videos(db.tracks[f]) : t.codec \in Stills \cup {"mjpeg"}
    [] s.kind = "rebuild" -> has_column(db, s.on, "original_path")
    [] OTHER -> TRUE

Guarded(s) == s.kind \in {"column", "dedupe", "rebuild"} \/ s.batch > 1

\* SQLite refuses the statement: no such column, duplicate column, or rows that
\* break a unique index.
Fails(db, s) ==
  \/ s.kind = "index" /\ s.name \notin db.indexes
       /\ \E c \in s.cols : ~has_column(db, s.on, c)
  \/ s.kind = "column" /\ has_column(db, s.on, s.name)
  \/ s.kind = "unique" /\ s.name \notin db.indexes /\ db.dups
  \/ s.name = "idx_files_superseded_by_unique" /\ s.name \notin db.indexes /\ db.forked

Create(db, ts, cs) == [db EXCEPT !.tables = @ \cup ts, !.cols = @ \cup cs]

\* What a statement that succeeds leaves in the database.
Apply(db, s) ==
  CASE s.kind = "table" ->
         IF s.name \in db.tables THEN db
         ELSE Create(db, {s.name}, {<<s.name, c>> : c \in s.cols})
    [] s.kind = "tables" -> Create(db, StableTables, {})
    [] s.kind = "missing" -> Create(db, MissingTables, {})
    [] s.kind \in {"index", "unique"} -> [db EXCEPT !.indexes = @ \cup {s.name}]
    [] s.kind = "column" -> Create(db, {}, {<<s.on, s.name>>})
    [] s.kind = "dedupe" -> [db EXCEPT !.dups = FALSE]
    [] s.kind = "drop" -> [db EXCEPT !.tables = @ \ {s.on}]
    [] s.kind = "stills" -> [db EXCEPT !.tracks = [f \in DOMAIN @ |-> ReclassifyStills(@[f])]]
    [] s.kind = "mjpeg" -> [db EXCEPT !.tracks = [f \in DOMAIN @ |-> ReclassifyMjpeg(@[f])]]
    [] s.kind = "rebuild" -> [db EXCEPT !.cols = @ \ {<<s.on, "original_path">>}]

SmInit ==
  /\ smDb \in SmDatabases
  /\ smPc = [o \in SmOpeners |-> 0]
  /\ smDecided = {}
  /\ smFirst = smDb
  /\ smAlone = {}
  /\ smRestarts = 0

Running(o) == smPc[o] \in 1..Len(create_schema)

\* SqliteStore::open reaches create_schema.  Nothing tries again what failed: it
\* is the user who starts the next command, or does not.
Open(o) ==
  /\ \/ smPc[o] = 0 /\ UNCHANGED smRestarts
     \/ smPc[o] \in {Refused, Died} /\ smRestarts < SmMaxRestarts /\ smRestarts' = smRestarts + 1
  /\ smPc' = [smPc EXCEPT ![o] = 1]
  /\ LET others == {q \in SmOpeners \ {o} : Running(q)}
     IN smAlone' = IF others = {} THEN smAlone \cup {o} ELSE smAlone \ (others \cup {o})
  /\ UNCHANGED <<smDb, smDecided, smFirst>>

\* The read in front of a guarded statement, a statement of its own.
Check(o) ==
  /\ Running(o) /\ o \notin smDecided
  /\ LET s == create_schema[smPc[o]] IN
     /\ Guarded(s)
     /\ IF Needed(smDb, s)
        THEN smDecided' = smDecided \cup {o} /\ UNCHANGED smPc
        ELSE smPc' = [smPc EXCEPT ![o] = @ + s.batch] /\ UNCHANGED smDecided
  /\ UNCHANGED <<smDb, smFirst, smAlone, smRestarts>>

\* One statement of create_schema commits, or its error makes open fail.
Execute(o) ==
  /\ Running(o)
  /\ LET s == create_schema[smPc[o]] IN
     /\ Guarded(s) => o \in smDecided
     /\ IF Fails(smDb, s)
        THEN smPc' = [smPc EXCEPT ![o] = Refused] /\ UNCHANGED smDb
        ELSE smPc' = [smPc EXCEPT ![o] = @ + 1] /\ smDb' = Apply(smDb, s)
  /\ smDecided' = smDecided \ {o}
  /\ UNCHANGED <<smFirst, smAlone, smRestarts>>

\* The process dies between two statements, or its open fails because somebody
\* else had the database locked for longer than the busy timeout.
CrashOpening(o) ==
  /\ Running(o)
  /\ smPc' = [smPc EXCEPT ![o] = Died]
  /\ smDecided' = smDecided \ {o}
  /\ UNCHANGED <<smDb, smFirst, smAlone, smRestarts>>

SmStep(o) == Check(o) \/ Execute(o)

SmNext == \E o \in SmOpeners : Open(o) \/ SmStep(o) \/ CrashOpening(o)

\* An open that was started goes on; nothing makes anybody start one.
SmFairness == \A o \in SmOpeners : WF_smVars(SmStep(o))

-----------------------------------------------------------------------------

EmptyDatabase == [tables |-> {}, cols |-> {}, indexes |-> {}, dups |-> FALSE, forked |-> FALSE, tracks |-> <<>>]

Statements == ToSet(create_schema)

\* What create_schema makes of an empty file: every table with its late columns,
\* every index.
FreshDatabase ==
  [tables  |-> StableTables \cup {s.name : s \in {t \in Statements : t.kind = "table"}},
   cols    |-> UNION {{<<s.name, c>> : c \in s.cols} : s \in {t \in Statements : t.kind = "table"}},
   indexes |-> {s.name : s \in {t \in Statements : t.kind \in {"index", "unique"}}},
   dups    |-> FALSE,
   forked  |-> FALSE,
   tracks  |-> <<>>]

\* create_schema returned Ok: whatever database it found, wherever an earlier
\* open died and whoever else was opening it, the schema is the one a new
\* installation gets.
OpenedIsCurrent ==
  \A o \in SmOpeners : smPc[o] = Opened =>
    /\ smDb.tables = FreshDatabase.tables
    /\ smDb.cols = FreshDatabase.cols
    /\ smDb.indexes = FreshDatabase.indexes
    /\ ~smDb.dups

\* migrate_cover_art_track_types: stills become attachments, an mjpeg track only
\* beside a moving picture, and interrupted or repeated migrations change nothing
\* more: a file never loses its last moving picture to a still.
CoverArtReclassified ==
  \A f \in DOMAIN smFirst.tracks :
    LET moving == {t \in Videos(smFirst.tracks[f]) : t.codec \notin Stills}
        judged == {t.n : t \in {v \in moving : v.codec # "mjpeg" \/ Cardinality(moving) = 1}}
        shown  == {t.n : t \in Videos(smDb.tracks[f])}
    IN /\ judged \subseteq shown
       /\ (\E o \in SmOpeners : smPc[o] = Opened) => shown = judged

\* What the batch cannot get past: it indexes a column the table lacks, which
\* only the migration after it would add, or rows break the unique index.
Unopenable(db) == \E s \in ToSet(SCHEMA_SQL) : s.on \in db.tables /\ Fails(db, s)

\* No open that was refused, overtaken or cut off anywhere leaves a database
\* that an open with nobody beside it cannot bring up to date: alone, only a
\* database that could not be opened in the first place is refused.
AloneIsNotRefused == \A o \in smAlone : smPc[o] = Refused => Unopenable(smFirst)

\* Whatever database is found, wherever an earlier open died and whoever else
\* is opening it, an open that succeeds finds the current schema, cover art
\* is reclassified once and for all, and an open with nobody beside it is
\* refused only a database that could not be opened in the first place
\* (create_schema, migrate).
MigrationSound ==
  /\ OpenedIsCurrent
  /\ CoverArtReclassified
  /\ AloneIsNotRefused
=============================================================================
