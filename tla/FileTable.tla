----------------------------- MODULE FileTable ------------------------------
(***************************************************************************)
(* The `files`, `file_transitions`, `transcode_outcomes`, `scan_sessions`   *)
(* and `scan_session_mutations` tables and the transactions FileStorage      *)
(* runs on them (plugins/sqlite-store/src/store/file_storage.rs).  Every     *)
(* operator is one transaction.                                              *)
(*                                                                           *)
(* Sizes, file names, tracks and introspected metadata are left out: no      *)
(* decision below reads them.  A timestamp is the number of scan sessions    *)
(* begun so far, which is what the comparisons with `started_at` and with    *)
(* the retention cutoff need.  A root is the set of paths beneath it.        *)
(***************************************************************************)
EXTENDS FiniteSets, Integers

CONSTANTS FileId,       \* UUIDs of file rows
          Path,         \* paths a library may hold
          Hash,         \* content hashes
          NoFile,       \* NULL superseded_by, and the id of no row
          NoPath,       \* NULL path
          NoHash,       \* NULL hash
          MaxSession    \* bound: number of scan sessions begun

ASSUME NullAssumption == NoFile \notin FileId /\ NoPath \notin Path /\ NoHash \notin Hash
ASSUME MaxSessionAssumption == MaxSession \in Nat

VARIABLES files,        \* files[f]: the row with id f
          transitions,  \* transitions[f]: the sources of f's transition rows
          outcomes,     \* ids that transcode_outcomes.file_id references
          sessions,     \* sessions[s]: the scan session begun s-th
          mutations     \* scan_session_mutations: pairs <<session, path>>

tables == <<files, transitions, outcomes, sessions, mutations>>

Session == 1..MaxSession
Ordinal == 0..MaxSession

\* "unused": the UUID has not been drawn; "deleted": the row is gone.
FileRow == [status : {"unused", "deleted", "active", "missing", "quarantined"},
            path : Path \cup {NoPath},
            content_hash : Hash \cup {NoHash},
            expected_hash : Hash \cup {NoHash},
            superseded_by : FileId \cup {NoFile},
            last_seen : Ordinal,
            created_at : Ordinal,
            missing_since : Ordinal]

SessionRow == [status : {"unused", "in_progress", "completed", "cancelled"},
               roots : SUBSET Path,
               stale : BOOLEAN]

Source == {"discovery", "detected_move", "external", "voom"}

NullRow(status) ==
  [status |-> status, path |-> NoPath, content_hash |-> NoHash,
   expected_hash |-> NoHash, superseded_by |-> NoFile, last_seen |-> 0,
   created_at |-> 0, missing_since |-> 0]

FileTableInit ==
  /\ files = [f \in FileId |-> NullRow("unused")]
  /\ transitions = [f \in FileId |-> {}]
  /\ outcomes = {}
  /\ sessions = [s \in Session |-> [status |-> "unused", roots |-> {}, stale |-> FALSE]]
  /\ mutations = {}

FileTableTypeOK ==
  /\ files \in [FileId -> FileRow]
  /\ transitions \in [FileId -> SUBSET Source]
  /\ outcomes \subseteq FileId
  /\ sessions \in [Session -> SessionRow]
  /\ mutations \subseteq Session \X Path

IsRow(f) == files[f].status \in {"active", "missing", "quarantined"}
AtPath(p) == {f \in FileId : IsRow(f) /\ files[f].path = p}
InProgress(s) == sessions[s].status = "in_progress"
Now == Cardinality({s \in Session : sessions[s].status # "unused"})

-----------------------------------------------------------------------------
\* Refused while a session with a recent heartbeat is in progress; stale ones
\* are cancelled in the same transaction.
begin_scan_session(s, roots) ==
  /\ s = Now + 1
  /\ \A t \in Session : InProgress(t) => sessions[t].stale
  /\ sessions' = [t \in Session |->
       IF t = s THEN [status |-> "in_progress", roots |-> roots, stale |-> FALSE]
       ELSE IF InProgress(t) THEN [sessions[t] EXCEPT !.status = "cancelled"]
       ELSE sessions[t]]
  /\ UNCHANGED <<files, transitions, outcomes, mutations>>

\* WHERE id = ? AND status = 'in_progress'
cancel_scan_session(s) ==
  /\ sessions' = IF InProgress(s)
                 THEN [sessions EXCEPT ![s] =
                        [status |-> "cancelled", roots |-> sessions[s].roots, stale |-> FALSE]]
                 ELSE sessions
  /\ UNCHANGED <<files, transitions, outcomes, mutations>>

heartbeat_scan_session(s) ==
  /\ InProgress(s)
  /\ sessions' = [sessions EXCEPT ![s] =
                    [status |-> "in_progress", roots |-> sessions[s].roots, stale |-> FALSE]]
  /\ UNCHANGED <<files, transitions, outcomes, mutations>>

-----------------------------------------------------------------------------
(* Ingest of one discovered file (path p, content hash h) into session s.   *)

\* last_seen_session_id names a session that has not completed.
needs_recovery(f) ==
  files[f].last_seen # 0 /\ sessions[files[f].last_seen].status # "completed"

hash_matches(f, h) == files[f].expected_hash \in {h, NoHash}

ActiveRow(p, h, s) ==
  [status |-> "active", path |-> p, content_hash |-> h, expected_hash |-> h,
   superseded_by |-> NoFile, last_seen |-> s, created_at |-> Now, missing_since |-> 0]

IngestDuplicate(s, p) ==
  /\ \E f \in AtPath(p) : files[f].last_seen = s
  /\ UNCHANGED tables

ingest_unchanged(s, p, h) ==
  \E f \in AtPath(p) :
    /\ files[f].last_seen # s /\ ~needs_recovery(f) /\ hash_matches(f, h)
    /\ files' = [files EXCEPT ![f].status = "active", ![f].content_hash = h,
                              ![f].expected_hash = h, ![f].last_seen = s,
                              ![f].missing_since = 0]
    /\ UNCHANGED <<transitions, outcomes, sessions, mutations>>

\* The old row gives up its path to a new row and points to it.
ingest_externally_changed(s, p, h) ==
  \E f \in AtPath(p), g \in FileId :
    /\ files[f].last_seen # s /\ ~needs_recovery(f) /\ ~hash_matches(f, h)
    /\ files[g].status = "unused"
    /\ files' = [files EXCEPT ![g] = ActiveRow(p, h, s),
                              ![f].status = "missing", ![f].path = NoPath,
                              ![f].superseded_by = g, ![f].missing_since = Now]
    /\ transitions' = [transitions EXCEPT ![f] = @ \cup {"external"}, ![g] = {"discovery"}]
    /\ UNCHANGED <<outcomes, sessions, mutations>>

\* DELETE FROM files fails on a row transcode_outcomes references: that foreign
\* key has no ON DELETE CASCADE.
StubIsReferenced(s, p) ==
  \E f \in AtPath(p) : files[f].last_seen # s /\ needs_recovery(f) /\ f \in outcomes

\* No row at p, or one that recover_stub deletes.
NoRowPath(s, p) ==
  \A f \in AtPath(p) : files[f].last_seen # s /\ needs_recovery(f) /\ f \notin outcomes

\* Mutant: pointers to the deleted stub are kept.
recover_stub_KeepsPointers(p) ==
  [f \in FileId |-> IF f \in AtPath(p) THEN NullRow("deleted") ELSE files[f]]

\* The files after the stub at p, if any, is deleted and pointers to it cleared.
recover_stub(p) ==
  [f \in FileId |->
     IF f \in AtPath(p) THEN NullRow("deleted")
     ELSE IF files[f].superseded_by \in AtPath(p)
     THEN [files[f] EXCEPT !.superseded_by = NoFile]
     ELSE files[f]]

HistoryWithout(S) == [f \in FileId |-> IF f \in S THEN {} ELSE transitions[f]]

\* Missing rows with the hash whose last path lies under the session's roots.
MoveCandidates(s, p, h) ==
  {f \in FileId \ AtPath(p) : /\ files[f].status = "missing"
                             /\ files[f].expected_hash = h
                             /\ files[f].path \in sessions[s].roots}

ingest_moved(s, p, h) ==
  /\ NoRowPath(s, p)
  /\ \E f \in MoveCandidates(s, p, h) :
       /\ files' = [recover_stub(p) EXCEPT
            ![f] = [@ EXCEPT !.path = p, !.content_hash = h, !.status = "active",
                             !.last_seen = s, !.missing_since = 0]]
       /\ transitions' = [HistoryWithout(AtPath(p)) EXCEPT ![f] = @ \cup {"detected_move"}]
  /\ UNCHANGED <<outcomes, sessions, mutations>>

ingest_new(s, p, h) ==
  /\ NoRowPath(s, p)
  /\ MoveCandidates(s, p, h) = {}
  /\ \E g \in FileId :
       /\ files[g].status = "unused"
       /\ files' = [recover_stub(p) EXCEPT ![g] = ActiveRow(p, h, s)]
       /\ transitions' = [HistoryWithout(AtPath(p)) EXCEPT ![g] = {"discovery"}]
  /\ UNCHANGED <<outcomes, sessions, mutations>>

\* The decisions after which the file must be introspected, and the others.
IngestIntrospect(s, p, h) ==
  \/ ingest_externally_changed(s, p, h)
  \/ ingest_moved(s, p, h)
  \/ ingest_new(s, p, h)

IngestKnown(s, p, h) == IngestDuplicate(s, p) \/ ingest_unchanged(s, p, h)

\* The transaction that returns an error.
IngestFails(s, p) == ~InProgress(s) \/ StubIsReferenced(s, p)

-----------------------------------------------------------------------------
(* Finish: promote moves, then mark what was not seen.                      *)

Unseen(s) ==
  {f \in FileId : /\ files[f].status = "active"
                 /\ files[f].path \in sessions[s].roots
                 /\ files[f].last_seen # s}

\* A row of this session that f's content may have moved to.
IsMoveTarget(s, f, g) ==
  /\ IsRow(g) /\ g # f
  /\ files[g].last_seen = s
  /\ files[g].content_hash = files[f].expected_hash
  /\ files[g].created_at >= s
  /\ files[g].path # NoPath
  /\ \A e \in FileId : files[e].superseded_by # g

\* Mutant: the missing pass runs without promoting moves first.
Promotions_Skipped(s) == {[f \in {} |-> NoFile]}

\* Candidates are taken in some order and each consumes one target, so the
\* result is a matching no further candidate could extend.
Promotions(s) ==
  LET Candidates == {f \in Unseen(s) : files[f].expected_hash # NoHash}
      Targets == {g \in FileId : \E f \in Candidates : IsMoveTarget(s, f, g)}
  IN  {m \in UNION {[C -> Targets] : C \in SUBSET Candidates} :
        /\ \A f \in DOMAIN m : IsMoveTarget(s, f, m[f])
        /\ \A e, f \in DOMAIN m : m[e] = m[f] => e = f
        /\ \A f \in Candidates \ DOMAIN m, g \in Targets :
             IsMoveTarget(s, f, g) => \E e \in DOMAIN m : m[e] = g}

VoomTouched(s) == {p \in Path : <<s, p>> \in mutations}

FinishedRow(s, m, f) ==
  IF f \in DOMAIN m
  THEN [files[f] EXCEPT !.path = files[m[f]].path, !.content_hash = files[f].expected_hash,
                        !.last_seen = s]
  ELSE IF \E e \in DOMAIN m : m[e] = f THEN NullRow("deleted")
  ELSE IF f \in Unseen(s) /\ files[f].path \notin VoomTouched(s)
  THEN [files[f] EXCEPT !.status = "missing", !.missing_since = Now]
  ELSE files[f]

FinishedHistory(m, f) ==
  IF f \in DOMAIN m THEN transitions[f] \cup {"detected_move"}
  ELSE IF \E e \in DOMAIN m : m[e] = f THEN {}
  ELSE transitions[f]

\* Refused by a foreign key when a promotion would delete a referenced row.
FinishFails(s) ==
  ~InProgress(s) \/ \E m \in Promotions(s) : \E f \in DOMAIN m : m[f] \in outcomes

finish_scan_session(s) ==
  /\ InProgress(s)
  /\ \E m \in Promotions(s) :
       /\ \A f \in DOMAIN m : m[f] \notin outcomes
       /\ files' = [f \in FileId |-> FinishedRow(s, m, f)]
       /\ transitions' = [f \in FileId |-> FinishedHistory(m, f)]
  /\ sessions' = [sessions EXCEPT ![s] =
                    [status |-> "completed", roots |-> sessions[s].roots, stale |-> FALSE]]
  /\ UNCHANGED <<outcomes, mutations>>

-----------------------------------------------------------------------------
(* Writes outside the session protocol.                                     *)

\* ON CONFLICT(path) DO UPDATE: the row at p keeps its id, expected hash and
\* last-seen session.  The id looked up first is the one at p unless the row
\* moved in between, and then the tracks' foreign key rolls the write back.
upsert_file(p, h) ==
  /\ \/ \E f \in AtPath(p) :
          files' = [files EXCEPT ![f].status = "active", ![f].content_hash = h]
     \/ /\ AtPath(p) = {}
        /\ \E g \in FileId :
             /\ files[g].status = "unused"
             /\ files' = [files EXCEPT ![g] =
                  [NullRow("active") EXCEPT !.path = p, !.content_hash = h,
                                            !.created_at = Now]]
  /\ UNCHANGED <<transitions, outcomes, sessions, mutations>>

mark_missing(f) ==
  /\ files[f].status = "active"
  /\ files' = [files EXCEPT ![f].status = "missing", ![f].missing_since = Now]
  /\ UNCHANGED <<transitions, outcomes, sessions, mutations>>

mark_missing_paths(discovered, roots) ==
  files' = [f \in FileId |->
     IF files[f].status = "active" /\ files[f].path \in roots \ discovered
     THEN [files[f] EXCEPT !.status = "missing", !.missing_since = Now]
     ELSE files[f]]

Purgeable(cutoff) ==
  {f \in FileId : files[f].status = "missing" /\ files[f].missing_since < cutoff}

\* Two statements, each its own transaction; the second deletes nothing when
\* one of the rows is referenced by transcode_outcomes.
purge_missing(cutoff) ==
  /\ transitions' = HistoryWithout(Purgeable(cutoff))
  /\ files' = IF Purgeable(cutoff) \cap outcomes # {} THEN files
              ELSE [f \in FileId |-> IF f \in Purgeable(cutoff) THEN NullRow("deleted")
                                    ELSE files[f]]
  /\ UNCHANGED <<outcomes, sessions, mutations>>

\* UPDATE ... WHERE id = ?: no row, no effect.
set_file_status(f, status) ==
  IF f \in FileId /\ IsRow(f) THEN [files EXCEPT ![f].status = status] ELSE files

record_voom_mutation(s, S) == mutations' = mutations \cup {<<s, p>> : p \in S}

\* The UNIQUE index on path refuses a path another row holds.
PostExecutionFails(f, q) == f \in FileId /\ IsRow(f) /\ AtPath(q) \ {f} # {}

\* The transition is inserted under f even when f is the id of no row.
record_post_execution(f, q, h) ==
  /\ files' = IF f \in FileId /\ IsRow(f)
              THEN [files EXCEPT ![f].path = q, ![f].expected_hash = h]
              ELSE files
  /\ transitions' = IF f \in FileId THEN [transitions EXCEPT ![f] = @ \cup {"voom"}]
                    ELSE transitions
=============================================================================
