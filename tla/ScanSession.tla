---------------------------- MODULE ScanSession -----------------------------
(***************************************************************************)
(* Runs of `voom scan` and `voom process` over one library: discovery reads  *)
(* the disk, ingest writes what it read into a scan session, files are       *)
(* introspected and (process) rewritten, and the session is finished or      *)
(* cancelled.  Runs crash, the disk changes underneath them, the web API     *)
(* marks rows missing and old rows are purged.                               *)
(*                                                                           *)
(* A run is named by the session it began.  Its stages exchange events       *)
(* through channels; here an event stays in `found` until ingest takes it.   *)
(***************************************************************************)
EXTENDS FileTable

\* A setup: the modes of its runs (a subset of "scan", "process" and
\* "no_backup"), whether they are started with --force and so ignore the process
\* lock, the paths there are, and bounds on the sessions begun and on the
\* external changes of the disk.
CONSTANT Setups

ASSUME SetupsAssumption ==
  Setups \subseteq [modes : SUBSET {"scan", "process", "no_backup"}, force : BOOLEAN,
                    paths : SUBSET Path, sessions : 0..MaxSession, changes : Nat]

VARIABLES disk,        \* disk[p]: content hash of the file at p, or NoHash
          run,         \* run[s]: the process that began session s
          item,        \* item[s][p]: what becomes of p after ingest
          changes,     \* number of external changes so far
          setup        \* the setup of this behaviour

env == <<disk, changes, setup>>
sessionVars == <<files, transitions, outcomes, sessions, mutations, disk, run, item, changes, setup>>

\* quiet: history, since the run began nobody else changed the disk or a row,
\* and it changed nothing on the disk that it does not record as a mutation.
RunState == [pc : {"idle", "running", "ended", "dead"},
             mode : {"none", "scan", "process", "no_backup"},
             todo : SUBSET Path,
             found : SUBSET Path,
             hash : [Path -> Hash \cup {NoHash}],
             discovered : SUBSET Path,
             failed : BOOLEAN,
             quiet : BOOLEAN]

\* "known": ingest found the row up to date, so a stored copy may be used.
\* "loaded": a file in memory; its id is NoFile when introspection gave it a
\* UUID of its own, which is the id of no row.
Item == [stage : {"none", "queued", "known", "loaded", "written"},
         id : FileId \cup {NoFile},
         hash : Hash \cup {NoHash},
         to : Path \cup {NoPath}]

NoItem == [stage |-> "none", id |-> NoFile, hash |-> NoHash, to |-> NoPath]
Queued(stage, h) == [stage |-> stage, id |-> NoFile, hash |-> h, to |-> NoPath]
NoItems == [p \in Path |-> NoItem]

IdleRun == [pc |-> "idle", mode |-> "none", todo |-> {}, found |-> {},
            hash |-> [p \in Path |-> NoHash], discovered |-> {},
            failed |-> FALSE, quiet |-> FALSE]

SessionsInit ==
  /\ FileTableInit
  /\ setup \in Setups
  /\ disk \in [Path -> Hash \cup {NoHash}]
  /\ \A p \in Path \ setup.paths : disk[p] = NoHash
  /\ run = [s \in Session |-> IdleRun]
  /\ item = [s \in Session |-> NoItems]
  /\ changes = 0

SessionsTypeOK ==
  /\ FileTableTypeOK
  /\ disk \in [Path -> Hash \cup {NoHash}]
  /\ run \in [Session -> RunState]
  /\ item \in [Session -> [Path -> Item]]
  /\ setup \in Setups /\ changes \in 0..setup.changes

Running(s) == run[s].pc = "running"
Idle(s) == \A p \in Path : item[s][p].stage = "none"
Unlocked == \A s \in Session : ~Running(s) /\ Idle(s)
Hashing(s) == run[s].mode # "no_backup"

-----------------------------------------------------------------------------
(* A run, from the process lock to the end of its session.                   *)

Begin(s, roots, mode) ==
  /\ run[s].pc = "idle" /\ s <= setup.sessions
  /\ setup.force \/ Unlocked
  /\ begin_scan_session(s, roots)
  /\ run' = [run EXCEPT ![s] = [IdleRun EXCEPT !.pc = "running", !.mode = mode,
                                               !.todo = roots, !.quiet = TRUE]]
  /\ UNCHANGED <<item, env>>

\* Discovery lists and hashes one path, then sends the event to ingest.
Walk(s, p) ==
  /\ Running(s) /\ p \in run[s].todo
  /\ run' = [run EXCEPT ![s] =
       [@ EXCEPT !.todo = @ \ {p},
                 !.found = IF disk[p] = NoHash THEN @ ELSE @ \cup {p},
                 !.hash = IF Hashing(s) THEN [@ EXCEPT ![p] = disk[p]] ELSE @]]
  /\ UNCHANGED <<tables, item, env>>

\* A walk, open or hash error: counted, and no event is sent.
WalkFails(s, p) ==
  /\ Running(s) /\ p \in run[s].todo /\ disk[p] # NoHash
  /\ run' = [run EXCEPT ![s] = [@ EXCEPT !.todo = @ \ {p}, !.failed = TRUE]]
  /\ UNCHANGED <<tables, item, env>>

Take(s, p) ==
  run' = [run EXCEPT ![s] = [@ EXCEPT !.found = @ \ {p}, !.discovered = @ \cup {p}]]

\* Without a hash the session cannot register the file; it is only queued.
ForwardUnhashed(s, p) ==
  /\ Running(s) /\ p \in run[s].found /\ ~Hashing(s)
  /\ Take(s, p)
  /\ item' = [item EXCEPT ![s][p] = Queued("queued", NoHash)]
  /\ UNCHANGED <<tables, env>>

Ingest(s, p) ==
  /\ Running(s) /\ p \in run[s].found /\ Hashing(s)
  /\ InProgress(s)
  /\ LET h == run[s].hash[p] IN
       \/ /\ IngestIntrospect(s, p, h)
          /\ item' = [item EXCEPT ![s][p] = Queued("queued", h)]
       \/ /\ IngestKnown(s, p, h)
          /\ item' = IF run[s].mode = "scan" THEN item
                     ELSE [item EXCEPT ![s][p] = Queued("known", h)]
  /\ Take(s, p)
  /\ UNCHANGED env

\* The error cancels the session and ends the run.
IngestError(s, p) ==
  /\ Running(s) /\ p \in run[s].found /\ Hashing(s)
  /\ IngestFails(s, p)
  /\ cancel_scan_session(s)
  /\ run' = [run EXCEPT ![s].pc = "ended"]
  /\ item' = [item EXCEPT ![s] = NoItems]
  /\ UNCHANGED env

\* An executor finishes before its run ends; probes need not.
MayEnd(s) == \A p \in Path : item[s][p].stage # "written"

Cancel(s) ==
  /\ Running(s) /\ MayEnd(s)
  /\ cancel_scan_session(s)
  /\ run' = [run EXCEPT ![s].pc = "ended"]
  /\ item' = [item EXCEPT ![s] = NoItems]
  /\ UNCHANGED env

Drained(s) == Running(s) /\ run[s].todo = {} /\ run[s].found = {}

\* `voom scan` finishes whatever discovery reported and while probes run.
FinishScan(s) ==
  /\ Drained(s) /\ run[s].mode = "scan"
  /\ finish_scan_session(s)
  /\ run' = [run EXCEPT ![s].pc = "ended"]
  /\ UNCHANGED <<item, env>>

\* Mutant: discovery errors do not stop the missing pass.
FinishProcess_IgnoresErrors(s) ==
  /\ Drained(s) /\ run[s].mode = "process" /\ Idle(s)
  /\ finish_scan_session(s)
  /\ run' = [run EXCEPT ![s].pc = "ended"]
  /\ UNCHANGED <<item, env>>

\* `voom process` waits for its workers and refuses after a discovery error.
FinishProcess(s) ==
  /\ Drained(s) /\ run[s].mode = "process" /\ Idle(s) /\ ~run[s].failed
  /\ finish_scan_session(s)
  /\ run' = [run EXCEPT ![s].pc = "ended"]
  /\ UNCHANGED <<item, env>>

\* A discovery error, or an error from finish_scan_session: cancel and fail.
FinishRefused(s) ==
  /\ Drained(s)
  /\ \/ run[s].mode = "scan" /\ FinishFails(s)
     \/ run[s].mode # "scan" /\ Idle(s) /\ run[s].failed
     \/ run[s].mode = "process" /\ Idle(s) /\ FinishFails(s)
  /\ cancel_scan_session(s)
  /\ run' = [run EXCEPT ![s].pc = "ended"]
  /\ UNCHANGED <<item, env>>

\* --no-backup: missing files are found by path alone, then the session is
\* cancelled.
FinishNoBackup(s) ==
  /\ Drained(s) /\ run[s].mode = "no_backup" /\ Idle(s) /\ ~run[s].failed
  /\ mark_missing_paths(run[s].discovered \cup VoomTouched(s), sessions[s].roots)
  /\ sessions' = IF InProgress(s)
                 THEN [sessions EXCEPT ![s] =
                        [status |-> "cancelled", roots |-> sessions[s].roots, stale |-> FALSE]]
                 ELSE sessions
  /\ run' = [run EXCEPT ![s].pc = "ended"]
  /\ UNCHANGED <<transitions, outcomes, mutations, item, env>>

Crash(s) ==
  /\ Running(s) \/ ~Idle(s)
  /\ run' = [run EXCEPT ![s].pc = "dead"]
  /\ item' = [item EXCEPT ![s] = NoItems]
  /\ UNCHANGED <<tables, env>>

\* A minute passes without a heartbeat: the run died, or it was suspended or
\* could not write.  The latter matters only to runs that ignore the lock.
GrowStale(s) ==
  /\ InProgress(s) /\ ~sessions[s].stale
  /\ run[s].pc = "dead" \/ setup.force
  /\ sessions' = [sessions EXCEPT ![s] =
                    [status |-> "in_progress", roots |-> sessions[s].roots, stale |-> TRUE]]
  /\ UNCHANGED <<files, transitions, outcomes, mutations, run, item, env>>

Heartbeat(s) ==
  /\ Running(s) /\ sessions[s].stale
  /\ heartbeat_scan_session(s)
  /\ UNCHANGED <<run, item, env>>

-----------------------------------------------------------------------------
(* What follows ingest: introspection, and the plans of `voom process`.      *)

Disturb == run' = [s \in Session |-> [run[s] EXCEPT !.quiet = FALSE]]

SetItem(s, p, i) == item' = [item EXCEPT ![s][p] = i]

\* Probes of a scan run while discovery does and may outlast the session.  The
\* workers of a process run wait until ingest has drained and opened the gate.
ItemLive(s) ==
  \/ run[s].mode = "scan" /\ run[s].pc \in {"running", "ended"}
  \/ run[s].mode # "scan" /\ Drained(s)

\* ffprobe succeeds; the FileIntrospected event makes the store upsert the row.
Introspect(s, p) ==
  /\ ItemLive(s) /\ item[s][p].stage \in {"queued", "known"}
  /\ upsert_file(p, item[s][p].hash)
  /\ SetItem(s, p, IF run[s].mode = "scan" THEN NoItem
                   ELSE [Queued("loaded", item[s][p].hash) EXCEPT !.to = p])
  /\ UNCHANGED <<run, env>>

\* ffprobe fails, the policy skips the file, or its plans are empty.
GiveUpItem(s, p) ==
  /\ ItemLive(s) /\ item[s][p].stage \in {"queued", "known", "loaded"}
  /\ SetItem(s, p, NoItem)
  /\ UNCHANGED <<tables, run, env>>

\* matches_discovery: the stored row stands in for a fresh introspection.
LoadStored(s, p) ==
  /\ ItemLive(s) /\ item[s][p].stage = "known"
  /\ \E f \in AtPath(p) :
       /\ files[f].status = "active" /\ files[f].content_hash = item[s][p].hash
       /\ SetItem(s, p, [stage |-> "loaded", id |-> f, hash |-> item[s][p].hash, to |-> p])
  /\ UNCHANGED <<tables, run, env>>

\* check_file_hash, then a plan runs: the mutation is recorded, the file is
\* replaced by one with hash h at q (another extension, or the same path).
Execute(s, p, q, h) ==
  /\ Running(s) /\ item[s][p].stage = "loaded"
  /\ disk[p] # NoHash /\ item[s][p].hash \in {disk[p], NoHash}
  /\ q = p \/ disk[q] = NoHash
  /\ h # disk[p]
  /\ record_voom_mutation(s, {p, q})
  /\ disk' = [disk EXCEPT ![p] = NoHash, ![q] = h]
  /\ SetItem(s, p, [stage |-> "written", id |-> item[s][p].id, hash |-> h, to |-> q])
  /\ UNCHANGED <<files, transitions, outcomes, sessions, run, changes, setup>>

\* A transcode also records its outcome under the file's id.  An id without a
\* row is refused by the foreign key; the plan fails and the backup is restored.
Transcode(s, p, h) ==
  \/ /\ item[s][p].id \in FileId /\ IsRow(item[s][p].id)
     /\ Running(s) /\ item[s][p].stage = "loaded"
     /\ disk[p] # NoHash /\ item[s][p].hash \in {disk[p], NoHash} /\ h # disk[p]
     /\ record_voom_mutation(s, {p})
     /\ disk' = [disk EXCEPT ![p] = h]
     /\ outcomes' = outcomes \cup {item[s][p].id}
     /\ SetItem(s, p, [stage |-> "written", id |-> item[s][p].id, hash |-> h, to |-> p])
     /\ UNCHANGED <<files, transitions, sessions, run, changes, setup>>
  \/ /\ ~(item[s][p].id \in FileId /\ IsRow(item[s][p].id))
     /\ Running(s) /\ item[s][p].stage = "loaded"
     /\ disk[p] # NoHash /\ item[s][p].hash \in {disk[p], NoHash} /\ h # disk[p]
     /\ record_voom_mutation(s, {p})
     /\ SetItem(s, p, NoItem)
     /\ UNCHANGED <<files, transitions, outcomes, sessions, run, env>>

\* The verifier moves the file out of the library.
Quarantine(s, p) ==
  /\ Running(s) /\ item[s][p].stage = "loaded"
  /\ disk[p] # NoHash /\ item[s][p].hash \in {disk[p], NoHash}
  /\ disk' = [disk EXCEPT ![p] = NoHash]
  /\ files' = set_file_status(item[s][p].id, "quarantined")
  /\ SetItem(s, p, NoItem)
  /\ Disturb
  /\ UNCHANGED <<transitions, outcomes, sessions, mutations, changes, setup>>

\* handle_plan_success: path, transition and expected hash in one transaction,
\* which rolls back when another row holds the path.
Commit(s, p) ==
  LET i == item[s][p] IN
  /\ Running(s) /\ i.stage = "written"
  /\ IF PostExecutionFails(i.id, i.to) THEN UNCHANGED <<files, transitions>>
     ELSE record_post_execution(i.id, i.to, i.hash)
  /\ SetItem(s, p, NoItem)
  /\ UNCHANGED <<outcomes, sessions, mutations, run, env>>

-----------------------------------------------------------------------------
(* Everyone else.                                                            *)

ChangeDisk(p, h) ==
  /\ changes < setup.changes /\ h # disk[p]
  /\ disk' = [disk EXCEPT ![p] = h]
  /\ changes' = changes + 1
  /\ Disturb
  /\ UNCHANGED <<tables, item, setup>>

MoveOnDisk(p, q) ==
  /\ changes < setup.changes /\ disk[p] # NoHash /\ disk[q] = NoHash
  /\ disk' = [disk EXCEPT ![p] = NoHash, ![q] = disk[p]]
  /\ changes' = changes + 1
  /\ Disturb
  /\ UNCHANGED <<tables, item, setup>>

\* `voom files delete` and the web API
MarkMissing(f) == mark_missing(f) /\ Disturb /\ UNCHANGED <<item, env>>

PurgeMissing(cutoff) ==
  /\ setup.force \/ Unlocked
  /\ Purgeable(cutoff) # {}
  /\ purge_missing(cutoff)
  /\ UNCHANGED <<run, item, env>>

SessionsNext ==
  \/ \E s \in Session :
       \/ \E roots \in SUBSET setup.paths \ {{}}, mode \in setup.modes : Begin(s, roots, mode)
       \/ FinishScan(s) \/ FinishProcess(s) \/ FinishRefused(s) \/ FinishNoBackup(s)
       \/ Cancel(s) \/ Crash(s) \/ GrowStale(s) \/ Heartbeat(s)
       \/ \E p \in Path :
            \/ Walk(s, p) \/ WalkFails(s, p) \/ ForwardUnhashed(s, p)
            \/ Ingest(s, p) \/ IngestError(s, p)
            \/ Introspect(s, p) \/ GiveUpItem(s, p) \/ LoadStored(s, p)
            \/ \E h \in Hash : \/ Transcode(s, p, h)
                              \/ \E q \in setup.paths : Execute(s, p, q, h)
            \/ Quarantine(s, p) \/ Commit(s, p)
  \/ \E p \in setup.paths, h \in Hash \cup {NoHash} : ChangeDisk(p, h)
  \/ \E p, q \in setup.paths : MoveOnDisk(p, q)
  \/ \E f \in FileId : MarkMissing(f)
  \/ \E cutoff \in Session : PurgeMissing(cutoff)

SessionsSpec == SessionsInit /\ [][SessionsNext]_sessionVars

-----------------------------------------------------------------------------
Completes(s) == InProgress(s) /\ sessions'[s].status = "completed"
BecomesMissing(f) == files[f].status = "active" /\ files'[f].status = "missing"

\* begin_scan_session admits one session at a time: stale ones are cancelled
\* before a new one starts and a live one refuses it.
OneInProgress ==
  \A s, t \in Session : InProgress(s) /\ InProgress(t) => s = t

\* No two rows share a path: ingest, move detection and finish never rely on
\* the UNIQUE index to stop them.
PathUnique ==
  \A f, g \in FileId :
    IsRow(f) /\ IsRow(g) /\ files[f].path = files[g].path /\ files[f].path # NoPath => f = g

\* The superseded_by chain `voom history` walks: a superseded row has given up
\* its path, at most one row points to a successor, and the successor exists
\* or was purged, never deleted as a stub or by a promotion.
SupersessionSound ==
  \A f \in FileId : IsRow(f) /\ files[f].superseded_by # NoFile =>
    /\ files[f].path = NoPath
    /\ IsRow(files[f].superseded_by)
    /\ \A g \in FileId : IsRow(g) /\ files[g].superseded_by = files[f].superseded_by => g = f

\* A session that completes while nobody but VOOM touched the disk since it began
\* leaves a table that agrees with the disk under its roots: every file present
\* has a row that is not missing and expects its content, and no row of an
\* absent file is active.
FinishIsAccurate(s) ==
  Completes(s) /\ run[s].quiet /\ ~run[s].failed =>
    \A p \in sessions[s].roots \ VoomTouched(s) :
      IF disk[p] = NoHash
      THEN \A f \in FileId : ~(files'[f].status = "active" /\ files'[f].path = p)
      ELSE \E f \in FileId : /\ files'[f].path = p
                             /\ files'[f].status \in {"active", "quarantined"}
                             /\ files'[f].expected_hash = disk[p]

\* finish_scan_session promotes moves before it marks anything missing: no row
\* becomes missing while a file first seen in this session has its content and
\* no history of its own.
NoMissedMove(s, f) ==
  Completes(s) /\ BecomesMissing(f) /\ files[f].expected_hash # NoHash =>
    \A g \in FileId : ~(/\ files'[g].status = "active"
                        /\ files'[g].created_at = s /\ files'[g].last_seen = s
                        /\ files'[g].content_hash = files[f].expected_hash
                        /\ \A e \in FileId : files'[e].superseded_by # g)

\* What finish_scan_session leaves: accurate rows, and no move taken for a loss.
SessionReconciles ==
  [][\A s \in Session : FinishIsAccurate(s) /\ \A f \in FileId : NoMissedMove(s, f)]_sessionVars

\* The end of a run marks a row missing only if its path lies under the roots
\* of the run's session, the session did not register it, and VOOM did not
\* write to that path in this session.
MissingIsScoped(s, f) ==
  Running(s) /\ run'[s].pc = "ended" /\ BecomesMissing(f) =>
    /\ files[f].path \in sessions[s].roots \ VoomTouched(s)
    /\ files[f].last_seen # s

-----------------------------------------------------------------------------
(* Reconciliation after discovery errors.                                    *)

\* "Any reconciliation in this state could falsely mark a present-but-erroring
\* file as Missing" (process/mod.rs): a file on the disk throughout a session
\* of `voom process` is not marked missing when it completes.
PresentIsNotMissing(s, f) ==
  Completes(s) /\ run[s].mode = "process" /\ run[s].quiet /\ BecomesMissing(f) =>
    disk[files[f].path] = NoHash

\* A row is marked missing only at the end of a run that was to see its file and
\* did not, and never while the file of a quiet session is on the disk.
MarkedMissingRightly ==
  [][\A s \in Session, f \in FileId : MissingIsScoped(s, f) /\ PresentIsNotMissing(s, f)]_sessionVars

\* The file table stays sound under scans, their crashes and their reruns:
\* one session at a time, one row per path, and a chain of superseded rows
\* that never branches or dangles (begin_scan_session,
\* ingest_discovered_file, finish_scan_session).
TableSound ==
  /\ OneInProgress
  /\ PathUnique
  /\ SupersessionSound
=============================================================================
