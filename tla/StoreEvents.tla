---------------------------- MODULE StoreEvents -----------------------------
(* The store's event handlers, and the retention of the tables they fill.   *)
EXTENDS FiniteSets, Integers, Sequences, FiniteSetsExt, SequencesExt

-----------------------------------------------------------------------------
(* What the sqlite-store plugin makes of the events of the bus: the rows of
   introspected and bad files, of plans and of operations in progress, and the
   log of events (plugins/sqlite-store/src/lib.rs and the store behind it), with the
   commands that prune those tables (commands/db.rs).

   A dispatch runs its handler on the publisher's thread, so the handlers of
   several workers run at the same time; the db commands are processes of their
   own that take no lock.  A handler is one or more statements, each committed
   by itself, any of which the database may refuse; the event is logged only
   when its handler returned Ok. *)

CONSTANTS SePaths,     \* paths of the library
          SePlans,     \* plan ids
          SeIds,       \* ids of files and bad_files rows
          SeMaxFaults, \* refused statements and crashes
          SeMaxReads,  \* introspections
          SeMaxCleans  \* db commands

VARIABLES seDisk,     \* path -> "good", "bad" (unreadable) or "gone"
          seRow,      \* path -> files row [id, status], id 0 = no row
          seBad,      \* path -> bad_files row id, 0 = no row
          seRead,     \* path -> its introspection being stored [step, id]
          seLast,     \* path -> bad_files id of its last introspection, 0 when it read well
          seClean,    \* the db command [cmd, todo, seen]: <<path, id>> entries to do and ever listed
          sePlan,     \* plan -> plans row [file, path, status], file 0 = no row
          seOps,      \* pending_operations: plan ids
          seOutcome,  \* file ids that transcode_outcomes rows refer to
          seLog,      \* event_log: <<type, plan>>
          seJob,      \* plan -> its worker [step, path]
          seFaults,
          seReads,
          seCleans

seFileVars == <<seDisk, seBad, seRead, seLast, seReads>>
sePlanVars == <<seOps, seLog, seJob>>
seVars == <<seFileVars, seRow, seClean, seCleans, sePlan, seOutcome, sePlanVars, seFaults>>

SeNoRow == [id |-> 0, status |-> "none"]
SeNoPlan == [file |-> 0, path |-> "", status |-> "none"]
SeNoRead == [step |-> "idle", id |-> 0]
SeNoCommand == [cmd |-> "none", todo |-> {}, seen |-> {}]

SeInit(disk, known) ==
  /\ seDisk \in [SePaths -> disk]
  /\ seRow = known
  /\ seBad = [p \in SePaths |-> 0]
  /\ seRead = [p \in SePaths |-> SeNoRead]
  /\ seLast = [p \in SePaths |-> 0]
  /\ seClean = SeNoCommand /\ seCleans = 0
  /\ sePlan = [q \in SePlans |-> SeNoPlan]
  /\ seOps = {} /\ seOutcome = {} /\ seLog = {}
  /\ seJob = [q \in SePlans |-> [step |-> "idle", path |-> ""]]
  /\ seFaults = 0 /\ seReads = 0

SeFault == seFaults < SeMaxFaults /\ seFaults' = seFaults + 1

-----------------------------------------------------------------------------
(* Introspected and bad files *)

\* The user repairs, damages or removes a file.
DiskChanges(p) ==
  /\ seDisk[p] # "gone"
  /\ \E s \in {"good", "bad", "gone"} \ {seDisk[p]} : seDisk' = [seDisk EXCEPT ![p] = s]
  /\ UNCHANGED <<seRow, seBad, seRead, seLast, seReads, seClean, seCleans, sePlan, seOutcome, sePlanVars, seFaults>>

\* A new id: one that no row has.
FreshIds == LET free == SeIds \ ({seRow[p].id : p \in SePaths} \cup {seBad[p] : p \in SePaths}
                     \cup {seRead[p].id : p \in SePaths} \cup {e[2] : e \in seClean.seen})
            IN {CHOOSE i \in free : \A j \in free : i <= j}

\* A file was read: upsert_file looks its path up before its transaction begins.
BeginUpsert(p) ==
  /\ seRead[p].step = "idle" /\ seDisk[p] = "good" /\ seReads < SeMaxReads
  /\ seReads' = seReads + 1
  /\ \E i \in IF seRow[p].id # 0 THEN {seRow[p].id} ELSE FreshIds :
       seRead' = [seRead EXCEPT ![p] = [step |-> "upsert", id |-> i]]
  /\ UNCHANGED <<seDisk, seRow, seBad, seLast, seClean, seCleans, sePlan, seOutcome, sePlanVars, seFaults>>

\* The transaction: the row is inserted, or updated in place, under the id
\* looked up before, and is active again.
upsert_file(p) == seRow' = [seRow EXCEPT ![p] = [id |-> seRead[p].id, status |-> "active"]]

delete_bad_file_by_path(p) == seBad' = [seBad EXCEPT ![p] = 0]

\* handle_file_introspected: upsert_file, then delete_bad_file_by_path.
handle_file_introspected(p) ==
  /\ \/ /\ seRead[p].step = "upsert"
        /\ upsert_file(p)
        /\ seRead' = [seRead EXCEPT ![p].step = "clear"]
        /\ UNCHANGED <<seBad, seLast, seFaults>>
     \/ /\ seRead[p].step = "clear"
        /\ delete_bad_file_by_path(p)
        /\ seLast' = [seLast EXCEPT ![p] = 0]
        /\ seRead' = [seRead EXCEPT ![p] = SeNoRead]
        /\ UNCHANGED <<seRow, seFaults>>
     \/ /\ seRead[p].step # "idle" /\ SeFault
        /\ seRead' = [seRead EXCEPT ![p] = SeNoRead]
        /\ UNCHANGED <<seRow, seBad, seLast>>
  /\ UNCHANGED <<seDisk, seReads, seClean, seCleans, sePlan, seOutcome, sePlanVars>>

\* upsert_bad_file: one row per path, which keeps its id.
handle_file_introspection_failed(p) ==
  /\ seRead[p].step = "idle" /\ seDisk[p] = "bad" /\ seReads < SeMaxReads
  /\ seReads' = seReads + 1
  /\ \E i \in IF seBad[p] # 0 THEN {seBad[p]} ELSE FreshIds :
       seBad' = [seBad EXCEPT ![p] = i] /\ seLast' = [seLast EXCEPT ![p] = i]
  /\ UNCHANGED <<seDisk, seRow, seRead, seClean, seCleans, sePlan, seOutcome, sePlanVars, seFaults>>

-----------------------------------------------------------------------------
(* voom db prune, purge-bad and clean-bad *)

ListedBad == {<<p, seBad[p]>> : p \in {x \in SePaths : seBad[x] # 0}}
ListedActive == {<<p, seRow[p].id>> : p \in {x \in SePaths : seRow[x].status = "active"}}

\* Each command reads its list first (clean-bad before it asks for confirmation).
BeginCommand(cmd) ==
  /\ seClean.cmd = "none" /\ seCleans < SeMaxCleans
  /\ seCleans' = seCleans + 1
  /\ seClean' = [cmd |-> cmd, todo |-> ListedBad, seen |-> seClean.seen \cup ListedBad]
  /\ UNCHANGED <<seFileVars, seRow, sePlan, seOutcome, sePlanVars, seFaults>>


\* delete_bad_file: by row id.
delete_bad_file(p, i) == IF seBad[p] = i THEN [seBad EXCEPT ![p] = 0] ELSE seBad

Rest(e) == seClean' = [seClean EXCEPT !.todo = @ \ {e}]

\* purge_bad and clean_bad, one entry: clean_bad removes the file first and
\* keeps the entry of a file it could not remove.
CleanEntry(p, i) ==
  /\ <<p, i>> \in seClean.todo
  /\ \/ /\ seClean.cmd = "purge_bad"
        /\ seBad' = delete_bad_file(p, i)
        /\ UNCHANGED <<seDisk, seFaults>>
     \/ /\ seClean.cmd = "clean_bad"
        /\ seDisk' = [seDisk EXCEPT ![p] = "gone"]
        /\ seBad' = delete_bad_file(p, i)
        /\ UNCHANGED seFaults
     \/ /\ seClean.cmd = "clean_bad" /\ seDisk[p] # "gone" /\ SeFault
        /\ UNCHANGED <<seDisk, seBad>>
  /\ Rest(<<p, i>>)
  /\ UNCHANGED <<seRow, seRead, seLast, seReads, seCleans, sePlan, seOutcome, sePlanVars>>

\* prune_missing_files_under: the entries of bad files that are gone, then the
\* active rows of files that are gone, which become missing.
PruneEntry(p, i) ==
  /\ <<p, i>> \in seClean.todo
  /\ \/ /\ seClean.cmd = "prune_bad"
        /\ seBad' = IF seDisk[p] = "gone" THEN delete_bad_file(p, i) ELSE seBad
        /\ UNCHANGED seRow
     \/ /\ seClean.cmd = "prune_files"
        /\ seRow' = IF seDisk[p] = "gone" /\ seRow[p] = [id |-> i, status |-> "active"]
                    THEN [seRow EXCEPT ![p].status = "missing"] ELSE seRow
        /\ UNCHANGED seBad
  /\ Rest(<<p, i>>)
  /\ UNCHANGED <<seDisk, seRead, seLast, seReads, seCleans, sePlan, seOutcome, sePlanVars, seFaults>>

SeStale == {seRow[p].id : p \in {x \in SePaths : seRow[x].status = "missing"}}

\* transcode_outcomes.file_id has no ON DELETE clause.
Referenced == SeStale \cap seOutcome # {}

\* purge_missing deletes the rows that are missing, and by cascade their plans;
\* one referenced row makes the whole statement fail, which is only warned about.
PurgeRows ==
  /\ IF Referenced THEN UNCHANGED <<seRow, sePlan>>
     ELSE /\ sePlan' = [q \in SePlans |-> IF sePlan[q].file \in SeStale THEN SeNoPlan ELSE sePlan[q]]
          /\ seRow' = [p \in SePaths |-> IF seRow[p].status = "missing" THEN SeNoRow ELSE seRow[p]]

\* The list is done: prune goes from bad files to files to rows.
EndCommand ==
  /\ seClean.cmd # "none" /\ seClean.todo = {}
  /\ \/ /\ seClean.cmd = "prune_bad"
        /\ seClean' = [seClean EXCEPT !.cmd = "prune_files", !.todo = ListedActive]
        /\ UNCHANGED <<seRow, sePlan>>
     \/ /\ seClean.cmd = "prune_files"
        /\ seClean' = [seClean EXCEPT !.cmd = "none"]
        /\ PurgeRows
     \/ /\ seClean.cmd \in {"purge_bad", "clean_bad"}
        /\ seClean' = [seClean EXCEPT !.cmd = "none"]
        /\ UNCHANGED <<seRow, sePlan>>
  /\ UNCHANGED <<seFileVars, seCleans, seOutcome, sePlanVars, seFaults>>

SeFilesNext ==
  \/ EndCommand
  \/ \E cmd \in {"prune_bad", "purge_bad", "clean_bad"} : BeginCommand(cmd)
  \/ \E p \in SePaths :
       \/ DiskChanges(p) \/ BeginUpsert(p) \/ handle_file_introspected(p)
       \/ handle_file_introspection_failed(p)
       \/ \E i \in SeIds : CleanEntry(p, i) \/ PruneEntry(p, i)

-----------------------------------------------------------------------------
(* Plans: PlanDispatcher publishes plan.executing, plan.created, then the outcome *)

SeLogs(type, q) == seLog' = seLog \cup {<<type, q>>}

Then(q, step) == seJob' = [seJob EXCEPT ![q].step = step]

\* A worker takes up a plan of a file; a file's plans follow one another.
BeginPlan(q, p) ==
  /\ seJob[q].step = "idle" /\ seRow[p].status = "active"
  /\ \A r \in SePlans : seJob[r].path = p => seJob[r].step \in {"done", "dead"}
  /\ \E step \in {"executing", "skipping"} : seJob' = [seJob EXCEPT ![q] = [step |-> step, path |-> p]]
  /\ UNCHANGED <<seFileVars, seRow, seClean, seCleans, sePlan, seOutcome, seOps, seLog, seFaults>>

\* A pending operation that cannot be stored is only warned about.
handle_plan_executing(q) ==
  /\ seJob[q].step = "executing" /\ Then(q, "created")
  /\ \/ seOps' = seOps \cup {q} /\ UNCHANGED seFaults
     \/ SeFault /\ UNCHANGED seOps
  /\ SeLogs("plan.executing", q)
  /\ UNCHANGED <<seFileVars, seRow, seClean, seCleans, sePlan, seOutcome>>

\* save_plan files the plan under the row its path has now; without one it falls
\* back to the id the plan was evaluated with, which the foreign key refuses.
EffectiveFileId(q) == seRow[seJob[q].path].id

\* Stored as pending and logged, or refused and not logged.
StorePlan(q) ==
  \/ /\ EffectiveFileId(q) # 0
     /\ sePlan' = [sePlan EXCEPT ![q] = [file |-> EffectiveFileId(q), path |-> seJob[q].path,
                                         status |-> "pending"]]
     /\ SeLogs("plan.created", q)
     /\ UNCHANGED seFaults
  \/ EffectiveFileId(q) = 0 /\ UNCHANGED <<sePlan, seLog, seFaults>>
  \/ SeFault /\ UNCHANGED <<sePlan, seLog>>

\* The executors run on the same event afterwards, whether or not it was stored;
\* an encode leaves a transcode outcome that refers to the file.
handle_plan_created(q) ==
  /\ \/ /\ seJob[q].step = "created" /\ Then(q, "outcome")
        /\ \/ UNCHANGED seOutcome
           \/ EffectiveFileId(q) # 0 /\ seOutcome' = seOutcome \cup {EffectiveFileId(q)}
     \/ /\ seJob[q].step = "skipping" /\ Then(q, "skip")
        /\ UNCHANGED seOutcome
  /\ StorePlan(q)
  /\ UNCHANGED <<seFileVars, seRow, seClean, seCleans, seOps>>

\* update_plan_status is an UPDATE: a plan without a row stays without one.
update_plan_status(q, s) == sePlan' = IF sePlan[q].file = 0 THEN sePlan ELSE [sePlan EXCEPT ![q].status = s]

\* Mutant: the operation is taken off first.
handle_plan_outcome_OpFirst(q, s) ==
  /\ seJob[q].step = "outcome"
  /\ seOps' = seOps \ {q}
  /\ \/ update_plan_status(q, s) /\ Then(q, "op") /\ UNCHANGED seFaults
     \/ SeFault /\ Then(q, "done") /\ UNCHANGED sePlan
  /\ UNCHANGED <<seFileVars, seRow, seClean, seCleans, seOutcome, seLog>>

\* plan.completed and plan.failed: the status (and the error) first.  When that
\* is refused the handler ends, the operation stays and nothing is logged.
handle_plan_outcome(q, s) ==
  /\ seJob[q].step = "outcome"
  /\ \/ update_plan_status(q, s) /\ Then(q, "op") /\ UNCHANGED seFaults
     \/ SeFault /\ Then(q, "done") /\ UNCHANGED sePlan
  /\ UNCHANGED <<seFileVars, seRow, seClean, seCleans, seOutcome, seOps, seLog>>

\* ... then delete_pending_op, whose failure is only warned about.
DeletePendingOp(q) ==
  /\ seJob[q].step = "op" /\ Then(q, "done")
  /\ \/ seOps' = seOps \ {q} /\ UNCHANGED seFaults
     \/ SeFault /\ UNCHANGED seOps
  /\ SeLogs("plan.outcome", q)
  /\ UNCHANGED <<seFileVars, seRow, seClean, seCleans, sePlan, seOutcome>>

handle_plan_skipped(q) ==
  /\ seJob[q].step = "skip" /\ Then(q, "done")
  /\ \/ update_plan_status(q, "skipped") /\ SeLogs("plan.skipped", q) /\ UNCHANGED seFaults
     \/ SeFault /\ UNCHANGED <<sePlan, seLog>>
  /\ UNCHANGED <<seFileVars, seRow, seClean, seCleans, seOutcome, seOps>>

\* The process with the workers dies.
SeCrash ==
  /\ SeFault
  /\ seJob' = [q \in SePlans |-> IF seJob[q].step \in {"idle", "done"} THEN seJob[q]
                                 ELSE [seJob[q] EXCEPT !.step = "dead"]]
  /\ UNCHANGED <<seFileVars, seRow, seClean, seCleans, sePlan, seOutcome, seOps, seLog>>

SePlansNext ==
  \/ SeCrash \/ EndCommand \/ BeginCommand("prune_bad")
  \/ \E p \in SePaths : \/ \E i \in SeIds : PruneEntry(p, i)
                        \/ DiskChanges(p) /\ seDisk'[p] = "gone"
  \/ \E q \in SePlans :
       \/ \E p \in SePaths : BeginPlan(q, p)
       \/ handle_plan_executing(q) \/ handle_plan_created(q) \/ DeletePendingOp(q) \/ handle_plan_skipped(q)
       \/ \E s \in {"completed", "failed"} : handle_plan_outcome(q, s)

-----------------------------------------------------------------------------

\* The list of bad files says what the last stored introspection said: a path
\* that read well is off the list, and one that did not stays on it until a db
\* command takes off that very entry.  An entry made after the command read its
\* list survives it.
BadListIsCurrent ==
  \A p \in SePaths : seRead[p].step = "idle" =>
    \/ seBad[p] = seLast[p]
    \/ seBad[p] = 0 /\ <<p, seLast[p]>> \in seClean.seen

\* An operation leaves the table of pending operations, which the next start looks
\* through for interrupted work, only once the outcome of its plan is in the plans
\* table: a crash or a refused update in between leaves the file to be recovered.
OutcomeBeforeOp ==
  [][\A q \in SePlans : q \in seOps /\ q \notin seOps' =>
       sePlan[q].status \in {"completed", "failed"} \/ sePlan[q].file = 0]_seVars

\* The log claims no more than was stored: a plan logged as created has its row
\* under its path's file until that file is purged.
LogIsTruthful ==
  \A q \in SePlans : <<"plan.created", q>> \in seLog =>
    \/ sePlan[q].file # 0 /\ seRow[sePlan[q].path].id = sePlan[q].file
    \/ sePlan[q].file = 0 /\ seCleans > 0 /\ seDisk[seJob[q].path] = "gone"

\* A purge leaves no row that points nowhere: every transcode outcome and every
\* plan refers to a file that is still in the table.
NoDanglingRows ==
  /\ \A i \in seOutcome : \E p \in SePaths : seRow[p].id = i
  /\ \A q \in SePlans : sePlan[q].file # 0 => \E p \in SePaths : seRow[p].id = sePlan[q].file

-----------------------------------------------------------------------------
(* Retention of the four growing tables of voom.db (crates/voom-cli/src/
   retention.rs over the prune_old_* / count_old_* statements of
   plugins/sqlite-store), the log of events and the `voom events --follow`
   reader of it.

   Rows keep what the statements look at: a rowid, a time stamp, and the job,
   file or status they are about.  Two processes write while a third prunes;
   every statement is atomic, run_once is not. *)

CONSTANTS RtFiles,       \* files with a history
          RtConfig,      \* table -> [keep_for_days, keep_last], 0 = no bound
          RtBackfill,    \* events printed before the first poll (--limit)
          RtPage,        \* events one poll may return
          RtWorkers,     \* jobs in flight at a time
          RtMaxEvents,   \* bound on the events logged
          RtMaxRows,     \* bound on the transitions recorded
          RtMaxTime      \* bound on the clock

VARIABLES rtNow,
          rtJobs,     \* jobs: set of [id, status, created, completed]
          rtEvents,   \* event_log: set of [rowid, at, job, type]
          rtMoves,    \* file_transitions: set of [rowid, at, file, n]
          rtStats,    \* plugin_stats: set of [rowid, at]
          rtSeq,      \* sqlite_sequence: last rowid of the AUTOINCREMENT tables
          rtLatest,   \* file -> the last transition recorded for it (0 = none)
          rtClean,    \* the last run pruned the jobs, and no event came between
          rtStep,     \* run_once: the table it prunes next, 0 = not running
          rtReport,   \* what the last prune reported and a dry run would have
          rtFollow    \* the follower: [last, printed]

rtTables == <<rtJobs, rtEvents, rtMoves, rtStats>>
rtVars == <<rtNow, rtJobs, rtEvents, rtMoves, rtStats, rtSeq, rtLatest, rtClean, rtStep, rtReport,
            rtFollow>>

Tables == <<"jobs", "event_log", "file_transitions", "plugin_stats">>

-----------------------------------------------------------------------------
(* Policies *)

NoBound == 0

\* table_retention_to_policy: a bound of 0 is no bound.
is_disabled(policy) == policy.keep_for_days = NoBound /\ policy.keep_last = NoBound

TooOld(at, policy) == policy.keep_for_days # NoBound /\ at < rtNow - policy.keep_for_days

\* ROW_NUMBER() OVER (ORDER BY at DESC) <= keep_last: rows with the same time
\* stamp come in any order, so any set of the right size that no newer row is
\* missing from may be the kept one.
Newest(rows, At(_), policy) ==
  IF policy.keep_last = NoBound \/ Cardinality(rows) <= policy.keep_last THEN {rows}
  ELSE {K \in SUBSET rows : /\ Cardinality(K) = policy.keep_last
                            /\ \A k \in K, r \in rows \ K : At(r) <= At(k)}

\* The sets of rows a prune_old_* statement may delete from the rows it may touch.
Pruned(rows, At(_), Rank(_), policy) ==
  IF is_disabled(policy) THEN {{}}
  ELSE {{r \in rows : TooOld(At(r), policy) \/ r \notin K} : K \in Newest(rows, Rank, policy)}

Terminal == {"completed", "failed", "cancelled"}

\* COALESCE(completed_at, created_at): a terminal job has completed_at.
EffectiveAt(j) == j.completed

\* Time stamps are finer than the days the age bounds count: within a day, jobs
\* are told apart by the events logged before them.
Stamp == rtNow * (RtMaxEvents + 1) + rtSeq.event_log
EffectiveDay(j) == EffectiveAt(j) \div (RtMaxEvents + 1)

\* Rows the policies may delete at all.
Finished == {j \in rtJobs : j.status \in Terminal}

LastRow(f) == Max({m.rowid : m \in {x \in rtMoves : x.file = f}})

\* rowid NOT IN (SELECT MAX(rowid) FROM file_transitions GROUP BY file_id)
Unprotected == {m \in rtMoves : m.rowid # LastRow(m.file)}

AtOf(r) == r.at
RowidOf(r) == r.rowid

prune_old_jobs == Pruned(Finished, EffectiveDay, EffectiveAt, RtConfig["jobs"])
prune_old_event_log == Pruned(rtEvents, AtOf, RowidOf, RtConfig["event_log"])
prune_old_file_transitions == Pruned(Unprotected, AtOf, AtOf, RtConfig["file_transitions"])
\* ORDER BY started_at DESC, rowid DESC, as one number.
StartedThenRowid(r) == r.at * (RtMaxRows + 1) + r.rowid
prune_old_plugin_stats == Pruned(rtStats, AtOf, StartedThenRowid, RtConfig["plugin_stats"])

\* count_old_*: how many rows the ranking would delete, out of the eligible ones.
CountOf(rows, At(_), policy) ==
  LET aged == Cardinality({r \in rows : TooOld(At(r), policy)})
      over == IF policy.keep_last = NoBound THEN 0
              ELSE Max({0, Cardinality(rows) - policy.keep_last})
      deleted == IF is_disabled(policy) THEN 0 ELSE Max({aged, over})
  IN [deleted |-> deleted, kept |-> Cardinality(rows) - deleted]

count_old_file_transitions == CountOf(Unprotected, AtOf, RtConfig["file_transitions"])

count_old(t) ==
  CASE t = "jobs" -> CountOf(Finished, EffectiveDay, RtConfig[t])
    [] t = "event_log" -> CountOf(rtEvents, AtOf, RtConfig[t])
    [] t = "file_transitions" -> count_old_file_transitions
    [] t = "plugin_stats" -> CountOf(rtStats, AtOf, RtConfig[t])

-----------------------------------------------------------------------------
(* Writers *)

NoReport == [deleted |-> 0, kept |-> 0]

RtInit ==
  /\ rtNow = 0
  /\ rtJobs = {} /\ rtEvents = {} /\ rtMoves = {} /\ rtStats = {}
  /\ rtSeq = [event_log |-> 0, plugin_stats |-> 0]
  /\ rtLatest = [f \in RtFiles |-> 0]
  /\ rtStep = 0 /\ rtClean = TRUE
  /\ rtReport = [told |-> NoReport, done |-> NoReport]
  /\ rtFollow = [last |-> 0, printed |-> <<>>]

\* A day passes.  A run of run_once takes less.
Tick ==
  /\ rtNow < RtMaxTime /\ rtStep = 0
  /\ rtNow' = rtNow + 1
  /\ UNCHANGED <<rtTables, rtSeq, rtLatest, rtClean, rtStep, rtReport, rtFollow>>

NextEventRowid == rtSeq.event_log + 1

\* on_event of the store: the event is logged under the next rowid.
log_event(j, type) ==
  /\ rtSeq.event_log < RtMaxEvents
  /\ rtSeq' = [rtSeq EXCEPT !.event_log = @ + 1]
  /\ rtClean' = (rtClean /\ rtStep # 2)
  /\ rtEvents' = rtEvents \cup {[rowid |-> NextEventRowid, at |-> rtNow, job |-> j, type |-> type]}

\* The worker pool starts a job and job.started is logged (its rowid names the
\* job here).
StartJob ==
  /\ Cardinality(rtJobs \ Finished) < RtWorkers
  /\ log_event(NextEventRowid, "job.started")
  /\ rtJobs' = rtJobs \cup {[id |-> NextEventRowid, status |-> "running",
                             created |-> Stamp, completed |-> -1]}
  /\ UNCHANGED <<rtNow, rtMoves, rtStats, rtLatest, rtStep, rtReport, rtFollow>>

\* The job row is settled, then job.completed is dispatched and logged.
SettleJob(r) ==
  /\ r \in rtJobs /\ r.status = "running"
  /\ log_event(r.id, "job.completed")
  /\ rtJobs' = (rtJobs \ {r}) \cup {[r EXCEPT !.status = "completed", !.completed = Stamp]}
  /\ UNCHANGED <<rtNow, rtMoves, rtStats, rtLatest, rtStep, rtReport, rtFollow>>

\* Any other event.
LogOther ==
  /\ log_event(0, "other")
  /\ UNCHANGED <<rtNow, rtJobs, rtMoves, rtStats, rtLatest, rtStep, rtReport, rtFollow>>

\* record_transition: the time stamp was taken before the writer got the
\* database, so it may lie before that of a row already there.
record_transition(f, at) ==
  LET n == 1 + Max(Range(rtLatest)) IN
  /\ n <= RtMaxRows
  /\ rtMoves' = rtMoves \cup {[rowid |-> 1 + Max({0} \cup {m.rowid : m \in rtMoves}),
                               at |-> at, file |-> f, n |-> n]}
  /\ rtLatest' = [rtLatest EXCEPT ![f] = n]
  /\ UNCHANGED <<rtNow, rtJobs, rtEvents, rtStats, rtSeq, rtClean, rtStep, rtReport, rtFollow>>

insert_plugin_stat ==
  /\ rtSeq.plugin_stats < 2
  /\ rtSeq' = [rtSeq EXCEPT !.plugin_stats = @ + 1]
  /\ rtStats' = rtStats \cup {[rowid |-> rtSeq.plugin_stats + 1, at |-> rtNow]}
  /\ UNCHANGED <<rtNow, rtJobs, rtEvents, rtMoves, rtLatest, rtClean, rtStep, rtReport, rtFollow>>

\* VACUUM renumbers the rows of a table without an INTEGER PRIMARY KEY, in order.
vacuum ==
  /\ rtMoves' = {[m EXCEPT !.rowid = Cardinality({x \in rtMoves : x.rowid <= m.rowid})] : m \in rtMoves}
  /\ rtMoves' # rtMoves
  /\ UNCHANGED <<rtNow, rtJobs, rtEvents, rtStats, rtSeq, rtLatest, rtClean, rtStep, rtReport, rtFollow>>

-----------------------------------------------------------------------------
(* run_once and the follower *)

BeginRun ==
  /\ rtStep = 0
  /\ rtStep' = 1
  /\ rtReport' = [told |-> NoReport, done |-> NoReport]
  /\ UNCHANGED <<rtNow, rtTables, rtSeq, rtLatest, rtClean, rtFollow>>

Leave(t) == IF t = Len(Tables) THEN 0 ELSE t + 1

\* One table of run_once: the statement and what it reports, beside what
\* dry_run_summary would have said at that moment.
PruneTable ==
  /\ rtStep # 0
  /\ LET t == Tables[rtStep] IN
     \E D \in CASE t = "jobs" -> prune_old_jobs
                [] t = "event_log" -> prune_old_event_log
                [] t = "file_transitions" -> prune_old_file_transitions
                [] t = "plugin_stats" -> prune_old_plugin_stats :
       /\ rtJobs' = IF t = "jobs" THEN rtJobs \ D ELSE rtJobs
       /\ rtEvents' = IF t = "event_log" THEN rtEvents \ D ELSE rtEvents
       /\ rtMoves' = IF t = "file_transitions" THEN rtMoves \ D ELSE rtMoves
       /\ rtStats' = IF t = "plugin_stats" THEN rtStats \ D ELSE rtStats
       /\ rtReport' =
            [told |-> count_old(t),
             done |-> [deleted |-> Cardinality(D),
                       kept |-> Cardinality(CASE t = "jobs" -> Finished'
                                              [] t = "event_log" -> rtEvents'
                                              [] t = "file_transitions" -> Unprotected'
                                              [] t = "plugin_stats" -> rtStats')]]
  /\ rtStep' = Leave(rtStep)
  /\ rtClean' = (rtClean \/ rtStep = 1)
  /\ UNCHANGED <<rtNow, rtSeq, rtLatest, rtFollow>>

\* The statement fails (a busy database): the error is reported, the next table
\* is pruned all the same.
PruneFails ==
  /\ rtStep # 0
  /\ rtStep' = Leave(rtStep)
  /\ rtClean' = (rtClean /\ rtStep # 1)
  /\ UNCHANGED <<rtNow, rtTables, rtSeq, rtLatest, rtReport, rtFollow>>

\* list_event_log: rowid > since, in rowid order, at most limit rows.
list_event_log(since, limit) ==
  LET rows == {e.rowid : e \in {x \in rtEvents : x.rowid > since}}
  IN SubSeq(SetToSortSeq(rows, <), 1, Min({limit, Cardinality(rows)}))

\* run_follow: the backfill, then one poll after another from the last rowid.
run_follow ==
  LET page == list_event_log(rtFollow.last,
                             IF rtFollow.printed = <<>> THEN RtBackfill ELSE RtPage) IN
  /\ page # <<>>
  /\ rtFollow' = [last |-> Max(ToSet(page) \cup {rtFollow.last}), printed |-> rtFollow.printed \o page]
  /\ UNCHANGED <<rtNow, rtTables, rtSeq, rtLatest, rtClean, rtStep, rtReport>>

RunOnce == BeginRun \/ PruneTable \/ PruneFails

\* What touches the jobs and the log of their events.
LogNext ==
  \/ Tick \/ RunOnce \/ StartJob
  \/ \E r \in rtJobs : SettleJob(r)

\* The log and its follower: events of any other kind.
FollowNext == Tick \/ RunOnce \/ LogOther \/ run_follow

\* What touches the history of the files and the plugin statistics.
HistoryNext ==
  \/ Tick \/ RunOnce \/ insert_plugin_stat \/ vacuum
  \/ \E f \in RtFiles : \E at \in {rtNow, Max({0, rtNow - 1})} : record_transition(f, at)

-----------------------------------------------------------------------------

\* prune_old_file_transitions keeps the last transition of every file, whatever
\* the time stamps say and whether or not VACUUM renumbered the rows.
LatestTransitionKept ==
  \A f \in RtFiles : rtLatest[f] # 0 => \E m \in rtMoves : m.file = f /\ m.n = rtLatest[f]

\* `voom db prune --dry-run` announces what the prune then deletes and keeps.
DryRunTells == rtReport.told = rtReport.done

\* docs/architecture.md, "Retention invariants": with an event_log that outlives
\* jobs on both axes, no kept job looks as if it had never announced its end: not
\* after a run that pruned the jobs and met no new event before it pruned the log.
KeptJobsAnnounced ==
  rtStep = 0 /\ rtClean => \A j \in Finished : \E e \in rtEvents : e.job = j.id /\ e.type = "job.completed"

\* `voom events --follow` prints an event once, in order, and passes over none
\* that is still in the log.
FollowedInOrder ==
  /\ \A i, k \in 1..Len(rtFollow.printed) : i < k => rtFollow.printed[i] < rtFollow.printed[k]
  /\ \A e \in rtEvents : e.rowid <= rtFollow.last => \E i \in 1..Len(rtFollow.printed) : rtFollow.printed[i] = e.rowid

=============================================================================
