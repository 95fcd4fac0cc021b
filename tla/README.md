# VOOM in TLA+

VOOM is a policy-driven manager for video libraries. A library is walked, every
file is hashed and introspected, a policy is evaluated against it phase by phase,
and the plans that result are executed by external tools: in parallel, on files
that cannot be replaced, with the state in one SQLite file. This directory models
the program: the parts whose correctness depends on how tasks, processes, commands
and failures interleave as state machines, the algorithms (evaluation of policies,
quality search, estimates, queries) as operators that actions apply to small
inputs.

## The system and its parts

`voom process` takes a process lock, recovers from a crash of an earlier run,
begins a scan session and starts a pipeline of tasks. Discovery walks the roots
and sends what it finds to ingest, which registers files in the store and puts
work items on a channel. The worker pool turns items into rows of the `jobs`
table and runs them once ingest opens the execution gate. A job evaluates the
phases of the policy one after the other; a plan is announced on the kernel's event
bus, where backup-manager (priority 30), sqlite-store (38) and the executors (39,
40) handle it in that order. At the end the session is finished, which reconciles
the files table with what was seen. `voom scan` does the first half; `voom jobs`,
`voom files`, `voom verify`, `voom backup`, the web server and others work on the
same tables from other processes.

`PROJECT.json` lists every part with its sources and status, maps definitions to
the lines they model, and lists the hazards at the lines where they bite. The map
names, for each stretch of code, the definition that stands for it: about 800 of
some 1,400. A small helper whose lines lie within, or next to, those of a
definition that uses it is not listed on its own. The modules, by part:

| Module | Part of VOOM | State and steps |
|---|---|---|
| `JobTable`, `JobQueue`, `JobLifecycle` | `jobs` table, queue, `voom jobs` | rows, owners, timestamps; every SQL statement is one step, a command reads a row in one and writes it in another. `JobLifecycle` is the abstract promise: a job is started once, by one worker, and removed only after it ended |
| `WorkerStream` | `process_stream` | heap, result channel, gate, token; enqueuer, workers, collector and caller are processes over `JobTable` |
| `WorkerBatch` | `process_batch`, plan limiter | semaphore, tasks, permits per device, over `JobTable` |
| `FileTable`, `ScanSession` | files table, scan sessions | the transactions of `file_storage.rs` as functions of the tables; runs that walk, ingest, probe, execute, finish, crash or take over |
| `StreamingPipeline` | `run_streaming_pipeline`, root gates | one process per task, channels of `Depth` slots, a blocking send is two steps; the pool is `WorkerStream`'s interface |
| `RunCommands` | `voom scan`, `voom process` around the pipeline | lock, recovery, session, tasks and probes with every early return |
| `PlanExecution` | plan dispatch, backups, crash recovery | files, `.vbak` files, records, pending operations; a crash between any two steps |
| `ProcessFile` | `process_single_file` | the phases of one file, shared encoder places, re-introspection, safeguards, transitions |
| `Backups` | backup commands, destinations, inventory, local backups | uploads, JSONL inventory, restore, cleanup, free space |
| `Kernel` | event bus, registry, bring-up | subscriptions, dispatch with claims, panics and cascades; registration, init and shutdown |
| `WasmPlugin` | loader, host functions, boundary | calls with mutex, breaker, epoch deadline; conversions; manifest grants |
| `StatsSink` | plugin statistics sink | bounded channel, capped buffer, retries, shutdown deadline |
| `ToolRunner` | `voom-process` | child, grandchildren, pipe readers, timeout, capture cap |
| `Discovery` | scanner | walk, parallel hashing, open-file bound, reuse of stored hashes |
| `FileMetadata` | ffprobe introspector, enrichment plugins, subtitle mux | streams to tracks, cached lookups, detections, transcripts, metadata rows |
| `PolicySyntax` | grammar, parser, formatter | token trees, parse, format, parse again |
| `PolicyChecks` | validator, compiler | every check and translation |
| `PolicyComposition` | `extends`, phase order | chains, cycles, overriding, ordering |
| `PolicyEvaluator`, `PlanExecutors` | evaluator, orchestrator; what executors do | operations, filters, conditions, plans, their effect on tracks and container, a second evaluation |
| `PolicyTooling` | policy commands and tests, codec and language names | maps, diffs, fixtures, suites, aliases, hints |
| `VideoEncoding` | ffmpeg executor | VMAF search, crop, samples, hardware encoders, HDR, the job with its temporary files |
| `StoreEvents` | store's event handlers, retention | one step per handler, with failing statements; prunes against readers |
| `LibraryHealth` | verifier, quarantine, reports | checks, verdicts, moves; queries behind the reports |
| `RunProgress` | progress, summary, estimates | counters, bar, time left, cost models, calibration |
| `SchemaMigration` | opening and migrating the database | statements and their transactions, several openers, crashes |
| `TestStore`, `StoreDouble` | in-memory store of the tests | the same calls on both stores |
| `WebServer` | web API, SSE | requests, limits, deletion against commands, lagging readers |
| `LocalSetup` | `voom env check`, health, `voom config`, plugins, init | probes, history, rewrites of the configuration |

Definitions keep the source's names where one function is one definition
(`claim_job_by_id`, `recover_stub`, `record_post_execution`); an action with a
CamelCase name is one step of a task, or one atomic part of a function that can be
interrupted. Names of a module's constants and variables carry a short prefix
where several modules meet in one run (`Vf`, `Sd`, `Px`).

`run[s].quiet` in `ScanSession` is a history variable: nobody else changed the
disk or a row since the run began. In `PlanExecution` a file's content is a
version of its source, or `Torn` while a copy or an edit in place is under way, or
`Absent`; `restore_file` holds the mutex of the records while it copies, which
`RecordsFree` expresses; a crash loses the records and keeps disk and store
(`Restart`). The file system of `WasmPlugin` has links to directories only.

## Runs

The `MC*` modules give each part its small instance. All but `MCScanSession`
combine several parts: a variable `part` chooses one, the variables of the others
stand still, and the state space is the sum of the parts'. Each bundle of
invariants names what one component must guarantee; the conjuncts are defined and
explained one by one in the component's module.

| Run | Question | Bounds |
|---|---|---|
| `execution` | Is content ever lost or left incomplete, does a failed phase leave file and row alone, is a job owned once, and does the queue implement its life cycle? | one file and the target of its conversion: two runs with every fault; three runs, so that recovery itself dies and is repeated, with failing restores and deletions; two phases without faults. Two jobs, workers and commands, two priorities |
| `sessions` | Does a completed scan agree with the disk, lose no move and keep the lineage sound? | two scans over two paths and contents with one external change; two or three scans that ignore the lock over one path |
| `process_session` | The same while jobs rewrite, rename and quarantine files, with and without hashes | two runs over two paths, or over one with an external change |
| `workers` | Is each job run and reported once, does nothing stay behind, do reports match rows? Does the in-memory store agree? | two new jobs, a stale one, two workers, one result slot, one storage fault; three file ids, two paths |
| `runtime` | Bus, sink, WASM calls, tool runner, batch pool, discovery: is everything delivered, accounted for, bounded and returned? | four plugins, cascades of two; seven records through a channel of two; outputs beyond the cap; three items, two permits, one device; three hashing threads |
| `processing` | Is every item routed once, is a completed session complete, does every run return, is configuration left loadable? | two nested roots, three files, channels of one slot; one job, two workers, two faults; two runs, one of the web |
| `service` | Migration, the phases of two files with one encoder place, web requests, policy resolution | two openers, one crash; two requests, two files; three SSE clients with a buffer of one |
| `library` | Do store, reports, progress, backups and lists tell the truth? | two or three files, three records each, one fault, one crash |
| `media` | Are encodes, metadata, names, policies and plans sound? | one file at a time, of every shape the rules tell apart; one operation of each kind |
| `held_item_stranded` | (violated) Do items stay held only when a root's event is missing? | as `processing` |
| `unbacked_mutation` | (violated) Does a failed required upload block the plan? | one plan |
| `partial_backup_restored` | (violated) Does recovery leave complete files? | one plan per run, three runs |

Two runs, with three where a second crash matters, show what one crash leaves for
the next start. Statements and steps look at one row or path or at a pair of them
(move detection, conversion, a claim race), and the sets have the two elements such
a pair needs, a third where something must be superseded in between. Limits are as
small as lets them be met and exceeded. That larger sets bring nothing new is an
argument from the code and not a result, except where the proofs replace it.
Symmetry is declared where ids are compared for equality only and no liveness is
checked (`execution`, `sessions`, `process_session`, `workers`).

Three records of a file are the least that show a hash check confused by a check of
another kind in between (`library`), and three runs the least in which a recovery
finds what another recovery left (`execution`).

The properties of `PlanExecution` hold *while `exposed` is empty*. `exposed`
collects what the code does not guard against, and only that: a plan executed
without a backup, a backup cut short by a failed copy, a pending operation that
could not be stored, a restore or recovery that failed, a recovery told to
discard, a backup that recovery finds for a path but that the pending plan did
not make, a conversion that overwrites a file, two jobs on one path. The run says
that, within its bounds, this list is complete: outside it, no crash and no failing
call loses content. The constraint `Unexposed` stops the search where `exposed`
becomes nonempty, since it never shrinks and no property speaks of what follows.
`UnchangedOnFailure`, `RowFollowsFile` and `FilesWhole` also exclude
`keep_backups`, and `RowFollowsFile` assumes that the file came from the store;
see the disagreements.

Deadlock is not checked: every part is a job, command or call that ends. What must
not block for ever is stated as liveness (`EveryCallReturns`, `EveryRunReturns`,
`EveryRequestEnds`).

## Fairness

Weak fairness, per task, of the steps a scheduler runs: tokio and the operating
system schedule every ready task. `runtime`: the bus's caller, the sink's writer,
the readers and the caller of a tool, the pool and each task of a batch, and the
walk and threads of a scan. `processing`: the walk, ingest, the dispatcher, the
pool and the command of the pipeline; enqueuer, workers, collector and caller of
`process_stream`, and the step that opens the gate after the workers have begun to
wait for it, which is what the 10 ms sleep before `notify_waiters` is for (without
it a worker spawned late waits for ever); the steps of `voom scan`. `service`: each
opener of the database, each file's job, the server's side of a request and the
resolution of a policy. No strong fairness is used, and no external command,
cancellation, failure or change of the disk is forced.

## What is proved

TLAPS checks the theorems below for every value of the constants, under the
assumptions named in the modules that declare them.

**Job queue** (`JobQueueProofs`, from `NoWorkerAssumption`, `PriorityAssumption`,
`NoJobAssumption`). `QueueInvariant`: for any sets of jobs, workers and commands,
rows and hands fit together (`QueueInv`): no two workers have one job, a running row
is in the hands of the worker it names, no job in hand can be claimed. That no two
workers hold a job is not inductive by itself, since a claim tests a row and not the
workers; that a held job is no longer pending closes the gap: the row a claim takes is
pending, so nobody holds it. `QueueImplementsLifecycle`: every behaviour of the queue
is one of `JobLifecycle` under the mapping of rows to statuses and of hands to
holders; the step proof has one case per action and cites the effect lemmas of
`JobTable` (what each SQL statement does to each row).

**Statistics sink** (`RuntimeProofs`). `NoRecordSilentlyLost`: for any channel
capacity, batch size, buffer cap and number of records, what was handed in equals
what is stored, queued, buffered, in the batch under way or counted as dropped.

**Tool runner** (`RuntimeProofs`). `ToolCallsAreSound`: for any output, pipe size
and cap, a returned call has reaped its child and has the whole output, or its
prefix up to the cap. The inductive invariant relates, for each pipe, what the child
wrote, what is in the pipe and what the reader captured, and ties the runner's stage
to the readers that must have ended.

**Batch pool** (`RuntimeProofs`, from `BatchAssumption`). `BatchAccountsForItems`:
for any number of items, permits, devices and limits, every item is refused, reported
once or cancelled when `process_batch` returns, and neither the permits nor any
device's limit is exceeded. The invariant counts items by where they are (left,
refused, waiting, spawned) and says that a task that holds a device is at work, so
that releasing one frees the place a later acquire counts.

**Streaming pool** (`WorkerStreamProofs`, from `NoJobAssumption`, `StaleAssumption`,
`BoundsAssumption` and `WorkersAssumption`). `StreamAccountsForJobs`
and `StreamReportsMatchRows`: for any sets of jobs and workers, any error strategy,
channel capacity and number of failing storage calls. Neither is inductive. The
invariant `StreamInv` adds who has a job (`HandsApart`: the heap and the workers' hands
are disjoint), that the run only acts on rows of its own (`OwnRows`), that a job is
neither started nor reported before the worker that has it gets there (`StartedLate`),
that the row of a job in hand is where its worker left it or cancelled (`RowsInStep`),
that as long as no storage call failed a live row is in the heap, in a worker's hands or
listed for the sweep (`LiveIsHeld`), and why a worker leaves its loop (`LeftForAReason`:
the token, an empty heap behind a finished enqueuer, or fail-fast after a failure whose
worker is about to cancel the token). The last two give `NothingLeftBehind`: all workers
gone and the token not cancelled means the heap is empty, so nothing is pending. At
least one worker is assumed, which `effective_workers` guarantees: with none, the heap
would never be emptied.

Only model-checked: everything else. Liveness (`EveryCallReturns`, `EveryRunReturns`,
`EveryRequestEnds`) is out of the prover's reach, as are statements about recursive
definitions for every input (policies, filters, formatting), which need induction over
data.

## Disagreements between code and documentation

Three are kept as violated runs; their findings in `PROJECT.json` quote the lines.

- A backup that fails, a required remote upload included, does not stop the plan:
  `PlanDispatcher::begin` ignores what the `PlanExecuting` handlers return.
- Recovery restores every backup of a path that has a pending operation, in
  directory order, including one cut short by an earlier crash or left by a failed
  plan.
- Ingest checks a root's gate and holds the item in two steps; if the dispatcher
  opens and drains the root in between, the item is stranded and the run fails.

Others were met while modelling; the models do what the code does, and properties
exclude these cases by name where they would otherwise fail.

*Plans, backups, recovery*
- With `keep_backups`, the record of an earlier phase stays. A later phase that
  fails restores the state before the *earlier* phase, though `transitions.rs:98`
  says "The file is unchanged on failure". If the later phase is refused for lack of
  disk space, no operation is pending and a crash in that restore is not repaired.
- `PlanFailed` restores the file but leaves the `.vbak` on disk;
  `docs/file-lifecycle-tracking-architecture.md:210` says "Should already be
  cleaned up".
- `clean_stale_pending_ops` runs only when there is no orphan at all.
- A conversion renames over an existing file at its target. A plan some of whose
  actions failed counts as a success if one was applied.
- A file introspected for the first time in the run that rewrites it carries an id
  no row has (`pipeline.rs:80-90`), so `record_post_execution` matches nothing,
  although `pipeline.rs:736-739` says downstream phases "must continue to reference
  the persisted row".
- A blocked backup leaves uploads without inventory record (`backup.rs:72-99`,
  `lib.rs:183-186`); `docs/remote-backups.md` says every successful upload appends one.
- `cleanup_remote` rewrites the inventory from a list read earlier
  (`commands/backup.rs:683-725`); an appended record is two writes
  (`inventory.rs:84-92`); a download is checked by size only.
- `try_cleanup_parent_dir` races with a backup being made in the directory
  (`backup.rs:60-64, 219-229`); `voom backup list` and `cleanup` skip hidden
  directories that discovery walks; cleanup removes backups that the recovery of a
  crashed plan needs; the free-space check and the copy are two steps.
- A subtitle mux never reports its plan's end, so its pending operation and backup
  stay.

*Sessions, files, jobs*
- `voom scan` finishes its session whatever discovery could not read, and marks such
  files missing (`scan/pipeline.rs:545-554`); `process/mod.rs:330` explains why that
  is wrong. Its probes may outlast the session.
- `list_cost_model_samples(..)?` (`process/mod.rs:228-230`) returns without settling
  the session the comment near line 361 wants settled.
- With `--execute-during-discovery` no item runs before every walk has ended: the
  gate is fired once (`pipeline_streaming.rs:696`; `docs/architecture.md:448` says
  roots unlock independently).
- `recover_stub_in_tx` cannot delete a row that `transcode_outcomes` references, and
  `purge_missing` deletes the transitions of such a row before it fails.
- A claim that fails after the pop loses the job for the run; a late cancel
  overwrites a completion; a batch task that starts after the cancellation leaves its
  job pending.
- `prune_missing_files_under` compares with `LIKE root%`, without a separator.

*Store and its double*
- Databases older than the columns the indexes name are refused
  (`schema.rs:342-346`), though `run_migrations` (`schema.rs:356`) is for them;
  reopening turns some real video streams into cover art (`schema.rs:1036-1037`
  calls the step idempotent).
- The in-memory store differs: filters on codec and language may be met by two
  tracks, snapshots are listed oldest first, log row ids are renumbered after a prune,
  a superseded row keeps its path, `update_job` of an unknown id is an error.
- `voom files list` hints an offset that skips files above a limit of 10,000;
  `voom events` shows the oldest 50 (`docs/functional-test-plan.md:1171-1176`); the
  total of `voom jobs list --status` counts every status.
- `clean_bad` deletes from disk what it listed before the prompt (`db.rs:224-283`),
  though a good file may have taken the place of a bad one meanwhile.

*Media, metadata*
- A stored hash is reused when size and time agree (`scanner.rs:416-418`), though the
  content may differ. Bit rates are truncated to 32 bits (`row_mappers.rs:76-82`).
- Enriched metadata is stored where no policy reads it (`sqlite-store lib.rs:239-255`;
  `docs/dsl-reference.md:591-598`). "mul" is announced and never reported
  (`audio-language-detector lib.rs:9` against 413-420); samples are taken of the
  first audio track whichever was asked for.
- Quarantine tests for a name and renames in two steps (`quarantine.rs:7-8, 31, 42`).
- `verify run --all` passes the epoch as cutoff and so selects only files never
  verified (`cli.rs:828`, `verify.rs:155-156`); a hash check that ended in an error
  becomes the next baseline.
- The VMAF bisection tries one value again and again once its bounds meet
  (`vmaf_iterate.rs:253`); `sample_strategy` is ignored (`executor.rs:92`); per-track
  codec options use the global stream index (`command.rs:125`).
- ffmpeg ignores `RemoveTrack`, `Reorder` and `Verify` and reports success
  (`executor.rs:198-204`); mkvmerge never removes attachments. After a failed
  re-introspection the old tracks stay (`pipeline.rs:709-732`).

*Policies*
- Language filters compare texts: the parser stores ISO 639-2/B
  (`parser.rs:179-185`), policies and `--lang` keep what was written, so
  `docs/cli-reference.md:892`'s `fra` never matches `fre`; `--codec h265` never
  matches `hevc`.
- `lang == "eng"` keeps the quotes as part of the value (`parser.rs:996`), so it
  selects nothing; `grammar.pest:64` tries `ebu_r128` first, so that
  `ebu_r128_broadcast` (`docs/dsl-reference.md:465`) does not parse.
- `on_error: abort` ends the phase's operations only (`evaluator.rs:276-279`;
  `docs/dsl-reference.md:232`). `set_language` to a non-canonical code is planned
  again on every run.
- `policy diff --fixture` ignores the order of plans, `audio_tracks_kept` counts a
  track twice, `policy test` stops at the first fixture it cannot load.

*Commands, web, configuration*
- `config set` writes unknown keys; `save_config`, `policy format` and plugin install
  write in place; one configured limit lifts the other's default
  (`config.rs:51-54`).
- A dry run recovers from an earlier crash first and may rewrite files
  (`process/mod.rs:150-182`; line 996 prints "No files were modified").
- `page=0` and huge pages of the library underflow (`templates.rs:80-82`); web runs
  use a kernel of their own, so `/events` never shows them (`docs/quickstart.md:263`);
  a second web run is answered "started" though it is refused.
- Calibration encodes two seconds and divides by the whole size
  (`estimate.rs:338-356`; `docs/preflight-estimates.md:45-47`).
- The WASM epoch ticker may stop, after which no deadline fires (`loader.rs:90`).
- "{n} files had errors" counts failed plans (`process/mod.rs:580-594`);
  `backup_bytes` is counted once per completed phase (`pipeline.rs:541-544`).

## What is not modelled

Text (command lines, wording of reports, web pages, the redaction of bug reports),
the content of media beyond what decisions depend on, the WASM engine, timing beyond
order, SQLite's own atomicity (assumed), the two WASM executors whose outputs no
other part reads, and read-only commands and endpoints that only serialise a
query. A container conversion onto an existing path is excluded in `ScanSession`
and recorded as an exposure in `PlanExecution`. `reactivate_file`,
`rename_file_path`, `StorageReporter` and ffmpeg's progress parser have no caller.
`PROJECT.json` gives the reason part by part.
