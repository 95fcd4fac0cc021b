---------------------------- MODULE RunProgress -----------------------------
(* What a run tells: its summary and progress, and its estimates.           *)
EXTENDS FiniteSets, Integers, Sequences, FiniteSetsExt, Functions,
        SequencesExt

-----------------------------------------------------------------------------
(***************************************************************************)
(* What a run of `voom process` tells about itself while workers, the      *)
(* enqueuer and Ctrl-C interleave: the progress bar (BatchProgress), the   *)
(* job events on the bus (EventBusReporter), the counters every worker     *)
(* adds to (RunCounters, the pool's counts), and the summary printed from  *)
(* them (print_run_results).                                               *)
(*                                                                         *)
(* Part "setup": which encoder places a plan waits for.                    *)
(***************************************************************************)

CONSTANTS
    RsFiles,        \* files discovered
    RsPhases,       \* phases of the policy, in order
    RsWorkers,      \* number of workers
    RsMaxFaults,    \* bound: store errors and jobs taken by another process
    RsBackends,     \* names an action's `hw` or best_hwaccel may have
    RsPlans         \* part "setup": the `hw` settings of a plan's transcodes

VARIABLES
    rsPart,
    rsMode,         \* [kind, keep, fail]: kind of run, keep_backups, --on-error fail
    rsCancelled,
    rsFile,         \* per file: [at, outcomes]
    rsSent,         \* files handed to the enqueuer (outcome.enqueued)
    rsUnreported,   \* queued jobs the bar has not been extended by
    rsBar,          \* [len, pos]
    rsEvents,       \* per file: job events on the bus
    rsCounters,     \* [completed, failed, modified, backups, stats]
    rsCollected,    \* plan_collector: <<file, phase>> in order
    rsFaults,
    rsPrinted,      \* the summary, or NoSummary
    rsSetup         \* part "setup": [plan, best]

runVars == <<rsMode, rsCancelled, rsFile, rsSent, rsUnreported, rsBar, rsEvents,
             rsCounters, rsCollected, rsFaults, rsPrinted>>
rsVars == <<rsPart, runVars, rsSetup>>

NoSummary == [done |-> FALSE, processed |-> 0, skipped |-> 0, failed |-> 0,
              failedPlans |-> 0, modified |-> 0]
NoStats == [completed |-> 0, skipped |-> 0, failed |-> 0]
PhaseNumbers == 1 .. Len(RsPhases)
DryRun == rsMode.kind # "real"
FileIs(f, at) == rsFile[f].at = at
RunningFiles == {f \in RsFiles : rsFile[f].at \in {"running", "stored", "failing"}}
Move(f, at) == [rsFile EXCEPT ![f].at = at]

(* EventBusReporter: JobStarted and JobCompleted. *)
Announce(f, e) == [rsEvents EXCEPT ![f] = Append(@, e)]

(***************************************************************************)
(* The enqueuer.                                                           *)
(***************************************************************************)
SendFile(f) ==
    /\ FileIs(f, "new") /\ ~rsCancelled
    /\ rsSent' = rsSent + 1
    /\ rsFile' = Move(f, "sent")
    /\ UNCHANGED <<rsMode, rsCancelled, rsUnreported, rsBar, rsEvents, rsCounters,
                   rsCollected, rsFaults, rsPrinted>>

(* A worker may take the job before the bar is extended. *)
EnqueueJob(f) ==
    /\ FileIs(f, "sent") /\ ~rsCancelled
    /\ rsFile' = Move(f, "queued")
    /\ rsUnreported' = rsUnreported \cup {f}
    /\ UNCHANGED <<rsMode, rsCancelled, rsSent, rsBar, rsEvents, rsCounters,
                   rsCollected, rsFaults, rsPrinted>>

EnqueueJobFails(f) ==
    /\ FileIs(f, "sent") /\ ~rsCancelled /\ rsFaults < RsMaxFaults
    /\ rsFaults' = rsFaults + 1
    /\ rsFile' = Move(f, "failed")
    /\ rsCounters' = [rsCounters EXCEPT !.failed = @ + 1]
    /\ UNCHANGED <<rsMode, rsCancelled, rsSent, rsUnreported, rsBar, rsEvents,
                   rsCollected, rsPrinted>>

on_jobs_extended(f) ==
    /\ f \in rsUnreported
    /\ rsUnreported' = rsUnreported \ {f}
    /\ rsBar' = [rsBar EXCEPT !.len = @ + 1]
    /\ UNCHANGED <<rsMode, rsCancelled, rsFile, rsSent, rsEvents, rsCounters,
                   rsCollected, rsFaults, rsPrinted>>

(***************************************************************************)
(* A worker and its job.                                                   *)
(***************************************************************************)
on_job_start(f) ==
    /\ FileIs(f, "queued") /\ ~rsCancelled /\ Cardinality(RunningFiles) < RsWorkers
    /\ rsFile' = Move(f, "running")
    /\ rsEvents' = Announce(f, "started")
    /\ UNCHANGED <<rsMode, rsCancelled, rsSent, rsUnreported, rsBar, rsCounters,
                   rsCollected, rsFaults, rsPrinted>>

(* The claim fails, or the run was cancelled since it: a failure nobody is *)
(* told of but the counter.                                                *)
ClaimFailsFor(f) ==
    /\ FileIs(f, "queued") /\ Cardinality(RunningFiles) < RsWorkers
    /\ rsCancelled \/ rsFaults < RsMaxFaults
    /\ rsFaults' = IF rsCancelled THEN rsFaults ELSE rsFaults + 1
    /\ rsFile' = Move(f, "failed")
    /\ rsCounters' = [rsCounters EXCEPT !.failed = @ + 1]
    /\ UNCHANGED <<rsMode, rsCancelled, rsSent, rsUnreported, rsBar, rsEvents,
                   rsCollected, rsPrinted>>

(* Another process claimed the job first. *)
TakenElsewhere(f) ==
    /\ FileIs(f, "queued") /\ rsFaults < RsMaxFaults
    /\ rsFaults' = rsFaults + 1
    /\ rsFile' = Move(f, "taken")
    /\ UNCHANGED <<rsMode, rsCancelled, rsSent, rsUnreported, rsBar, rsEvents,
                   rsCounters, rsCollected, rsPrinted>>

record_phase_stat(stats, p, outcome) ==
    [stats EXCEPT ![p] = [@ EXCEPT !.completed = @ + (IF outcome = "completed" THEN 1 ELSE 0),
                                   !.skipped = @ + (IF outcome = "skipped" THEN 1 ELSE 0),
                                   !.failed = @ + (IF outcome = "failed" THEN 1 ELSE 0)]]

Executed(outcomes) == \E i \in DOMAIN outcomes : outcomes[i] = "completed"

(* modified_counted: once per file, however many phases change it. *)
CountModified(f, outcome) ==
    IF outcome = "completed" /\ ~Executed(rsFile[f].outcomes) THEN 1 ELSE 0

(* One phase of a file, or the break at a cancelled run. *)
RunPhase(f) ==
    LET p == Len(rsFile[f].outcomes) + 1 IN
    /\ FileIs(f, "running") /\ ~DryRun /\ p \in PhaseNumbers /\ ~rsCancelled
    /\ \E outcome \in {"completed", "skipped", "failed", "empty"} :
         /\ rsFile' = [rsFile EXCEPT ![f].outcomes = Append(@, outcome)]
         /\ rsCounters' = [rsCounters EXCEPT
              !.stats = record_phase_stat(@, p, outcome),
              !.modified = @ + CountModified(f, outcome),
              !.backups = @ + (IF outcome = "completed" /\ rsMode.keep THEN 1 ELSE 0)]
    /\ UNCHANGED <<rsMode, rsCancelled, rsSent, rsUnreported, rsBar, rsEvents,
                   rsCollected, rsFaults, rsPrinted>>

include_in_plan_only_output(outcome) == outcome \in {"completed", "skipped"}

(* All phases of a file in a dry run; the plans are added under the lock. *)
process_single_file_dry_run(f) ==
    /\ FileIs(f, "running") /\ DryRun /\ rsFile[f].outcomes = <<>>
    /\ \E outcomes \in [PhaseNumbers -> {"completed", "skipped", "empty"}] :
         /\ rsFile' = [rsFile EXCEPT ![f].outcomes = outcomes]
         /\ rsCounters' = [rsCounters EXCEPT
              !.stats = [p \in PhaseNumbers |-> record_phase_stat(@, p, outcomes[p])[p]],
              !.modified = @ + (IF Executed(outcomes) THEN 1 ELSE 0)]
         /\ rsCollected' = IF rsMode.kind # "plan" THEN rsCollected
              ELSE rsCollected \o SelectSeq([p \in PhaseNumbers |-> <<f, p>>],
                                            LAMBDA e : include_in_plan_only_output(outcomes[e[2]]))
    /\ UNCHANGED <<rsMode, rsCancelled, rsSent, rsUnreported, rsBar, rsEvents,
                   rsFaults, rsPrinted>>

FileDone(f) == Len(rsFile[f].outcomes) = Len(RsPhases) \/ (rsCancelled /\ ~DryRun)
FilePlansFailed(f) == \E i \in DOMAIN rsFile[f].outcomes : rsFile[f].outcomes[i] = "failed"


(* The job is stored as complete and counted; when that fails it failed.   *)
StoreCompletion(f) ==
    /\ FileIs(f, "running") /\ FileDone(f) /\ ~FilePlansFailed(f)
    /\ \/ /\ rsFile' = Move(f, "stored") /\ UNCHANGED rsFaults
          /\ rsCounters' = [rsCounters EXCEPT !.completed = @ + 1]
       \/ /\ rsFaults < RsMaxFaults /\ rsFaults' = rsFaults + 1
          /\ rsFile' = Move(f, "failing") /\ UNCHANGED rsCounters
    /\ UNCHANGED <<rsMode, rsCancelled, rsSent, rsUnreported, rsBar, rsEvents,
                   rsCollected, rsPrinted>>

(* A failed plan, or an error of the processor, fails the job. *)
StoreFailure(f) ==
    /\ FileIs(f, "running")
    /\ (FileDone(f) /\ FilePlansFailed(f)) \/ rsFaults < RsMaxFaults
    /\ rsFaults' = IF FileDone(f) /\ FilePlansFailed(f) THEN rsFaults ELSE rsFaults + 1
    /\ rsFile' = Move(f, "failing")
    /\ UNCHANGED <<rsMode, rsCancelled, rsSent, rsUnreported, rsBar, rsEvents,
                   rsCounters, rsCollected, rsPrinted>>

(* CompositeReporter: the bar, and the event on the bus. *)
on_job_complete(f, success) ==
    /\ rsBar' = [rsBar EXCEPT !.pos = @ + 1]
    /\ rsEvents' = Announce(f, IF success THEN "ok" ELSE "failed")

ReportSuccess(f) ==
    /\ FileIs(f, "stored")
    /\ on_job_complete(f, TRUE)
    /\ rsFile' = Move(f, "done")
    /\ UNCHANGED <<rsMode, rsCancelled, rsSent, rsUnreported, rsCounters, rsCollected,
                   rsFaults, rsPrinted>>

(* Reported, counted, and the run cancelled under --on-error fail. *)
ReportFailure(f) ==
    /\ FileIs(f, "failing")
    /\ on_job_complete(f, FALSE)
    /\ rsFile' = Move(f, "failed")
    /\ rsCounters' = [rsCounters EXCEPT !.failed = @ + 1]
    /\ rsCancelled' = (rsCancelled \/ rsMode.fail)
    /\ UNCHANGED <<rsMode, rsSent, rsUnreported, rsCollected, rsFaults, rsPrinted>>

CtrlC ==
    /\ ~rsCancelled
    /\ rsCancelled' = TRUE
    /\ UNCHANGED <<rsMode, rsFile, rsSent, rsUnreported, rsBar, rsEvents, rsCounters,
                   rsCollected, rsFaults, rsPrinted>>

(***************************************************************************)
(* The summary.                                                            *)
(***************************************************************************)
RunSettled ==
    /\ RunningFiles = {} /\ rsUnreported = {}
    /\ rsCancelled \/ \A f \in RsFiles : rsFile[f].at \in {"done", "failed", "taken"}

Less(a, b) == IF a > b THEN a - b ELSE 0

print_summary(c) ==
    [done |-> TRUE, processed |-> c.completed,
     skipped |-> Less(Less(rsSent, c.completed), c.failed),
     failed |-> c.failed,
     failedPlans |-> FoldSet(LAMBDA p, n : n + c.stats[p].failed, 0, PhaseNumbers),
     modified |-> c.modified]

print_run_results ==
    /\ RunSettled
    /\ rsPrinted' = print_summary(rsCounters)
    /\ UNCHANGED <<rsMode, rsCancelled, rsFile, rsSent, rsUnreported, rsBar, rsEvents,
                   rsCounters, rsCollected, rsFaults>>

(***************************************************************************)
(* Part "setup": the encoder places (PlanParallelResource).                *)
(***************************************************************************)
hw_resource_for_backend(b) ==
    IF b \in {"nvenc", "qsv", "vaapi", "videotoolbox"} THEN "hw:" \o b ELSE "none"

(* The first transcode that names a backend, or leaves it open when there  *)
(* is a default; "unset" is no `hw` at all.                                *)
from_plan_with_default(hws, default) ==
    LET open(i) == hws[i] \in {"auto", "unset"} /\ default # "none"
        named(i) == hw_resource_for_backend(hws[i]) # "none"
        hits == {i \in DOMAIN hws : open(i) \/ named(i)}
    IN  IF hits = {} THEN "none"
        ELSE IF open(Min(hits)) THEN default ELSE hw_resource_for_backend(hws[Min(hits)])

-----------------------------------------------------------------------------
NoSetup == [plan |-> <<>>, best |-> "none"]
NoRunMode == [kind |-> "real", keep |-> FALSE, fail |-> FALSE]

RsInit ==
    /\ rsPart \in {"run", "setup"}
    /\ rsMode \in IF rsPart = "run"
                  THEN [kind : {"real", "plan"}, keep : BOOLEAN, fail : BOOLEAN]
                  ELSE {NoRunMode}
    /\ (rsMode.kind = "plan" => ~rsMode.keep)
    /\ rsCancelled = FALSE /\ rsSent = 0 /\ rsUnreported = {} /\ rsFaults = 0
    /\ rsFile = [f \in RsFiles |-> [at |-> "new", outcomes |-> <<>>]]
    /\ rsBar = [len |-> 0, pos |-> 0]
    /\ rsEvents = [f \in RsFiles |-> <<>>]
    /\ rsCounters = [completed |-> 0, failed |-> 0, modified |-> 0, backups |-> 0,
                     stats |-> [p \in PhaseNumbers |-> NoStats]]
    /\ rsCollected = <<>> /\ rsPrinted = NoSummary
    /\ rsSetup \in IF rsPart = "setup" THEN [plan : RsPlans, best : RsBackends] ELSE {NoSetup}

RunNext ==
    \/ \E f \in RsFiles :
         \/ SendFile(f) \/ EnqueueJob(f) \/ EnqueueJobFails(f) \/ on_jobs_extended(f)
         \/ on_job_start(f) \/ ClaimFailsFor(f) \/ TakenElsewhere(f) \/ RunPhase(f)
         \/ process_single_file_dry_run(f) \/ StoreCompletion(f) \/ StoreFailure(f)
         \/ ReportSuccess(f) \/ ReportFailure(f)
    \/ CtrlC \/ print_run_results

(* The pool has returned before the summary is printed. *)
RsNext == rsPart = "run" /\ ~rsPrinted.done /\ RunNext /\ UNCHANGED <<rsPart, rsSetup>>
RsSpec == RsInit /\ [][RsNext]_rsVars

-----------------------------------------------------------------------------
(* The summary accounts for every file handed to the pool exactly once: it *)
(* was processed, failed, or is among the skipped, which are the files     *)
(* given up or taken by another process.                                   *)
SummaryAddsUp ==
    rsPrinted.done =>
        /\ rsPrinted.processed + rsPrinted.failed + rsPrinted.skipped = rsSent
        /\ rsPrinted.processed = Cardinality({f \in RsFiles : FileIs(f, "done")})
        /\ rsPrinted.failed = Cardinality({f \in RsFiles : FileIs(f, "failed")})

(* A file counts as modified once, and exactly when a phase changed it (or *)
(* would), even if its job failed in a later phase.                        *)
ModifiedCountsFiles ==
    rsCounters.modified = Cardinality({f \in RsFiles : Executed(rsFile[f].outcomes)})

(* The job events on the bus come in pairs: every job that was announced   *)
(* as started is announced as completed once, with the outcome the pool    *)
(* counted, before the summary is printed.                                 *)
EventsPaired ==
    \A f \in RsFiles :
        /\ rsEvents[f] \in {<<>>, <<"started">>, <<"started", "ok">>, <<"started", "failed">>}
        /\ FileIs(f, "done") => rsEvents[f] = <<"started", "ok">>
        /\ FileIs(f, "failed") => rsEvents[f] \in {<<>>, <<"started", "failed">>}

(* When every queued job was run to its end the bar is full, whichever way *)
(* the extensions and the completions of the jobs interleaved.             *)
BarEndsFull ==
    rsPrinted.done /\ (\A f \in RsFiles : Len(rsEvents[f]) = 2) =>
        rsBar.pos = rsBar.len

(* `--plan-only` prints the plans of every file it processed, all the      *)
(* plans of a file together and in the order of the phases, leaving out    *)
(* only the plans that neither act nor are skipped.                        *)
PlanOnlyPrintsAll ==
    rsPrinted.done /\ rsMode.kind = "plan" =>
        \A f \in RsFiles : LET shown == {p \in PhaseNumbers : <<f, p>> \in ToSet(rsCollected)}
                               at(p) == CHOOSE i \in DOMAIN rsCollected : rsCollected[i] = <<f, p>>
                           IN
            /\ shown = {p \in DOMAIN rsFile[f].outcomes : rsFile[f].outcomes[p] # "empty"}
            /\ Cardinality({i \in DOMAIN rsCollected : rsCollected[i][1] = f}) = Cardinality(shown)
            /\ \A p, q \in shown : p < q =>
                 at(q) - at(p) = Cardinality({r \in shown : p < r /\ r <= q})

(* A plan with one transcode waits for a place of the encoder it will run  *)
(* on: the one it names, or the best one found when it leaves it open.     *)
PlanTakesItsEncoder ==
    LET default == hw_resource_for_backend(rsSetup.best)
        runsOn(hw) == IF hw \in {"auto", "unset"} THEN default ELSE hw_resource_for_backend(hw)
    IN  Len(rsSetup.plan) = 1 =>
          from_plan_with_default(rsSetup.plan, default) = runsOn(rsSetup.plan[1])

-----------------------------------------------------------------------------
(***************************************************************************)
(* What voom tells its user to expect: the time left of a running batch    *)
(* (the ETA next to the progress bar), the samples `voom estimate          *)
(* calibrate` measures, and the estimate of a run that is stored and shown *)
(* for confirmation.                                                       *)
(*                                                                         *)
(* Weights and times are small integers.  Floating point is replaced by    *)
(* integers in a unit of FcUnit-ths of a tick, rounded down.               *)
(***************************************************************************)

CONSTANTS FcFiles,       \* files of the batch
          FcSize,          \* [FcFiles -> bytes]
          FcWorkers,       \* effective workers
          FcMaxClock,      \* ticks of one batch
          FcCorpora,       \* the benchmark outcomes a corpus may have
          FcPlans,         \* the plan lists an estimate may be made for
          FcMaxRuns        \* stored estimate runs

VARIABLES fcPart,          \* "batch", "calibrate" or "runs"
          fcEta,           \* BatchEtaState and the bar
          fcClock,
          fcCal,           \* the calibration command
          fcSamples,       \* cost_model_samples
          fcRuns           \* estimate_runs and estimate_files

fcVars == <<fcPart, fcEta, fcClock, fcCal, fcSamples, fcRuns>>

----------------------------------------------------------------------------
(* The ETA of a batch *)

FcUnit == 100
ETA_WARMUP_JOBS == 2
ETA_WARMUP_ELAPSED == 3      \* ticks; ten seconds in the code
\* ETA_PROGRESS_CAP, smoothing and step limits in hundredths.
ETA_PROGRESS_CAP == 98
ETA_SMOOTHING_ALPHA == 35
ETA_MAX_STEP_UP == 130
ETA_MAX_STEP_DOWN == 75
NoProgress == -1
NoEta == -1

job_weight(size) == Max({size, 1})

\* A job under way: its weight, when it started, the progress it reported in hundredths.
RunningJob(w) == [weight |-> w, started |-> fcClock, progress |-> NoProgress]
NoJobs == [f \in {} |-> 0]

Drop1(m, f) == [g \in DOMAIN m \ {f} |-> m[g]]
Put1(m, f, v) == [g \in DOMAIN m \cup {f} |-> IF g = f THEN v ELSE m[g]]

ElapsedOf(job) == fcClock - job.started
Clamp(x, lo, hi) == IF x < lo THEN lo ELSE IF x > hi THEN hi ELSE x

\* Time and weight observed so far; a running job counts when it reported progress.
ObservedJobs(e) == {f \in DOMAIN e.running : e.running[f].progress > 0}
CappedProgress(job) == Clamp(job.progress, 0, ETA_PROGRESS_CAP)
ObservedWeight(e) ==
    100 * e.doneWeight
      + MapThenSumSet(LAMBDA f : e.running[f].weight * CappedProgress(e.running[f]), ObservedJobs(e))
ObservedTime(e) ==
    e.doneTime + MapThenSumSet(LAMBDA f : ElapsedOf(e.running[f]), ObservedJobs(e))

\* seconds_per_weight, in FcUnit-ths of a tick; 0 when there is none yet.
seconds_per_weight(e) ==
    IF e.doneWeight = 0 \/ ObservedTime(e) = 0 THEN 0
    ELSE (ObservedTime(e) * 100 * FcUnit) \div ObservedWeight(e)

\* predicted_remaining_runtime_secs: the reported progress, or the one the
\* elapsed time suggests, stretches the expected total.
predicted_remaining(job, spw) ==
    LET elapsed == ElapsedOf(job) * FcUnit
        expected == Max({job.weight * spw, elapsed})
        progress == IF job.progress # NoProgress THEN CappedProgress(job)
                    ELSE IF job.weight * spw = 0 THEN 0
                    ELSE Clamp((elapsed * 100) \div (job.weight * spw), 0, ETA_PROGRESS_CAP)
        total == IF progress > 0 THEN Max({(elapsed * 100) \div progress, expected}) ELSE expected
    IN  total - elapsed

\* Longest first, each to the least loaded slot.
LeastLoaded(loads) == CHOOSE i \in DOMAIN loads : \A j \in DOMAIN loads :
                        loads[i] < loads[j] \/ (loads[i] = loads[j] /\ i <= j)
AssignTo(loads, d) == [loads EXCEPT ![LeastLoaded(loads)] = @ + d]

RunningLoads(e, spw) ==
    LET first == SetToSortSeq({<<f, predicted_remaining(e.running[f], spw)>> : f \in DOMAIN e.running},
                              LAMBDA a, b : a[1] < b[1])
    IN  [i \in 1..Max({FcWorkers, Len(first)}) |-> IF i <= Len(first) THEN first[i][2] ELSE 0]
QueuedDurations(e, spw) ==
    LET byLength == SetToSortSeq(DOMAIN e.queued,
                      LAMBDA a, b : e.queued[a] > e.queued[b] \/ (e.queued[a] = e.queued[b] /\ a < b))
    IN  [i \in 1..Len(byLength) |-> e.queued[byLength[i]] * spw]

raw_eta(e, spw) ==
    Max({0} \cup Range(FoldLeft(AssignTo, RunningLoads(e, spw), QueuedDurations(e, spw))))

smooth_eta(shown, raw) ==
    IF raw <= 0 THEN NoEta
    ELSE IF shown = NoEta THEN raw
    ELSE Clamp(shown + (ETA_SMOOTHING_ALPHA * (raw - shown)) \div 100,
               (shown * ETA_MAX_STEP_DOWN) \div 100, (shown * ETA_MAX_STEP_UP) \div 100)

estimate_eta(e) ==
    LET spw == seconds_per_weight(e)
        raw == raw_eta(e, spw)
    IN  IF DOMAIN e.queued = {} /\ DOMAIN e.running = {} THEN [e EXCEPT !.shown = NoEta, !.raw = NoEta]
        ELSE IF (e.doneJobs < ETA_WARMUP_JOBS /\ fcClock < ETA_WARMUP_ELAPSED) \/ spw = 0 THEN e
        ELSE [e EXCEPT !.raw = raw, !.shown = smooth_eta(e.shown, raw)]

eta_job_start(f) ==
    LET w == IF f \in DOMAIN fcEta.queued THEN fcEta.queued[f] ELSE job_weight(FcSize[f]) IN
    /\ fcPart = "batch"
    /\ f \in DOMAIN fcEta.queued /\ Cardinality(DOMAIN fcEta.running) < FcWorkers
    /\ fcEta' = estimate_eta([fcEta EXCEPT !.queued = Drop1(@, f),
                                           !.running = Put1(@, f, RunningJob(w))])
    /\ UNCHANGED <<fcPart, fcClock, fcCal, fcSamples, fcRuns>>

eta_job_progress(f) ==
    /\ fcPart = "batch" /\ f \in DOMAIN fcEta.running
    /\ \E p \in {50, 100} :
         /\ p > fcEta.running[f].progress
         /\ fcEta' = estimate_eta([fcEta EXCEPT !.running[f].progress = p])
    /\ UNCHANGED <<fcPart, fcClock, fcCal, fcSamples, fcRuns>>

eta_job_complete(f) ==
    /\ fcPart = "batch" /\ f \in DOMAIN fcEta.running
    /\ LET job == fcEta.running[f] IN
       fcEta' = estimate_eta([fcEta EXCEPT !.running = Drop1(@, f),
                                           !.doneWeight = @ + job.weight,
                                           !.doneTime = @ + ElapsedOf(job),
                                           !.doneJobs = @ + 1])
    /\ UNCHANGED <<fcPart, fcClock, fcCal, fcSamples, fcRuns>>

BatchTick ==
    /\ fcPart = "batch" /\ fcClock < FcMaxClock /\ DOMAIN fcEta.running # {}
    /\ fcClock' = fcClock + 1
    /\ UNCHANGED <<fcPart, fcEta, fcCal, fcSamples, fcRuns>>

----------------------------------------------------------------------------
(* estimate calibrate *)

\* The outcome of one benchmark: bytes of the file, bytes of the encoded
\* piece, seconds it took; ok is FALSE when ffmpeg failed or timed out.
NoCal == [at |-> "idle", corpus |-> <<>>, results |-> <<>>, left |-> 0, todo |-> <<>>]

\* cost_model_sample_from_benchmark
SampleOf(r) == [ratio |-> (100 * r.output) \div Max({r.input, 1}),
                speed |-> r.pixels \div Max({r.elapsed, 1})]

MedianOf(s) == SortSeq(s, LAMBDA a, b : a < b)[(Len(s) \div 2) + 1]

holdout_samples(results, i) ==
    LET others == SelectSeq([j \in 1..Len(results) |-> j], LAMBDA j : j # i)
    IN  [j \in 1..Len(others) |-> SampleOf(results[others[j]])]

estimate_bytes(r, samples) ==
    (r.input * MedianOf([j \in 1..Len(samples) |-> samples[j].ratio])) \div 100
estimate_ms(r, samples) ==
    r.pixels \div Max({1, MedianOf([j \in 1..Len(samples) |-> samples[j].speed])})

\* accuracy_report_from_benchmarks: nothing to say of fewer than two fixtures.
accuracy_report(results) ==
    IF Len(results) < 2 THEN <<>>
    ELSE [i \in 1..Len(results) |->
            LET samples == holdout_samples(results, i)
            IN  [bytes |-> estimate_bytes(results[i], samples), ms |-> estimate_ms(results[i], samples)]]

StartCalibration ==
    /\ fcPart = "calibrate" /\ fcCal.at = "idle"
    /\ \E corpus \in FcCorpora :
         fcCal' = [fcCal EXCEPT !.at = IF corpus = <<>> THEN "failed" ELSE "bench",
                                !.corpus = corpus, !.results = <<>>]
    /\ UNCHANGED <<fcPart, fcEta, fcClock, fcSamples, fcRuns>>

run_calibration_benchmark ==
    /\ fcPart = "calibrate" /\ fcCal.at = "bench" /\ Len(fcCal.results) < Len(fcCal.corpus)
    /\ LET r == fcCal.corpus[Len(fcCal.results) + 1] IN
       fcCal' = IF r.ok THEN [fcCal EXCEPT !.results = Append(@, r)]
                ELSE [fcCal EXCEPT !.at = "failed", !.left = @ + 1]
    /\ UNCHANGED <<fcPart, fcEta, fcClock, fcSamples, fcRuns>>

\* All benchmarks done: the samples are inserted one by one.
RecordSamples ==
    /\ fcPart = "calibrate" /\ fcCal.at = "bench" /\ Len(fcCal.results) = Len(fcCal.corpus)
    /\ fcCal' = [fcCal EXCEPT !.at = "insert",
                              !.todo = [i \in 1..Len(fcCal.results) |-> SampleOf(fcCal.results[i])]]
    /\ UNCHANGED <<fcPart, fcEta, fcClock, fcSamples, fcRuns>>

insert_cost_model_sample ==
    /\ fcPart = "calibrate" /\ fcCal.at = "insert"
    /\ IF fcCal.todo = <<>>
       THEN fcCal' = [fcCal EXCEPT !.at = "done"] /\ UNCHANGED fcSamples
       ELSE /\ fcSamples' = Append(fcSamples, Head(fcCal.todo))
            /\ fcCal' = [fcCal EXCEPT !.todo = Tail(@)]
    /\ UNCHANGED <<fcPart, fcEta, fcClock, fcRuns>>

----------------------------------------------------------------------------
(* Stored estimates *)

\* A plan: the file's size and the bytes and time of each of its actions.
\* estimate_file: the largest output of an action, the sum of their times.
FileEstimate(plan) ==
    LET out == IF plan.outs = {} THEN plan.size ELSE Max(plan.outs)
    IN  [in |-> plan.size, out |-> out, saved |-> plan.size - out, ms |-> plan.ms,
         unsure |-> plan.unsure, loss |-> plan.size < out]

SumOf(files, F(_)) == FoldSeq(LAMBDA f, acc : F(f) + acc, 0, files)
CountedIn(files, P(_)) == Len(SelectSeq(files, P))

estimate_plans(plans, workers) ==
    LET files == [i \in 1..Len(plans) |-> FileEstimate(plans[i])]
        ms == SumOf(files, LAMBDA f : f.ms)
        w == Max({workers, 1})
    IN  [count |-> Len(files), in |-> SumOf(files, LAMBDA f : f.in),
         out |-> SumOf(files, LAMBDA f : f.out),
         saved |-> SumOf(files, LAMBDA f : f.in) - SumOf(files, LAMBDA f : f.out),
         ms |-> ms, wall |-> (ms + w - 1) \div w,
         unsure |-> CountedIn(files, LAMBDA f : f.unsure), losses |-> CountedIn(files, LAMBDA f : f.loss),
         files |-> files]

\* insert_estimate_run: the row first, then a row for each file, by index.
InsertRun ==
    /\ fcPart = "runs" /\ Len(fcRuns) < FcMaxRuns
    /\ \A i \in 1..Len(fcRuns) : fcRuns[i].at # "files"
    /\ \E plans \in FcPlans, w \in {0, FcWorkers} :
         LET run == estimate_plans(plans, w) IN
         fcRuns' = Append(fcRuns, [row |-> [run EXCEPT !.files = <<>>], files |-> {},
                                   at |-> "files", made |-> run])
    /\ UNCHANGED <<fcPart, fcEta, fcClock, fcCal, fcSamples>>

insert_estimate_files ==
    /\ fcPart = "runs" /\ fcRuns # <<>> /\ Last(fcRuns).at = "files"
    /\ LET i == Len(fcRuns)
           run == fcRuns[i]
           next == Cardinality(run.files) + 1
       IN  fcRuns' = IF next > Len(run.made.files) THEN [fcRuns EXCEPT ![i].at = "done"]
                     ELSE [fcRuns EXCEPT ![i].files = @ \cup {[index |-> next, file |-> run.made.files[next]]}]
    /\ UNCHANGED <<fcPart, fcEta, fcClock, fcCal, fcSamples>>

\* A failed insert: what is there stays, the caller is told.
InsertFails ==
    /\ fcPart = "runs" /\ fcRuns # <<>> /\ Last(fcRuns).at = "files"
    /\ fcRuns' = [fcRuns EXCEPT ![Len(fcRuns)].at = "failed"]
    /\ UNCHANGED <<fcPart, fcEta, fcClock, fcCal, fcSamples>>

load_estimate_files(run) ==
    LET rows == SetToSortSeq(run.files, LAMBDA a, b : a.index < b.index)
    IN  [i \in 1..Len(rows) |-> rows[i].file]

get_estimate_run(i) == [fcRuns[i].row EXCEPT !.files = load_estimate_files(fcRuns[i])]
list_estimate_runs(limit) ==
    LET order == Reverse([i \in 1..Len(fcRuns) |-> i])
    IN  [j \in 1..(IF limit < Len(order) THEN limit ELSE Len(order)) |-> get_estimate_run(order[j])]

----------------------------------------------------------------------------
FcInit ==
    /\ fcPart \in {"batch", "calibrate", "runs"}
    /\ fcClock = 0
    /\ fcEta = [queued |-> [f \in FcFiles |-> job_weight(FcSize[f])],
                running |-> NoJobs, doneWeight |-> 0, doneTime |-> 0, doneJobs |-> 0,
                shown |-> NoEta, raw |-> NoEta]
    /\ fcCal = NoCal /\ fcSamples = <<>> /\ fcRuns = <<>>

FcNext ==
    \/ \E f \in FcFiles : eta_job_start(f) \/ eta_job_progress(f) \/ eta_job_complete(f)
    \/ BatchTick
    \/ StartCalibration \/ run_calibration_benchmark \/ RecordSamples \/ insert_cost_model_sample
    \/ InsertRun \/ insert_estimate_files \/ InsertFails

FcSpec == FcInit /\ [][FcNext]_fcVars

----------------------------------------------------------------------------
(* Properties *)

\* Every file handed to the batch is counted once in the time left: it is
\* queued, running or done, and the weights of the three add up to the whole.
WeightCountedOnce ==
    fcPart = "batch" =>
      /\ DOMAIN fcEta.queued \cap DOMAIN fcEta.running = {}
      /\ Cardinality(DOMAIN fcEta.queued) + Cardinality(DOMAIN fcEta.running) + fcEta.doneJobs
           = Cardinality(FcFiles)
      /\ MapThenSumSet(LAMBDA f : fcEta.queued[f], DOMAIN fcEta.queued)
           + MapThenSumSet(LAMBDA f : fcEta.running[f].weight, DOMAIN fcEta.running)
           + fcEta.doneWeight
           = MapThenSumSet(LAMBDA f : job_weight(FcSize[f]), FcFiles)

\* The estimate is one a schedule of the workers can meet and no schedule
\* beats by more than the workers' share: no worker is idle while work waits,
\* so it is at least the work divided by the workers and the longest piece,
\* and at most that share and one more piece.
EtaIsASchedule ==
    (fcPart = "batch" /\ seconds_per_weight(fcEta) > 0) =>
      LET spw == seconds_per_weight(fcEta)
          running == {predicted_remaining(fcEta.running[f], spw) : f \in DOMAIN fcEta.running}
          queued == {fcEta.queued[f] * spw : f \in DOMAIN fcEta.queued}
          work == MapThenSumSet(LAMBDA f : predicted_remaining(fcEta.running[f], spw), DOMAIN fcEta.running)
                    + MapThenSumSet(LAMBDA f : fcEta.queued[f] * spw, DOMAIN fcEta.queued)
          longest == Max({0} \cup running \cup queued)
          eta == raw_eta(fcEta, spw)
      IN  /\ eta >= longest /\ eta * FcWorkers >= work
          /\ eta <= Max({longest, (work \div FcWorkers) + longest})
          /\ Cardinality(DOMAIN fcEta.queued) + Cardinality(DOMAIN fcEta.running) <= FcWorkers => eta = longest

\* Nothing is shown as the time left once every job of the batch is done.
NoEtaWhenDone ==
    (fcPart = "batch" /\ fcEta.doneJobs = Cardinality(FcFiles)) => fcEta.shown = NoEta

\* The accuracy that calibration prints is honest: the estimate for a fixture
\* is the same whatever its own encode had given.
HoldoutIsHonest ==
    (fcPart = "calibrate" /\ fcCal.at \in {"insert", "done"}) =>
      \A i \in 1..Len(fcCal.results) :
        LET changed == [fcCal.results EXCEPT ![i].output = @ + 50, ![i].elapsed = @ * 3] IN
        accuracy_report(fcCal.results) # <<>> =>
          accuracy_report(fcCal.results)[i] = accuracy_report(changed)[i]

\* Calibration records a sample for every fixture or none: a benchmark that
\* fails stops the command before anything is written to the cost model.
CalibrationAllOrNothing ==
    (fcPart = "calibrate" /\ fcSamples # <<>>) =>
      /\ fcCal.at \in {"insert", "done"}
      /\ \A i \in 1..Len(fcCal.corpus) : fcCal.corpus[i].ok
      /\ fcCal.at = "done" => Len(fcSamples) = Len(fcCal.corpus)

\* An estimate that was stored reads back as it was made, its files in plan
\* order, newest run first, and its bytes saved are those of its files.
StoredEstimateReadsBack ==
    fcPart = "runs" =>
      \A j \in 1..Len(fcRuns) :
        LET run == list_estimate_runs(FcMaxRuns)[Len(fcRuns) + 1 - j] IN
        fcRuns[j].at = "done" =>
          /\ run = fcRuns[j].made
          /\ run.count = Len(run.files)
          /\ run.saved = SumOf(run.files, LAMBDA f : f.saved)

\* The wall time of an estimate is time enough for the workers to do its
\* compute time, and never more than one worker would need.
WallTimeIsEnough ==
    fcPart = "runs" =>
      \A j \in 1..Len(fcRuns) :
        LET run == fcRuns[j].made IN run.wall * FcWorkers >= run.ms /\ run.wall <= run.ms

=============================================================================
