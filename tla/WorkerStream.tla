---------------------------- MODULE WorkerStream ----------------------------
(***************************************************************************)
(* WorkerPool::process_stream (plugins/job-manager/src/worker_stream.rs)     *)
(* with run_claimed_job (worker.rs): one enqueuer task, a set of worker      *)
(* tasks, one collector and the coroutine that joins them.  The tasks share  *)
(* a run-scoped heap of job ids, two counters, a cancellation token, a       *)
(* bounded result channel and the jobs table, which other processes use too. *)
(*                                                                           *)
(* A step is what a task does between two points where another task could    *)
(* observe it.  Storage calls may fail, at most MaxFaults times.             *)
(***************************************************************************)
EXTENDS JobTable

CONSTANTS NoJob,
          StaleJobs,   \* rows an earlier run left pending in the table
          OnError,     \* JobErrorStrategy: "fail", "skip" or "continue"
          ResultCap,   \* capacity of the result channel
          MaxFaults    \* bound on the storage calls that fail

ASSUME NoJobAssumption == NoJob \notin JobId
ASSUME StaleAssumption == StaleJobs \subseteq JobId
ASSUME StrategyAssumption == OnError \in {"fail", "skip", "continue"}
ASSUME BoundsAssumption == ResultCap \in Nat \ {0} /\ MaxFaults \in Nat
ASSUME WorkersAssumption == WorkerId # {}   \* effective_workers is at least 1

VARIABLES
  token,       \* the pool's cancellation token has been cancelled
  gate,        \* execution_gate.notify_waiters() has been called
  enq,         \* where the enqueuer is; "done" once it has set producer_done_flag
  heap,        \* pending_heap; its order is the rows' (priority, creation) order
  enqueued,    \* enqueued_ids
  pc,          \* pc[w]: where worker w is in its loop
  job,         \* job[w]: the job it works on
  pre_failed,  \* pre_failed[w]: the failure count it read after its claim
  completed, failed,   \* completed_count, failed_count
  inflight,    \* results in the channel, not yet collected
  results,     \* results[j]: how many results of each outcome j has had
  started,     \* started[j]: how often the processor was called for j
  pool,        \* where process_stream itself is
  leftover,    \* unstarted jobs it still has to cancel
  command,     \* the job a `voom jobs cancel` has read as live and will write
  faults       \* storage errors so far

table == <<jobs, now>>
enqueuer == <<enq, heap, enqueued>>
worker == <<pc, job, pre_failed>>
report == <<inflight, results>>
main == <<pool, leftover, command>>
vars == <<table, token, gate, enqueuer, worker, completed, failed, report, started, main, faults>>

Outcome == {"success", "failure"}

\* "send_cancel": run_claimed_job cancels the token once the result is sent.
WorkerPc == {"spawned", "waiting", "loop", "check_done", "claiming", "claimed", "running",
             "send_success", "send_failure", "send_cancel", "after", "exited"}

TypeOK ==
  /\ JobTableTypeOK
  /\ token \in BOOLEAN /\ gate \in BOOLEAN
  /\ enq \in {"recv", "send", "done"}
  /\ heap \subseteq JobId /\ enqueued \subseteq JobId /\ leftover \subseteq JobId
  /\ pc \in [WorkerId -> WorkerPc]
  /\ job \in [WorkerId -> JobId \cup {NoJob}]
  /\ pre_failed \in [WorkerId -> Nat]
  /\ completed \in Nat /\ failed \in Nat /\ inflight \in Nat /\ faults \in Nat
  /\ results \in [JobId -> [Outcome -> Nat]]
  /\ started \in [JobId -> Nat]
  /\ pool \in {"joining", "sweeping", "done"}
  /\ command \in JobId \cup {NoJob}

Init ==
  /\ jobs = [j \in JobId |-> IF j \in StaleJobs
                             THEN Row("pending", 0, 0)
                             ELSE UnusedRow]
  /\ now = 1
  /\ token = FALSE /\ gate = FALSE
  /\ enq = "recv"
  /\ heap = {} /\ enqueued = {} /\ leftover = {}
  /\ pc = [w \in WorkerId |-> "spawned"]
  /\ job = [w \in WorkerId |-> NoJob]
  /\ pre_failed = [w \in WorkerId |-> 0]
  /\ completed = 0 /\ failed = 0 /\ inflight = 0 /\ faults = 0
  /\ results = [j \in JobId |-> [o \in Outcome |-> 0]]
  /\ started = [j \in JobId |-> 0]
  /\ pool = "joining" /\ command = NoJob

-----------------------------------------------------------------------------
Goto(w, label) == pc' = [pc EXCEPT ![w] = label]

\* A worker goes to the next point of its loop and changes nothing else.
Move(w, label) ==
  /\ Goto(w, label)
  /\ UNCHANGED <<table, token, gate, enqueuer, job, pre_failed, completed, failed, report,
                 started, main, faults>>

\* One more storage call fails.
Fault == faults < MaxFaults /\ faults' = faults + 1

\* queue.cancel(j), its read and its write: an error, and no write, for a row
\* that is gone or terminal.
cancel(j) == IF jobs[j].status \in Live THEN update_status(j, "cancelled")
             ELSE UNCHANGED <<jobs, now>>

-----------------------------------------------------------------------------
(* The enqueuer.  Its select is biased: it stops at a cancelled token before *)
(* it looks at the channel.  Each item that arrives becomes a row, then a    *)
(* heap entry and a member of enqueued_ids.                                  *)

EnqueueItem(j, p) ==
  /\ enq = "recv" /\ ~token
  /\ create_job(j, p)
  /\ heap' = heap \cup {j}
  /\ enqueued' = enqueued \cup {j}
  /\ UNCHANGED <<token, gate, enq, worker, completed, failed, report, started, main, faults>>

\* The insert (or the payload's serialisation) fails: the item is counted as
\* failed and reported under a fresh id, and the enqueuer carries on.
EnqueueFails ==
  /\ enq = "recv" /\ ~token
  /\ Fault
  /\ failed' = failed + 1
  /\ enq' = "send"
  /\ UNCHANGED <<table, token, gate, heap, enqueued, worker, completed, report, started, main>>

\* Blocks while the result channel is full.
EnqueuerSends ==
  /\ enq = "send"
  /\ inflight < ResultCap
  /\ inflight' = inflight + 1
  /\ enq' = "recv"
  /\ UNCHANGED <<table, token, gate, heap, enqueued, worker, completed, failed, results,
                 started, main, faults>>

\* The producer has dropped its end of the channel, or the token is cancelled.
EnqueuerStops ==
  /\ enq = "recv"
  /\ enq' = "done"
  /\ UNCHANGED <<table, token, gate, heap, enqueued, worker, completed, failed, report,
                 started, main, faults>>

-----------------------------------------------------------------------------
(* A worker.  First it waits for the gate; notify_waiters wakes the workers   *)
(* that are waiting when it is called and leaves no permit for later ones.    *)

WaitForGate(w) ==
  /\ pc[w] = "spawned"
  /\ Move(w, IF token THEN "exited" ELSE "waiting")

ExitWhenCancelled(w) ==
  /\ pc[w] \in {"waiting", "loop"}
  /\ token
  /\ Move(w, "exited")

\* heap.pop(): the entry served first.
Pop(w, j) ==
  /\ pc[w] = "loop" /\ ~token
  /\ j \in heap
  /\ \A i \in heap : ServedBefore(j, i)
  /\ heap' = heap \ {j}
  /\ job' = [job EXCEPT ![w] = j]
  /\ Goto(w, "claiming")
  /\ UNCHANGED <<table, token, gate, enq, enqueued, pre_failed, completed, failed, report,
                 started, main, faults>>

PopEmpty(w) ==
  /\ pc[w] = "loop" /\ ~token
  /\ heap = {}
  /\ Move(w, "check_done")

\* The heap is looked at again after the flag: the enqueuer may have pushed
\* its last item, and finished, since the pop.
CheckDone(w) ==
  /\ pc[w] = "check_done"
  /\ Move(w, IF enq = "done" /\ heap = {} THEN "exited" ELSE "loop")

Claim(w) ==
  /\ pc[w] = "claiming"
  /\ claim_job_by_id(job[w], w)
  /\ pre_failed' = [pre_failed EXCEPT ![w] = failed]
  /\ Goto(w, "claimed")
  /\ UNCHANGED <<token, gate, enqueuer, job, completed, failed, report, started, main, faults>>

\* The worker forgets the entry it popped and goes round its loop.
Drop(w) ==
  /\ job' = [job EXCEPT ![w] = NoJob]
  /\ Goto(w, "loop")
  /\ UNCHANGED <<table, token, gate, enqueuer, pre_failed, completed, failed, report, started,
                 main>>

\* No longer pending, for instance cancelled by a command.
ClaimNone(w) ==
  /\ pc[w] = "claiming"
  /\ jobs[job[w]].status # "pending"
  /\ Drop(w)
  /\ UNCHANGED faults

\* The worker logs the error and goes on to the next entry.
ClaimFails(w) ==
  /\ pc[w] = "claiming"
  /\ Fault
  /\ Drop(w)

\* run_claimed_job looks at the token once more before it starts.  The job it
\* gives up is cancelled; that write may fail; the report is the same.
GiveUp(w) ==
  /\ pc[w] = "claimed" /\ token
  /\ \/ cancel(job[w]) /\ UNCHANGED faults
     \/ Fault /\ UNCHANGED table
  /\ failed' = failed + 1
  /\ Goto(w, "send_failure")
  /\ UNCHANGED <<token, gate, enqueuer, job, pre_failed, completed, report, started, main>>

StartProcessor(w) ==
  /\ pc[w] = "claimed" /\ ~token
  /\ started' = [started EXCEPT ![job[w]] = @ + 1]
  /\ Goto(w, "running")
  /\ UNCHANGED <<table, token, gate, enqueuer, job, pre_failed, completed, failed, report,
                 main, faults>>

ProcessorOk(w) ==
  /\ pc[w] = "running"
  /\ update_status(job[w], "completed")
  /\ completed' = completed + 1
  /\ Goto(w, "send_success")
  /\ UNCHANGED <<token, gate, enqueuer, job, pre_failed, failed, report, started, main, faults>>

\* Mutant: the success is reported although it could not be recorded.
CompleteFails_Ignored(w) ==
  /\ pc[w] = "running"
  /\ Fault
  /\ completed' = completed + 1
  /\ Goto(w, "send_success")
  /\ UNCHANGED <<table, token, gate, enqueuer, job, pre_failed, failed, report, started, main>>

\* The processor succeeded but its success cannot be recorded.
CompleteFails(w) ==
  /\ pc[w] = "running"
  /\ Fault
  /\ failed' = failed + 1
  /\ Goto(w, "send_failure")
  /\ UNCHANGED <<table, token, gate, enqueuer, job, pre_failed, completed, report, started,
                 main>>

\* Mutant: a failed job goes back to the heap for another attempt.
ProcessorErr_Requeues(w) ==
  /\ pc[w] = "running"
  /\ Fault
  /\ update_status(job[w], "pending")
  /\ heap' = heap \cup {job[w]}
  /\ failed' = failed + 1
  /\ Goto(w, "send_failure")
  /\ UNCHANGED <<token, gate, enq, enqueued, job, pre_failed, completed, report, started, main>>

\* The processor failed; recording that may fail as well.
ProcessorErr(w) ==
  /\ pc[w] = "running"
  /\ \/ update_status(job[w], "failed") /\ UNCHANGED faults
     \/ Fault /\ UNCHANGED table
  /\ failed' = failed + 1
  /\ Goto(w, IF OnError = "fail" THEN "send_cancel" ELSE "send_failure")
  /\ UNCHANGED <<token, gate, enqueuer, job, pre_failed, completed, report, started, main>>

\* A panic in the processor takes the worker task down with it.
ProcessorPanics(w) ==
  /\ pc[w] = "running"
  /\ Fault
  /\ Goto(w, "exited")
  /\ UNCHANGED <<table, token, gate, enqueuer, job, pre_failed, completed, failed, report,
                 started, main>>

\* Blocks while the result channel is full.
SendResult(w) ==
  /\ pc[w] \in {"send_success", "send_failure", "send_cancel"}
  /\ inflight < ResultCap
  /\ inflight' = inflight + 1
  /\ LET outcome == IF pc[w] = "send_success" THEN "success" ELSE "failure"
     IN results' = [results EXCEPT ![job[w]][outcome] = @ + 1]
  /\ token' = (token \/ pc[w] = "send_cancel")
  /\ Goto(w, "after")
  /\ UNCHANGED <<table, gate, enqueuer, job, pre_failed, completed, failed, started, main,
                 faults>>

\* Fail-fast: the worker leaves if anything has failed since its claim.
AfterJob(w) ==
  /\ pc[w] = "after"
  /\ job' = [job EXCEPT ![w] = NoJob]
  /\ Goto(w, IF OnError = "fail" /\ failed > pre_failed[w] THEN "exited" ELSE "loop")
  /\ UNCHANGED <<table, token, gate, enqueuer, pre_failed, completed, failed, report, started,
                 main, faults>>

-----------------------------------------------------------------------------
Collect ==
  /\ inflight > 0
  /\ inflight' = inflight - 1
  /\ UNCHANGED <<table, token, gate, enqueuer, worker, completed, failed, results, started,
                 main, faults>>

AllJoined == enq = "done" /\ (\A w \in WorkerId : pc[w] = "exited") /\ inflight = 0

\* Every task has been joined.  If the token is cancelled, the jobs of this
\* run that are still pending are listed (none, if listing fails).
Join ==
  /\ pool = "joining" /\ AllJoined
  /\ IF token
     THEN /\ pool' = "sweeping"
          /\ heap' = {}
          /\ \/ leftover' = enqueued \cap WithStatus("pending") /\ UNCHANGED faults
             \/ leftover' = {} /\ Fault
     ELSE pool' = "done" /\ UNCHANGED <<heap, leftover, faults>>
  /\ UNCHANGED <<table, token, gate, enq, enqueued, worker, completed, failed, report, started,
                 command>>

SweepOne(j) ==
  /\ pool = "sweeping" /\ j \in leftover
  /\ \/ cancel(j) /\ UNCHANGED faults
     \/ Fault /\ UNCHANGED table
  /\ leftover' = leftover \ {j}
  /\ UNCHANGED <<token, gate, enqueuer, worker, completed, failed, report, started, pool,
                 command>>

SweepEnds ==
  /\ pool = "sweeping" /\ leftover = {}
  /\ pool' = "done"
  /\ UNCHANGED <<table, token, gate, enqueuer, worker, completed, failed, report, started,
                 leftover, command, faults>>

-----------------------------------------------------------------------------
(* The surroundings: the ingest stage opens the gate, once; a signal cancels  *)
(* the token; a `voom jobs cancel` in another process reads a row of this run  *)
(* as live and, a statement later, ends it.                                   *)

FireGate ==
  /\ ~gate
  /\ gate' = TRUE
  /\ pc' = [w \in WorkerId |-> IF pc[w] = "waiting" THEN "loop" ELSE pc[w]]
  /\ UNCHANGED <<table, token, enqueuer, job, pre_failed, completed, failed, report, started,
                 main, faults>>

CancelToken ==
  /\ ~token
  /\ token' = TRUE
  /\ UNCHANGED <<table, gate, enqueuer, worker, completed, failed, report, started, main, faults>>

CommandReads(j) ==
  /\ command = NoJob
  /\ j \in enqueued /\ jobs[j].status \in Live
  /\ command' = j
  /\ UNCHANGED <<table, token, gate, enqueuer, worker, completed, failed, report, started, pool,
                 leftover, faults>>

CommandWrites ==
  /\ command # NoJob
  /\ update_status(command, "cancelled")
  /\ command' = NoJob
  /\ UNCHANGED <<token, gate, enqueuer, worker, completed, failed, report, started, pool,
                 leftover, faults>>

EnqueuerStep == (\E j \in JobId, p \in Priority : EnqueueItem(j, p))
                \/ EnqueueFails \/ EnqueuerSends \/ EnqueuerStops

WorkerStep(w) ==
  \/ WaitForGate(w) \/ ExitWhenCancelled(w)
  \/ (\E j \in JobId : Pop(w, j)) \/ PopEmpty(w) \/ CheckDone(w)
  \/ Claim(w) \/ ClaimNone(w) \/ ClaimFails(w)
  \/ GiveUp(w) \/ StartProcessor(w)
  \/ ProcessorOk(w) \/ CompleteFails(w) \/ ProcessorErr(w) \/ ProcessorPanics(w)
  \/ SendResult(w) \/ AfterJob(w)

MainStep == Join \/ (\E j \in JobId : SweepOne(j)) \/ SweepEnds

Next ==
  \/ EnqueuerStep
  \/ \E w \in WorkerId : WorkerStep(w)
  \/ Collect
  \/ MainStep
  \/ FireGate \/ CancelToken
  \/ (\E j \in JobId : CommandReads(j)) \/ CommandWrites

Spec == Init /\ [][Next]_vars

\* Every task is scheduled, the processor returns, the producer closes its
\* channel and the ingest stage reaches the point where it opens the gate.
Fairness ==
  /\ WF_vars(EnqueuerSends) /\ WF_vars(EnqueuerStops)
  /\ \A w \in WorkerId : WF_vars(WorkerStep(w))
  /\ WF_vars(Collect) /\ WF_vars(MainStep) /\ WF_vars(FireGate)

\* The gate opens only once every worker waits for it: what the 10 ms sleep
\* before notify_waiters in pipeline_streaming.rs is meant to achieve.
TimelyNext == Next /\ (gate' # gate => \A w \in WorkerId : pc[w] # "spawned")

TimelySpec == Init /\ [][TimelyNext]_vars /\ Fairness

-----------------------------------------------------------------------------
(* Properties.                                                               *)

\* A job of the stream is run at most once and reported at most once, however
\* workers, commands and failures interleave.
RunAndReportedOnce ==
  \A j \in JobId : started[j] <= 1 /\ results[j]["success"] + results[j]["failure"] <= 1

\* Rows an earlier run left pending are neither run nor swept: the heap, not
\* the table, says what this run owns.
StaleRowsUntouched ==
  \A j \in StaleJobs : jobs[j].status = "pending" /\ started[j] = 0

\* A reported success is on record as completed, unless a late `voom jobs
\* cancel` has overwritten it, and a recorded completion is never reported as
\* a failure.
ReportsMatchRows ==
  \A j \in JobId :
    /\ results[j]["success"] > 0 => jobs[j].status \in {"completed", "cancelled"}
    /\ results[j]["failure"] > 0 => jobs[j].status # "completed"

\* When process_stream returns and no storage call failed, no job of the run
\* is left pending or running: it ended, or the sweep cancelled it.
NothingLeftBehind ==
  pool = "done" /\ faults = 0 => \A j \in enqueued : is_terminal(j)

\* process_stream accounts for its jobs whatever workers, commands and failing
\* storage calls do in between: a job is run once and reported once, the rows of
\* an earlier run are left alone, and nothing of this run is left pending or
\* running when it returns.
EveryJobAccounted == RunAndReportedOnce /\ StaleRowsUntouched /\ NothingLeftBehind

\* Nothing stops the pool from returning: the bounded result channel cannot
\* block it, and cancellation, failures and panics only bring the end nearer.
Returns == <>(pool = "done")
=============================================================================
