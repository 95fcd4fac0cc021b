---------------------------- MODULE WorkerBatch -----------------------------
(***************************************************************************)
(* process_batch of the worker pool (plugins/job-manager/src/worker.rs):   *)
(* enqueue a fixed list of items, run each in a task of its own under a    *)
(* semaphore, collect the results; and the permits per hardware device     *)
(* (PlanExecutionLimiter) that a processor takes before it runs a plan, as *)
(* process/pipeline.rs does.  The jobs table is JobTable's; another process *)
(* works on the same table.                                                *)
(***************************************************************************)
EXTENDS JobTable, Sequences

CONSTANTS
  BatchItems,    \* number of items handed to process_batch
  Permits,       \* effective_workers
  Resource,      \* devices with a configured limit
  Limit,         \* [Resource -> Nat]: 0 is no limit
  PlanDevice     \* [JobId -> Resource \cup {NoDevice}]: the device of a job's plan

NoDevice == "none"

ASSUME BatchAssumption ==
  /\ BatchItems \in Nat /\ Permits \in Nat \ {0} /\ Priority # {}
  /\ NoDevice \notin Resource /\ Limit \in [Resource -> Nat]
  /\ PlanDevice \in [JobId -> Resource \cup {NoDevice}]

VARIABLES
  stage,      \* "enqueue", "spawn", "sweep", "collect" or "returned"
  left,       \* items not enqueued yet
  ids,        \* job_ids not spawned yet
  task,       \* task[j]: where the task of job j is
  device,     \* device[j]: the permit task j holds
  stop,       \* the pool's cancellation token
  on_error,   \* JobErrorStrategy
  outcomes,   \* outcomes[j]: results sent for job j, in order
  refused,    \* items that never became a job
  swept,      \* how many of the unstarted jobs cancel_unstarted_jobs has been at
  uncancelled \* the unstarted jobs it could not cancel

sweep == <<swept, uncancelled>>
batchVars == <<stage, left, ids, task, device, stop, on_error, outcomes, refused, sweep>>

TaskBusy == {"start", "claimed", "queued", "working"}
Busy == {j \in JobId : task[j] \in TaskBusy}

\* from_limits_with_default: a limit of 0 is dropped.
Limited(r) == r \in Resource /\ Limit[r] > 0

BatchInit ==
  /\ JobTableInit
  /\ stage = "enqueue" /\ left = BatchItems /\ ids = <<>> /\ refused = 0
  /\ task = [j \in JobId |-> "none"] /\ device = [j \in JobId |-> NoDevice]
  /\ stop = FALSE /\ on_error \in {"Fail", "Continue"}
  /\ outcomes = [j \in JobId |-> <<>>] /\ swept = 0 /\ uncancelled = {}

Enqueue(j) ==
  /\ stage = "enqueue" /\ left > 0
  /\ create_job(j, CHOOSE p \in Priority : TRUE)
  /\ ids' = Append(ids, j) /\ left' = left - 1
  /\ UNCHANGED <<stage, task, device, stop, on_error, outcomes, refused, sweep>>

\* The payload does not serialise or the store refuses the job.
EnqueueRefused ==
  /\ stage = "enqueue" /\ left > 0
  /\ left' = left - 1 /\ refused' = refused + 1
  /\ UNCHANGED <<jobs, now, stage, ids, task, device, stop, on_error, outcomes, sweep>>

StartSpawning ==
  /\ stage = "enqueue" /\ left = 0 /\ stage' = "spawn"
  /\ UNCHANGED <<jobs, now, left, ids, task, device, stop, on_error, outcomes, refused, sweep>>

\* A permit of the semaphore, then the task.
SpawnTask ==
  /\ stage = "spawn" /\ ids # <<>> /\ Cardinality(Busy) < Permits
  /\ task' = [task EXCEPT ![Head(ids)] = "start"] /\ ids' = Tail(ids)
  /\ UNCHANGED <<jobs, now, stage, left, device, stop, on_error, outcomes, refused, sweep>>

\* The token wins the select, or the list is done: the jobs that have no task
\* are handed to cancel_unstarted_jobs.
StopSpawning ==
  /\ stage = "spawn" /\ (ids = <<>> \/ stop)
  /\ stage' = "sweep"
  /\ UNCHANGED <<jobs, now, left, ids, task, device, stop, on_error, outcomes, refused, sweep>>

\* cancel_unstarted_jobs, one job: a live one is cancelled, one that has ended
\* is refused by queue.cancel, and an error of the store is only logged.
CancelUnstarted ==
  /\ stage = "sweep" /\ swept < Len(ids)
  /\ LET j == ids[swept + 1]
     IN  \/ jobs[j].status \in Live /\ update_status(j, "cancelled") /\ UNCHANGED uncancelled
         \/ jobs[j].status \notin Live /\ UNCHANGED <<jobs, now, uncancelled>>
         \/ uncancelled' = uncancelled \cup {j} /\ UNCHANGED <<jobs, now>>
  /\ swept' = swept + 1
  /\ UNCHANGED <<stage, left, ids, task, device, stop, on_error, outcomes, refused>>

StartCollecting ==
  /\ stage = "sweep" /\ swept = Len(ids) /\ stage' = "collect"
  /\ UNCHANGED <<jobs, now, left, ids, task, device, stop, on_error, outcomes, refused, sweep>>

Finish(j, result) ==
  /\ outcomes' = [outcomes EXCEPT ![j] = Append(@, result)]
  /\ task' = [task EXCEPT ![j] = "ended"]

\* run_one_job: a task that starts after the cancellation reports it and leaves
\* its job as it is.
TaskCancelledEarly(j) ==
  /\ task[j] = "start" /\ stop /\ Finish(j, "failure")
  /\ UNCHANGED <<jobs, now, stage, left, ids, device, stop, on_error, refused, sweep>>

TaskClaims(j, w) ==
  /\ task[j] = "start" /\ ~stop
  /\ claim_job_by_id(j, w)
  /\ task' = [task EXCEPT ![j] = "claimed"]
  /\ UNCHANGED <<stage, left, ids, device, stop, on_error, outcomes, refused, sweep>>

\* Another process has the job, or the claim returns an error.
TaskLosesClaim(j) ==
  /\ task[j] = "start" /\ ~stop
  /\ \/ jobs[j].status # "pending" /\ Finish(j, "already_claimed")
     \/ Finish(j, "failure")
  /\ UNCHANGED <<jobs, now, stage, left, ids, device, stop, on_error, refused, sweep>>

\* run_claimed_job: cancelled between claim and start; a failure either way
\* when the row cannot be written.
TaskCancelledLate(j) ==
  /\ task[j] = "claimed" /\ stop
  /\ (update_status(j, "cancelled") \/ UNCHANGED <<jobs, now>>) /\ Finish(j, "failure")
  /\ UNCHANGED <<stage, left, ids, device, stop, on_error, refused, sweep>>

\* The job is handed to the processor, which evaluates a plan for it.
StartProcessor(j) ==
  /\ task[j] = "claimed" /\ ~stop
  /\ task' = [task EXCEPT ![j] = "queued"]
  /\ UNCHANGED <<jobs, now, stage, left, ids, device, stop, on_error, outcomes, refused, sweep>>

Holders(r) == {i \in JobId : device[i] = r}

\* acquire_for_plan: no device or no limit needs no permit, else one of Limit; a
\* cancelled processor stops waiting and returns.
AcquireForPlan(j) ==
  /\ task[j] = "queued"
  /\ \/ (stop \/ ~Limited(PlanDevice[j])) /\ UNCHANGED device
     \/ /\ Limited(PlanDevice[j])
        /\ ~stop /\ Cardinality(Holders(PlanDevice[j])) < Limit[PlanDevice[j]]
        /\ device' = [device EXCEPT ![j] = PlanDevice[j]]
  /\ task' = [task EXCEPT ![j] = "working"]
  /\ UNCHANGED <<jobs, now, stage, left, ids, stop, on_error, outcomes, refused, sweep>>

\* Mutant: an error path returns without the result.
TaskSucceeds_Unreported(j) ==
  /\ task[j] = "working"
  /\ \/ update_status(j, "completed") /\ Finish(j, "success")
     \/ task' = [task EXCEPT ![j] = "ended"] /\ UNCHANGED <<jobs, now, outcomes>>
  /\ device' = [device EXCEPT ![j] = NoDevice]
  /\ UNCHANGED <<stage, left, ids, stop, on_error, refused, sweep>>

\* The processor succeeds; the result is a failure when the row cannot be
\* written.  The permit goes with the processor's future.
TaskSucceeds(j) ==
  /\ task[j] = "working"
  /\ \/ update_status(j, "completed") /\ Finish(j, "success")
     \/ UNCHANGED <<jobs, now>> /\ Finish(j, "failure")
  /\ device' = [device EXCEPT ![j] = NoDevice]
  /\ UNCHANGED <<stage, left, ids, stop, on_error, refused, sweep>>

\* The processor fails; with JobErrorStrategy::Fail the batch is cancelled.
TaskFails(j) ==
  /\ task[j] = "working"
  /\ (update_status(j, "failed") \/ UNCHANGED <<jobs, now>>)
  /\ Finish(j, "failure") /\ stop' = (stop \/ on_error = "Fail")
  /\ device' = [device EXCEPT ![j] = NoDevice]
  /\ UNCHANGED <<stage, left, ids, on_error, refused, sweep>>

\* The processor panics: the task ends with no result and its row stays
\* running; the join error is only logged.
TaskPanics(j) ==
  /\ task[j] \in {"queued", "working"}
  /\ task' = [task EXCEPT ![j] = "panicked"]
  /\ device' = [device EXCEPT ![j] = NoDevice]
  /\ UNCHANGED <<jobs, now, stage, left, ids, stop, on_error, outcomes, refused, sweep>>

\* Every sender is gone: process_batch returns.
Collected ==
  /\ stage = "collect" /\ Busy = {} /\ stage' = "returned"
  /\ UNCHANGED <<jobs, now, left, ids, task, device, stop, on_error, outcomes, refused, sweep>>

CancelBatch ==
  /\ ~stop /\ stage # "returned" /\ stop' = TRUE
  /\ UNCHANGED <<jobs, now, stage, left, ids, task, device, on_error, outcomes, refused, sweep>>

\* Another process claims a pending job of the batch.
OthersClaim(j, w) ==
  /\ stage \in {"spawn", "sweep"} /\ claim_job_by_id(j, w)
  /\ UNCHANGED batchVars

TaskStep(j) ==
  \/ TaskCancelledEarly(j) \/ (\E w \in WorkerId : TaskClaims(j, w)) \/ TaskLosesClaim(j)
  \/ TaskCancelledLate(j) \/ StartProcessor(j) \/ AcquireForPlan(j) \/ TaskSucceeds(j) \/ TaskFails(j)
  \/ TaskPanics(j)

PoolStep ==
  \/ (\E j \in JobId : Enqueue(j)) \/ EnqueueRefused \/ StartSpawning \/ SpawnTask
  \/ StopSpawning \/ CancelUnstarted \/ StartCollecting \/ Collected

BatchNext ==
  \/ PoolStep \/ (\E j \in JobId : TaskStep(j)) \/ CancelBatch
  \/ \E j \in JobId, w \in WorkerId : OthersClaim(j, w)

BatchSpec == BatchInit /\ [][BatchNext]_<<jobs, now, batchVars>>

-----------------------------------------------------------------------------
(* Properties.                                                             *)

\* When process_batch returns, every item is accounted for exactly once: it was
\* refused, its task sent one result or panicked and sent none, or its job never
\* started and then waits for nobody, unless the store would not cancel it.
EveryItemSettled ==
  stage = "returned" =>
    /\ \A j \in JobId : Len(outcomes[j]) = IF task[j] = "ended" THEN 1 ELSE 0
    /\ refused + Cardinality({j \in JobId : task[j] \in {"ended", "panicked"}}) + Len(ids) = BatchItems
    /\ \A i \in DOMAIN ids : jobs[ids[i]].status = "pending" => ids[i] \in uncancelled

\* No more tasks than workers, and no more plans on a device than its limit.
PoolWithinLimits ==
  /\ Cardinality(Busy) <= Permits
  /\ \A r \in Resource : Limited(r) => Cardinality(Holders(r)) <= Limit[r]

\* process_batch settles every item once, whatever fails or is cancelled, and
\* never runs more tasks, or more plans of one device, than its limits allow.
BatchSettles == EveryItemSettled /\ PoolWithinLimits

\* process_batch returns, although tasks wait for devices held by other tasks.
BatchReturns == (stage = "spawn") ~> (stage = "returned")
=============================================================================
