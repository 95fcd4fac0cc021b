------------------------------ MODULE JobQueue ------------------------------
(***************************************************************************)
(* The job queue (plugins/job-manager/src/queue.rs) shared by pool workers   *)
(* and by `voom jobs` commands running in other processes                    *)
(* (crates/voom-cli/src/commands/jobs.rs).  Workers claim a job, hold it     *)
(* while they run it and record how it ended.  Commands read a row first     *)
(* and write afterwards, in a second statement: what they read may be stale  *)
(* by then.                                                                  *)
(***************************************************************************)
EXTENDS JobTable

CONSTANTS Client,     \* processes running `voom jobs cancel` or `voom jobs retry`
          NoJob,      \* no job in hand
          KeepLast    \* the retention policies' values of keep_last

ASSUME NoJobAssumption == NoJob \notin JobId

VARIABLES held,       \* held[w]: the job worker w has claimed and not yet reported
          client      \* client[c]: the command c runs, between its read and its write

vars == <<jobs, now, held, client>>

IdleClient == [op |-> "idle", job |-> NoJob, priority |-> 0]

ClientState == {IdleClient} \cup
  [op : {"cancel", "retry"}, job : JobId, priority : Priority \cup {0}]

TypeOK ==
  /\ JobTableTypeOK
  /\ held \in [WorkerId -> JobId \cup {NoJob}]
  /\ client \in [Client -> ClientState]

Init ==
  /\ JobTableInit
  /\ held = [w \in WorkerId |-> NoJob]
  /\ client = [c \in Client |-> IdleClient]

-----------------------------------------------------------------------------
(* The queue's writers.                                                      *)

enqueue(j, p) == create_job(j, p) /\ UNCHANGED <<held, client>>

claim(w, j) ==
  /\ held[w] = NoJob
  /\ claim_next_job(j, w)
  /\ held' = [held EXCEPT ![w] = j]
  /\ UNCHANGED client

claim_by_id(w, j) ==
  /\ held[w] = NoJob
  /\ claim_job_by_id(j, w)
  /\ held' = [held EXCEPT ![w] = j]
  /\ UNCHANGED client

Release(w) == held' = [held EXCEPT ![w] = NoJob]

complete(w) ==
  /\ held[w] # NoJob
  /\ update_status(held[w], "completed")
  /\ Release(w)
  /\ UNCHANGED client

fail(w) ==
  /\ held[w] # NoJob
  /\ update_status(held[w], "failed")
  /\ Release(w)
  /\ UNCHANGED client

-----------------------------------------------------------------------------
(* The commands.  A cancel whose job is missing or terminal, and a retry     *)
(* whose job has not failed, end with an error and change nothing.           *)

CancelRead(c, j) ==
  /\ client[c].op = "idle"
  /\ jobs[j].status \in Live
  /\ client' = [client EXCEPT ![c] = [op |-> "cancel", job |-> j, priority |-> 0]]
  /\ UNCHANGED <<jobs, now, held>>

CancelWrite(c) ==
  /\ client[c].op = "cancel"
  /\ update_status(client[c].job, "cancelled")
  /\ client' = [client EXCEPT ![c] = IdleClient]
  /\ UNCHANGED held

RetryRead(c, j) ==
  /\ client[c].op = "idle"
  /\ jobs[j].status = "failed"
  /\ client' = [client EXCEPT ![c] = [op |-> "retry", job |-> j,
                                     priority |-> jobs[j].priority]]
  /\ UNCHANGED <<jobs, now, held>>

\* Mutant: the retry resets the row it read instead of inserting another.
RetryWrite_InPlace(c, j) ==
  /\ client[c].op = "retry" /\ j = client[c].job
  /\ update_status(j, "pending")
  /\ client' = [client EXCEPT ![c] = IdleClient]
  /\ UNCHANGED held

\* The retry is a new row with the failed row's priority; the old row stays.
RetryWrite(c, j) ==
  /\ client[c].op = "retry"
  /\ create_job(j, client[c].priority)
  /\ client' = [client EXCEPT ![c] = IdleClient]
  /\ UNCHANGED held

\* `voom jobs clear [--status s]` refuses a status that is not terminal.
Clear(statuses) ==
  /\ statuses \subseteq Terminal
  /\ delete_jobs(statuses)
  /\ UNCHANGED <<held, client>>

ClearFilters == {{s} : s \in Status} \cup {Terminal}

\* Retention, after a CLI run or from `voom db prune`: some cutoff in the past.
Prune(cutoff, keep_last) ==
  /\ prune_old_jobs(cutoff, keep_last)
  /\ UNCHANGED <<held, client>>

Next ==
  \/ \E j \in JobId, p \in Priority : enqueue(j, p)
  \/ \E w \in WorkerId, j \in JobId : claim(w, j) \/ claim_by_id(w, j)
  \/ \E w \in WorkerId : complete(w) \/ fail(w)
  \/ \E c \in Client, j \in JobId : CancelRead(c, j) \/ RetryRead(c, j) \/ RetryWrite(c, j)
  \/ \E c \in Client : CancelWrite(c)
  \/ \E statuses \in ClearFilters : Clear(statuses)
  \/ \E cutoff \in 0..now, keep_last \in KeepLast : Prune(cutoff, keep_last)

Spec == Init /\ [][Next]_vars

-----------------------------------------------------------------------------
(* Properties.                                                               *)

\* No two workers hold the same job: the processor runs a file at most once
\* at a time, whatever claims, cancellations and deletions interleave.
SingleOwner ==
  \A v, w \in WorkerId : held[v] # NoJob /\ held[v] = held[w] => v = w

\* A running row is in the hands of exactly the worker its worker_id names.
\* (The converse fails: a job can be cancelled, or cleared, under its worker.)
RunningIsHeld ==
  \A j \in WithStatus("running") :
    jobs[j].worker_id \in WorkerId /\ held[jobs[j].worker_id] = j

\* A worker never holds a job that is still there for others to claim.
HeldIsStarted ==
  \A w \in WorkerId : held[w] # NoJob => jobs[held[w]].status \notin {"unused", "pending"}

\* The rows and the workers' hands fit together at every moment: no two workers
\* have one job, a running row names the worker that has it, and no job in hand
\* is there for others to claim.  (claim_next_job, claim_job_by_id and
\* update_job decide on the row alone, and know nothing of the hands.)
QueueInv == TypeOK /\ SingleOwner /\ RunningIsHeld /\ HeldIsStarted

\* How far a job has come, and the workers that claimed it and did not report.
StatusOf(j) == IF jobs[j].status = "deleted" THEN "removed" ELSE jobs[j].status
HoldersOf(j) == {w \in WorkerId : held[w] = j}

Lifecycle == INSTANCE JobLifecycle WITH
  Job <- JobId,
  Worker <- WorkerId,
  status <- [j \in JobId |-> StatusOf(j)],
  holders <- [j \in JobId |-> HoldersOf(j)]

\* The queue keeps what JobLifecycle promises: no write, however stale the read
\* behind it, runs a job a second time or gives it to a second worker, and
\* clearing and retention only ever remove jobs that ended.
RefinesLifecycle == Lifecycle!LifecycleSpec
=============================================================================
