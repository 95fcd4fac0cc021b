------------------------------ MODULE JobTable ------------------------------
(***************************************************************************)
(* The `jobs` table of the SQLite store and the statements JobStorage runs  *)
(* against it (plugins/sqlite-store/src/store/job_storage.rs).  Every        *)
(* operator below is one transaction: SQLite serialises them, so each is     *)
(* one atomic step of whichever module uses it.                              *)
(*                                                                           *)
(* A row keeps the columns the queue's behaviour depends on.  Payload,       *)
(* output, error text and progress are data nobody branches on.  Timestamps  *)
(* are ticks of `now`; a NULL timestamp is 0.                                *)
(***************************************************************************)
EXTENDS FiniteSets, Integers, TLAPS

CONSTANTS JobId,      \* UUIDs a run may draw
          WorkerId,   \* worker names
          Priority,   \* job priorities; the lower number is served first
          NoWorker    \* the NULL worker_id

ASSUME NoWorkerAssumption == NoWorker \notin WorkerId
ASSUME PriorityAssumption == Priority \subseteq Int

VARIABLES jobs,       \* jobs[j]: the row with id j
          now         \* the timestamp of the next stamped write

Terminal == {"completed", "failed", "cancelled"}
Live == {"pending", "running"}

\* "unused": the UUID has not been drawn yet; "deleted": the row is gone.
Status == Live \cup Terminal \cup {"unused", "deleted"}

JobRow == [status : Status, priority : Priority \cup {0},
           worker_id : WorkerId \cup {NoWorker},
           created_at : Nat, completed_at : Nat]

JobTableTypeOK == jobs \in [JobId -> JobRow] /\ now \in Nat

Present(j) == jobs[j].status \in Live \cup Terminal
is_terminal(j) == jobs[j].status \in Terminal
WithStatus(s) == {j \in JobId : jobs[j].status = s}
TerminalJobs == {j \in JobId : is_terminal(j)}

Row(s, p, t) == [status |-> s, priority |-> p, worker_id |-> NoWorker,
                 created_at |-> t, completed_at |-> 0]

UnusedRow == Row("unused", 0, 0)
DeletedRow == Row("deleted", 0, 0)

JobTableInit == jobs = [j \in JobId |-> UnusedRow] /\ now = 1

-----------------------------------------------------------------------------
create_job(j, p) ==
  /\ jobs[j].status = "unused"
  /\ jobs' = [jobs EXCEPT ![j] = Row("pending", p, now)]
  /\ now' = now + 1

\* UPDATE ... WHERE id = ?: no condition on the current status, and no
\* effect (and no error) when the row is gone.
update_status(j, s) ==
  IF Present(j)
  THEN /\ jobs' = [jobs EXCEPT ![j].status = s, ![j].completed_at = now]
       /\ now' = now + 1
  ELSE UNCHANGED <<jobs, now>>

\* ORDER BY priority ASC, created_at ASC
ServedBefore(i, j) ==
  \/ jobs[i].priority < jobs[j].priority
  \/ jobs[i].priority = jobs[j].priority /\ jobs[i].created_at <= jobs[j].created_at

NextPending(j) ==
  /\ jobs[j].status = "pending"
  /\ \A i \in WithStatus("pending") : ServedBefore(j, i)

SetRunning(j, w) ==
  /\ jobs' = [jobs EXCEPT ![j].status = "running", ![j].worker_id = w]
  /\ UNCHANGED now

claim_next_job(j, w) == NextPending(j) /\ SetRunning(j, w)

\* Mutant: the update is not conditional on the row still being pending.
claim_job_by_id_Unchecked(j, w) == jobs[j].status \in Live /\ SetRunning(j, w)

claim_job_by_id(j, w) == jobs[j].status = "pending" /\ SetRunning(j, w)

DeleteRows(S) ==
  /\ jobs' = [j \in JobId |-> IF j \in S THEN DeletedRow ELSE jobs[j]]
  /\ UNCHANGED now

delete_jobs(statuses) == DeleteRows({j \in JobId : jobs[j].status \in statuses})

\* COALESCE(completed_at, created_at)
EffectiveAt(j) == IF jobs[j].completed_at # 0 THEN jobs[j].completed_at
                  ELSE jobs[j].created_at

\* ROW_NUMBER() OVER (ORDER BY effective_at DESC) among the terminal rows
Rank(j) == Cardinality({i \in TerminalJobs : EffectiveAt(i) >= EffectiveAt(j)})

\* A retention policy has an optional age cutoff (0: none) and an optional
\* number of most recent rows to keep (-1: none).
Prunable(cutoff, keep_last) ==
  {j \in TerminalJobs : \/ cutoff # 0 /\ EffectiveAt(j) < cutoff
                        \/ keep_last >= 0 /\ Rank(j) > keep_last}

prune_old_jobs(cutoff, keep_last) == DeleteRows(Prunable(cutoff, keep_last))

-----------------------------------------------------------------------------
(* What each statement does to the rows, for every table.                   *)

\* The rows the statements write are well typed.
LEMMA RowType ==
  ASSUME NEW s \in Status, NEW p \in Priority \cup {0}, NEW t \in Nat
  PROVE  Row(s, p, t) \in JobRow /\ Row(s, p, t).status = s
BY DEF Row, JobRow

\* Inserting a row touches one unused id and makes it pending.
LEMMA CreateEffect ==
  ASSUME JobTableTypeOK, NEW j \in JobId, NEW p \in Priority \cup {0}, create_job(j, p)
  PROVE  /\ JobTableTypeOK'
         /\ jobs[j].status = "unused" /\ jobs'[j].status = "pending"
         /\ \A i \in JobId : i # j => jobs'[i] = jobs[i]
<1>1. Row("pending", p, now) \in JobRow /\ Row("pending", p, now).status = "pending"
  BY RowType DEF JobTableTypeOK, Status, Live
<1> QED
  BY <1>1 DEF create_job, JobTableTypeOK

\* Recording an end touches one row, which leaves it ended or absent.
LEMMA UpdateEffect ==
  ASSUME JobTableTypeOK, NEW j \in JobId, NEW s \in Terminal, update_status(j, s)
  PROVE  /\ JobTableTypeOK'
         /\ jobs'[j].status = (IF Present(j) THEN s ELSE jobs[j].status)
         /\ \A i \in JobId : i # j => jobs'[i] = jobs[i]
BY DEF update_status, JobTableTypeOK, JobRow, Status, Live, Terminal

\* A claim turns one pending row into a running one that names the worker.
LEMMA ClaimEffect ==
  ASSUME JobTableTypeOK, NEW j \in JobId, NEW w \in WorkerId, SetRunning(j, w)
  PROVE  /\ JobTableTypeOK'
         /\ jobs'[j].status = "running" /\ jobs'[j].worker_id = w
         /\ \A i \in JobId : i # j => jobs'[i] = jobs[i]
BY DEF SetRunning, JobTableTypeOK, JobRow, Status, Live, Terminal

\* Removing rows leaves the others as they were.
LEMMA DeleteEffect ==
  ASSUME JobTableTypeOK, NEW S, DeleteRows(S)
  PROVE  /\ JobTableTypeOK'
         /\ \A i \in JobId : jobs'[i] = IF i \in S THEN DeletedRow ELSE jobs[i]
<1>1. DeletedRow \in JobRow
  BY RowType DEF DeletedRow, Status
<1> QED
  BY <1>1 DEF DeleteRows, JobTableTypeOK
=============================================================================
