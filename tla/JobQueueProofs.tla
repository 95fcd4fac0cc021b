--------------------------- MODULE JobQueueProofs ---------------------------
(***************************************************************************)
(* What holds of the job queue for any number of jobs, workers, commands and *)
(* priorities.  QueueInv is inductive as it stands: a worker that holds a    *)
(* job keeps it out of reach of a claim (HeldIsStarted), which is why two    *)
(* workers never hold the same one (SingleOwner).  From it follows that      *)
(* every step of the queue is a step of JobLifecycle or none at all.         *)
(***************************************************************************)
EXTENDS JobQueue, TLAPS

USE NoWorkerAssumption, NoJobAssumption

-----------------------------------------------------------------------------
\* An empty table and idle workers satisfy the inductive invariant.
LEMMA InitInv == Init => QueueInv
<1> SUFFICES ASSUME Init PROVE QueueInv
  OBVIOUS
<1> USE DEF Init, JobTableInit, IdleClient
<1>1. UnusedRow \in JobRow /\ UnusedRow.status = "unused"
  BY RowType, Zenon DEF UnusedRow, Status
<1>2. TypeOK
  BY <1>1 DEF TypeOK, JobTableTypeOK, ClientState
<1>3. SingleOwner /\ HeldIsStarted
  BY Zenon DEF SingleOwner, HeldIsStarted
<1>4. RunningIsHeld
  BY <1>1, Zenon DEF RunningIsHeld, WithStatus
<1> QED
  BY <1>2, <1>3, <1>4, Zenon DEF QueueInv

\* A worker takes a pending job: nobody can be holding it.
LEMMA TakeKeepsInv ==
  ASSUME QueueInv, NEW w \in WorkerId, NEW j \in JobId,
         held[w] = NoJob, jobs[j].status = "pending", SetRunning(j, w),
         held' = [held EXCEPT ![w] = j], UNCHANGED client
  PROVE  QueueInv'
<1> USE DEF QueueInv
<1>1. /\ JobTableTypeOK'
      /\ jobs'[j].status = "running" /\ jobs'[j].worker_id = w
      /\ \A i \in JobId : i # j => jobs'[i] = jobs[i]
  BY ClaimEffect DEF TypeOK
<1>2. TypeOK'
  BY <1>1 DEF TypeOK
<1>3. \A v \in WorkerId : held[v] # j
  BY Zenon DEF HeldIsStarted
<1>4. \A v \in WorkerId : held'[v] = IF v = w THEN j ELSE held[v]
  BY DEF TypeOK
<1>5. SingleOwner'
  BY <1>3, <1>4 DEF SingleOwner
<1>6. HeldIsStarted'
  BY <1>1, <1>3, <1>4 DEF HeldIsStarted, TypeOK
<1>7. RunningIsHeld'
  <2> SUFFICES ASSUME NEW i \in JobId, jobs'[i].status = "running"
               PROVE  jobs'[i].worker_id \in WorkerId /\ held'[jobs'[i].worker_id] = i
    BY Zenon DEF RunningIsHeld, WithStatus
  <2>1. CASE i = j
    BY <2>1, <1>1, <1>4, Zenon
  <2>2. CASE i # j
    BY <2>2, <1>1, <1>4 DEF RunningIsHeld, WithStatus
  <2> QED
    BY <2>1, <2>2, Zenon
<1> QED
  BY <1>2, <1>5, <1>6, <1>7, Zenon

\* A worker reports the end of its job and lets go of it.
LEMMA ReportKeepsInv ==
  ASSUME QueueInv, NEW w \in WorkerId, NEW s \in Terminal,
         held[w] # NoJob, update_status(held[w], s), Release(w), UNCHANGED client
  PROVE  QueueInv'
<1> USE DEF QueueInv
<1> DEFINE j == held[w]
<1>1. j \in JobId
  BY DEF TypeOK
<1>2. /\ JobTableTypeOK'
      /\ jobs'[j].status = (IF Present(j) THEN s ELSE jobs[j].status)
      /\ \A i \in JobId : i # j => jobs'[i] = jobs[i]
  BY <1>1, UpdateEffect DEF TypeOK
<1>3. TypeOK'
  BY <1>2 DEF TypeOK, Release
<1>4. \A v \in WorkerId : held'[v] = IF v = w THEN NoJob ELSE held[v]
  BY DEF TypeOK, Release
<1>5. SingleOwner'
  BY <1>4, Zenon DEF SingleOwner
<1>6. HeldIsStarted'
  BY <1>1, <1>2, <1>4 DEF HeldIsStarted, SingleOwner, TypeOK
<1>7. jobs'[j].status # "running"
  BY <1>1, <1>2, Zenon DEF Present, Terminal, Live
<1>8. RunningIsHeld'
  <2> SUFFICES ASSUME NEW i \in JobId, jobs'[i].status = "running"
               PROVE  jobs'[i].worker_id \in WorkerId /\ held'[jobs'[i].worker_id] = i
    BY Zenon DEF RunningIsHeld, WithStatus
  <2>1. i # j /\ jobs'[i] = jobs[i]
    BY <1>2, <1>7, Zenon
  <2>2. jobs[i].worker_id \in WorkerId /\ held[jobs[i].worker_id] = i
    BY <2>1, Zenon DEF RunningIsHeld, WithStatus
  <2> QED
    BY <2>1, <2>2, <1>4, Zenon
<1> QED
  BY <1>3, <1>5, <1>6, <1>8, Zenon

\* A write that leaves the workers alone, starts no row and makes none
\* running or pending again preserves the correspondence.
QuietWrite ==
  /\ UNCHANGED held
  /\ \A i \in JobId : \/ jobs'[i] = jobs[i]
                      \/ jobs'[i].status \in Terminal \cup {"deleted"}
                      \/ jobs[i].status = "unused" /\ jobs'[i].status = "pending"

LEMMA QuietWriteKeepsInv ==
  ASSUME QueueInv, TypeOK', QuietWrite PROVE QueueInv'
<1> USE DEF QueueInv, QuietWrite
<1>1. SingleOwner'
  BY Zenon DEF SingleOwner
<1>2. HeldIsStarted'
  BY DEF HeldIsStarted, TypeOK, Terminal
<1>3. RunningIsHeld'
  BY Zenon DEF RunningIsHeld, WithStatus, Terminal
<1> QED
  BY <1>1, <1>2, <1>3, Zenon

\* Every step of the queue preserves the inductive invariant.
LEMMA NextInv == QueueInv /\ [Next]_vars => QueueInv'
<1> SUFFICES ASSUME QueueInv, [Next]_vars PROVE QueueInv'
  OBVIOUS
<1>t. TypeOK /\ JobTableTypeOK
  BY DEF QueueInv, TypeOK
<1>1. CASE \E j \in JobId, p \in Priority : enqueue(j, p)
  <2> PICK j \in JobId, p \in Priority : enqueue(j, p)
    BY <1>1, Zenon
  <2>1. /\ JobTableTypeOK'
        /\ jobs[j].status = "unused" /\ jobs'[j].status = "pending"
        /\ \A i \in JobId : i # j => jobs'[i] = jobs[i]
    BY <1>t, CreateEffect, Zenon DEF enqueue
  <2>2. TypeOK'
    BY <1>t, <2>1 DEF TypeOK, enqueue
  <2>3. QuietWrite
    BY <2>1, Zenon DEF enqueue, QuietWrite
  <2> QED
    BY <2>2, <2>3, QuietWriteKeepsInv, Zenon
<1>2. CASE \E w \in WorkerId, j \in JobId : claim(w, j) \/ claim_by_id(w, j)
  BY <1>2, TakeKeepsInv, Zenon
     DEF claim, claim_by_id, claim_next_job, claim_job_by_id, NextPending
<1>3. CASE \E w \in WorkerId : complete(w) \/ fail(w)
  BY <1>3, ReportKeepsInv, Zenon DEF complete, fail, Terminal
<1>4. CASE \E c \in Client, j \in JobId : CancelRead(c, j) \/ RetryRead(c, j)
  <2> PICK c \in Client, j \in JobId : CancelRead(c, j) \/ RetryRead(c, j)
    BY <1>4, Zenon
  <2>1. jobs[j].priority \in Priority \cup {0}
    BY <1>t, Zenon DEF JobTableTypeOK, JobRow
  <2>2. TypeOK'
    BY <1>t, <2>1 DEF TypeOK, JobTableTypeOK, CancelRead, RetryRead, ClientState, IdleClient
  <2>3. QuietWrite
    BY Zenon DEF CancelRead, RetryRead, QuietWrite
  <2> QED
    BY <2>2, <2>3, QuietWriteKeepsInv, Zenon
<1>5. CASE \E c \in Client, j \in JobId : RetryWrite(c, j)
  <2> PICK c \in Client, j \in JobId : RetryWrite(c, j)
    BY <1>5, Zenon
  <2>1. client[c].priority \in Priority \cup {0}
    BY <1>t DEF TypeOK, ClientState, IdleClient
  <2>2. /\ JobTableTypeOK'
        /\ jobs[j].status = "unused" /\ jobs'[j].status = "pending"
        /\ \A i \in JobId : i # j => jobs'[i] = jobs[i]
    BY <1>t, <2>1, CreateEffect, Zenon DEF RetryWrite
  <2>3. TypeOK'
    BY <1>t, <2>2 DEF TypeOK, RetryWrite, ClientState
  <2>4. QuietWrite
    BY <2>2, Zenon DEF RetryWrite, QuietWrite
  <2> QED
    BY <2>3, <2>4, QuietWriteKeepsInv, Zenon
<1>6. CASE \E c \in Client : CancelWrite(c)
  <2> PICK c \in Client : CancelWrite(c)
    BY <1>6, Zenon
  <2> DEFINE j == client[c].job
  <2>1. j \in JobId
    BY <1>t DEF TypeOK, ClientState, IdleClient, CancelWrite
  <2>2. /\ JobTableTypeOK'
        /\ jobs'[j].status = (IF Present(j) THEN "cancelled" ELSE jobs[j].status)
        /\ \A i \in JobId : i # j => jobs'[i] = jobs[i]
    BY <1>t, <2>1, UpdateEffect, Zenon DEF CancelWrite, Terminal
  <2>3. TypeOK'
    BY <1>t, <2>2 DEF TypeOK, CancelWrite, ClientState
  <2>4. ~Present(j) => jobs'[j] = jobs[j]
    BY Zenon DEF CancelWrite, update_status
  <2>5. QuietWrite
    BY <2>2, <2>4, Zenon DEF CancelWrite, QuietWrite, Terminal
  <2> QED
    BY <2>3, <2>5, QuietWriteKeepsInv, Zenon
<1>7. ASSUME NEW S, DeleteRows(S), UNCHANGED <<held, client>>
      PROVE  QueueInv'
  <2>1. /\ JobTableTypeOK'
        /\ \A i \in JobId : jobs'[i] = IF i \in S THEN DeletedRow ELSE jobs[i]
    BY <1>t, <1>7, DeleteEffect, Zenon
  <2>2. TypeOK'
    BY <1>t, <1>7, <2>1 DEF TypeOK
  <2>3. DeletedRow.status = "deleted"
    BY RowType, Zenon DEF DeletedRow, Status
  <2>4. QuietWrite
    BY <1>7, <2>1, <2>3, Zenon DEF QuietWrite
  <2> QED
    BY <2>2, <2>4, QuietWriteKeepsInv, Zenon
<1>8. CASE \E statuses \in ClearFilters : Clear(statuses)
  BY <1>7, <1>8, Zenon DEF Clear, delete_jobs
<1>9. CASE \E cutoff \in 0..now, keep_last \in KeepLast : Prune(cutoff, keep_last)
  BY <1>7, <1>9, Zenon DEF Prune, prune_old_jobs
<1>10. CASE UNCHANGED vars
  <2>1. TypeOK' /\ QuietWrite
    BY <1>t, <1>10 DEF vars, TypeOK, JobTableTypeOK, QuietWrite
  <2> QED
    BY <2>1, QuietWriteKeepsInv, Zenon
<1> QED
  BY <1>1, <1>2, <1>3, <1>4, <1>5, <1>6, <1>8, <1>9, <1>10, Zenon DEF Next

\* Rows and hands fit together in every reachable state: JobQueue::claim and
\* claim_by_id never hand one job to two workers, and a running row names the
\* worker that has it, however claims, reports, cancellations, retries, clears
\* and prunes interleave.
THEOREM QueueInvariant == Spec => []QueueInv
BY InitInv, NextInv, PTL DEF Spec

-----------------------------------------------------------------------------
\* An empty table and idle workers are the start of the life cycle.
LEMMA InitRefines == Init => Lifecycle!LifecycleInit
<1> SUFFICES ASSUME Init PROVE Lifecycle!LifecycleInit
  OBVIOUS
<1>1. \A j \in JobId : StatusOf(j) = "unused"
  BY Zenon DEF Init, JobTableInit, UnusedRow, Row, StatusOf
<1>2. \A j \in JobId : HoldersOf(j) = {}
  BY Zenon DEF Init, HoldersOf
<1> QED
  BY <1>1, <1>2, Zenon DEF Lifecycle!LifecycleInit

\* What the step of the life cycle does, in terms of the rows and the hands.
SameHands == \A j \in JobId : HoldersOf(j)' = HoldersOf(j)
OneRow(j, s) ==
  /\ StatusOf(j)' = s
  /\ \A i \in JobId : i # j => StatusOf(i)' = StatusOf(i)

\* Inserting a row submits the job.
LEMMA SubmitRefines ==
  ASSUME NEW j \in JobId, SameHands, StatusOf(j) = "unused", OneRow(j, "pending")
  PROVE  Lifecycle!Submit(j)
BY Zenon DEF Lifecycle!Submit, SameHands, OneRow

\* A claim starts a job that nobody has, for a worker that has none.
LEMMA StartRefines ==
  ASSUME QueueInv, NEW j \in JobId, NEW w \in WorkerId, StatusOf(j) = "pending",
         OneRow(j, "running"), held[w] = NoJob, held' = [held EXCEPT ![w] = j]
  PROVE  Lifecycle!Start(j, w)
<1>1. HoldersOf(j) = {}
  BY Zenon DEF QueueInv, HeldIsStarted, HoldersOf, StatusOf
<1>2. \A i \in JobId : w \notin HoldersOf(i)
  BY Zenon DEF HoldersOf
<1>3. \A v \in WorkerId : held'[v] = IF v = w THEN j ELSE held[v]
  BY DEF QueueInv, TypeOK
<1>4. HoldersOf(j)' = {w}
  BY <1>1, <1>3, Zenon DEF HoldersOf
<1>5. \A i \in JobId : i # j => HoldersOf(i)' = HoldersOf(i)
  BY <1>2, <1>3, Zenon DEF HoldersOf
<1> QED
  BY <1>1, <1>2, <1>4, <1>5, Zenon DEF Lifecycle!Start, OneRow

\* Recording an end gives the job that end, unless its row is gone.
LEMMA UpdateRefines ==
  ASSUME JobTableTypeOK, NEW j \in JobId, NEW s \in Terminal, update_status(j, s)
  PROVE  IF Present(j) THEN OneRow(j, s) ELSE \A i \in JobId : StatusOf(i)' = StatusOf(i)
<1>1. CASE Present(j)
  BY <1>1, UpdateEffect, Zenon DEF OneRow, StatusOf, Terminal
<1>2. CASE ~Present(j)
  BY <1>2, Zenon DEF update_status, StatusOf
<1> QED
  BY <1>1, <1>2, Zenon

\* A worker's report ends its job and empties its hand.
LEMMA ReportRefines ==
  ASSUME QueueInv, NEW w \in WorkerId, NEW s \in Terminal, NEW j \in JobId,
         held[w] = j, update_status(j, s), Release(w)
  PROVE  Lifecycle!Report(j, w)
<1>1. JobTableTypeOK
  BY DEF QueueInv, TypeOK
<1>2. HoldersOf(j) = {w}
  BY Zenon DEF QueueInv, SingleOwner, HoldersOf
<1>3. \A v \in WorkerId : held'[v] = IF v = w THEN NoJob ELSE held[v]
  BY DEF QueueInv, TypeOK, Release
<1>4. \A i \in JobId : HoldersOf(i)' = IF i = j THEN {} ELSE HoldersOf(i)
  <2> SUFFICES ASSUME NEW i \in JobId PROVE HoldersOf(i)' = IF i = j THEN {} ELSE HoldersOf(i)
    OBVIOUS
  <2>1. CASE i = j
    BY <2>1, <1>2, <1>3, Zenon DEF HoldersOf
  <2>2. CASE i # j
    BY <2>2, <1>1, <1>3, Zenon DEF HoldersOf
  <2> QED
    BY <2>1, <2>2, Zenon
<1>5. CASE Present(j)
  <2>1. OneRow(j, s)
    BY <1>1, <1>5, UpdateRefines, Zenon
  <2>2. StatusOf(j) \in Live \cup Terminal
    BY <1>5, Zenon DEF Present, StatusOf, Live, Terminal
  <2>3. Lifecycle!EndAs(j, s)
    BY <1>1, <2>1, <2>2, Zenon DEF Lifecycle!EndAs, Lifecycle!Ended, OneRow, Live, Terminal
  <2> QED
    BY <1>1, <1>2, <1>4, <2>3, Zenon DEF Lifecycle!Report, Lifecycle!Ended, Terminal
<1>6. CASE ~Present(j)
  <2>1. \A i \in JobId : StatusOf(i)' = StatusOf(i)
    BY <1>1, <1>6, UpdateRefines, Zenon
  <2>2. jobs[j].status \in Status
    BY <1>1, Zenon DEF JobTableTypeOK, JobRow
  <2>3. StatusOf(j) = "removed"
    BY <1>6, <2>2, Zenon DEF QueueInv, HeldIsStarted, StatusOf, Present, Status
  <2> QED
    BY <1>1, <1>2, <1>4, <2>1, <2>3, Zenon DEF Lifecycle!Report
<1> QED
  BY <1>5, <1>6, Zenon

\* `voom jobs cancel` ends the job as cancelled or finds its row gone.
LEMMA CancelRefines ==
  ASSUME QueueInv, NEW j \in JobId, update_status(j, "cancelled"), SameHands
  PROVE  Lifecycle!Cancel(j) \/ UNCHANGED Lifecycle!lifecycleVars
<1>1. JobTableTypeOK /\ "cancelled" \in Terminal
  BY DEF QueueInv, TypeOK, Terminal
<1>2. CASE Present(j)
  <2>1. OneRow(j, "cancelled")
    BY <1>1, <1>2, UpdateRefines, Zenon
  <2>2. StatusOf(j) \in Live \cup Terminal
    BY <1>2, Zenon DEF Present, StatusOf, Live, Terminal
  <2>3. Lifecycle!EndAs(j, "cancelled")
    BY <2>1, <2>2, Zenon DEF Lifecycle!EndAs, Lifecycle!Ended, OneRow, Live, Terminal
  <2> QED
    BY <2>3, Zenon DEF Lifecycle!Cancel, SameHands
<1>3. CASE ~Present(j)
  BY <1>1, <1>3, UpdateRefines, Zenon DEF Lifecycle!lifecycleVars, SameHands
<1> QED
  BY <1>2, <1>3, Zenon

\* Clearing and retention remove jobs that ended.
LEMMA RemoveRefines ==
  ASSUME JobTableTypeOK, NEW S \in SUBSET TerminalJobs, DeleteRows(S), SameHands
  PROVE  Lifecycle!Remove(S)
<1>1. \A i \in JobId : jobs'[i] = IF i \in S THEN DeletedRow ELSE jobs[i]
  BY DeleteEffect, Zenon
<1>2. DeletedRow.status = "deleted"
  BY RowType, Zenon DEF DeletedRow, Status
<1>3. \A i \in JobId : StatusOf(i)' = IF i \in S THEN "removed" ELSE StatusOf(i)
  BY <1>1, <1>2, Zenon DEF StatusOf
<1>4. \A i \in S : i \in JobId /\ StatusOf(i) \in Terminal
  BY Zenon DEF TerminalJobs, is_terminal, StatusOf, Terminal
<1> QED
  BY <1>3, <1>4, Zenon DEF Lifecycle!Remove, Lifecycle!Ended, SameHands, Terminal

\* Every step of the queue is a step of the life cycle or leaves it alone.
LEMMA NextRefines ==
  ASSUME QueueInv, [Next]_vars
  PROVE  [Lifecycle!LifecycleNext]_(Lifecycle!lifecycleVars)
<1>t. TypeOK /\ JobTableTypeOK
  BY DEF QueueInv, TypeOK
<1>h. (UNCHANGED held) => SameHands
  BY Zenon DEF SameHands, HoldersOf
<1>1. CASE \E j \in JobId, p \in Priority : enqueue(j, p)
  <2> PICK j \in JobId, p \in Priority : enqueue(j, p)
    BY <1>1, Zenon
  <2>1. /\ jobs[j].status = "unused" /\ jobs'[j].status = "pending"
        /\ \A i \in JobId : i # j => jobs'[i] = jobs[i]
    BY <1>t, CreateEffect, Zenon DEF enqueue
  <2>2. Lifecycle!Submit(j)
    BY <1>h, <2>1, SubmitRefines, Zenon DEF enqueue, OneRow, StatusOf
  <2> QED
    BY <2>2, Zenon DEF Lifecycle!LifecycleNext
<1>2. CASE \E w \in WorkerId, j \in JobId : claim(w, j) \/ claim_by_id(w, j)
  <2> PICK w \in WorkerId, j \in JobId : claim(w, j) \/ claim_by_id(w, j)
    BY <1>2, Zenon
  <2>1. /\ jobs[j].status = "pending" /\ SetRunning(j, w)
        /\ held[w] = NoJob /\ held' = [held EXCEPT ![w] = j]
    BY Zenon DEF claim, claim_by_id, claim_next_job, claim_job_by_id, NextPending
  <2>2. StatusOf(j) = "pending" /\ OneRow(j, "running")
    BY <1>t, <2>1, ClaimEffect, Zenon DEF OneRow, StatusOf
  <2>3. Lifecycle!Start(j, w)
    BY <2>1, <2>2, StartRefines, Zenon
  <2> QED
    BY <2>3, Zenon DEF Lifecycle!LifecycleNext
<1>3. CASE \E w \in WorkerId : complete(w) \/ fail(w)
  <2> PICK w \in WorkerId : complete(w) \/ fail(w)
    BY <1>3, Zenon
  <2>1. PICK j \in JobId : held[w] = j
    BY <1>t DEF TypeOK, complete, fail
  <2>2. Lifecycle!Report(j, w)
    BY <2>1, ReportRefines, Zenon DEF complete, fail, Terminal
  <2> QED
    BY <2>2, Zenon DEF Lifecycle!LifecycleNext
<1>4. CASE \E c \in Client, j \in JobId : CancelRead(c, j) \/ RetryRead(c, j)
  BY <1>4, Zenon DEF CancelRead, RetryRead, Lifecycle!lifecycleVars, StatusOf, HoldersOf
<1>5. CASE \E c \in Client, j \in JobId : RetryWrite(c, j)
  <2> PICK c \in Client, j \in JobId : RetryWrite(c, j)
    BY <1>5, Zenon
  <2>1. client[c].priority \in Priority \cup {0}
    BY <1>t DEF TypeOK, ClientState, IdleClient
  <2>2. /\ jobs[j].status = "unused" /\ jobs'[j].status = "pending"
        /\ \A i \in JobId : i # j => jobs'[i] = jobs[i]
    BY <1>t, <2>1, CreateEffect, Zenon DEF RetryWrite
  <2>3. Lifecycle!Submit(j)
    BY <1>h, <2>2, SubmitRefines, Zenon DEF RetryWrite, OneRow, StatusOf
  <2> QED
    BY <2>3, Zenon DEF Lifecycle!LifecycleNext
<1>6. CASE \E c \in Client : CancelWrite(c)
  <2> PICK c \in Client : CancelWrite(c)
    BY <1>6, Zenon
  <2>1. PICK j \in JobId : client[c].job = j
    BY <1>t DEF TypeOK, ClientState, IdleClient, CancelWrite
  <2>2. Lifecycle!Cancel(j) \/ UNCHANGED Lifecycle!lifecycleVars
    BY <1>h, <2>1, CancelRefines, Zenon DEF CancelWrite
  <2> QED
    BY <2>2, Zenon DEF Lifecycle!LifecycleNext
<1>7. ASSUME NEW S \in SUBSET TerminalJobs, DeleteRows(S), UNCHANGED held
      PROVE  Lifecycle!LifecycleNext
  <2>1. Lifecycle!Remove(S)
    BY <1>t, <1>h, <1>7, RemoveRefines, Zenon
  <2> QED
    BY <2>1, Zenon DEF Lifecycle!LifecycleNext, TerminalJobs
<1>8. CASE \E statuses \in ClearFilters : Clear(statuses)
  <2> PICK statuses \in ClearFilters : Clear(statuses)
    BY <1>8, Zenon
  <2>1. {j \in JobId : jobs[j].status \in statuses} \in SUBSET TerminalJobs
    BY Zenon DEF Clear, TerminalJobs, is_terminal
  <2> QED
    BY <1>7, <2>1, Zenon DEF Clear, delete_jobs
<1>9. CASE \E cutoff \in 0..now, keep_last \in KeepLast : Prune(cutoff, keep_last)
  <2> PICK cutoff \in 0..now, keep_last \in KeepLast : Prune(cutoff, keep_last)
    BY <1>9, Zenon
  <2>1. Prunable(cutoff, keep_last) \in SUBSET TerminalJobs
    BY Zenon DEF Prunable
  <2> QED
    BY <1>7, <2>1, Zenon DEF Prune, prune_old_jobs
<1>10. CASE UNCHANGED vars
  BY <1>10, Zenon DEF vars, Lifecycle!lifecycleVars, StatusOf, HoldersOf
<1> QED
  BY <1>1, <1>2, <1>3, <1>4, <1>5, <1>6, <1>8, <1>9, <1>10, Zenon DEF Next

\* The queue implements the life cycle: no interleaving of claims, reports and
\* stale commands runs a job twice or lets two workers have it, and `voom jobs
\* clear` and retention never remove a job that is still to run.
THEOREM QueueImplementsLifecycle == Spec => RefinesLifecycle
<1>1. QueueInv /\ [Next]_vars => [Lifecycle!LifecycleNext]_(Lifecycle!lifecycleVars)
  BY NextRefines, Zenon
<1> QED
  BY <1>1, InitRefines, QueueInvariant, PTL DEF Spec, RefinesLifecycle, Lifecycle!LifecycleSpec
=============================================================================
