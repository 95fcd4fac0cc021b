------------------------- MODULE WorkerStreamProofs -------------------------
(***************************************************************************)
(* What process_stream guarantees for every set of jobs and workers, every  *)
(* error strategy, channel capacity and number of failing storage calls.    *)
(***************************************************************************)
EXTENDS WorkerStream, TLAPS

Free == {"spawned", "waiting", "loop", "check_done"}
Sending == {"send_success", "send_failure", "send_cancel"}
Holding == {"claiming", "claimed", "running", "after"} \cup Sending

NoResult(j) == results[j]["success"] = 0 /\ results[j]["failure"] = 0

\* A worker in the middle of its loop has a job it popped; nobody else has it and
\* it is in the heap no more.
HandsApart ==
  /\ heap \subseteq enqueued
  /\ \A w \in WorkerId : /\ pc[w] \in Free => job[w] = NoJob
                         /\ pc[w] \in Holding => job[w] # NoJob
                         /\ job[w] # NoJob => job[w] \in enqueued \ heap
  /\ \A v, w \in WorkerId : v # w /\ job[v] # NoJob => job[v] # job[w]

\* What the run and the commands act on are rows of this run.
OwnRows ==
  /\ \A j \in enqueued : j \notin StaleJobs /\ Present(j)
  /\ \A j \in StaleJobs : jobs[j].status = "pending"
  /\ leftover \subseteq enqueued
  /\ command # NoJob => command \in enqueued

\* A job is untouched until a worker starts it, and without result until the
\* worker that has it sends one.
StartedLate ==
  /\ \A j \in JobId : j \notin enqueued \/ j \in heap => started[j] = 0 /\ NoResult(j)
  /\ \A w \in WorkerId : pc[w] \in {"claiming", "claimed"} => started[job[w]] = 0
  /\ \A w \in WorkerId : pc[w] \in {"claiming", "claimed", "running"} \cup Sending => NoResult(job[w])

\* The row of a job in hand is where its worker left it, or cancelled.
RowsInStep ==
  \A w \in WorkerId :
    /\ pc[w] \in {"claimed", "running"} => jobs[job[w]].status \in {"running", "cancelled"}
    /\ pc[w] = "send_success" => jobs[job[w]].status \in {"completed", "cancelled"}
    /\ pc[w] \in {"send_failure", "send_cancel"} => jobs[job[w]].status # "completed"

\* As long as no storage call failed, a live job is in somebody's hands.
LiveIsHeld ==
  faults = 0 =>
    \A j \in enqueued :
      /\ jobs[j].status = "pending" =>
           j \in heap \/ j \in leftover \/ \E w \in WorkerId : pc[w] = "claiming" /\ job[w] = j
      /\ jobs[j].status = "running" =>
           \E w \in WorkerId : pc[w] \in {"claimed", "running"} /\ job[w] = j

\* Workers leave for a reason, and process_stream goes on when all have left.
LeftForAReason ==
  /\ faults = 0 =>
       \A w \in WorkerId : pc[w] = "exited" =>
         token \/ (enq = "done" /\ heap = {}) \/ (OnError = "fail" /\ failed > 0)
  /\ faults = 0 /\ failed > 0 /\ OnError = "fail" =>
       token \/ \E w \in WorkerId : pc[w] = "send_cancel"
  /\ pool # "joining" => enq = "done" /\ \A w \in WorkerId : pc[w] = "exited"
  /\ pool # "joining" /\ faults = 0 => heap = {}
  /\ pool # "sweeping" => leftover = {}

StreamInv ==
  /\ TypeOK /\ HandsApart /\ OwnRows /\ StartedLate /\ RowsInStep /\ LiveIsHeld
  /\ LeftForAReason /\ RunAndReportedOnce /\ StaleRowsUntouched /\ ReportsMatchRows

-----------------------------------------------------------------------------
(* What the statements do to the rows, and a report to the counts.          *)

\* queue.cancel ends a live row and leaves every other as it was.
LEMMA CancelEffect ==
  ASSUME JobTableTypeOK, NEW j \in JobId, cancel(j)
  PROVE  /\ JobTableTypeOK'
         /\ jobs'[j].status = IF jobs[j].status \in Live THEN "cancelled" ELSE jobs[j].status
         /\ \A i \in JobId : i # j => jobs'[i] = jobs[i]
<1>1. CASE jobs[j].status \in Live
  <2>1. update_status(j, "cancelled") /\ "cancelled" \in Terminal /\ Present(j)
    BY <1>1, Zenon DEF cancel, Terminal, Present
  <2> QED BY <1>1, <2>1, UpdateEffect, Zenon
<1>2. CASE jobs[j].status \notin Live
  BY <1>2, Zenon DEF cancel, JobTableTypeOK
<1> QED BY <1>1, <1>2, Zenon

\* Sending counts one result, of one job and one outcome.
LEMMA SendEffect ==
  ASSUME TypeOK, NEW w \in WorkerId, job[w] \in JobId, SendResult(w)
  PROVE  LET outcome == IF pc[w] = "send_success" THEN "success" ELSE "failure"
         IN  /\ results' \in [JobId -> [Outcome -> Nat]]
             /\ results'[job[w]][outcome] = results[job[w]][outcome] + 1
             /\ \A o \in Outcome : o # outcome => results'[job[w]][o] = results[job[w]][o]
             /\ \A j \in JobId : j # job[w] => results'[j] = results[j]
BY DEF SendResult, TypeOK, Outcome

-----------------------------------------------------------------------------
(* The invariant holds at the start and is kept by every step.              *)

LEMMA StreamInvInit == Init => StreamInv
<1> SUFFICES ASSUME Init PROVE StreamInv
  OBVIOUS
<1>1. /\ Row("pending", 0, 0) \in JobRow /\ UnusedRow \in JobRow
      /\ Row("pending", 0, 0).status = "pending" /\ UnusedRow.status = "unused"
  BY RowType, Zenon DEF UnusedRow, Status, Live
<1>2. TypeOK
  BY <1>1, BoundsAssumption, StaleAssumption, Zenon DEF Init, TypeOK, JobTableTypeOK, WorkerPc, Outcome
<1>3. \A j \in JobId : started[j] = 0 /\ NoResult(j)
  BY DEF Init, NoResult, Outcome
<1>4. \A j \in StaleJobs : jobs[j].status = "pending"
  BY <1>1, StaleAssumption, Zenon DEF Init
<1>5. HandsApart /\ OwnRows
  BY <1>4, Zenon DEF Init, HandsApart, OwnRows, Holding, Sending
<1>6. StartedLate
  BY <1>3, Zenon DEF Init, StartedLate, Sending
<1>7. RowsInStep /\ LiveIsHeld /\ LeftForAReason
  BY DEF Init, RowsInStep, LiveIsHeld, LeftForAReason
<1>8. RunAndReportedOnce /\ StaleRowsUntouched /\ ReportsMatchRows
  BY <1>3, <1>4, StaleAssumption DEF RunAndReportedOnce, StaleRowsUntouched, ReportsMatchRows, NoResult
<1> QED BY <1>2, <1>5, <1>6, <1>7, <1>8, Zenon DEF StreamInv

\* A worker between two jobs that moves on, and leaves only for a reason.
LEMMA MoveKeepsInv ==
  ASSUME StreamInv, NEW w \in WorkerId, NEW label \in Free \cup {"exited"},
         pc[w] \in Free, Move(w, label),
         label = "exited" => token \/ (enq = "done" /\ heap = {})
  PROVE  StreamInv'
<1> USE DEF Move, Goto, table, enqueuer, report, main
<1>1. TypeOK'
  BY DEF StreamInv, TypeOK, JobTableTypeOK, Free, WorkerPc
<1>2. HandsApart'
  BY DEF StreamInv, TypeOK, HandsApart, Free, Holding, Sending
<1>3. OwnRows'
  BY Zenon DEF StreamInv, OwnRows, Present
<1>4. StartedLate'
  BY DEF StreamInv, TypeOK, StartedLate, NoResult, Free, Sending
<1>5. RowsInStep'
  BY DEF StreamInv, TypeOK, RowsInStep, Free
<1>6. LiveIsHeld'
  BY DEF StreamInv, TypeOK, LiveIsHeld, Free
<1>7. LeftForAReason'
  BY DEF StreamInv, TypeOK, LeftForAReason, Free
<1>8. RunAndReportedOnce' /\ StaleRowsUntouched' /\ ReportsMatchRows'
  BY DEF StreamInv, RunAndReportedOnce, StaleRowsUntouched, ReportsMatchRows
<1> QED BY <1>1, <1>2, <1>3, <1>4, <1>5, <1>6, <1>7, <1>8, Zenon DEF StreamInv

\* A new job is a row nobody has touched.
LEMMA EnqueueKeepsInv ==
  ASSUME StreamInv, NEW j \in JobId, NEW p \in Priority, EnqueueItem(j, p)
  PROVE  StreamInv'
<1> /\ TypeOK /\ JobTableTypeOK /\ HandsApart /\ OwnRows /\ StartedLate /\ RowsInStep /\ LiveIsHeld
    /\ LeftForAReason /\ RunAndReportedOnce /\ StaleRowsUntouched /\ ReportsMatchRows
  BY DEF StreamInv, TypeOK
<1> /\ enqueued \subseteq JobId /\ heap \subseteq JobId /\ StaleJobs \subseteq JobId
    /\ job \in [WorkerId -> JobId \cup {NoJob}] /\ faults \in Nat /\ failed \in Nat
    /\ results \in [JobId -> [Outcome -> Nat]] /\ started \in [JobId -> Nat]
  BY StaleAssumption DEF TypeOK
<1>e. /\ JobTableTypeOK'
      /\ jobs[j].status = "unused"
      /\ jobs'[j].status = "pending"
      /\ \A i \in JobId : i # j => jobs'[i] = jobs[i]
      /\ heap' = heap \cup {j}
      /\ (enq = "recv" /\ ~token)
      /\ enqueued' = enqueued \cup {j}
      /\ UNCHANGED <<token, gate, enq, pc, job, pre_failed, completed, failed, inflight,
                      results, started, pool, leftover, command, faults>>
  BY CreateEffect, Zenon DEF EnqueueItem, table, enqueuer, worker, report, main
<1>1. /\ j \notin enqueued /\ j \notin StaleJobs /\ pool = "joining"
      /\ \A w \in WorkerId : job[w] # j
  <2>1. j \notin enqueued /\ j \notin StaleJobs
    BY <1>e, Zenon DEF OwnRows, Present, Live, Terminal
  <2>2. pool = "joining"
    BY DEF LeftForAReason, EnqueueItem
  <2>3. \A w \in WorkerId : job[w] # j
    BY <2>1, NoJobAssumption, Zenon DEF HandsApart
  <2> QED BY <2>1, <2>2, <2>3, Zenon
<1>10. TypeOK'
  BY <1>e, <1>1 DEF TypeOK, JobTableTypeOK
<1>11. HandsApart'
  BY <1>e, <1>1, Zenon DEF HandsApart, Free, Holding, Sending
<1>12. OwnRows'
  BY <1>e, <1>1, Zenon DEF OwnRows, Present, Live
<1>13. StartedLate'
  BY <1>e, <1>1 DEF StartedLate, NoResult, HandsApart, Holding, Sending
<1>14. RowsInStep'
  BY <1>e, <1>1, Zenon DEF RowsInStep, HandsApart, Holding, Sending
<1>15. LiveIsHeld'
  BY <1>e, <1>1 DEF LiveIsHeld
<1>16. LeftForAReason'
  BY <1>e, <1>1 DEF LeftForAReason
<1>17. RunAndReportedOnce'
  BY <1>e DEF RunAndReportedOnce
<1>18. StaleRowsUntouched'
  BY <1>e, <1>1, Zenon DEF StaleRowsUntouched
<1>19. ReportsMatchRows'
  BY <1>e, <1>1 DEF ReportsMatchRows, StartedLate, NoResult, Outcome
<1> QED BY <1>10, <1>11, <1>12, <1>13, <1>14, <1>15, <1>16, <1>17, <1>18, <1>19, Zenon DEF StreamInv

\* The enqueuer reports an item that could not be stored, or stops.
LEMMA EnqueuerKeepsInv ==
  ASSUME StreamInv, EnqueueFails \/ EnqueuerSends \/ EnqueuerStops
  PROVE  StreamInv'
<1> /\ TypeOK /\ JobTableTypeOK /\ HandsApart /\ OwnRows /\ StartedLate /\ RowsInStep /\ LiveIsHeld
    /\ LeftForAReason /\ RunAndReportedOnce /\ StaleRowsUntouched /\ ReportsMatchRows
  BY DEF StreamInv, TypeOK
<1> /\ enqueued \subseteq JobId /\ heap \subseteq JobId /\ StaleJobs \subseteq JobId
    /\ job \in [WorkerId -> JobId \cup {NoJob}] /\ faults \in Nat /\ failed \in Nat
    /\ results \in [JobId -> [Outcome -> Nat]] /\ started \in [JobId -> Nat]
  BY StaleAssumption DEF TypeOK
<1>e. /\ enq' \in {"recv", "send", "done"}
      /\ enq # "done"
      /\ failed' \in Nat
      /\ inflight' \in Nat
      /\ faults' \in Nat
      /\ (faults' = 0 => faults = 0 /\ failed' = failed)
      /\ UNCHANGED <<jobs, now, token, gate, heap, enqueued, pc, job, pre_failed, completed,
                      results, started, pool, leftover, command>>
  <2>1. CASE EnqueueFails
    BY <2>1 DEF EnqueueFails, Fault, TypeOK, table, worker, report, main
  <2>2. CASE EnqueuerSends
    BY <2>2 DEF EnqueuerSends, TypeOK, table, worker, report, main
  <2>3. CASE EnqueuerStops
    BY <2>3 DEF EnqueuerStops, TypeOK, table, worker, report, main
  <2> QED BY <2>1, <2>2, <2>3, Zenon
<1>10. TypeOK'
  BY <1>e DEF TypeOK, JobTableTypeOK
<1>11. HandsApart'
  BY <1>e, Zenon DEF HandsApart
<1>12. OwnRows'
  BY <1>e, Zenon DEF OwnRows, Present
<1>13. StartedLate'
  BY <1>e DEF StartedLate, NoResult
<1>14. RowsInStep'
  BY <1>e, Zenon DEF RowsInStep
<1>15. LiveIsHeld'
  BY <1>e DEF LiveIsHeld
<1>16. LeftForAReason'
  BY <1>e DEF LeftForAReason
<1>17. RunAndReportedOnce'
  BY <1>e DEF RunAndReportedOnce
<1>18. StaleRowsUntouched'
  BY <1>e, Zenon DEF StaleRowsUntouched
<1>19. ReportsMatchRows'
  BY <1>e DEF ReportsMatchRows
<1> QED BY <1>10, <1>11, <1>12, <1>13, <1>14, <1>15, <1>16, <1>17, <1>18, <1>19, Zenon DEF StreamInv

\* A popped job is in the hands of one worker.
LEMMA PopKeepsInv ==
  ASSUME StreamInv, NEW w \in WorkerId, NEW j \in JobId, Pop(w, j)
  PROVE  StreamInv'
<1> /\ TypeOK /\ JobTableTypeOK /\ HandsApart /\ OwnRows /\ StartedLate /\ RowsInStep /\ LiveIsHeld
    /\ LeftForAReason /\ RunAndReportedOnce /\ StaleRowsUntouched /\ ReportsMatchRows
  BY DEF StreamInv, TypeOK
<1> /\ enqueued \subseteq JobId /\ heap \subseteq JobId /\ StaleJobs \subseteq JobId
    /\ job \in [WorkerId -> JobId \cup {NoJob}] /\ faults \in Nat /\ failed \in Nat
    /\ results \in [JobId -> [Outcome -> Nat]] /\ started \in [JobId -> Nat]
  BY StaleAssumption DEF TypeOK
<1>e. /\ j \in heap
      /\ heap' = heap \ {j}
      /\ pc[w] = "loop"
      /\ pc' \in [WorkerId -> WorkerPc]
      /\ pc'[w] = "claiming"
      /\ \A v \in WorkerId : v # w => pc'[v] = pc[v]
      /\ job' \in [WorkerId -> JobId \cup {NoJob}]
      /\ job'[w] = j
      /\ \A v \in WorkerId : v # w => job'[v] = job[v]
      /\ UNCHANGED <<jobs, now, token, gate, enq, enqueued, pre_failed, completed, failed,
                      inflight, results, started, pool, leftover, command, faults>>
  BY DEF Pop, Goto, TypeOK, WorkerPc, table, enqueuer, worker, report, main
<1>1. /\ j \in enqueued /\ j # NoJob /\ pool = "joining"
      /\ \A v \in WorkerId : job[v] # j
  BY <1>e, NoJobAssumption DEF HandsApart, LeftForAReason
<1>10. TypeOK'
  BY <1>e, <1>1 DEF TypeOK, JobTableTypeOK
<1>11. HandsApart'
  BY <1>e, <1>1 DEF HandsApart, Free, Holding, Sending
<1>12. OwnRows'
  BY <1>e, Zenon DEF OwnRows, Present
<1>13. StartedLate'
  <2>1. \A i \in JobId : i \notin enqueued' \/ i \in heap' => started'[i] = 0 /\ NoResult(i)'
    BY <1>e, <1>1 DEF StartedLate, NoResult
  <2>2. ASSUME NEW v \in WorkerId
        PROVE  /\ pc'[v] \in {"claiming", "claimed"} => started'[job'[v]] = 0
               /\ pc'[v] \in {"claiming", "claimed", "running"} \cup Sending => NoResult(job[v])'
    <3>1. CASE v = w
      BY <3>1, <1>e, <1>1 DEF StartedLate, NoResult, HandsApart, Holding, Sending
    <3>2. CASE v # w
      BY <3>2, <1>e, <1>1 DEF StartedLate, NoResult, HandsApart, Holding, Sending
    <3> QED BY <3>1, <3>2, Zenon
  <2> QED BY <2>1, <2>2, Zenon DEF StartedLate
<1>14. RowsInStep'
  <2> SUFFICES ASSUME NEW v \in WorkerId
               PROVE  /\ pc'[v] \in {"claimed", "running"} => jobs'[job'[v]].status \in {"running", "cancelled"}
                      /\ pc'[v] = "send_success" => jobs'[job'[v]].status \in {"completed", "cancelled"}
                      /\ pc'[v] \in {"send_failure", "send_cancel"} => jobs'[job'[v]].status # "completed"
    BY Zenon DEF RowsInStep
  <2>1. CASE v = w
    BY <2>1, <1>e, <1>1, Zenon DEF RowsInStep, HandsApart, Holding, Sending
  <2>2. CASE v # w
    BY <2>2, <1>e, <1>1, Zenon DEF RowsInStep, HandsApart, Holding, Sending
  <2> QED BY <2>1, <2>2, Zenon
<1>15. LiveIsHeld'
  <2> SUFFICES ASSUME faults' = 0, NEW i \in enqueued'
               PROVE  /\ jobs'[i].status = "pending" =>
                           \/ i \in heap' \/ i \in leftover'
                           \/ \E v \in WorkerId : pc'[v] = "claiming" /\ job'[v] = i
                      /\ jobs'[i].status = "running" =>
                           \E v \in WorkerId : pc'[v] \in {"claimed", "running"} /\ job'[v] = i
    BY Zenon DEF LiveIsHeld
  <2>1. \A v \in WorkerId : v # w => pc'[v] = pc[v] /\ job'[v] = job[v]
    BY <1>e, Zenon
  <2>2. CASE i = j
    BY <2>2, <1>e, <1>1 DEF LiveIsHeld
  <2>3. CASE i # j
    <3>1. i \in enqueued /\ jobs'[i].status = jobs[i].status /\ faults = 0
      BY <1>e, Zenon
    <3>2. i \in heap => i \in heap'
      BY <1>e, <2>3, Zenon
    <3>3. \A v \in WorkerId : pc[v] \in {"claiming", "claimed", "running"} => v # w
      BY <1>e, Zenon
    <3>4. CASE jobs[i].status = "pending"
      <4>1. CASE i \in heap \/ i \in leftover
        BY <1>e, <3>1, <3>2, <3>4, <4>1, Zenon
      <4>2. CASE \E v \in WorkerId : pc[v] = "claiming" /\ job[v] = i
        BY <2>1, <3>1, <3>3, <3>4, <4>2, Zenon
      <4> QED BY <3>1, <3>4, <4>1, <4>2, Zenon DEF LiveIsHeld
    <3>5. CASE jobs[i].status = "running"
      BY <2>1, <3>1, <3>3, <3>5 DEF LiveIsHeld
    <3> QED BY <3>1, <3>4, <3>5, Zenon
  <2> QED BY <2>2, <2>3, Zenon
<1>16. LeftForAReason'
  BY <1>e, <1>1, Zenon DEF LeftForAReason
<1>17. RunAndReportedOnce'
  BY <1>e DEF RunAndReportedOnce
<1>18. StaleRowsUntouched'
  BY <1>e, Zenon DEF StaleRowsUntouched
<1>19. ReportsMatchRows'
  BY <1>e DEF ReportsMatchRows
<1> QED BY <1>10, <1>11, <1>12, <1>13, <1>14, <1>15, <1>16, <1>17, <1>18, <1>19, Zenon DEF StreamInv

\* A claim makes the row of the job in hand a running one.
LEMMA ClaimKeepsInv ==
  ASSUME StreamInv, NEW w \in WorkerId, Claim(w)
  PROVE  StreamInv'
<1> /\ TypeOK /\ JobTableTypeOK /\ HandsApart /\ OwnRows /\ StartedLate /\ RowsInStep /\ LiveIsHeld
    /\ LeftForAReason /\ RunAndReportedOnce /\ StaleRowsUntouched /\ ReportsMatchRows
  BY DEF StreamInv, TypeOK
<1> /\ enqueued \subseteq JobId /\ heap \subseteq JobId /\ StaleJobs \subseteq JobId
    /\ job \in [WorkerId -> JobId \cup {NoJob}] /\ faults \in Nat /\ failed \in Nat
    /\ results \in [JobId -> [Outcome -> Nat]] /\ started \in [JobId -> Nat]
  BY StaleAssumption DEF TypeOK
<1>1. /\ job[w] \in enqueued /\ job[w] \in JobId /\ pool = "joining" /\ job[w] \notin StaleJobs
      /\ \A v \in WorkerId : v # w => job[v] # job[w]
  BY NoJobAssumption DEF Claim, TypeOK, HandsApart, Holding, LeftForAReason, OwnRows
<1>e. /\ JobTableTypeOK'
      /\ jobs[job[w]].status = "pending"
      /\ jobs'[job[w]].status = "running"
      /\ \A i \in JobId : i # job[w] => jobs'[i] = jobs[i]
      /\ pre_failed' \in [WorkerId -> Nat]
      /\ pc[w] = "claiming"
      /\ pc' \in [WorkerId -> WorkerPc]
      /\ pc'[w] = "claimed"
      /\ \A v \in WorkerId : v # w => pc'[v] = pc[v]
      /\ UNCHANGED <<token, gate, enq, heap, enqueued, job, completed, failed, inflight,
                      results, started, pool, leftover, command, faults>>
  <2>1. claim_job_by_id(job[w], w)
    BY Zenon DEF Claim
  <2>2. /\ JobTableTypeOK' /\ jobs[job[w]].status = "pending" /\ jobs'[job[w]].status = "running"
        /\ \A i \in JobId : i # job[w] => jobs'[i] = jobs[i]
    BY <1>1, <2>1, ClaimEffect, Zenon DEF claim_job_by_id
  <2> QED BY <2>2 DEF Claim, Goto, TypeOK, WorkerPc, enqueuer, report, main
<1>10. TypeOK'
  BY <1>e, <1>1 DEF TypeOK, JobTableTypeOK
<1>11. HandsApart'
  BY <1>e, <1>1, Zenon DEF HandsApart, Free, Holding, Sending
<1>12. OwnRows'
  BY <1>e, <1>1, Zenon DEF OwnRows, Present, Live
<1>13. StartedLate'
  <2>1. \A i \in JobId : i \notin enqueued' \/ i \in heap' => started'[i] = 0 /\ NoResult(i)'
    BY <1>e, <1>1 DEF StartedLate, NoResult
  <2>2. ASSUME NEW v \in WorkerId
        PROVE  /\ pc'[v] \in {"claiming", "claimed"} => started'[job'[v]] = 0
               /\ pc'[v] \in {"claiming", "claimed", "running"} \cup Sending => NoResult(job[v])'
    <3>1. CASE v = w
      BY <3>1, <1>e, <1>1 DEF StartedLate, NoResult, HandsApart, Holding, Sending
    <3>2. CASE v # w
      BY <3>2, <1>e, <1>1 DEF StartedLate, NoResult, HandsApart, Holding, Sending
    <3> QED BY <3>1, <3>2, Zenon
  <2> QED BY <2>1, <2>2, Zenon DEF StartedLate
<1>14. RowsInStep'
  <2> SUFFICES ASSUME NEW v \in WorkerId
               PROVE  /\ pc'[v] \in {"claimed", "running"} => jobs'[job'[v]].status \in {"running", "cancelled"}
                      /\ pc'[v] = "send_success" => jobs'[job'[v]].status \in {"completed", "cancelled"}
                      /\ pc'[v] \in {"send_failure", "send_cancel"} => jobs'[job'[v]].status # "completed"
    BY Zenon DEF RowsInStep
  <2>1. CASE v = w
    BY <2>1, <1>e, <1>1, Zenon DEF RowsInStep, HandsApart, Holding, Sending
  <2>2. CASE v # w
    BY <2>2, <1>e, <1>1, Zenon DEF RowsInStep, HandsApart, Holding, Sending
  <2> QED BY <2>1, <2>2, Zenon
<1>15. LiveIsHeld'
  <2> SUFFICES ASSUME faults' = 0, NEW i \in enqueued'
               PROVE  /\ jobs'[i].status = "pending" =>
                           \/ i \in heap' \/ i \in leftover'
                           \/ \E v \in WorkerId : pc'[v] = "claiming" /\ job'[v] = i
                      /\ jobs'[i].status = "running" =>
                           \E v \in WorkerId : pc'[v] \in {"claimed", "running"} /\ job'[v] = i
    BY Zenon DEF LiveIsHeld
  <2>1. \A v \in WorkerId : v # w => pc'[v] = pc[v] /\ job'[v] = job[v]
    BY <1>e, Zenon
  <2>2. CASE i = job[w]
    BY <2>2, <1>e, <1>1, Zenon DEF LiveIsHeld
  <2>3. CASE i # job[w]
    BY <2>1, <2>3, <1>e, <1>1 DEF LiveIsHeld
  <2> QED BY <2>2, <2>3, Zenon
<1>16. LeftForAReason'
  BY <1>e, <1>1 DEF LeftForAReason
<1>17. RunAndReportedOnce'
  BY <1>e DEF RunAndReportedOnce
<1>18. StaleRowsUntouched'
  BY <1>e, <1>1, Zenon DEF StaleRowsUntouched
<1>19. ReportsMatchRows'
  BY <1>e, <1>1 DEF ReportsMatchRows, StartedLate, NoResult, Outcome
<1> QED BY <1>10, <1>11, <1>12, <1>13, <1>14, <1>15, <1>16, <1>17, <1>18, <1>19, Zenon DEF StreamInv

\* A worker that could not claim its entry forgets it.
LEMMA DropKeepsInv ==
  ASSUME StreamInv, NEW w \in WorkerId, ClaimNone(w) \/ ClaimFails(w)
  PROVE  StreamInv'
<1> /\ TypeOK /\ JobTableTypeOK /\ HandsApart /\ OwnRows /\ StartedLate /\ RowsInStep /\ LiveIsHeld
    /\ LeftForAReason /\ RunAndReportedOnce /\ StaleRowsUntouched /\ ReportsMatchRows
  BY DEF StreamInv, TypeOK
<1> /\ enqueued \subseteq JobId /\ heap \subseteq JobId /\ StaleJobs \subseteq JobId
    /\ job \in [WorkerId -> JobId \cup {NoJob}] /\ faults \in Nat /\ failed \in Nat
    /\ results \in [JobId -> [Outcome -> Nat]] /\ started \in [JobId -> Nat]
  BY StaleAssumption DEF TypeOK
<1>e. /\ pc[w] = "claiming"
      /\ pc' \in [WorkerId -> WorkerPc]
      /\ pc'[w] = "loop"
      /\ \A v \in WorkerId : v # w => pc'[v] = pc[v]
      /\ job' \in [WorkerId -> JobId \cup {NoJob}]
      /\ job'[w] = NoJob
      /\ \A v \in WorkerId : v # w => job'[v] = job[v]
      /\ faults' \in Nat
      /\ (faults' = 0 => faults = 0 /\ jobs[job[w]].status # "pending")
      /\ UNCHANGED <<jobs, now, token, gate, enq, heap, enqueued, pre_failed, completed, failed,
                      inflight, results, started, pool, leftover, command>>
  <2>1. CASE ClaimNone(w)
    BY <2>1 DEF ClaimNone, Drop, Goto, TypeOK, WorkerPc, table, enqueuer, report, main
  <2>2. CASE ClaimFails(w)
    BY <2>2 DEF ClaimFails, Fault, Drop, Goto, TypeOK, WorkerPc, table, enqueuer, report, main
  <2> QED BY <2>1, <2>2, Zenon
<1>1. pool = "joining"
  BY <1>e DEF LeftForAReason
<1>10. TypeOK'
  BY <1>e, <1>1 DEF TypeOK, JobTableTypeOK
<1>11. HandsApart'
  BY <1>e, <1>1 DEF HandsApart, Free, Holding, Sending
<1>12. OwnRows'
  BY <1>e, Zenon DEF OwnRows, Present
<1>13. StartedLate'
  <2>1. \A i \in JobId : i \notin enqueued' \/ i \in heap' => started'[i] = 0 /\ NoResult(i)'
    BY <1>e, <1>1 DEF StartedLate, NoResult
  <2>2. ASSUME NEW v \in WorkerId
        PROVE  /\ pc'[v] \in {"claiming", "claimed"} => started'[job'[v]] = 0
               /\ pc'[v] \in {"claiming", "claimed", "running"} \cup Sending => NoResult(job[v])'
    <3>1. CASE v = w
      BY <3>1, <1>e, <1>1 DEF StartedLate, NoResult, HandsApart, Holding, Sending
    <3>2. CASE v # w
      BY <3>2, <1>e, <1>1 DEF StartedLate, NoResult, HandsApart, Holding, Sending
    <3> QED BY <3>1, <3>2, Zenon
  <2> QED BY <2>1, <2>2, Zenon DEF StartedLate
<1>14. RowsInStep'
  <2> SUFFICES ASSUME NEW v \in WorkerId
               PROVE  /\ pc'[v] \in {"claimed", "running"} => jobs'[job'[v]].status \in {"running", "cancelled"}
                      /\ pc'[v] = "send_success" => jobs'[job'[v]].status \in {"completed", "cancelled"}
                      /\ pc'[v] \in {"send_failure", "send_cancel"} => jobs'[job'[v]].status # "completed"
    BY Zenon DEF RowsInStep
  <2>1. CASE v = w
    BY <2>1, <1>e, <1>1, Zenon DEF RowsInStep, HandsApart, Holding, Sending
  <2>2. CASE v # w
    BY <2>2, <1>e, <1>1, Zenon DEF RowsInStep, HandsApart, Holding, Sending
  <2> QED BY <2>1, <2>2, Zenon
<1>15. LiveIsHeld'
  <2> SUFFICES ASSUME faults' = 0, NEW i \in enqueued'
               PROVE  /\ jobs'[i].status = "pending" =>
                           \/ i \in heap' \/ i \in leftover'
                           \/ \E v \in WorkerId : pc'[v] = "claiming" /\ job'[v] = i
                      /\ jobs'[i].status = "running" =>
                           \E v \in WorkerId : pc'[v] \in {"claimed", "running"} /\ job'[v] = i
    BY Zenon DEF LiveIsHeld
  <2>1. \A v \in WorkerId : v # w => pc'[v] = pc[v] /\ job'[v] = job[v]
    BY <1>e, Zenon
  <2>2. CASE i = job[w]
    BY <2>2, <1>e, <1>1 DEF LiveIsHeld
  <2>3. CASE i # job[w]
    BY <2>1, <2>3, <1>e, <1>1 DEF LiveIsHeld
  <2> QED BY <2>2, <2>3, Zenon
<1>16. LeftForAReason'
  BY <1>e, <1>1 DEF LeftForAReason
<1>17. RunAndReportedOnce'
  BY <1>e DEF RunAndReportedOnce
<1>18. StaleRowsUntouched'
  BY <1>e, Zenon DEF StaleRowsUntouched
<1>19. ReportsMatchRows'
  BY <1>e DEF ReportsMatchRows
<1> QED BY <1>10, <1>11, <1>12, <1>13, <1>14, <1>15, <1>16, <1>17, <1>18, <1>19, Zenon DEF StreamInv

\* A claimed job that is not started any more is cancelled and reported.
LEMMA GiveUpKeepsInv ==
  ASSUME StreamInv, NEW w \in WorkerId, GiveUp(w)
  PROVE  StreamInv'
<1> /\ TypeOK /\ JobTableTypeOK /\ HandsApart /\ OwnRows /\ StartedLate /\ RowsInStep /\ LiveIsHeld
    /\ LeftForAReason /\ RunAndReportedOnce /\ StaleRowsUntouched /\ ReportsMatchRows
  BY DEF StreamInv, TypeOK
<1> /\ enqueued \subseteq JobId /\ heap \subseteq JobId /\ StaleJobs \subseteq JobId
    /\ job \in [WorkerId -> JobId \cup {NoJob}] /\ faults \in Nat /\ failed \in Nat
    /\ results \in [JobId -> [Outcome -> Nat]] /\ started \in [JobId -> Nat]
  BY StaleAssumption DEF TypeOK
<1>1. /\ job[w] \in enqueued /\ job[w] \in JobId /\ pool = "joining" /\ job[w] \notin StaleJobs
      /\ \A v \in WorkerId : v # w => job[v] # job[w]
  BY NoJobAssumption DEF GiveUp, TypeOK, HandsApart, Holding, LeftForAReason, OwnRows
<1>2. /\ Present(job[w]) /\ NoResult(job[w])
      /\ jobs[job[w]].status \in {"running", "cancelled"}
  BY <1>1, Zenon DEF GiveUp, OwnRows, StartedLate, RowsInStep
<1>e. /\ JobTableTypeOK'
      /\ jobs'[job[w]].status \in {"running", "cancelled"}
      /\ \A i \in JobId : i # job[w] => jobs'[i] = jobs[i]
      /\ faults' \in Nat
      /\ (faults' = 0 => faults = 0 /\ jobs'[job[w]].status = "cancelled")
      /\ failed' \in Nat
      /\ (token = TRUE)
      /\ pc[w] = "claimed"
      /\ pc' \in [WorkerId -> WorkerPc]
      /\ pc'[w] = "send_failure"
      /\ \A v \in WorkerId : v # w => pc'[v] = pc[v]
      /\ UNCHANGED <<token, gate, enq, heap, enqueued, job, pre_failed, completed, inflight,
                      results, started, pool, leftover, command>>
  <2>1. /\ JobTableTypeOK' /\ jobs'[job[w]].status \in {"running", "cancelled"}
        /\ \A i \in JobId : i # job[w] => jobs'[i] = jobs[i]
        /\ faults' \in Nat /\ (faults' = 0 => faults = 0 /\ jobs'[job[w]].status = "cancelled")
    <3>1. CASE cancel(job[w]) /\ UNCHANGED faults
      BY <1>1, <1>2, <3>1, CancelEffect DEF TypeOK, Live
    <3>2. CASE Fault /\ UNCHANGED table
      BY <1>2, <3>2 DEF Fault, TypeOK, JobTableTypeOK, table
    <3> QED BY <3>1, <3>2, Zenon DEF GiveUp
  <2> QED BY <2>1 DEF GiveUp, Goto, TypeOK, WorkerPc, enqueuer, report, main
<1>10. TypeOK'
  BY <1>e, <1>1, <1>2 DEF TypeOK, JobTableTypeOK
<1>11. HandsApart'
  BY <1>e, <1>1, <1>2, Zenon DEF HandsApart, Free, Holding, Sending
<1>12. OwnRows'
  BY <1>e, <1>1, <1>2, Zenon DEF OwnRows, Present, Live, Terminal
<1>13. StartedLate'
  <2>1. \A i \in JobId : i \notin enqueued' \/ i \in heap' => started'[i] = 0 /\ NoResult(i)'
    BY <1>e, <1>1, <1>2 DEF StartedLate, NoResult
  <2>2. ASSUME NEW v \in WorkerId
        PROVE  /\ pc'[v] \in {"claiming", "claimed"} => started'[job'[v]] = 0
               /\ pc'[v] \in {"claiming", "claimed", "running"} \cup Sending => NoResult(job[v])'
    <3>1. CASE v = w
      BY <3>1, <1>e, <1>1, <1>2 DEF StartedLate, NoResult, HandsApart, Holding, Sending
    <3>2. CASE v # w
      BY <3>2, <1>e, <1>1, <1>2 DEF StartedLate, NoResult, HandsApart, Holding, Sending
    <3> QED BY <3>1, <3>2, Zenon
  <2> QED BY <2>1, <2>2, Zenon DEF StartedLate
<1>14. RowsInStep'
  <2> SUFFICES ASSUME NEW v \in WorkerId
               PROVE  /\ pc'[v] \in {"claimed", "running"} => jobs'[job'[v]].status \in {"running", "cancelled"}
                      /\ pc'[v] = "send_success" => jobs'[job'[v]].status \in {"completed", "cancelled"}
                      /\ pc'[v] \in {"send_failure", "send_cancel"} => jobs'[job'[v]].status # "completed"
    BY Zenon DEF RowsInStep
  <2>1. CASE v = w
    BY <2>1, <1>e, <1>1, <1>2, Zenon DEF RowsInStep, HandsApart, Holding, Sending
  <2>2. CASE v # w
    BY <2>2, <1>e, <1>1, <1>2, Zenon DEF RowsInStep, HandsApart, Holding, Sending
  <2> QED BY <2>1, <2>2, Zenon
<1>15. LiveIsHeld'
  <2> SUFFICES ASSUME faults' = 0, NEW i \in enqueued'
               PROVE  /\ jobs'[i].status = "pending" =>
                           \/ i \in heap' \/ i \in leftover'
                           \/ \E v \in WorkerId : pc'[v] = "claiming" /\ job'[v] = i
                      /\ jobs'[i].status = "running" =>
                           \E v \in WorkerId : pc'[v] \in {"claimed", "running"} /\ job'[v] = i
    BY Zenon DEF LiveIsHeld
  <2>1. \A v \in WorkerId : v # w => pc'[v] = pc[v] /\ job'[v] = job[v]
    BY <1>e, Zenon
  <2>2. CASE i = job[w]
    BY <2>2, <1>e, <1>1, <1>2, Zenon DEF LiveIsHeld
  <2>3. CASE i # job[w]
    BY <2>1, <2>3, <1>e, <1>1, <1>2 DEF LiveIsHeld
  <2> QED BY <2>2, <2>3, Zenon
<1>16. LeftForAReason'
  BY <1>e, <1>1, <1>2 DEF LeftForAReason
<1>17. RunAndReportedOnce'
  BY <1>e DEF RunAndReportedOnce
<1>18. StaleRowsUntouched'
  BY <1>e, <1>1, <1>2, Zenon DEF StaleRowsUntouched
<1>19. ReportsMatchRows'
  BY <1>e, <1>1, <1>2 DEF ReportsMatchRows, NoResult, Outcome
<1> QED BY <1>10, <1>11, <1>12, <1>13, <1>14, <1>15, <1>16, <1>17, <1>18, <1>19, Zenon DEF StreamInv

\* The processor is called once for a job.
LEMMA StartKeepsInv ==
  ASSUME StreamInv, NEW w \in WorkerId, StartProcessor(w)
  PROVE  StreamInv'
<1> /\ TypeOK /\ JobTableTypeOK /\ HandsApart /\ OwnRows /\ StartedLate /\ RowsInStep /\ LiveIsHeld
    /\ LeftForAReason /\ RunAndReportedOnce /\ StaleRowsUntouched /\ ReportsMatchRows
  BY DEF StreamInv, TypeOK
<1> /\ enqueued \subseteq JobId /\ heap \subseteq JobId /\ StaleJobs \subseteq JobId
    /\ job \in [WorkerId -> JobId \cup {NoJob}] /\ faults \in Nat /\ failed \in Nat
    /\ results \in [JobId -> [Outcome -> Nat]] /\ started \in [JobId -> Nat]
  BY StaleAssumption DEF TypeOK
<1>1. /\ job[w] \in enqueued \ heap /\ job[w] \in JobId /\ pool = "joining" /\ job[w] \notin StaleJobs
      /\ \A v \in WorkerId : v # w => job[v] # job[w]
  BY NoJobAssumption, Zenon DEF StartProcessor, TypeOK, HandsApart, Holding, LeftForAReason, OwnRows
<1>2. started[job[w]] = 0
  BY Zenon DEF StartProcessor, StartedLate
<1>e. /\ started' \in [JobId -> Nat]
      /\ started'[job[w]] = started[job[w]] + 1
      /\ \A i \in JobId : i # job[w] => started'[i] = started[i]
      /\ pc[w] = "claimed"
      /\ pc' \in [WorkerId -> WorkerPc]
      /\ pc'[w] = "running"
      /\ \A v \in WorkerId : v # w => pc'[v] = pc[v]
      /\ UNCHANGED <<jobs, now, token, gate, enq, heap, enqueued, job, pre_failed, completed,
                      failed, inflight, results, pool, leftover, command, faults>>
  BY <1>1 DEF StartProcessor, Goto, TypeOK, WorkerPc, table, enqueuer, worker, report, main
<1>10. TypeOK'
  BY <1>e, <1>1, <1>2 DEF TypeOK, JobTableTypeOK
<1>11. HandsApart'
  BY <1>e, <1>1, <1>2, Zenon DEF HandsApart, Free, Holding, Sending
<1>12. OwnRows'
  BY <1>e, Zenon DEF OwnRows, Present
<1>13. StartedLate'
  <2>1. \A i \in JobId : i \notin enqueued' \/ i \in heap' => started'[i] = 0 /\ NoResult(i)'
    BY <1>e, <1>1, <1>2 DEF StartedLate, NoResult
  <2>2. ASSUME NEW v \in WorkerId
        PROVE  /\ pc'[v] \in {"claiming", "claimed"} => started'[job'[v]] = 0
               /\ pc'[v] \in {"claiming", "claimed", "running"} \cup Sending => NoResult(job[v])'
    <3>1. CASE v = w
      BY <3>1, <1>e, <1>1, <1>2 DEF StartedLate, NoResult, HandsApart, Holding, Sending
    <3>2. CASE v # w
      BY <3>2, <1>e, <1>1, <1>2 DEF StartedLate, NoResult, HandsApart, Holding, Sending
    <3> QED BY <3>1, <3>2, Zenon
  <2> QED BY <2>1, <2>2, Zenon DEF StartedLate
<1>14. RowsInStep'
  <2> SUFFICES ASSUME NEW v \in WorkerId
               PROVE  /\ pc'[v] \in {"claimed", "running"} => jobs'[job'[v]].status \in {"running", "cancelled"}
                      /\ pc'[v] = "send_success" => jobs'[job'[v]].status \in {"completed", "cancelled"}
                      /\ pc'[v] \in {"send_failure", "send_cancel"} => jobs'[job'[v]].status # "completed"
    BY Zenon DEF RowsInStep
  <2>1. CASE v = w
    BY <2>1, <1>e, <1>1, <1>2, Zenon DEF RowsInStep, HandsApart, Holding, Sending
  <2>2. CASE v # w
    BY <2>2, <1>e, <1>1, <1>2, Zenon DEF RowsInStep, HandsApart, Holding, Sending
  <2> QED BY <2>1, <2>2, Zenon
<1>15. LiveIsHeld'
  <2> SUFFICES ASSUME faults' = 0, NEW i \in enqueued'
               PROVE  /\ jobs'[i].status = "pending" =>
                           \/ i \in heap' \/ i \in leftover'
                           \/ \E v \in WorkerId : pc'[v] = "claiming" /\ job'[v] = i
                      /\ jobs'[i].status = "running" =>
                           \E v \in WorkerId : pc'[v] \in {"claimed", "running"} /\ job'[v] = i
    BY Zenon DEF LiveIsHeld
  <2>1. \A v \in WorkerId : v # w => pc'[v] = pc[v] /\ job'[v] = job[v]
    BY <1>e, Zenon
  <2>2. CASE i = job[w]
    BY <2>2, <1>e, <1>1, <1>2 DEF LiveIsHeld
  <2>3. CASE i # job[w]
    BY <2>1, <2>3, <1>e, <1>1, <1>2 DEF LiveIsHeld
  <2> QED BY <2>2, <2>3, Zenon
<1>16. LeftForAReason'
  BY <1>e, <1>1, <1>2 DEF LeftForAReason
<1>17. RunAndReportedOnce'
  BY <1>e, <1>1, <1>2 DEF RunAndReportedOnce
<1>18. StaleRowsUntouched'
  BY <1>e, <1>1, <1>2, Zenon DEF StaleRowsUntouched
<1>19. ReportsMatchRows'
  BY <1>e DEF ReportsMatchRows
<1> QED BY <1>10, <1>11, <1>12, <1>13, <1>14, <1>15, <1>16, <1>17, <1>18, <1>19, Zenon DEF StreamInv

\* A success is recorded before it is reported.
LEMMA CompleteKeepsInv ==
  ASSUME StreamInv, NEW w \in WorkerId, ProcessorOk(w)
  PROVE  StreamInv'
<1> /\ TypeOK /\ JobTableTypeOK /\ HandsApart /\ OwnRows /\ StartedLate /\ RowsInStep /\ LiveIsHeld
    /\ LeftForAReason /\ RunAndReportedOnce /\ StaleRowsUntouched /\ ReportsMatchRows
  BY DEF StreamInv, TypeOK
<1> /\ enqueued \subseteq JobId /\ heap \subseteq JobId /\ StaleJobs \subseteq JobId
    /\ job \in [WorkerId -> JobId \cup {NoJob}] /\ faults \in Nat /\ failed \in Nat
    /\ results \in [JobId -> [Outcome -> Nat]] /\ started \in [JobId -> Nat]
  BY StaleAssumption DEF TypeOK
<1>1. /\ job[w] \in enqueued /\ job[w] \in JobId /\ pool = "joining" /\ job[w] \notin StaleJobs
      /\ \A v \in WorkerId : v # w => job[v] # job[w]
  BY NoJobAssumption DEF ProcessorOk, TypeOK, HandsApart, Holding, LeftForAReason, OwnRows
<1>2. /\ Present(job[w]) /\ NoResult(job[w])
      /\ jobs[job[w]].status \in {"running", "cancelled"}
  BY <1>1, Zenon DEF ProcessorOk, OwnRows, StartedLate, RowsInStep
<1>e. /\ JobTableTypeOK'
      /\ jobs'[job[w]].status = "completed"
      /\ \A i \in JobId : i # job[w] => jobs'[i] = jobs[i]
      /\ completed' \in Nat
      /\ pc[w] = "running"
      /\ pc' \in [WorkerId -> WorkerPc]
      /\ pc'[w] = "send_success"
      /\ \A v \in WorkerId : v # w => pc'[v] = pc[v]
      /\ UNCHANGED <<token, gate, enq, heap, enqueued, job, pre_failed, failed, inflight,
                      results, started, pool, leftover, command, faults>>
  <2>1. /\ JobTableTypeOK' /\ jobs'[job[w]].status = "completed"
        /\ \A i \in JobId : i # job[w] => jobs'[i] = jobs[i]
    BY <1>1, <1>2, UpdateEffect, Zenon DEF ProcessorOk, Terminal
  <2> QED BY <2>1 DEF ProcessorOk, Goto, TypeOK, WorkerPc, enqueuer, report, main
<1>10. TypeOK'
  BY <1>e, <1>1, <1>2 DEF TypeOK, JobTableTypeOK
<1>11. HandsApart'
  BY <1>e, <1>1, <1>2, Zenon DEF HandsApart, Free, Holding, Sending
<1>12. OwnRows'
  BY <1>e, <1>1, <1>2, Zenon DEF OwnRows, Present, Live, Terminal
<1>13. StartedLate'
  <2>1. \A i \in JobId : i \notin enqueued' \/ i \in heap' => started'[i] = 0 /\ NoResult(i)'
    BY <1>e, <1>1, <1>2, Zenon DEF StartedLate, NoResult
  <2>2. ASSUME NEW v \in WorkerId
        PROVE  /\ pc'[v] \in {"claiming", "claimed"} => started'[job'[v]] = 0
               /\ pc'[v] \in {"claiming", "claimed", "running"} \cup Sending => NoResult(job[v])'
    <3>1. CASE v = w
      BY <3>1, <1>e, <1>1, <1>2, Zenon DEF StartedLate, NoResult, HandsApart, Holding, Sending
    <3>2. CASE v # w
      BY <3>2, <1>e, <1>1, <1>2, Zenon DEF StartedLate, NoResult, HandsApart, Holding, Sending
    <3> QED BY <3>1, <3>2, Zenon
  <2> QED BY <2>1, <2>2, Zenon DEF StartedLate
<1>14. RowsInStep'
  <2> SUFFICES ASSUME NEW v \in WorkerId
               PROVE  /\ pc'[v] \in {"claimed", "running"} => jobs'[job'[v]].status \in {"running", "cancelled"}
                      /\ pc'[v] = "send_success" => jobs'[job'[v]].status \in {"completed", "cancelled"}
                      /\ pc'[v] \in {"send_failure", "send_cancel"} => jobs'[job'[v]].status # "completed"
    BY Zenon DEF RowsInStep
  <2>1. CASE v = w
    BY <2>1, <1>e, <1>1, <1>2, Zenon DEF RowsInStep, HandsApart, Holding, Sending
  <2>2. CASE v # w
    BY <2>2, <1>e, <1>1, <1>2, Zenon DEF RowsInStep, HandsApart, Holding, Sending
  <2> QED BY <2>1, <2>2, Zenon
<1>15. LiveIsHeld'
  <2> SUFFICES ASSUME faults' = 0, NEW i \in enqueued'
               PROVE  /\ jobs'[i].status = "pending" =>
                           \/ i \in heap' \/ i \in leftover'
                           \/ \E v \in WorkerId : pc'[v] = "claiming" /\ job'[v] = i
                      /\ jobs'[i].status = "running" =>
                           \E v \in WorkerId : pc'[v] \in {"claimed", "running"} /\ job'[v] = i
    BY Zenon DEF LiveIsHeld
  <2>1. \A v \in WorkerId : v # w => pc'[v] = pc[v] /\ job'[v] = job[v]
    BY <1>e, Zenon
  <2>2. CASE i = job[w]
    BY <2>2, <1>e, <1>1, <1>2, Zenon DEF LiveIsHeld
  <2>3. CASE i # job[w]
    BY <2>1, <2>3, <1>e, <1>1, <1>2 DEF LiveIsHeld
  <2> QED BY <2>2, <2>3, Zenon
<1>16. LeftForAReason'
  BY <1>e, <1>1, <1>2, Zenon DEF LeftForAReason
<1>17. RunAndReportedOnce'
  BY <1>e, Zenon DEF RunAndReportedOnce
<1>18. StaleRowsUntouched'
  BY <1>e, <1>1, <1>2, Zenon DEF StaleRowsUntouched
<1>19. ReportsMatchRows'
  BY <1>e, <1>1, <1>2 DEF ReportsMatchRows, NoResult, Outcome
<1> QED BY <1>10, <1>11, <1>12, <1>13, <1>14, <1>15, <1>16, <1>17, <1>18, <1>19, Zenon DEF StreamInv

\* A failure, of the processor or of recording its success, is reported as one.
LEMMA FailKeepsInv ==
  ASSUME StreamInv, NEW w \in WorkerId, CompleteFails(w) \/ ProcessorErr(w)
  PROVE  StreamInv'
<1> /\ TypeOK /\ JobTableTypeOK /\ HandsApart /\ OwnRows /\ StartedLate /\ RowsInStep /\ LiveIsHeld
    /\ LeftForAReason /\ RunAndReportedOnce /\ StaleRowsUntouched /\ ReportsMatchRows
  BY DEF StreamInv, TypeOK
<1> /\ enqueued \subseteq JobId /\ heap \subseteq JobId /\ StaleJobs \subseteq JobId
    /\ job \in [WorkerId -> JobId \cup {NoJob}] /\ faults \in Nat /\ failed \in Nat
    /\ results \in [JobId -> [Outcome -> Nat]] /\ started \in [JobId -> Nat]
  BY StaleAssumption DEF TypeOK
<1>1. /\ job[w] \in enqueued /\ job[w] \in JobId /\ pool = "joining" /\ job[w] \notin StaleJobs
      /\ pc[w] = "running" /\ \A v \in WorkerId : v # w => job[v] # job[w]
  BY NoJobAssumption, Zenon DEF CompleteFails, ProcessorErr, TypeOK, HandsApart, Holding, LeftForAReason, OwnRows
<1>2. /\ Present(job[w]) /\ NoResult(job[w])
      /\ jobs[job[w]].status \in {"running", "cancelled"}
  BY <1>1, Zenon DEF OwnRows, StartedLate, RowsInStep
<1>e. /\ JobTableTypeOK'
      /\ jobs'[job[w]].status \in {"running", "cancelled", "failed"}
      /\ \A i \in JobId : i # job[w] => jobs'[i] = jobs[i]
      /\ faults' \in Nat
      /\ (faults' = 0 => faults = 0 /\ jobs'[job[w]].status = "failed" /\ (OnError = "fail" => pc'[w] = "send_cancel"))
      /\ failed' = failed + 1
      /\ pc[w] = "running"
      /\ pc' \in [WorkerId -> WorkerPc]
      /\ pc'[w] \in {"send_failure", "send_cancel"}
      /\ \A v \in WorkerId : v # w => pc'[v] = pc[v]
      /\ UNCHANGED <<token, gate, enq, heap, enqueued, job, pre_failed, completed, inflight,
                      results, started, pool, leftover, command>>
  <2>1. CASE CompleteFails(w)
    BY <1>2, <2>1 DEF CompleteFails, Fault, Goto, TypeOK, JobTableTypeOK, WorkerPc, table, enqueuer, report, main
  <2>2. CASE ProcessorErr(w)
    <3>1. /\ JobTableTypeOK' /\ jobs'[job[w]].status \in {"running", "cancelled", "failed"}
          /\ \A i \in JobId : i # job[w] => jobs'[i] = jobs[i]
          /\ faults' \in Nat /\ (faults' = 0 => faults = 0 /\ jobs'[job[w]].status = "failed")
      <4>1. CASE update_status(job[w], "failed") /\ UNCHANGED faults
        BY <1>1, <1>2, <4>1, UpdateEffect, Zenon DEF TypeOK, Terminal
      <4>2. CASE Fault /\ UNCHANGED table
        BY <1>2, <4>2 DEF Fault, TypeOK, JobTableTypeOK, table
      <4> QED BY <2>2, <4>1, <4>2, Zenon DEF ProcessorErr
    <3> QED BY <2>2, <3>1, Zenon DEF ProcessorErr, Goto, TypeOK, WorkerPc, enqueuer, report, main
  <2> QED BY <2>1, <2>2, Zenon
<1>10. TypeOK'
  BY <1>e, <1>1, <1>2 DEF TypeOK, JobTableTypeOK
<1>11. HandsApart'
  BY <1>e, <1>1, <1>2, Zenon DEF HandsApart, Free, Holding, Sending
<1>12. OwnRows'
  BY <1>e, <1>1, <1>2, Zenon DEF OwnRows, Present, Live, Terminal
<1>13. StartedLate'
  <2>1. \A i \in JobId : i \notin enqueued' \/ i \in heap' => started'[i] = 0 /\ NoResult(i)'
    BY <1>e, <1>1, <1>2, Zenon DEF StartedLate, NoResult
  <2>2. ASSUME NEW v \in WorkerId
        PROVE  /\ pc'[v] \in {"claiming", "claimed"} => started'[job'[v]] = 0
               /\ pc'[v] \in {"claiming", "claimed", "running"} \cup Sending => NoResult(job[v])'
    <3>1. CASE v = w
      BY <3>1, <1>e, <1>1, <1>2, Zenon DEF StartedLate, NoResult, HandsApart, Holding, Sending
    <3>2. CASE v # w
      BY <3>2, <1>e, <1>1, <1>2, Zenon DEF StartedLate, NoResult, HandsApart, Holding, Sending
    <3> QED BY <3>1, <3>2, Zenon
  <2> QED BY <2>1, <2>2, Zenon DEF StartedLate
<1>14. RowsInStep'
  <2> SUFFICES ASSUME NEW v \in WorkerId
               PROVE  /\ pc'[v] \in {"claimed", "running"} => jobs'[job'[v]].status \in {"running", "cancelled"}
                      /\ pc'[v] = "send_success" => jobs'[job'[v]].status \in {"completed", "cancelled"}
                      /\ pc'[v] \in {"send_failure", "send_cancel"} => jobs'[job'[v]].status # "completed"
    BY Zenon DEF RowsInStep
  <2>1. CASE v = w
    BY <2>1, <1>e, <1>1, <1>2, Zenon DEF RowsInStep, HandsApart, Holding, Sending
  <2>2. CASE v # w
    BY <2>2, <1>e, <1>1, <1>2, Zenon DEF RowsInStep, HandsApart, Holding, Sending
  <2> QED BY <2>1, <2>2, Zenon
<1>15. LiveIsHeld'
  <2> SUFFICES ASSUME faults' = 0, NEW i \in enqueued'
               PROVE  /\ jobs'[i].status = "pending" =>
                           \/ i \in heap' \/ i \in leftover'
                           \/ \E v \in WorkerId : pc'[v] = "claiming" /\ job'[v] = i
                      /\ jobs'[i].status = "running" =>
                           \E v \in WorkerId : pc'[v] \in {"claimed", "running"} /\ job'[v] = i
    BY Zenon DEF LiveIsHeld
  <2>1. \A v \in WorkerId : v # w => pc'[v] = pc[v] /\ job'[v] = job[v]
    BY <1>e, Zenon
  <2>2. CASE i = job[w]
    BY <2>2, <1>e, <1>1, <1>2, Zenon DEF LiveIsHeld
  <2>3. CASE i # job[w]
    BY <2>1, <2>3, <1>e, <1>1, <1>2 DEF LiveIsHeld
  <2> QED BY <2>2, <2>3, Zenon
<1>16. LeftForAReason'
  BY <1>e, <1>1, <1>2 DEF LeftForAReason
<1>17. RunAndReportedOnce'
  BY <1>e, Zenon DEF RunAndReportedOnce
<1>18. StaleRowsUntouched'
  BY <1>e, <1>1, <1>2, Zenon DEF StaleRowsUntouched
<1>19. ReportsMatchRows'
  BY <1>e, <1>1, <1>2 DEF ReportsMatchRows, NoResult, Outcome
<1> QED BY <1>10, <1>11, <1>12, <1>13, <1>14, <1>15, <1>16, <1>17, <1>18, <1>19, Zenon DEF StreamInv

\* A panic is a fault; the job stays in the hands of a task that is gone.
LEMMA PanicKeepsInv ==
  ASSUME StreamInv, NEW w \in WorkerId, ProcessorPanics(w)
  PROVE  StreamInv'
<1> /\ TypeOK /\ JobTableTypeOK /\ HandsApart /\ OwnRows /\ StartedLate /\ RowsInStep /\ LiveIsHeld
    /\ LeftForAReason /\ RunAndReportedOnce /\ StaleRowsUntouched /\ ReportsMatchRows
  BY DEF StreamInv, TypeOK
<1> /\ enqueued \subseteq JobId /\ heap \subseteq JobId /\ StaleJobs \subseteq JobId
    /\ job \in [WorkerId -> JobId \cup {NoJob}] /\ faults \in Nat /\ failed \in Nat
    /\ results \in [JobId -> [Outcome -> Nat]] /\ started \in [JobId -> Nat]
  BY StaleAssumption DEF TypeOK
<1>e. /\ faults' \in Nat
      /\ faults' # 0
      /\ pc[w] = "running"
      /\ pc' \in [WorkerId -> WorkerPc]
      /\ pc'[w] = "exited"
      /\ \A v \in WorkerId : v # w => pc'[v] = pc[v]
      /\ UNCHANGED <<jobs, now, token, gate, enq, heap, enqueued, job, pre_failed, completed,
                      failed, inflight, results, started, pool, leftover, command>>
  BY DEF ProcessorPanics, Fault, Goto, TypeOK, WorkerPc, table, enqueuer, worker, report, main
<1>1. pool = "joining"
  BY <1>e DEF LeftForAReason
<1>10. TypeOK'
  BY <1>e, <1>1 DEF TypeOK, JobTableTypeOK
<1>11. HandsApart'
  BY <1>e, <1>1, Zenon DEF HandsApart, Free, Holding, Sending
<1>12. OwnRows'
  BY <1>e, Zenon DEF OwnRows, Present
<1>13. StartedLate'
  <2>1. \A i \in JobId : i \notin enqueued' \/ i \in heap' => started'[i] = 0 /\ NoResult(i)'
    BY <1>e, <1>1 DEF StartedLate, NoResult
  <2>2. ASSUME NEW v \in WorkerId
        PROVE  /\ pc'[v] \in {"claiming", "claimed"} => started'[job'[v]] = 0
               /\ pc'[v] \in {"claiming", "claimed", "running"} \cup Sending => NoResult(job[v])'
    <3>1. CASE v = w
      BY <3>1, <1>e, <1>1 DEF StartedLate, NoResult, HandsApart, Holding, Sending
    <3>2. CASE v # w
      BY <3>2, <1>e, <1>1 DEF StartedLate, NoResult, HandsApart, Holding, Sending
    <3> QED BY <3>1, <3>2, Zenon
  <2> QED BY <2>1, <2>2, Zenon DEF StartedLate
<1>14. RowsInStep'
  <2> SUFFICES ASSUME NEW v \in WorkerId
               PROVE  /\ pc'[v] \in {"claimed", "running"} => jobs'[job'[v]].status \in {"running", "cancelled"}
                      /\ pc'[v] = "send_success" => jobs'[job'[v]].status \in {"completed", "cancelled"}
                      /\ pc'[v] \in {"send_failure", "send_cancel"} => jobs'[job'[v]].status # "completed"
    BY Zenon DEF RowsInStep
  <2>1. CASE v = w
    BY <2>1, <1>e, <1>1, Zenon DEF RowsInStep, HandsApart, Holding, Sending
  <2>2. CASE v # w
    BY <2>2, <1>e, <1>1, Zenon DEF RowsInStep, HandsApart, Holding, Sending
  <2> QED BY <2>1, <2>2, Zenon
<1>15. LiveIsHeld'
  <2> SUFFICES ASSUME faults' = 0, NEW i \in enqueued'
               PROVE  /\ jobs'[i].status = "pending" =>
                           \/ i \in heap' \/ i \in leftover'
                           \/ \E v \in WorkerId : pc'[v] = "claiming" /\ job'[v] = i
                      /\ jobs'[i].status = "running" =>
                           \E v \in WorkerId : pc'[v] \in {"claimed", "running"} /\ job'[v] = i
    BY Zenon DEF LiveIsHeld
  <2>1. \A v \in WorkerId : v # w => pc'[v] = pc[v] /\ job'[v] = job[v]
    BY <1>e, Zenon
  <2>2. CASE i = job[w]
    BY <2>2, <1>e, <1>1, Zenon DEF LiveIsHeld
  <2>3. CASE i # job[w]
    BY <2>1, <2>3, <1>e, <1>1, Zenon DEF LiveIsHeld
  <2> QED BY <2>2, <2>3, Zenon
<1>16. LeftForAReason'
  BY <1>e, <1>1 DEF LeftForAReason
<1>17. RunAndReportedOnce'
  BY <1>e DEF RunAndReportedOnce
<1>18. StaleRowsUntouched'
  BY <1>e, Zenon DEF StaleRowsUntouched
<1>19. ReportsMatchRows'
  BY <1>e DEF ReportsMatchRows
<1> QED BY <1>10, <1>11, <1>12, <1>13, <1>14, <1>15, <1>16, <1>17, <1>18, <1>19, Zenon DEF StreamInv

\* A result is sent once, by the worker that has the job, and matches its row.
LEMMA SendKeepsInv ==
  ASSUME StreamInv, NEW w \in WorkerId, SendResult(w)
  PROVE  StreamInv'
<1> /\ TypeOK /\ JobTableTypeOK /\ HandsApart /\ OwnRows /\ StartedLate /\ RowsInStep /\ LiveIsHeld
    /\ LeftForAReason /\ RunAndReportedOnce /\ StaleRowsUntouched /\ ReportsMatchRows
  BY DEF StreamInv, TypeOK
<1> /\ enqueued \subseteq JobId /\ heap \subseteq JobId /\ StaleJobs \subseteq JobId
    /\ job \in [WorkerId -> JobId \cup {NoJob}] /\ faults \in Nat /\ failed \in Nat
    /\ results \in [JobId -> [Outcome -> Nat]] /\ started \in [JobId -> Nat]
  BY StaleAssumption DEF TypeOK
<1>1. /\ job[w] \in enqueued \ heap /\ job[w] \in JobId /\ pool = "joining"
      /\ pc[w] \in Sending /\ NoResult(job[w])
      /\ \A v \in WorkerId : v # w => job[v] # job[w]
  <2>1. pc[w] \in Sending
    BY Zenon DEF SendResult, Sending
  <2>2. job[w] \in enqueued \ heap /\ job[w] \in JobId /\ \A v \in WorkerId : v # w => job[v] # job[w]
    BY <2>1, NoJobAssumption DEF TypeOK, HandsApart, Holding
  <2>3. pool = "joining"
    BY <2>1 DEF LeftForAReason, Sending
  <2>4. NoResult(job[w])
    BY <2>1, Zenon DEF StartedLate
  <2> QED BY <2>1, <2>2, <2>3, <2>4, Zenon
<1>e. /\ results' \in [JobId -> [Outcome -> Nat]]
      /\ \A j \in JobId : j # job[w] => results'[j] = results[j]
      /\ results'[job[w]]["success"] + results'[job[w]]["failure"] = 1
      /\ (results'[job[w]]["success"] > 0 => pc[w] = "send_success")
      /\ (results'[job[w]]["failure"] > 0 => pc[w] # "send_success")
      /\ token' = (token \/ pc[w] = "send_cancel")
      /\ token' \in BOOLEAN
      /\ inflight' \in Nat
      /\ pc[w] \in Sending
      /\ pc' \in [WorkerId -> WorkerPc]
      /\ pc'[w] = "after"
      /\ \A v \in WorkerId : v # w => pc'[v] = pc[v]
      /\ UNCHANGED <<jobs, now, gate, enq, heap, enqueued, job, pre_failed, completed, failed,
                      started, pool, leftover, command, faults>>
  <2>1. /\ results' \in [JobId -> [Outcome -> Nat]]
        /\ \A j \in JobId : j # job[w] => results'[j] = results[j]
        /\ results'[job[w]]["success"] + results'[job[w]]["failure"] = 1
        /\ (results'[job[w]]["success"] > 0 => pc[w] = "send_success")
        /\ (results'[job[w]]["failure"] > 0 => pc[w] # "send_success")
    BY <1>1, SendEffect DEF TypeOK, NoResult, Outcome
  <2> QED BY <2>1 DEF SendResult, Goto, TypeOK, WorkerPc, Sending, table, enqueuer, main
<1>10. TypeOK'
  BY <1>e, <1>1 DEF TypeOK, JobTableTypeOK
<1>11. HandsApart'
  BY <1>e, <1>1, Zenon DEF HandsApart, Free, Holding, Sending
<1>12. OwnRows'
  BY <1>e, Zenon DEF OwnRows, Present
<1>13. StartedLate'
  <2>1. \A i \in JobId : i \notin enqueued' \/ i \in heap' => started'[i] = 0 /\ NoResult(i)'
    BY <1>e, <1>1 DEF StartedLate, NoResult
  <2>2. ASSUME NEW v \in WorkerId
        PROVE  /\ pc'[v] \in {"claiming", "claimed"} => started'[job'[v]] = 0
               /\ pc'[v] \in {"claiming", "claimed", "running"} \cup Sending => NoResult(job[v])'
    <3>1. CASE v = w
      BY <3>1, <1>e, <1>1 DEF StartedLate, NoResult, HandsApart, Holding, Sending
    <3>2. CASE v # w
      BY <3>2, <1>e, <1>1 DEF StartedLate, NoResult, HandsApart, Holding, Sending
    <3> QED BY <3>1, <3>2, Zenon
  <2> QED BY <2>1, <2>2, Zenon DEF StartedLate
<1>14. RowsInStep'
  <2> SUFFICES ASSUME NEW v \in WorkerId
               PROVE  /\ pc'[v] \in {"claimed", "running"} => jobs'[job'[v]].status \in {"running", "cancelled"}
                      /\ pc'[v] = "send_success" => jobs'[job'[v]].status \in {"completed", "cancelled"}
                      /\ pc'[v] \in {"send_failure", "send_cancel"} => jobs'[job'[v]].status # "completed"
    BY Zenon DEF RowsInStep
  <2>1. CASE v = w
    BY <2>1, <1>e, <1>1, Zenon DEF RowsInStep, HandsApart, Holding, Sending
  <2>2. CASE v # w
    BY <2>2, <1>e, <1>1, Zenon DEF RowsInStep, HandsApart, Holding, Sending
  <2> QED BY <2>1, <2>2, Zenon
<1>15. LiveIsHeld'
  <2> SUFFICES ASSUME faults' = 0, NEW i \in enqueued'
               PROVE  /\ jobs'[i].status = "pending" =>
                           \/ i \in heap' \/ i \in leftover'
                           \/ \E v \in WorkerId : pc'[v] = "claiming" /\ job'[v] = i
                      /\ jobs'[i].status = "running" =>
                           \E v \in WorkerId : pc'[v] \in {"claimed", "running"} /\ job'[v] = i
    BY Zenon DEF LiveIsHeld
  <2>1. \A v \in WorkerId : v # w => pc'[v] = pc[v] /\ job'[v] = job[v]
    BY <1>e, Zenon
  <2>2. CASE i = job[w]
    BY <2>2, <1>e, <1>1 DEF LiveIsHeld, Sending
  <2>3. CASE i # job[w]
    BY <2>1, <2>3, <1>e, <1>1 DEF LiveIsHeld, Sending
  <2> QED BY <2>2, <2>3, Zenon
<1>16. LeftForAReason'
  BY <1>e, <1>1, Zenon DEF LeftForAReason, Sending
<1>17. RunAndReportedOnce'
  BY <1>e, <1>1 DEF RunAndReportedOnce, Outcome
<1>18. StaleRowsUntouched'
  BY <1>e, Zenon DEF StaleRowsUntouched
<1>19. ReportsMatchRows'
  BY <1>e, <1>1 DEF ReportsMatchRows, Outcome, RowsInStep, Sending
<1> QED BY <1>10, <1>11, <1>12, <1>13, <1>14, <1>15, <1>16, <1>17, <1>18, <1>19, Zenon DEF StreamInv

\* Done with a job, a worker lets go of it; it leaves only after a failure under fail-fast.
LEMMA AfterKeepsInv ==
  ASSUME StreamInv, NEW w \in WorkerId, AfterJob(w)
  PROVE  StreamInv'
<1> /\ TypeOK /\ JobTableTypeOK /\ HandsApart /\ OwnRows /\ StartedLate /\ RowsInStep /\ LiveIsHeld
    /\ LeftForAReason /\ RunAndReportedOnce /\ StaleRowsUntouched /\ ReportsMatchRows
  BY DEF StreamInv, TypeOK
<1> /\ enqueued \subseteq JobId /\ heap \subseteq JobId /\ StaleJobs \subseteq JobId
    /\ job \in [WorkerId -> JobId \cup {NoJob}] /\ faults \in Nat /\ failed \in Nat
    /\ results \in [JobId -> [Outcome -> Nat]] /\ started \in [JobId -> Nat]
  BY StaleAssumption DEF TypeOK
<1>e. /\ pc[w] = "after"
      /\ pc' \in [WorkerId -> WorkerPc]
      /\ pc'[w] \in {"loop", "exited"}
      /\ \A v \in WorkerId : v # w => pc'[v] = pc[v]
      /\ (pc'[w] = "exited" => OnError = "fail" /\ failed > 0)
      /\ job' \in [WorkerId -> JobId \cup {NoJob}]
      /\ job'[w] = NoJob
      /\ \A v \in WorkerId : v # w => job'[v] = job[v]
      /\ UNCHANGED <<jobs, now, token, gate, enq, heap, enqueued, pre_failed, completed, failed,
                      inflight, results, started, pool, leftover, command, faults>>
  BY DEF AfterJob, Goto, TypeOK, WorkerPc, table, enqueuer, worker, report, main
<1>1. pool = "joining"
  BY <1>e DEF LeftForAReason
<1>10. TypeOK'
  BY <1>e, <1>1 DEF TypeOK, JobTableTypeOK
<1>11. HandsApart'
  BY <1>e, <1>1 DEF HandsApart, Free, Holding, Sending
<1>12. OwnRows'
  BY <1>e, Zenon DEF OwnRows, Present
<1>13. StartedLate'
  <2>1. \A i \in JobId : i \notin enqueued' \/ i \in heap' => started'[i] = 0 /\ NoResult(i)'
    BY <1>e, <1>1 DEF StartedLate, NoResult
  <2>2. ASSUME NEW v \in WorkerId
        PROVE  /\ pc'[v] \in {"claiming", "claimed"} => started'[job'[v]] = 0
               /\ pc'[v] \in {"claiming", "claimed", "running"} \cup Sending => NoResult(job[v])'
    <3>1. CASE v = w
      BY <3>1, <1>e, <1>1 DEF StartedLate, NoResult, HandsApart, Holding, Sending
    <3>2. CASE v # w
      BY <3>2, <1>e, <1>1 DEF StartedLate, NoResult, HandsApart, Holding, Sending
    <3> QED BY <3>1, <3>2, Zenon
  <2> QED BY <2>1, <2>2, Zenon DEF StartedLate
<1>14. RowsInStep'
  <2> SUFFICES ASSUME NEW v \in WorkerId
               PROVE  /\ pc'[v] \in {"claimed", "running"} => jobs'[job'[v]].status \in {"running", "cancelled"}
                      /\ pc'[v] = "send_success" => jobs'[job'[v]].status \in {"completed", "cancelled"}
                      /\ pc'[v] \in {"send_failure", "send_cancel"} => jobs'[job'[v]].status # "completed"
    BY Zenon DEF RowsInStep
  <2>1. CASE v = w
    BY <2>1, <1>e, <1>1, Zenon DEF RowsInStep, HandsApart, Holding, Sending
  <2>2. CASE v # w
    BY <2>2, <1>e, <1>1, Zenon DEF RowsInStep, HandsApart, Holding, Sending
  <2> QED BY <2>1, <2>2, Zenon
<1>15. LiveIsHeld'
  <2> SUFFICES ASSUME faults' = 0, NEW i \in enqueued'
               PROVE  /\ jobs'[i].status = "pending" =>
                           \/ i \in heap' \/ i \in leftover'
                           \/ \E v \in WorkerId : pc'[v] = "claiming" /\ job'[v] = i
                      /\ jobs'[i].status = "running" =>
                           \E v \in WorkerId : pc'[v] \in {"claimed", "running"} /\ job'[v] = i
    BY Zenon DEF LiveIsHeld
  <2>1. \A v \in WorkerId : v # w => pc'[v] = pc[v] /\ job'[v] = job[v]
    BY <1>e, Zenon
  <2>2. CASE i = job[w]
    BY <2>2, <1>e, <1>1 DEF LiveIsHeld
  <2>3. CASE i # job[w]
    BY <2>1, <2>3, <1>e, <1>1 DEF LiveIsHeld
  <2> QED BY <2>2, <2>3, Zenon
<1>16. LeftForAReason'
  BY <1>e, <1>1 DEF LeftForAReason
<1>17. RunAndReportedOnce'
  BY <1>e DEF RunAndReportedOnce
<1>18. StaleRowsUntouched'
  BY <1>e, Zenon DEF StaleRowsUntouched
<1>19. ReportsMatchRows'
  BY <1>e DEF ReportsMatchRows
<1> QED BY <1>10, <1>11, <1>12, <1>13, <1>14, <1>15, <1>16, <1>17, <1>18, <1>19, Zenon DEF StreamInv

\* process_stream goes on once every task is joined: what is pending then is what it sweeps.
LEMMA JoinKeepsInv ==
  ASSUME StreamInv, Join
  PROVE  StreamInv'
<1> /\ TypeOK /\ JobTableTypeOK /\ HandsApart /\ OwnRows /\ StartedLate /\ RowsInStep /\ LiveIsHeld
    /\ LeftForAReason /\ RunAndReportedOnce /\ StaleRowsUntouched /\ ReportsMatchRows
  BY DEF StreamInv, TypeOK
<1> /\ enqueued \subseteq JobId /\ heap \subseteq JobId /\ StaleJobs \subseteq JobId
    /\ job \in [WorkerId -> JobId \cup {NoJob}] /\ faults \in Nat /\ failed \in Nat
    /\ results \in [JobId -> [Outcome -> Nat]] /\ started \in [JobId -> Nat]
  BY StaleAssumption DEF TypeOK
<1>e. /\ pool = "joining"
      /\ enq = "done"
      /\ \A w \in WorkerId : pc[w] = "exited"
      /\ pool' \in {"sweeping", "done"}
      /\ heap' \subseteq heap
      /\ (faults' = 0 => heap' = {})
      /\ leftover' \subseteq enqueued
      /\ (pool' = "done" => leftover' = {})
      /\ (faults' = 0 => \A j \in enqueued : jobs[j].status = "pending" => j \in leftover')
      /\ faults' \in Nat
      /\ (faults' = 0 => faults = 0)
      /\ UNCHANGED <<jobs, now, token, gate, enq, enqueued, pc, job, pre_failed, completed,
                      failed, inflight, results, started, command>>
  <2>1. /\ pool = "joining" /\ enq = "done" /\ (\A w \in WorkerId : pc[w] = "exited")
        /\ pool' \in {"sweeping", "done"}
        /\ UNCHANGED <<jobs, now, token, gate, enq, enqueued, pc, job, pre_failed, completed, failed, inflight, results, started, command>>
    BY Zenon DEF Join, AllJoined, table, worker, report
  <2>2. leftover = {}
    BY <2>1 DEF LeftForAReason
  <2>3. CASE token
    <3>1. /\ pool' = "sweeping" /\ heap' = {}
          /\ \/ leftover' = enqueued \cap WithStatus("pending") /\ UNCHANGED faults
             \/ leftover' = {} /\ Fault
      BY <2>3, Zenon DEF Join
    <3>2. CASE leftover' = enqueued \cap WithStatus("pending") /\ UNCHANGED faults
      BY <2>1, <3>1, <3>2 DEF TypeOK, WithStatus
    <3>3. CASE leftover' = {} /\ Fault
      BY <2>1, <3>1, <3>3 DEF TypeOK, Fault
    <3> QED BY <3>1, <3>2, <3>3, Zenon
  <2>4. CASE ~token
    <3>1. pool' = "done" /\ UNCHANGED <<heap, leftover, faults>>
      BY <2>4, Zenon DEF Join
    <3>2. faults = 0 => heap = {}
      BY <2>1, <2>4, WorkersAssumption DEF LeftForAReason
    <3>3. faults = 0 => \A j \in enqueued : jobs[j].status # "pending"
      BY <2>1, <2>2, <3>2, Zenon DEF LiveIsHeld
    <3> QED BY <2>1, <2>2, <3>1, <3>2, <3>3 DEF TypeOK
  <2> QED BY <2>3, <2>4, Zenon
<1>10. TypeOK'
  BY <1>e DEF TypeOK, JobTableTypeOK
<1>11. HandsApart'
  BY <1>e, Zenon DEF HandsApart, Free, Holding, Sending
<1>12. OwnRows'
  BY <1>e, Zenon DEF OwnRows, Present
<1>13. StartedLate'
  BY <1>e DEF StartedLate, NoResult, HandsApart, Holding, Sending
<1>14. RowsInStep'
  BY <1>e, Zenon DEF RowsInStep
<1>15. LiveIsHeld'
  BY <1>e, Zenon DEF LiveIsHeld
<1>16. LeftForAReason'
  BY <1>e DEF LeftForAReason
<1>17. RunAndReportedOnce'
  BY <1>e DEF RunAndReportedOnce
<1>18. StaleRowsUntouched'
  BY <1>e, Zenon DEF StaleRowsUntouched
<1>19. ReportsMatchRows'
  BY <1>e DEF ReportsMatchRows
<1> QED BY <1>10, <1>11, <1>12, <1>13, <1>14, <1>15, <1>16, <1>17, <1>18, <1>19, Zenon DEF StreamInv

\* The sweep cancels a job of this run that is still pending.
LEMMA SweepOneKeepsInv ==
  ASSUME StreamInv, NEW j \in JobId, SweepOne(j)
  PROVE  StreamInv'
<1> /\ TypeOK /\ JobTableTypeOK /\ HandsApart /\ OwnRows /\ StartedLate /\ RowsInStep /\ LiveIsHeld
    /\ LeftForAReason /\ RunAndReportedOnce /\ StaleRowsUntouched /\ ReportsMatchRows
  BY DEF StreamInv, TypeOK
<1> /\ enqueued \subseteq JobId /\ heap \subseteq JobId /\ StaleJobs \subseteq JobId
    /\ job \in [WorkerId -> JobId \cup {NoJob}] /\ faults \in Nat /\ failed \in Nat
    /\ results \in [JobId -> [Outcome -> Nat]] /\ started \in [JobId -> Nat]
  BY StaleAssumption DEF TypeOK
<1>1. /\ pool = "sweeping" /\ j \in leftover /\ j \in enqueued /\ j \notin StaleJobs
      /\ \A w \in WorkerId : pc[w] = "exited"
  BY DEF SweepOne, OwnRows, LeftForAReason
<1>e. /\ JobTableTypeOK'
      /\ (jobs'[j].status = jobs[j].status \/ (jobs[j].status \in Live /\ jobs'[j].status = "cancelled"))
      /\ \A i \in JobId : i # j => jobs'[i] = jobs[i]
      /\ faults' \in Nat
      /\ (faults' = 0 => faults = 0 /\ jobs'[j].status \notin Live)
      /\ leftover' = leftover \ {j}
      /\ UNCHANGED <<token, gate, enq, heap, enqueued, pc, job, pre_failed, completed, failed,
                      inflight, results, started, pool, command>>
  <2>1. CASE cancel(j) /\ UNCHANGED faults
    BY <2>1, CancelEffect DEF SweepOne, TypeOK, Live, enqueuer, worker, report
  <2>2. CASE Fault /\ UNCHANGED table
    BY <2>2 DEF SweepOne, Fault, TypeOK, JobTableTypeOK, table, enqueuer, worker, report
  <2> QED BY <2>1, <2>2, Zenon DEF SweepOne
<1>10. TypeOK'
  BY <1>e, <1>1 DEF TypeOK, JobTableTypeOK
<1>11. HandsApart'
  BY <1>e, Zenon DEF HandsApart
<1>12. OwnRows'
  BY <1>e, <1>1, Zenon DEF OwnRows, Present, Live, Terminal
<1>13. StartedLate'
  BY <1>e DEF StartedLate, NoResult
<1>14. RowsInStep'
  BY <1>e, <1>1, Zenon DEF RowsInStep, HandsApart, Holding, Sending
<1>15. LiveIsHeld'
  BY <1>e, <1>1, Zenon DEF LiveIsHeld, Live
<1>16. LeftForAReason'
  BY <1>e, <1>1 DEF LeftForAReason
<1>17. RunAndReportedOnce'
  BY <1>e DEF RunAndReportedOnce
<1>18. StaleRowsUntouched'
  BY <1>e, <1>1, Zenon DEF StaleRowsUntouched
<1>19. ReportsMatchRows'
  BY <1>e, <1>1 DEF ReportsMatchRows, Live, Outcome
<1> QED BY <1>10, <1>11, <1>12, <1>13, <1>14, <1>15, <1>16, <1>17, <1>18, <1>19, Zenon DEF StreamInv

\* process_stream returns when it has swept everything it listed.
LEMMA SweepEndsKeepsInv ==
  ASSUME StreamInv, SweepEnds
  PROVE  StreamInv'
<1> /\ TypeOK /\ JobTableTypeOK /\ HandsApart /\ OwnRows /\ StartedLate /\ RowsInStep /\ LiveIsHeld
    /\ LeftForAReason /\ RunAndReportedOnce /\ StaleRowsUntouched /\ ReportsMatchRows
  BY DEF StreamInv, TypeOK
<1> /\ enqueued \subseteq JobId /\ heap \subseteq JobId /\ StaleJobs \subseteq JobId
    /\ job \in [WorkerId -> JobId \cup {NoJob}] /\ faults \in Nat /\ failed \in Nat
    /\ results \in [JobId -> [Outcome -> Nat]] /\ started \in [JobId -> Nat]
  BY StaleAssumption DEF TypeOK
<1>e. /\ pool = "sweeping"
      /\ leftover = {}
      /\ pool' = "done"
      /\ UNCHANGED <<jobs, now, token, gate, enq, heap, enqueued, pc, job, pre_failed,
                      completed, failed, inflight, results, started, leftover, command, faults>>
  BY Zenon DEF SweepEnds, table, enqueuer, worker, report, main
<1>10. TypeOK'
  BY <1>e DEF TypeOK, JobTableTypeOK
<1>11. HandsApart'
  BY <1>e, Zenon DEF HandsApart
<1>12. OwnRows'
  BY <1>e, Zenon DEF OwnRows, Present
<1>13. StartedLate'
  BY <1>e DEF StartedLate, NoResult
<1>14. RowsInStep'
  BY <1>e, Zenon DEF RowsInStep
<1>15. LiveIsHeld'
  BY <1>e DEF LiveIsHeld
<1>16. LeftForAReason'
  BY <1>e DEF LeftForAReason
<1>17. RunAndReportedOnce'
  BY <1>e DEF RunAndReportedOnce
<1>18. StaleRowsUntouched'
  BY <1>e, Zenon DEF StaleRowsUntouched
<1>19. ReportsMatchRows'
  BY <1>e DEF ReportsMatchRows
<1> QED BY <1>10, <1>11, <1>12, <1>13, <1>14, <1>15, <1>16, <1>17, <1>18, <1>19, Zenon DEF StreamInv

\* Opening the gate wakes the workers that wait for it.
LEMMA GateKeepsInv ==
  ASSUME StreamInv, FireGate
  PROVE  StreamInv'
<1> /\ TypeOK /\ JobTableTypeOK /\ HandsApart /\ OwnRows /\ StartedLate /\ RowsInStep /\ LiveIsHeld
    /\ LeftForAReason /\ RunAndReportedOnce /\ StaleRowsUntouched /\ ReportsMatchRows
  BY DEF StreamInv, TypeOK
<1> /\ enqueued \subseteq JobId /\ heap \subseteq JobId /\ StaleJobs \subseteq JobId
    /\ job \in [WorkerId -> JobId \cup {NoJob}] /\ faults \in Nat /\ failed \in Nat
    /\ results \in [JobId -> [Outcome -> Nat]] /\ started \in [JobId -> Nat]
  BY StaleAssumption DEF TypeOK
<1>e. /\ gate' = TRUE
      /\ pc' \in [WorkerId -> WorkerPc]
      /\ \A w \in WorkerId : pc'[w] = pc[w] \/ (pc[w] = "waiting" /\ pc'[w] = "loop")
      /\ UNCHANGED <<jobs, now, token, enq, heap, enqueued, job, pre_failed, completed, failed,
                      inflight, results, started, pool, leftover, command, faults>>
  BY DEF FireGate, TypeOK, WorkerPc, table, enqueuer, worker, report, main
<1>10. TypeOK'
  BY <1>e DEF TypeOK, JobTableTypeOK
<1>11. HandsApart'
  BY <1>e, Zenon DEF HandsApart, Free, Holding, Sending
<1>12. OwnRows'
  BY <1>e, Zenon DEF OwnRows, Present
<1>13. StartedLate'
  BY <1>e DEF StartedLate, NoResult, HandsApart, Holding, Sending
<1>14. RowsInStep'
  BY <1>e, Zenon DEF RowsInStep, HandsApart, Holding, Sending
<1>15. LiveIsHeld'
  BY <1>e DEF LiveIsHeld
<1>16. LeftForAReason'
  BY <1>e DEF LeftForAReason
<1>17. RunAndReportedOnce'
  BY <1>e DEF RunAndReportedOnce
<1>18. StaleRowsUntouched'
  BY <1>e, Zenon DEF StaleRowsUntouched
<1>19. ReportsMatchRows'
  BY <1>e DEF ReportsMatchRows
<1> QED BY <1>10, <1>11, <1>12, <1>13, <1>14, <1>15, <1>16, <1>17, <1>18, <1>19, Zenon DEF StreamInv

\* Collecting a result, cancelling the token and reading a row leave the rows as they are.
LEMMA SurroundingsKeepInv ==
  ASSUME StreamInv, Collect \/ CancelToken \/ (\E j \in JobId : CommandReads(j))
  PROVE  StreamInv'
<1> /\ TypeOK /\ JobTableTypeOK /\ HandsApart /\ OwnRows /\ StartedLate /\ RowsInStep /\ LiveIsHeld
    /\ LeftForAReason /\ RunAndReportedOnce /\ StaleRowsUntouched /\ ReportsMatchRows
  BY DEF StreamInv, TypeOK
<1> /\ enqueued \subseteq JobId /\ heap \subseteq JobId /\ StaleJobs \subseteq JobId
    /\ job \in [WorkerId -> JobId \cup {NoJob}] /\ faults \in Nat /\ failed \in Nat
    /\ results \in [JobId -> [Outcome -> Nat]] /\ started \in [JobId -> Nat]
  BY StaleAssumption DEF TypeOK
<1>e. /\ token' \in BOOLEAN
      /\ (token => token')
      /\ inflight' \in Nat
      /\ command' \in JobId \cup {NoJob}
      /\ (command' # NoJob => command' \in enqueued)
      /\ UNCHANGED <<jobs, now, gate, enq, heap, enqueued, pc, job, pre_failed, completed,
                      failed, results, started, pool, leftover, faults>>
  <2>1. CASE Collect
    <3>1. /\ UNCHANGED <<jobs, now, token, gate, enq, heap, enqueued, pc, job, pre_failed, completed, failed, results, started, pool, leftover, command, faults>>
          /\ inflight > 0 /\ inflight' = inflight - 1
      BY <2>1, Zenon DEF Collect, table, enqueuer, worker, main
    <3>2. inflight \in Nat /\ token \in BOOLEAN /\ command \in JobId \cup {NoJob}
      BY DEF TypeOK
    <3>3. inflight' \in Nat
      BY <3>1, <3>2
    <3>4. command # NoJob => command \in enqueued
      BY Zenon DEF OwnRows
    <3> QED BY <3>1, <3>2, <3>3, <3>4, Zenon
  <2>2. CASE CancelToken
    BY <2>2 DEF CancelToken, TypeOK, OwnRows, table, enqueuer, worker, report, main
  <2>3. CASE \E j \in JobId : CommandReads(j)
    BY <2>3 DEF CommandReads, TypeOK, table, enqueuer, worker, report
  <2> QED BY <2>1, <2>2, <2>3, Zenon
<1>10. TypeOK'
  BY <1>e, NoJobAssumption DEF TypeOK, JobTableTypeOK
<1>11. HandsApart'
  BY <1>e, Zenon DEF HandsApart
<1>12. OwnRows'
  BY <1>e, NoJobAssumption, Zenon DEF OwnRows, Present
<1>13. StartedLate'
  BY <1>e DEF StartedLate, NoResult
<1>14. RowsInStep'
  BY <1>e, Zenon DEF RowsInStep
<1>15. LiveIsHeld'
  BY <1>e DEF LiveIsHeld
<1>16. LeftForAReason'
  BY <1>e, NoJobAssumption DEF LeftForAReason
<1>17. RunAndReportedOnce'
  BY <1>e DEF RunAndReportedOnce
<1>18. StaleRowsUntouched'
  BY <1>e, Zenon DEF StaleRowsUntouched
<1>19. ReportsMatchRows'
  BY <1>e DEF ReportsMatchRows
<1> QED BY <1>10, <1>11, <1>12, <1>13, <1>14, <1>15, <1>16, <1>17, <1>18, <1>19, Zenon DEF StreamInv

\* A command ends a row of this run, whatever has become of it since it was read.
LEMMA CommandKeepsInv ==
  ASSUME StreamInv, CommandWrites
  PROVE  StreamInv'
<1> /\ TypeOK /\ JobTableTypeOK /\ HandsApart /\ OwnRows /\ StartedLate /\ RowsInStep /\ LiveIsHeld
    /\ LeftForAReason /\ RunAndReportedOnce /\ StaleRowsUntouched /\ ReportsMatchRows
  BY DEF StreamInv, TypeOK
<1> /\ enqueued \subseteq JobId /\ heap \subseteq JobId /\ StaleJobs \subseteq JobId
    /\ job \in [WorkerId -> JobId \cup {NoJob}] /\ faults \in Nat /\ failed \in Nat
    /\ results \in [JobId -> [Outcome -> Nat]] /\ started \in [JobId -> Nat]
  BY StaleAssumption DEF TypeOK
<1>1. command \in enqueued /\ command \in JobId /\ Present(command) /\ command \notin StaleJobs
  BY DEF CommandWrites, TypeOK, OwnRows
<1>e. /\ JobTableTypeOK'
      /\ jobs'[command].status = "cancelled"
      /\ \A i \in JobId : i # command => jobs'[i] = jobs[i]
      /\ command' = NoJob
      /\ UNCHANGED <<token, gate, enq, heap, enqueued, pc, job, pre_failed, completed, failed,
                      inflight, results, started, pool, leftover, faults>>
  <2>1. /\ JobTableTypeOK' /\ jobs'[command].status = "cancelled"
        /\ \A i \in JobId : i # command => jobs'[i] = jobs[i]
    BY <1>1, UpdateEffect, Zenon DEF CommandWrites, Terminal
  <2> QED BY <2>1, Zenon DEF CommandWrites, enqueuer, worker, report
<1>10. TypeOK'
  BY <1>e, <1>1 DEF TypeOK, JobTableTypeOK
<1>11. HandsApart'
  BY <1>e, Zenon DEF HandsApart
<1>12. OwnRows'
  BY <1>e, <1>1, Zenon DEF OwnRows, Present, Live, Terminal
<1>13. StartedLate'
  BY <1>e DEF StartedLate, NoResult
<1>14. RowsInStep'
  BY <1>e, <1>1, Zenon DEF RowsInStep, HandsApart, Holding, Sending
<1>15. LiveIsHeld'
  BY <1>e, <1>1 DEF LiveIsHeld
<1>16. LeftForAReason'
  BY <1>e DEF LeftForAReason
<1>17. RunAndReportedOnce'
  BY <1>e DEF RunAndReportedOnce
<1>18. StaleRowsUntouched'
  BY <1>e, <1>1, Zenon DEF StaleRowsUntouched
<1>19. ReportsMatchRows'
  BY <1>e, <1>1 DEF ReportsMatchRows, Outcome
<1> QED BY <1>10, <1>11, <1>12, <1>13, <1>14, <1>15, <1>16, <1>17, <1>18, <1>19, Zenon DEF StreamInv

\* Every step keeps the invariant.
LEMMA StreamInvNext == StreamInv /\ [Next]_vars => StreamInv'
<1> SUFFICES ASSUME StreamInv, [Next]_vars PROVE StreamInv'
  OBVIOUS
<1>1. CASE EnqueuerStep
  BY <1>1, EnqueueKeepsInv, EnqueuerKeepsInv, Zenon DEF EnqueuerStep
<1>2. ASSUME NEW w \in WorkerId, WorkerStep(w) PROVE StreamInv'
  <2>1. CASE WaitForGate(w)
    BY <2>1, MoveKeepsInv, Zenon DEF WaitForGate, Free
  <2>2. CASE ExitWhenCancelled(w)
    BY <2>2, MoveKeepsInv, Zenon DEF ExitWhenCancelled, Free
  <2>3. CASE \E j \in JobId : Pop(w, j)
    BY <2>3, PopKeepsInv, Zenon
  <2>4. CASE PopEmpty(w)
    BY <2>4, MoveKeepsInv, Zenon DEF PopEmpty, Free
  <2>5. CASE CheckDone(w)
    BY <2>5, MoveKeepsInv, Zenon DEF CheckDone, Free
  <2>6. CASE Claim(w) \/ ClaimNone(w) \/ ClaimFails(w)
    BY <2>6, ClaimKeepsInv, DropKeepsInv, Zenon
  <2>7. CASE GiveUp(w) \/ StartProcessor(w)
    BY <2>7, GiveUpKeepsInv, StartKeepsInv, Zenon
  <2>8. CASE ProcessorOk(w) \/ CompleteFails(w) \/ ProcessorErr(w) \/ ProcessorPanics(w)
    BY <2>8, CompleteKeepsInv, FailKeepsInv, PanicKeepsInv, Zenon
  <2>9. CASE SendResult(w) \/ AfterJob(w)
    BY <2>9, SendKeepsInv, AfterKeepsInv, Zenon
  <2> QED BY <1>2, <2>1, <2>2, <2>3, <2>4, <2>5, <2>6, <2>7, <2>8, <2>9, Zenon DEF WorkerStep
<1>3. CASE MainStep
  BY <1>3, JoinKeepsInv, SweepOneKeepsInv, SweepEndsKeepsInv, Zenon DEF MainStep
<1>4. CASE FireGate \/ CommandWrites
  BY <1>4, GateKeepsInv, CommandKeepsInv, Zenon
<1>5. CASE Collect \/ CancelToken \/ (\E j \in JobId : CommandReads(j))
  BY <1>5, SurroundingsKeepInv, Zenon
<1>6. CASE UNCHANGED vars
  <2> USE <1>6 DEF vars, table, enqueuer, worker, report, main
  <2>1. TypeOK' /\ HandsApart' /\ OwnRows'
    BY DEF StreamInv, TypeOK, JobTableTypeOK, HandsApart, OwnRows, Present
  <2>2. StartedLate' /\ RowsInStep'
    BY Zenon DEF StreamInv, StartedLate, NoResult, RowsInStep
  <2>3. LiveIsHeld' /\ LeftForAReason'
    BY Zenon DEF StreamInv, LiveIsHeld, LeftForAReason
  <2>4. RunAndReportedOnce' /\ StaleRowsUntouched' /\ ReportsMatchRows'
    BY Zenon DEF StreamInv, RunAndReportedOnce, StaleRowsUntouched, ReportsMatchRows
  <2> QED BY <2>1, <2>2, <2>3, <2>4, Zenon DEF StreamInv
<1> QED BY <1>1, <1>2, <1>3, <1>4, <1>5, <1>6, Zenon DEF Next

\* A job of a stream that has returned is ended: it is in nobody's hands any more.
LEMMA ReturnedIsSettled == StreamInv => NothingLeftBehind
<1> SUFFICES ASSUME StreamInv, pool = "done", faults = 0, NEW j \in enqueued PROVE is_terminal(j)
  BY Zenon DEF NothingLeftBehind
<1>1. heap = {} /\ leftover = {} /\ \A w \in WorkerId : pc[w] = "exited"
  BY DEF StreamInv, LeftForAReason
<1>2. jobs[j].status \notin {"pending", "running"}
  BY <1>1, Zenon DEF StreamInv, LiveIsHeld
<1> QED BY <1>2, Zenon DEF StreamInv, OwnRows, Present, Live, is_terminal

-----------------------------------------------------------------------------
\* process_stream runs and reports each job at most once, leaves the rows of earlier
\* runs alone and, when it returns, leaves no job of its own pending or running, for
\* every number of jobs, workers and failing storage calls.
THEOREM StreamAccountsForJobs == Spec => []EveryJobAccounted
<1>1. StreamInv => EveryJobAccounted
  BY ReturnedIsSettled, Zenon DEF StreamInv, EveryJobAccounted
<1> QED BY <1>1, StreamInvInit, StreamInvNext, PTL DEF Spec

\* What is reported of a job is what its row says, unless a command cancelled it since.
THEOREM StreamReportsMatchRows == Spec => []ReportsMatchRows
<1>1. StreamInv => ReportsMatchRows
  BY Zenon DEF StreamInv
<1> QED BY <1>1, StreamInvInit, StreamInvNext, PTL DEF Spec
=============================================================================
