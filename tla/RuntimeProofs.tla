--------------------------- MODULE RuntimeProofs ----------------------------
(***************************************************************************)
(* What the runtime's own machinery promises, for every value of its        *)
(* limits: the statistics sink loses no record silently, a call of an       *)
(* external tool ends with the child reaped and its output complete or cut  *)
(* at the cap, and a batch of jobs accounts for every item within its       *)
(* worker and device limits.                                                *)
(***************************************************************************)
EXTENDS StatsSink, ToolRunner, WorkerBatch, TLAPS, FiniteSetTheorems

-----------------------------------------------------------------------------
(* The statistics sink: for every capacity, batch size, cap and number of    *)
(* records.                                                                  *)

\* The inductive invariant: the types, the balance and the two caps.
SinkInv == SinkTypeOK /\ NeverSilentlyLost /\ MemoryBounded

\* What cap_buffer leaves of a buffer is a number of records within the cap,
\* and it evicts the rest.
LEMMA CappedBounds ==
  ASSUME NEW n \in Nat
  PROVE  /\ Capped(n) \in Nat /\ Capped(n) <= MaxBuffer
         /\ Capped(n) <= n /\ n - Capped(n) \in Nat
BY SinkAssumption DEF Capped

\* A flush of n records, lost of which were evicted before it, moves the n to
\* the store, to the loss counter or back to the buffer, and nowhere else.
LEMMA FlushOutcomes ==
  ASSUME SinkTypeOK, NEW STATE n, n \in Nat, NEW STATE lost, lost \in Nat,
         Flush(n, lost)
  PROVE  /\ failures' \in Nat
         /\ \/ buf' = 0 /\ stored' = stored + n /\ evicted' = evicted + lost
            \/ buf' = 0 /\ stored' = stored /\ evicted' = evicted + lost + n
            \/ buf' = n /\ stored' = stored /\ evicted' = evicted + lost
<1>1. CASE FlushOk(n, lost)
  BY <1>1, SinkAssumption, Zenon DEF FlushOk, SinkTypeOK
<1>2. CASE FlushFails(n, lost)
  <2>1. CASE failures + 1 >= MaxFailures
    BY <1>2, <2>1, SinkAssumption DEF FlushFails, SinkTypeOK
  <2>2. CASE ~(failures + 1 >= MaxFailures)
    BY <1>2, <2>2, SinkAssumption DEF FlushFails, SinkTypeOK
  <2> QED BY <2>1, <2>2, Zenon
<1> QED BY <1>1, <1>2, Zenon DEF Flush

\* The accounting invariant holds initially.
LEMMA SinkInvInit == SinkInit => SinkInv
BY SinkAssumption DEF SinkInit, SinkInv, SinkTypeOK, NeverSilentlyLost, MemoryBounded

\* The accounting invariant is preserved by every step of bus and writer.
LEMMA SinkInvNext == SinkInv /\ [SinkNext]_sinkVars => SinkInv'
<1> SUFFICES ASSUME SinkInv, [SinkNext]_sinkVars PROVE SinkInv'
  OBVIOUS
<1> USE SinkAssumption DEF SinkInv, SinkTypeOK, NeverSilentlyLost, MemoryBounded
<1>1. CASE Record
  BY <1>1 DEF Record
<1>2. CASE CloseSink
  BY <1>2, Zenon DEF CloseSink
<1>3. CASE Receive
  <2> DEFINE n == Capped(buf + 1)
             lost == buf + 1 - Capped(buf + 1)
  <2>1. /\ n \in Nat /\ n <= MaxBuffer /\ lost \in Nat /\ n + lost = buf + 1
    <3>1. buf + 1 \in Nat
      OBVIOUS
    <3>2. /\ Capped(buf + 1) \in Nat /\ Capped(buf + 1) <= MaxBuffer
          /\ Capped(buf + 1) <= buf + 1 /\ buf + 1 - Capped(buf + 1) \in Nat
      BY <3>1, CappedBounds
    <3> QED BY <3>1, <3>2
  <2>2. CASE Flush(n, lost)
    <3> HIDE DEF n, lost
    <3>1. /\ failures' \in Nat
          /\ \/ buf' = 0 /\ stored' = stored + n /\ evicted' = evicted + lost
             \/ buf' = 0 /\ stored' = stored /\ evicted' = evicted + lost + n
             \/ buf' = n /\ stored' = stored /\ evicted' = evicted + lost
      BY <2>1, <2>2, FlushOutcomes, Zenon
    <3>2. /\ channel > 0 /\ channel' = channel - 1
          /\ UNCHANGED <<open, sent, dropped, writer, attempts>>
      BY <1>3, Zenon DEF Receive
    <3>3. lost = buf + 1 - n
      BY <2>1
    <3>4. CASE buf' = 0 /\ stored' = stored + n /\ evicted' = evicted + lost
      BY <2>1, <3>1, <3>2, <3>3, <3>4
    <3>5. CASE buf' = 0 /\ stored' = stored /\ evicted' = evicted + lost + n
      BY <2>1, <3>1, <3>2, <3>3, <3>5
    <3>6. CASE buf' = n /\ stored' = stored /\ evicted' = evicted + lost
      BY <2>1, <3>1, <3>2, <3>3, <3>6
    <3> QED BY <3>1, <3>4, <3>5, <3>6, Zenon
  <2>3. CASE buf' = n /\ evicted' = evicted + lost /\ UNCHANGED <<stored, failures>>
    <3> HIDE DEF n, lost
    <3> QED BY <1>3, <2>1, <2>3 DEF Receive
  <2> QED BY <1>3, <2>2, <2>3, Zenon DEF Receive
<1>4. CASE FlushOnTimeout
  <2>1. Flush(buf, 0) /\ buf \in Nat /\ 0 \in Nat
    BY <1>4, Zenon DEF FlushOnTimeout
  <2>2. /\ failures' \in Nat
        /\ \/ buf' = 0 /\ stored' = stored + buf /\ evicted' = evicted
           \/ buf' = 0 /\ stored' = stored /\ evicted' = evicted + buf
           \/ buf' = buf /\ stored' = stored /\ evicted' = evicted
    BY <2>1, FlushOutcomes
  <2>3. UNCHANGED <<open, sent, channel, dropped, writer, attempts>>
    BY <1>4, Zenon DEF FlushOnTimeout
  <2> QED BY <2>2, <2>3
<1>5. CASE Disconnected
  BY <1>5, Zenon DEF Disconnected
<1>6. CASE FinalFlush
  <2>1. Flush(buf, 0) /\ buf \in Nat /\ 0 \in Nat
    BY <1>6, Zenon DEF FinalFlush
  <2>2. /\ failures' \in Nat
        /\ \/ buf' = 0 /\ stored' = stored + buf /\ evicted' = evicted
           \/ buf' = 0 /\ stored' = stored /\ evicted' = evicted + buf
           \/ buf' = buf /\ stored' = stored /\ evicted' = evicted
    BY <2>1, FlushOutcomes
  <2>3. attempts' = attempts + 1 /\ UNCHANGED <<open, sent, channel, dropped, writer>>
    BY <1>6, Zenon DEF FinalFlush
  <2> QED BY <2>2, <2>3
<1>7. CASE FinalExit
  BY <1>7 DEF FinalExit
<1>8. CASE UNCHANGED sinkVars
  BY <1>8, Zenon DEF sinkVars
<1> QED BY <1>1, <1>2, <1>3, <1>4, <1>5, <1>6, <1>7, <1>8, Zenon DEF SinkNext, WriterStep

\* No statistics record is ever silently lost, and the sink's memory stays within
\* its two caps however long the store fails: for every capacity, cap and number
\* of records, each record handed to the sink is queued, buffered, stored or
\* counted as lost.
THEOREM NoRecordSilentlyLost == SinkSpec => []RecordsAccounted
<1>1. SinkInv => RecordsAccounted
  BY Zenon DEF SinkInv, RecordsAccounted
<1> QED BY <1>1, SinkInvInit, SinkInvNext, PTL DEF SinkSpec

-----------------------------------------------------------------------------
(* The runner of external tools: for every output and every cap.             *)

\* Between spawn and return: every chunk a tool wrote is in its pipe, captured or
\* counted as truncated; a reader at its end has an empty pipe nobody writes to;
\* an answer with output stands for a child that exited by itself, and once it is
\* returned both readers are at their end.
ToolInv ==
  /\ mode \in {"blocking", "async"}
  /\ child \in {"none", "running", "exited", "dead"}
  /\ written \in [Stream -> Nat] /\ inPipe \in [Stream -> Nat]
  /\ captured \in [Stream -> Nat] /\ truncated \in [Stream -> Nat]
  /\ \A s \in Stream : captured[s] + truncated[s] + inPipe[s] = written[s]
  /\ CaptureBounded
  /\ reader \in [Stream -> {"reading", "eof"}]
  /\ \A s \in Stream : reader[s] = "eof" => inPipe[s] = 0 /\ child \in {"exited", "dead"}
  /\ runner \in {"ready", "waiting", "killing", "joining", "returned"}
  /\ runner \in {"joining", "returned"} => child # "running"
  /\ runner = "ready" => child = "none" /\ answer = "none"
  /\ runner \in {"waiting", "killing"} => child # "none" /\ answer # "output"
  /\ runner = "joining" /\ answer = "output" => child = "exited"
  /\ runner = "returned" /\ answer = "output" => \A s \in Stream : reader[s] = "eof"

\* What a reader takes out of the pipe it keeps up to its limit and counts beyond.
LEMMA CaptureMoves ==
  ASSUME ToolInv, NEW s \in Stream, Capture(s, inPipe[s])
  PROVE  \E k \in Nat :
           /\ k <= inPipe[s] /\ captured[s] + k <= MaxCapture
           /\ captured' = [captured EXCEPT ![s] = @ + k]
           /\ truncated' = [truncated EXCEPT ![s] = @ + inPipe[s] - k]
<1> DEFINE room == MaxCapture - captured[s]
           k == IF inPipe[s] <= room THEN inPipe[s] ELSE room
<1>1. k \in Nat /\ k <= inPipe[s] /\ captured[s] + k <= MaxCapture
  BY ToolAssumption DEF ToolInv, CaptureBounded
<1>2. /\ captured' = [captured EXCEPT ![s] = @ + k]
      /\ truncated' = [truncated EXCEPT ![s] = @ + inPipe[s] - k]
  BY Zenon DEF Capture
<1> QED BY <1>1, <1>2, Zenon

\* The invariant holds before the tool is started.
LEMMA ToolInvInit == ToolInit => ToolInv
BY ToolAssumption DEF ToolInit, ToolInv, CaptureBounded, Stream

\* Every step of the tool, its readers and its caller keeps the invariant.
LEMMA ToolInvNext == ToolInv /\ [ToolNext]_toolVars => ToolInv'
<1> SUFFICES ASSUME ToolInv, [ToolNext]_toolVars PROVE ToolInv'
  OBVIOUS
<1> USE DEF ToolInv, CaptureBounded
<1>1. ASSUME NEW s \in Stream, ReadPipe(s) PROVE ToolInv'
  <2>1. PICK k \in Nat :
           /\ k <= inPipe[s] /\ captured[s] + k <= MaxCapture
           /\ captured' = [captured EXCEPT ![s] = @ + k]
           /\ truncated' = [truncated EXCEPT ![s] = @ + inPipe[s] - k]
    BY <1>1, CaptureMoves, Zenon DEF ReadPipe
  <2>2. /\ inPipe' = [inPipe EXCEPT ![s] = 0] /\ reader[s] = "reading" /\ inPipe[s] > 0
        /\ UNCHANGED <<mode, child, heir, written, reader, runner, answer>>
    BY <1>1, Zenon DEF ReadPipe
  <2> QED BY <2>1, <2>2
<1>2. ASSUME NEW s \in Stream, ReadEof(s) PROVE ToolInv'
  BY <1>2, Zenon DEF ReadEof
<1>3. ASSUME NEW s \in Stream, ChildWrites(s) PROVE ToolInv'
  BY <1>3 DEF ChildWrites
<1>4. CASE Spawn
  BY <1>4, Zenon DEF Spawn
<1>5. CASE WaitEnds
  BY <1>5, Zenon DEF WaitEnds
<1>6. ASSUME NEW why \in {"timeout", "cancelled"}, TimesOut(why) PROVE ToolInv'
  BY <1>6, Zenon DEF TimesOut
<1>7. CASE Kill
  BY <1>7, Zenon DEF Kill
<1>8. CASE JoinReaders
  BY <1>8, Zenon DEF JoinReaders
<1>9. CASE ChildForks \/ ChildExits \/ HeirExits \/ UNCHANGED toolVars
  BY <1>9, Zenon DEF ChildForks, ChildExits, HeirExits, toolVars
<1> QED
  BY <1>1, <1>2, <1>3, <1>4, <1>5, <1>6, <1>7, <1>8, <1>9, Zenon DEF ToolNext, ReaderStep, RunnerStep

\* However the child, its two pipes, a process it left behind, the timeout and a
\* cancellation race, a call of a tool that succeeds has the whole output, no call
\* leaves its child running, and no capture grows past its limit: for every size
\* of pipe, limit and amount of output.
THEOREM ToolCallsAreSound == ToolSpec => []ToolCallSound
<1>1. ToolInv => ToolCallSound
  BY DEF ToolInv, ToolCallSound, OutputComplete, ChildNeverOutlivesCall
<1> QED BY <1>1, ToolInvInit, ToolInvNext, PTL DEF ToolSpec

-----------------------------------------------------------------------------
(* A batch of the worker pool: for every number of items, permits, devices   *)
(* and limits.                                                               *)

USE DEF sweep

Spawned == {j \in JobId : task[j] # "none"}

BatchTypeOK ==
  /\ JobTableTypeOK
  /\ stage \in {"enqueue", "spawn", "sweep", "collect", "returned"}
  /\ left \in Nat /\ refused \in Nat /\ ids \in Seq(JobId) /\ swept \in Nat
  /\ task \in [JobId -> TaskBusy \cup {"none", "ended", "panicked"}]
  /\ device \in [JobId -> Resource \cup {NoDevice}]
  /\ outcomes \in [JobId -> Seq({"success", "failure", "already_claimed"})]

\* A job waiting to be spawned is listed once and has a row but no task.
ListedOnce ==
  /\ \A i \in 1..Len(ids) : task[ids[i]] = "none" /\ jobs[ids[i]].status # "unused"
  /\ \A i, k \in 1..Len(ids) : ids[i] = ids[k] => i = k
  /\ \A j \in JobId : task[j] # "none" => jobs[j].status # "unused"

\* Every item is still to be enqueued, was refused, is listed or has a task.
ItemsCounted ==
  /\ IsFiniteSet(Spawned)
  /\ left + refused + Cardinality(Spawned) + Len(ids) = BatchItems

\* A task reports when it ends, and not before.
ReportsAtEnd == \A j \in JobId : Len(outcomes[j]) = IF task[j] = "ended" THEN 1 ELSE 0

\* What the stages of process_batch have left behind them.
StagesDone ==
  /\ stage # "enqueue" => left = 0
  /\ stage \in {"enqueue", "spawn"} => swept = 0
  /\ \A i \in 1..Len(ids) : i <= swept => jobs[ids[i]].status # "pending" \/ ids[i] \in uncancelled
  /\ stage \in {"collect", "returned"} => swept = Len(ids)
  /\ stage = "returned" => Busy = {}

\* Only a plan that runs holds a device.
HeldWhileWorking == \A j \in JobId : device[j] # NoDevice => task[j] = "working"

BatchInv ==
  /\ BatchTypeOK /\ ListedOnce /\ ItemsCounted /\ ReportsAtEnd /\ StagesDone
  /\ HeldWhileWorking /\ PoolWithinLimits

\* Nothing has been enqueued yet.
LEMMA BatchInvInit == BatchInit => BatchInv
<1> SUFFICES ASSUME BatchInit PROVE BatchInv
  OBVIOUS
<1>1. UnusedRow \in JobRow
  BY RowType, Zenon DEF UnusedRow, Status
<1>2. BatchTypeOK
  BY <1>1, BatchAssumption DEF BatchInit, BatchTypeOK, JobTableInit, JobTableTypeOK
<1>3. Spawned = {} /\ Busy = {} /\ \A r \in Resource : Holders(r) = {}
  BY BatchAssumption, Zenon DEF BatchInit, Spawned, Busy, TaskBusy, Holders
<1>4. ItemsCounted
  BY <1>3, FS_EmptySet, BatchAssumption DEF BatchInit, ItemsCounted
<1>5. PoolWithinLimits
  BY <1>3, FS_EmptySet, BatchAssumption DEF PoolWithinLimits, Limited
<1>6. ListedOnce /\ ReportsAtEnd /\ StagesDone /\ HeldWhileWorking
  BY <1>3 DEF BatchInit, ListedOnce, ReportsAtEnd, StagesDone, HeldWhileWorking
<1> QED BY <1>2, <1>4, <1>5, <1>6, Zenon DEF BatchInv

\* The tasks and the devices in use are finite sets.
LEMMA InUseIsFinite ==
  ASSUME BatchInv
  PROVE  /\ IsFiniteSet(Busy) /\ Cardinality(Busy) \in Nat
         /\ \A r \in Resource : IsFiniteSet(Holders(r)) /\ Cardinality(Holders(r)) \in Nat
<1>1. Busy \in SUBSET Spawned /\ \A r \in Resource : Holders(r) \in SUBSET Spawned
  BY BatchAssumption, Zenon DEF BatchInv, Busy, Spawned, TaskBusy, Holders, HeldWhileWorking
<1> QED BY <1>1, FS_Subset, FS_CardinalityType, Zenon DEF BatchInv, ItemsCounted

\* Giving devices back never breaks a limit.
LEMMA ReleaseKeepsLimits ==
  ASSUME BatchInv, \A i \in JobId : device'[i] = device[i] \/ device'[i] = NoDevice
  PROVE  \A r \in Resource : Limited(r) => Cardinality(Holders(r)') <= Limit[r]
<1> SUFFICES ASSUME NEW r \in Resource, Limited(r)
             PROVE  Cardinality(Holders(r)') <= Limit[r]
  OBVIOUS
<1>1. Holders(r)' \in SUBSET Holders(r)
  BY BatchAssumption, Zenon DEF Holders
<1>2. IsFiniteSet(Holders(r)) /\ Cardinality(Holders(r)) \in Nat
  BY InUseIsFinite, Zenon
<1>3. Cardinality(Holders(r)') <= Cardinality(Holders(r)) /\ IsFiniteSet(Holders(r)')
  BY <1>1, <1>2, FS_Subset, Zenon
<1>4. Cardinality(Holders(r)') \in Nat
  BY <1>3, FS_CardinalityType, Zenon
<1>5. Cardinality(Holders(r)) <= Limit[r] /\ Limit[r] \in Nat
  BY BatchAssumption, Zenon DEF BatchInv, PoolWithinLimits
<1> QED BY <1>2, <1>3, <1>4, <1>5

\* A task that moves on, or ends with its one report, keeps the books: its job
\* is not listed, and it was counted when it was spawned.
LEMMA TaskKeepsInv ==
  ASSUME BatchInv, NEW j \in JobId, NEW t \in TaskBusy \cup {"ended", "panicked"},
         task[j] \in TaskBusy, task' = [task EXCEPT ![j] = t],
         JobTableTypeOK', jobs'[j].status # "unused",
         \A i \in JobId : i # j => jobs'[i] = jobs[i],
         UNCHANGED <<stage, left, ids, refused, sweep>>,
         outcomes' \in [JobId -> Seq({"success", "failure", "already_claimed"})],
         Len(outcomes'[j]) = IF t = "ended" THEN 1 ELSE 0,
         \A i \in JobId : i # j => outcomes'[i] = outcomes[i],
         device' \in [JobId -> Resource \cup {NoDevice}], HeldWhileWorking',
         \A r \in Resource : Limited(r) => Cardinality(Holders(r)') <= Limit[r]
  PROVE  BatchInv'
<1> USE DEF BatchInv
<1>1. BatchTypeOK'
  BY Zenon DEF BatchTypeOK
<1>2. \A i \in 1..Len(ids) : ids[i] \in JobId /\ ids[i] # j
  BY DEF BatchTypeOK, ListedOnce, TaskBusy
<1>3. ListedOnce'
  <2>1. \A i \in 1..Len(ids) : task'[ids[i]] = "none" /\ jobs'[ids[i]].status # "unused"
    BY <1>2, Zenon DEF ListedOnce, BatchTypeOK
  <2>2. \A i \in JobId : task'[i] # "none" => jobs'[i].status # "unused"
    BY Zenon DEF ListedOnce, BatchTypeOK
  <2> QED BY <2>1, <2>2, Zenon DEF ListedOnce
<1>4. Spawned' = Spawned
  BY Zenon DEF Spawned, BatchTypeOK, TaskBusy
<1>5. ItemsCounted'
  BY <1>4, Zenon DEF ItemsCounted
<1>6. ReportsAtEnd'
  BY Zenon DEF ReportsAtEnd, BatchTypeOK
<1>7. StagesDone'
  <2>1. stage # "returned"
    BY Zenon DEF StagesDone, Busy
  <2> QED BY <1>2, <2>1, Zenon DEF StagesDone, BatchTypeOK
<1>8. PoolWithinLimits'
  <2>1. Busy' \in SUBSET Busy
    BY Zenon DEF Busy, BatchTypeOK
  <2>2. IsFiniteSet(Busy) /\ Cardinality(Busy) \in Nat
    BY InUseIsFinite, Zenon
  <2>3. Cardinality(Busy') <= Cardinality(Busy) /\ IsFiniteSet(Busy')
    BY <2>1, <2>2, FS_Subset, Zenon
  <2>4. Cardinality(Busy') \in Nat
    BY <2>3, FS_CardinalityType, Zenon
  <2>5. Cardinality(Busy') <= Permits
    BY <2>2, <2>3, <2>4, BatchAssumption DEF PoolWithinLimits
  <2> QED BY <2>5, Zenon DEF PoolWithinLimits, Limited
<1> QED BY <1>1, <1>3, <1>5, <1>6, <1>7, <1>8, Zenon

\* The ways a task ends, with its report, its device given back.
LEMMA FinishKeepsInv ==
  ASSUME BatchInv, NEW j \in JobId, NEW result \in {"success", "failure", "already_claimed"},
         task[j] \in TaskBusy, Finish(j, result),
         JobTableTypeOK', jobs'[j].status # "unused",
         \A i \in JobId : i # j => jobs'[i] = jobs[i],
         UNCHANGED <<stage, left, ids, refused, sweep>>,
         \/ task[j] # "working" /\ UNCHANGED device
         \/ device' = [device EXCEPT ![j] = NoDevice]
  PROVE  BatchInv'
<1>1. /\ outcomes' \in [JobId -> Seq({"success", "failure", "already_claimed"})]
      /\ Len(outcomes'[j]) = 1 /\ \A i \in JobId : i # j => outcomes'[i] = outcomes[i]
  <2>1. outcomes[j] \in Seq({"success", "failure", "already_claimed"}) /\ Len(outcomes[j]) = 0
    BY Zenon DEF BatchInv, BatchTypeOK, ReportsAtEnd, TaskBusy
  <2>2. /\ Append(outcomes[j], result) \in Seq({"success", "failure", "already_claimed"})
        /\ Len(Append(outcomes[j], result)) = 1
    BY <2>1
  <2> QED BY <2>2, Zenon DEF Finish, BatchInv, BatchTypeOK
<1>2. task' = [task EXCEPT ![j] = "ended"]
  BY Zenon DEF Finish
<1>3. /\ device' \in [JobId -> Resource \cup {NoDevice}] /\ HeldWhileWorking'
      /\ \A i \in JobId : device'[i] = device[i] \/ device'[i] = NoDevice
  BY <1>2, Zenon DEF BatchInv, BatchTypeOK, HeldWhileWorking
<1>4. \A r \in Resource : Limited(r) => Cardinality(Holders(r)') <= Limit[r]
  BY <1>3, ReleaseKeepsLimits, Zenon
<1> QED BY <1>1, <1>2, <1>3, <1>4, TaskKeepsInv, Zenon

\* A spawn takes the first job off the list and a place of the pool.
LEMMA SpawnKeepsInv == BatchInv /\ SpawnTask => BatchInv'
<1> SUFFICES ASSUME BatchInv, SpawnTask PROVE BatchInv'
  OBVIOUS
<1> DEFINE h == Head(ids)
<1>1. /\ ids \in Seq(JobId) /\ Len(ids) \in Nat \ {0} /\ h = ids[1] /\ h \in JobId
      /\ Tail(ids) \in Seq(JobId) /\ Len(Tail(ids)) = Len(ids) - 1
      /\ \A i \in 1..Len(Tail(ids)) : Tail(ids)[i] = ids[i + 1]
  BY DEF BatchInv, BatchTypeOK, SpawnTask
<1>2. task[h] = "none" /\ jobs[h].status # "unused"
      /\ \A i \in 2..Len(ids) : ids[i] # h
  BY <1>1 DEF BatchInv, ListedOnce
<1> HIDE DEF h
<1>3. /\ task' = [task EXCEPT ![h] = "start"] /\ ids' = Tail(ids) /\ stage = "spawn"
      /\ Cardinality(Busy) < Permits
      /\ UNCHANGED <<jobs, now, stage, left, device, outcomes, refused, sweep>>
  BY Zenon DEF SpawnTask, h
<1>4. BatchTypeOK'
  BY <1>1, <1>3, Zenon DEF BatchInv, BatchTypeOK, JobTableTypeOK, TaskBusy
<1>5. ListedOnce'
  <2>1. \A i \in 1..Len(ids') : /\ i + 1 \in 1..Len(ids) /\ ids'[i] = ids[i + 1]
                                /\ ids[i + 1] # h /\ ids[i + 1] \in JobId
    BY <1>1, <1>2, <1>3
  <2>2. \A i \in 1..Len(ids') : task'[ids'[i]] = "none" /\ jobs'[ids'[i]].status # "unused"
    BY <1>3, <2>1 DEF BatchInv, BatchTypeOK, ListedOnce
  <2>3. \A i, k \in 1..Len(ids') : ids'[i] = ids'[k] => i = k
    <3> SUFFICES ASSUME NEW i \in 1..Len(ids'), NEW k \in 1..Len(ids'), ids'[i] = ids'[k]
                 PROVE  i = k
      OBVIOUS
    <3>1. i + 1 = k + 1
      BY <2>1, Zenon DEF BatchInv, ListedOnce
    <3> QED BY <3>1
  <2>4. \A j \in JobId : task'[j] # "none" => jobs'[j].status # "unused"
    BY <1>2, <1>3, Zenon DEF BatchInv, BatchTypeOK, ListedOnce
  <2> QED BY <2>2, <2>3, <2>4, Zenon DEF ListedOnce
<1>6. Spawned' = Spawned \cup {h} /\ h \notin Spawned /\ Busy' = Busy \cup {h} /\ h \notin Busy
  BY <1>1, <1>2, <1>3, Zenon DEF Spawned, Busy, TaskBusy, BatchInv, BatchTypeOK
<1>7. ItemsCounted'
  <2>1. IsFiniteSet(Spawned) /\ Cardinality(Spawned) \in Nat
    BY FS_CardinalityType, Zenon DEF BatchInv, ItemsCounted
  <2>2. IsFiniteSet(Spawned') /\ Cardinality(Spawned') = Cardinality(Spawned) + 1
    BY <1>6, <2>1, FS_AddElement, Zenon
  <2> QED BY <1>1, <1>3, <2>1, <2>2 DEF BatchInv, BatchTypeOK, ItemsCounted
<1>8. ReportsAtEnd' /\ StagesDone' /\ HeldWhileWorking'
  <2>1. ReportsAtEnd' /\ HeldWhileWorking'
    BY <1>2, <1>3, Zenon DEF BatchInv, BatchTypeOK, ReportsAtEnd, HeldWhileWorking
  <2>2. swept' = 0 /\ left' = 0 /\ stage' = "spawn"
    BY <1>3, Zenon DEF BatchInv, StagesDone
  <2>3. \A i \in 1..Len(ids') : ~(i <= swept')
    BY <2>2
  <2> QED BY <2>1, <2>2, <2>3, Zenon DEF StagesDone
<1>9. PoolWithinLimits'
  <2>1. Cardinality(Busy') = Cardinality(Busy) + 1 /\ Cardinality(Busy) \in Nat
    BY <1>6, InUseIsFinite, FS_AddElement, Zenon
  <2>2. \A r \in Resource : Limited(r) => Cardinality(Holders(r)') <= Limit[r]
    BY <1>3, ReleaseKeepsLimits, Zenon
  <2> QED BY <1>3, <2>1, <2>2, BatchAssumption DEF PoolWithinLimits, Limited
<1> QED BY <1>4, <1>5, <1>7, <1>8, <1>9, Zenon DEF BatchInv

\* A new job is appended to the list; its id was not in use.
LEMMA EnqueueKeepsInv ==
  ASSUME BatchInv, NEW j \in JobId, Enqueue(j)
  PROVE  BatchInv'
<1>1. (CHOOSE p \in Priority : TRUE) \in Priority \cup {0}
  BY BatchAssumption, Zenon
<1>2. /\ JobTableTypeOK' /\ jobs[j].status = "unused" /\ jobs'[j].status = "pending"
      /\ \A i \in JobId : i # j => jobs'[i] = jobs[i]
  BY <1>1, CreateEffect, Zenon DEF Enqueue, BatchInv, BatchTypeOK
<1>3. /\ ids \in Seq(JobId) /\ Len(ids) \in Nat /\ ids' \in Seq(JobId)
      /\ Len(ids') = Len(ids) + 1 /\ ids'[Len(ids) + 1] = j
      /\ \A i \in 1..Len(ids) : ids'[i] = ids[i] /\ ids[i] \in JobId /\ ids[i] # j
  BY <1>2 DEF Enqueue, BatchInv, BatchTypeOK, ListedOnce
<1>4. /\ stage = "enqueue" /\ left > 0 /\ left' = left - 1
      /\ UNCHANGED <<stage, task, device, outcomes, refused, sweep>>
  BY Zenon DEF Enqueue
<1>5. task[j] = "none"
  BY <1>2, Zenon DEF BatchInv, ListedOnce
<1>6. BatchTypeOK'
  BY <1>2, <1>3, <1>4 DEF BatchInv, BatchTypeOK
<1>7. ListedOnce'
  <2>1. \A i \in 1..Len(ids') : i \in 1..Len(ids) \/ i = Len(ids) + 1
    BY <1>3
  <2>2. \A i \in 1..Len(ids') : task'[ids'[i]] = "none" /\ jobs'[ids'[i]].status # "unused"
    BY <1>2, <1>3, <1>4, <1>5, <2>1 DEF BatchInv, ListedOnce
  <2>3. \A i, k \in 1..Len(ids') : ids'[i] = ids'[k] => i = k
    BY <1>3, <2>1, Zenon DEF BatchInv, ListedOnce
  <2>4. \A i \in JobId : task'[i] # "none" => jobs'[i].status # "unused"
    BY <1>2, <1>4, Zenon DEF BatchInv, ListedOnce
  <2> QED BY <2>2, <2>3, <2>4, Zenon DEF ListedOnce
<1>8. Spawned' = Spawned /\ Busy' = Busy /\ \A r \in Resource : Holders(r)' = Holders(r)
  BY <1>4, Zenon DEF Spawned, Busy, Holders
<1>9. ItemsCounted'
  <2>1. Cardinality(Spawned) \in Nat
    BY FS_CardinalityType, Zenon DEF BatchInv, ItemsCounted
  <2>2. left \in Nat /\ refused \in Nat
    BY Zenon DEF BatchInv, BatchTypeOK
  <2>3. IsFiniteSet(Spawned) /\ left + refused + Cardinality(Spawned) + Len(ids) = BatchItems
    BY Zenon DEF BatchInv, ItemsCounted
  <2>4. left' + refused' + Cardinality(Spawned) + Len(ids') = BatchItems
    BY <1>3, <1>4, <2>1, <2>2, <2>3
  <2> QED BY <1>8, <2>3, <2>4, Zenon DEF ItemsCounted
<1>10. ReportsAtEnd' /\ StagesDone' /\ HeldWhileWorking' /\ PoolWithinLimits'
  <2>1. ReportsAtEnd' /\ HeldWhileWorking' /\ PoolWithinLimits'
    BY <1>4, <1>8, Zenon DEF BatchInv, ReportsAtEnd, HeldWhileWorking, PoolWithinLimits, Limited
  <2>2. swept' = 0 /\ stage' = "enqueue"
    BY <1>4, Zenon DEF BatchInv, StagesDone
  <2>3. \A i \in 1..Len(ids') : ~(i <= swept')
    BY <2>2
  <2> QED BY <2>1, <2>2, <2>3, Zenon DEF StagesDone
<1> QED BY <1>6, <1>7, <1>9, <1>10, Zenon DEF BatchInv

\* A write to rows, with tasks, list and devices as they were, that leaves no
\* row unused that was not and keeps what the stages have done.
LEMMA RowsKeepInv ==
  ASSUME BatchInv, JobTableTypeOK', UNCHANGED <<left, ids, task, device, outcomes, refused>>,
         \A i \in JobId : jobs[i].status # "unused" => jobs'[i].status # "unused",
         StagesDone', swept' \in Nat, stage' \in {"enqueue", "spawn", "sweep", "collect", "returned"}
  PROVE  BatchInv'
<1>1. BatchTypeOK'
  BY Zenon DEF BatchInv, BatchTypeOK
<1>2. ListedOnce'
  <2>1. \A i \in 1..Len(ids) : ids[i] \in JobId
    BY DEF BatchInv, BatchTypeOK
  <2> QED BY <2>1, Zenon DEF BatchInv, ListedOnce
<1>3. Spawned' = Spawned /\ Busy' = Busy /\ \A r \in Resource : Holders(r)' = Holders(r)
  BY Zenon DEF Spawned, Busy, Holders
<1>4. ItemsCounted' /\ ReportsAtEnd' /\ HeldWhileWorking' /\ PoolWithinLimits'
  BY <1>3, Zenon DEF BatchInv, ItemsCounted, ReportsAtEnd, HeldWhileWorking, PoolWithinLimits, Limited
<1> QED BY <1>1, <1>2, <1>4, Zenon DEF BatchInv

\* The sweep takes one job after the other: it is no longer pending, or the
\* store would not cancel it.
LEMMA CancelKeepsInv == BatchInv /\ CancelUnstarted => BatchInv'
<1> SUFFICES ASSUME BatchInv, CancelUnstarted PROVE BatchInv'
  OBVIOUS
<1> DEFINE j == ids[swept + 1]
<1>1. /\ stage = "sweep" /\ swept \in Nat /\ swept < Len(ids) /\ swept' = swept + 1
      /\ ids \in Seq(JobId) /\ j \in JobId /\ Len(ids) \in Nat
      /\ UNCHANGED <<stage, left, ids, task, device, outcomes, refused>>
  BY DEF CancelUnstarted, BatchInv, BatchTypeOK
<1>2. \/ jobs[j].status \in Live /\ update_status(j, "cancelled") /\ UNCHANGED uncancelled
      \/ jobs[j].status \notin Live /\ UNCHANGED <<jobs, now, uncancelled>>
      \/ uncancelled' = uncancelled \cup {j} /\ UNCHANGED <<jobs, now>>
  BY Zenon DEF CancelUnstarted
<1>3. \A i \in 1..Len(ids) : ids[i] \in JobId /\ (i <= swept + 1 => i <= swept \/ i = swept + 1)
  BY <1>1
<1>4. j = ids[swept + 1]
  OBVIOUS
<1> HIDE DEF j
<1>5. /\ JobTableTypeOK' /\ \A i \in JobId : i # j => jobs'[i] = jobs[i]
      /\ jobs[j].status # "unused" => jobs'[j].status # "unused"
      /\ jobs'[j].status # "pending" \/ j \in uncancelled'
  <2>0. JobTableTypeOK
    BY Zenon DEF BatchInv, BatchTypeOK
  <2>1. CASE jobs[j].status \in Live /\ update_status(j, "cancelled")
    <3>1. Present(j)
      BY <2>1, Zenon DEF Present, Live
    <3> QED BY <1>1, <2>0, <2>1, <3>1, UpdateEffect, Zenon DEF Terminal
  <2>2. CASE UNCHANGED <<jobs, now>> /\ (jobs[j].status \notin Live \/ uncancelled' = uncancelled \cup {j})
    BY <2>0, <2>2, Zenon DEF JobTableTypeOK, Live
  <2> QED BY <1>2, <2>1, <2>2, Zenon
<1>6. uncancelled \subseteq uncancelled'
  BY <1>2, Zenon
<1>7. StagesDone'
  <2>1. \A i \in 1..Len(ids) : i <= swept => jobs[ids[i]].status # "pending" \/ ids[i] \in uncancelled
    BY Zenon DEF BatchInv, StagesDone
  <2>2. \A i \in 1..Len(ids) : i <= swept + 1 => jobs'[ids[i]].status # "pending" \/ ids[i] \in uncancelled'
    BY <1>3, <1>4, <1>5, <1>6, <2>1, Zenon
  <2> QED BY <1>1, <2>2, Zenon DEF BatchInv, StagesDone
<1>8. swept' \in Nat
  BY <1>1
<1> QED BY <1>1, <1>5, <1>7, <1>8, RowsKeepInv, Zenon DEF BatchInv, BatchTypeOK

\* A plan waits for a permit of its device and then holds it.
LEMMA AcquireKeepsInv ==
  ASSUME BatchInv, NEW j \in JobId, AcquireForPlan(j)
  PROVE  BatchInv'
<1>1. /\ task[j] = "queued" /\ task' = [task EXCEPT ![j] = "working"]
      /\ UNCHANGED <<jobs, now, stage, left, ids, outcomes, refused, sweep>>
  BY Zenon DEF AcquireForPlan
<1>2. device[j] = NoDevice
  BY <1>1, Zenon DEF BatchInv, HeldWhileWorking
<1>3. /\ JobTableTypeOK' /\ jobs'[j].status # "unused"
      /\ \A i \in JobId : i # j => jobs'[i] = jobs[i]
      /\ outcomes' \in [JobId -> Seq({"success", "failure", "already_claimed"})]
      /\ Len(outcomes'[j]) = 0 /\ \A i \in JobId : i # j => outcomes'[i] = outcomes[i]
  BY <1>1, Zenon DEF BatchInv, BatchTypeOK, JobTableTypeOK, ListedOnce, ReportsAtEnd
<1>4. /\ device' \in [JobId -> Resource \cup {NoDevice}] /\ HeldWhileWorking'
      /\ \A r \in Resource : Limited(r) => Cardinality(Holders(r)') <= Limit[r]
  <2>1. CASE UNCHANGED device
    BY <1>1, <2>1, ReleaseKeepsLimits, Zenon DEF BatchInv, BatchTypeOK, HeldWhileWorking
  <2>2. CASE /\ Limited(PlanDevice[j])
             /\ Cardinality(Holders(PlanDevice[j])) < Limit[PlanDevice[j]]
             /\ device' = [device EXCEPT ![j] = PlanDevice[j]]
    <3> DEFINE d == PlanDevice[j]
    <3>1. d \in Resource /\ d # NoDevice
      BY <2>2, BatchAssumption, Zenon DEF Limited
    <3> HIDE DEF d
    <3>2. device' = [device EXCEPT ![j] = d] /\ Cardinality(Holders(d)) < Limit[d]
      BY <2>2, Zenon DEF d
    <3>3. device' \in [JobId -> Resource \cup {NoDevice}] /\ HeldWhileWorking'
      BY <1>1, <3>1, <3>2, Zenon DEF BatchInv, BatchTypeOK, HeldWhileWorking
    <3>4. ASSUME NEW r \in Resource, Limited(r)
          PROVE  Cardinality(Holders(r)') <= Limit[r]
      <4>1. CASE r = d
        <5>1. Holders(d)' = Holders(d) \cup {j} /\ j \notin Holders(d)
          BY <1>2, <3>1, <3>2, Zenon DEF BatchInv, BatchTypeOK, Holders
        <5>2. IsFiniteSet(Holders(d)) /\ Cardinality(Holders(d)) \in Nat
          BY <3>1, InUseIsFinite, Zenon
        <5>3. Cardinality(Holders(d)') = Cardinality(Holders(d)) + 1
          BY <5>1, <5>2, FS_AddElement, Zenon
        <5>4. Limit[d] \in Nat
          BY <3>1, BatchAssumption, Zenon
        <5> QED BY <3>2, <4>1, <5>2, <5>3, <5>4
      <4>2. CASE r # d
        <5>1. Holders(r)' = Holders(r)
          BY <1>2, <3>1, <3>2, <4>2, BatchAssumption, Zenon DEF BatchInv, BatchTypeOK, Holders
        <5> QED BY <3>4, <5>1, Zenon DEF BatchInv, PoolWithinLimits
      <4> QED BY <4>1, <4>2, Zenon
    <3> QED BY <3>3, <3>4, Zenon
  <2> QED BY <2>1, <2>2, Zenon DEF AcquireForPlan
<1> QED BY <1>1, <1>3, <1>4, TaskKeepsInv, Zenon DEF TaskBusy

\* What the store does to the row of a job that ends.
LEMMA EndOfRow ==
  ASSUME BatchInv, NEW j \in JobId, NEW s \in Terminal, task[j] # "none",
         update_status(j, s) \/ UNCHANGED <<jobs, now>>
  PROVE  /\ JobTableTypeOK' /\ jobs'[j].status # "unused"
         /\ \A i \in JobId : i # j => jobs'[i] = jobs[i]
<1>1. JobTableTypeOK /\ jobs[j].status # "unused"
  BY Zenon DEF BatchInv, BatchTypeOK, ListedOnce
<1>2. CASE update_status(j, s)
  BY <1>1, <1>2, UpdateEffect, Zenon DEF Terminal
<1>3. CASE UNCHANGED <<jobs, now>>
  BY <1>1, <1>3, Zenon DEF JobTableTypeOK
<1> QED BY <1>2, <1>3, Zenon

\* Every step of a task keeps the books.
LEMMA TaskStepKeepsInv ==
  ASSUME BatchInv, NEW j \in JobId, TaskStep(j)
  PROVE  BatchInv'
<1> USE DEF TaskBusy
<1>1. CASE TaskCancelledEarly(j) \/ TaskLosesClaim(j)
  <2>1. /\ task[j] = "start" /\ (Finish(j, "failure") \/ Finish(j, "already_claimed"))
        /\ UNCHANGED <<jobs, now, stage, left, ids, device, refused, sweep>>
    BY <1>1, Zenon DEF TaskCancelledEarly, TaskLosesClaim
  <2>2. /\ JobTableTypeOK' /\ jobs'[j].status # "unused"
        /\ \A i \in JobId : i # j => jobs'[i] = jobs[i]
    BY <2>1, Zenon DEF BatchInv, BatchTypeOK, JobTableTypeOK, ListedOnce
  <2> QED BY <2>1, <2>2, FinishKeepsInv, Zenon
<1>2. ASSUME NEW w \in WorkerId, TaskClaims(j, w) PROVE BatchInv'
  <2>1. /\ task[j] = "start" /\ task' = [task EXCEPT ![j] = "claimed"] /\ SetRunning(j, w)
        /\ UNCHANGED <<stage, left, ids, device, outcomes, refused, sweep>>
    BY <1>2, Zenon DEF TaskClaims, claim_job_by_id
  <2>2. /\ JobTableTypeOK' /\ jobs'[j].status # "unused"
        /\ \A i \in JobId : i # j => jobs'[i] = jobs[i]
    BY <2>1, ClaimEffect, Zenon DEF BatchInv, BatchTypeOK
  <2>3. /\ HeldWhileWorking' /\ device' \in [JobId -> Resource \cup {NoDevice}]
        /\ \A r \in Resource : Limited(r) => Cardinality(Holders(r)') <= Limit[r]
    BY <2>1, ReleaseKeepsLimits, Zenon DEF BatchInv, BatchTypeOK, HeldWhileWorking
  <2>4. /\ outcomes' \in [JobId -> Seq({"success", "failure", "already_claimed"})]
        /\ Len(outcomes'[j]) = 0 /\ \A i \in JobId : i # j => outcomes'[i] = outcomes[i]
    BY <2>1, Zenon DEF BatchInv, BatchTypeOK, ReportsAtEnd
  <2> QED BY <2>1, <2>2, <2>3, <2>4, TaskKeepsInv, Zenon
<1>3. CASE TaskCancelledLate(j)
  <2>1. /\ task[j] = "claimed" /\ Finish(j, "failure")
        /\ update_status(j, "cancelled") \/ UNCHANGED <<jobs, now>>
        /\ UNCHANGED <<stage, left, ids, device, refused, sweep>>
    BY <1>3, Zenon DEF TaskCancelledLate
  <2>2. /\ JobTableTypeOK' /\ jobs'[j].status # "unused"
        /\ \A i \in JobId : i # j => jobs'[i] = jobs[i]
    BY <2>1, EndOfRow, Zenon DEF Terminal
  <2> QED BY <2>1, <2>2, FinishKeepsInv, Zenon
<1>4. CASE StartProcessor(j)
  <2>1. /\ task[j] = "claimed" /\ task' = [task EXCEPT ![j] = "queued"]
        /\ UNCHANGED <<jobs, now, stage, left, ids, device, outcomes, refused, sweep>>
    BY <1>4, Zenon DEF StartProcessor
  <2>2. /\ JobTableTypeOK' /\ jobs'[j].status # "unused"
        /\ \A i \in JobId : i # j => jobs'[i] = jobs[i]
    BY <2>1, Zenon DEF BatchInv, BatchTypeOK, JobTableTypeOK, ListedOnce
  <2>3. /\ HeldWhileWorking' /\ device' \in [JobId -> Resource \cup {NoDevice}]
        /\ \A r \in Resource : Limited(r) => Cardinality(Holders(r)') <= Limit[r]
    BY <2>1, ReleaseKeepsLimits, Zenon DEF BatchInv, BatchTypeOK, HeldWhileWorking
  <2>4. /\ outcomes' \in [JobId -> Seq({"success", "failure", "already_claimed"})]
        /\ Len(outcomes'[j]) = 0 /\ \A i \in JobId : i # j => outcomes'[i] = outcomes[i]
    BY <2>1, Zenon DEF BatchInv, BatchTypeOK, ReportsAtEnd
  <2> QED BY <2>1, <2>2, <2>3, <2>4, TaskKeepsInv, Zenon
<1>5. CASE AcquireForPlan(j)
  BY <1>5, AcquireKeepsInv, Zenon
<1>6. CASE TaskSucceeds(j) \/ TaskFails(j)
  <2>1. /\ task[j] = "working" /\ (Finish(j, "success") \/ Finish(j, "failure"))
        /\ \/ update_status(j, "completed") \/ update_status(j, "failed") \/ UNCHANGED <<jobs, now>>
        /\ device' = [device EXCEPT ![j] = NoDevice]
        /\ UNCHANGED <<stage, left, ids, refused, sweep>>
    BY <1>6, Zenon DEF TaskSucceeds, TaskFails
  <2>2. /\ JobTableTypeOK' /\ jobs'[j].status # "unused"
        /\ \A i \in JobId : i # j => jobs'[i] = jobs[i]
    BY <2>1, EndOfRow, Zenon DEF Terminal
  <2> QED BY <2>1, <2>2, FinishKeepsInv, Zenon
<1>7. CASE TaskPanics(j)
  <2>1. /\ task[j] \in TaskBusy /\ task' = [task EXCEPT ![j] = "panicked"]
        /\ device' = [device EXCEPT ![j] = NoDevice]
        /\ UNCHANGED <<jobs, now, stage, left, ids, outcomes, refused, sweep>>
    BY <1>7, Zenon DEF TaskPanics
  <2>2. /\ JobTableTypeOK' /\ jobs'[j].status # "unused"
        /\ \A i \in JobId : i # j => jobs'[i] = jobs[i]
    BY <2>1, Zenon DEF BatchInv, BatchTypeOK, JobTableTypeOK, ListedOnce
  <2>3. /\ HeldWhileWorking' /\ device' \in [JobId -> Resource \cup {NoDevice}]
        /\ \A r \in Resource : Limited(r) => Cardinality(Holders(r)') <= Limit[r]
    BY <2>1, ReleaseKeepsLimits, Zenon DEF BatchInv, BatchTypeOK, HeldWhileWorking
  <2>4. /\ outcomes' \in [JobId -> Seq({"success", "failure", "already_claimed"})]
        /\ Len(outcomes'[j]) = 0 /\ \A i \in JobId : i # j => outcomes'[i] = outcomes[i]
    BY <2>1, Zenon DEF BatchInv, BatchTypeOK, ReportsAtEnd
  <2> QED BY <2>1, <2>2, <2>3, <2>4, TaskKeepsInv, Zenon
<1> QED BY <1>1, <1>2, <1>3, <1>4, <1>5, <1>6, <1>7, Zenon DEF TaskStep

\* Every step of the batch, its tasks and other processes keeps the books.
LEMMA BatchInvNext == BatchInv /\ [BatchNext]_<<jobs, now, batchVars>> => BatchInv'
<1> SUFFICES ASSUME BatchInv, [BatchNext]_<<jobs, now, batchVars>> PROVE BatchInv'
  OBVIOUS
<1>1. CASE \E j \in JobId : Enqueue(j)
  BY <1>1, EnqueueKeepsInv, Zenon
<1>2. CASE EnqueueRefused
  <2>1. Spawned' = Spawned /\ Busy' = Busy /\ \A r \in Resource : Holders(r)' = Holders(r)
    BY <1>2, Zenon DEF EnqueueRefused, Spawned, Busy, Holders
  <2>2. Cardinality(Spawned) \in Nat
    BY FS_CardinalityType, Zenon DEF BatchInv, ItemsCounted
  <2>3. ItemsCounted'
    BY <1>2, <2>1, <2>2 DEF EnqueueRefused, BatchInv, BatchTypeOK, ItemsCounted
  <2>4. BatchTypeOK'
    BY <1>2 DEF EnqueueRefused, BatchInv, BatchTypeOK, JobTableTypeOK
  <2>5. ListedOnce' /\ ReportsAtEnd' /\ StagesDone' /\ HeldWhileWorking' /\ PoolWithinLimits'
    BY <1>2, <2>1, Zenon DEF EnqueueRefused, BatchInv, ListedOnce, ReportsAtEnd, StagesDone,
                      HeldWhileWorking, PoolWithinLimits, Limited
  <2> QED BY <2>3, <2>4, <2>5, Zenon DEF BatchInv
<1>3. CASE StartSpawning \/ StopSpawning \/ StartCollecting \/ Collected
  <2>1. UNCHANGED <<jobs, now, left, ids, task, device, outcomes, refused, sweep>>
    BY <1>3, Zenon DEF StartSpawning, StopSpawning, StartCollecting, Collected
  <2>2. StagesDone' /\ stage' \in {"enqueue", "spawn", "sweep", "collect", "returned"}
    BY <1>3, <2>1, Zenon DEF StartSpawning, StopSpawning, StartCollecting, Collected, BatchInv,
                             BatchTypeOK, StagesDone, Busy
  <2>3. JobTableTypeOK' /\ swept' \in Nat
    BY <2>1, Zenon DEF BatchInv, BatchTypeOK, JobTableTypeOK
  <2> QED BY <2>1, <2>2, <2>3, RowsKeepInv, Zenon
<1>4. CASE SpawnTask
  BY <1>4, SpawnKeepsInv, Zenon
<1>5. CASE CancelUnstarted
  BY <1>5, CancelKeepsInv, Zenon
<1>6. CASE \E j \in JobId : TaskStep(j)
  BY <1>6, TaskStepKeepsInv, Zenon
<1>7. CASE CancelBatch \/ UNCHANGED <<jobs, now, batchVars>>
  <2>1. UNCHANGED <<jobs, now, stage, left, ids, task, device, outcomes, refused, sweep>>
    BY <1>7, Zenon DEF CancelBatch, batchVars
  <2>2. StagesDone' /\ stage' \in {"enqueue", "spawn", "sweep", "collect", "returned"} /\ JobTableTypeOK'
        /\ swept' \in Nat
    BY <2>1, Zenon DEF BatchInv, BatchTypeOK, StagesDone, Busy, JobTableTypeOK
  <2> QED BY <2>1, <2>2, RowsKeepInv, Zenon
<1>8. ASSUME NEW j \in JobId, NEW w \in WorkerId, OthersClaim(j, w) PROVE BatchInv'
  <2>1. /\ SetRunning(j, w)
        /\ UNCHANGED <<stage, left, ids, task, device, outcomes, refused, sweep>>
    BY <1>8, Zenon DEF OthersClaim, claim_job_by_id, batchVars
  <2>2. /\ JobTableTypeOK' /\ jobs'[j].status = "running"
        /\ \A i \in JobId : i # j => jobs'[i] = jobs[i]
    BY <2>1, ClaimEffect, Zenon DEF BatchInv, BatchTypeOK
  <2>3. \A i \in 1..Len(ids) : ids[i] \in JobId
    BY DEF BatchInv, BatchTypeOK
  <2>4. StagesDone'
    <3>1. \A i \in 1..Len(ids) : i <= swept => jobs'[ids[i]].status # "pending" \/ ids[i] \in uncancelled
      BY <2>2, <2>3, Zenon DEF BatchInv, StagesDone
    <3> QED BY <2>1, <3>1, Zenon DEF BatchInv, StagesDone, Busy
  <2>5. swept' \in Nat /\ stage' \in {"enqueue", "spawn", "sweep", "collect", "returned"}
    BY <2>1, Zenon DEF BatchInv, BatchTypeOK
  <2> QED BY <2>1, <2>2, <2>4, <2>5, RowsKeepInv, Zenon
<1> QED BY <1>1, <1>2, <1>3, <1>4, <1>5, <1>6, <1>7, <1>8, Zenon DEF BatchNext, PoolStep

\* process_batch settles every item exactly once and keeps to the number of
\* workers and to the limit of every device, for any number of items, workers,
\* devices and limits, whatever fails, panics, is cancelled, cannot be cancelled
\* or is claimed by others.
THEOREM BatchAccountsForItems == BatchSpec => []BatchSettles
<1>1. BatchInv => BatchSettles
  <2> SUFFICES ASSUME BatchInv, stage = "returned" PROVE EveryItemSettled
    BY Zenon DEF BatchInv, BatchSettles, EveryItemSettled
  <2>1. {j \in JobId : task[j] \in {"ended", "panicked"}} = Spawned
    BY Zenon DEF BatchInv, BatchTypeOK, StagesDone, Busy, Spawned
  <2>2. Cardinality(Spawned) \in Nat /\ left = 0 /\ Len(ids) \in Nat /\ refused \in Nat
    BY FS_CardinalityType DEF BatchInv, BatchTypeOK, ItemsCounted, StagesDone
  <2>3. refused + Cardinality(Spawned) + Len(ids) = BatchItems
    BY <2>2 DEF BatchInv, ItemsCounted
  <2>4. \A i \in DOMAIN ids : jobs[ids[i]].status = "pending" => ids[i] \in uncancelled
    <3>1. /\ ids \in Seq(JobId) /\ swept = Len(ids)
          /\ \A i \in 1..Len(ids) : i <= swept => jobs[ids[i]].status # "pending" \/ ids[i] \in uncancelled
      BY Zenon DEF BatchInv, BatchTypeOK, StagesDone
    <3> QED BY <3>1
  <2> QED BY <2>1, <2>3, <2>4, Zenon DEF BatchInv, EveryItemSettled, ReportsAtEnd
<1> QED BY <1>1, BatchInvInit, BatchInvNext, PTL DEF BatchSpec
=============================================================================
