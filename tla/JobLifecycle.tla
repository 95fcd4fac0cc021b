---------------------------- MODULE JobLifecycle ----------------------------
(***************************************************************************)
(* What the job queue promises, without its table, priorities, commands     *)
(* and retention: a job is submitted once, started once, by one worker that *)
(* has no other, ends, and is removed only after it ended.  It may end      *)
(* under its worker, when somebody cancels it; the worker then only lets go.*)
(***************************************************************************)
CONSTANTS Job, Worker

VARIABLES status,     \* status[j]: how far job j has come
          holders     \* holders[j]: the workers that have job j in hand

lifecycleVars == <<status, holders>>

Ended == {"completed", "failed", "cancelled"}

LifecycleInit ==
  /\ status = [j \in Job |-> "unused"]
  /\ holders = [j \in Job |-> {}]

Submit(j) ==
  /\ status[j] = "unused"
  /\ status' = [status EXCEPT ![j] = "pending"]
  /\ UNCHANGED holders

\* Nobody else has the job, and the worker has no other.
Start(j, w) ==
  /\ status[j] = "pending" /\ holders[j] = {}
  /\ \A i \in Job : w \notin holders[i]
  /\ status' = [status EXCEPT ![j] = "running"]
  /\ holders' = [holders EXCEPT ![j] = {w}]

\* The last word counts: a job that ended may be given another end.
EndAs(j, s) ==
  /\ status[j] \in {"pending", "running"} \cup Ended
  /\ status' = [status EXCEPT ![j] = s]

\* The worker reports how the job ended; the report of a job that was removed
\* meanwhile is lost.
Report(j, w) ==
  /\ holders[j] = {w}
  /\ \/ \E s \in Ended : EndAs(j, s)
     \/ status[j] = "removed" /\ UNCHANGED status
  /\ holders' = [holders EXCEPT ![j] = {}]

Cancel(j) == EndAs(j, "cancelled") /\ UNCHANGED holders

Remove(S) ==
  /\ \A j \in S : status[j] \in Ended
  /\ status' = [j \in Job |-> IF j \in S THEN "removed" ELSE status[j]]
  /\ UNCHANGED holders

LifecycleNext ==
  \/ \E j \in Job : Submit(j) \/ Cancel(j)
  \/ \E j \in Job, w \in Worker : Start(j, w) \/ Report(j, w)
  \/ \E S \in SUBSET Job : Remove(S)

LifecycleSpec == LifecycleInit /\ [][LifecycleNext]_lifecycleVars
=============================================================================
