---------------------------- MODULE MCExecution -----------------------------
(* The file operations of plans (one phase in two runs with every fault and  *)
(* in three with the faults of recovery, two phases in two runs, and in      *)
(* three of renames that leave operations and backups), and the jobs table   *)
(* under two workers and two commands.                                       *)
EXTENDS PlanExecution, JobQueue, TLC

-----------------------------------------------------------------------------
(***************************************************************************)
(* Two paths, the second the target of the first one's conversion.           *)
(***************************************************************************)
CONSTANTS mp4, mkv

ToMkv == (mp4 :> mkv) @@ (mkv :> mkv)

-----------------------------------------------------------------------------
(* Two workers and two commands over two jobs of either priority: enough for *)
(* a claim race, a command acting on a stale read, and a retry.              *)
CONSTANTS j1, j2, w1, w2, c1, c2

MCPriority == {1, 2}
MCKeepLast == {-1, 0, 1}
Perms == Permutations(WorkerId) \cup Permutations(JobId) \cup Permutations(Client)

-----------------------------------------------------------------------------
VARIABLE part

OnePhase == INSTANCE PlanExecution WITH Kind <- Kind \ {"rename"}, Phases <- 1, MaxRun <- 2
Reruns == INSTANCE PlanExecution WITH Kind <- Kind \ {"rename"}, Phases <- 1, Keep <- {FALSE},
                                      Discard <- {FALSE}, Fault <- Fault \cap {"delete", "restore"}
TwoPhases == INSTANCE PlanExecution WITH Kind <- Kind \ {"rename"}, MaxRun <- 2, Keep <- {FALSE},
                                         Discard <- {FALSE}, Fault <- Fault \cap {"hash"}
Leftover == INSTANCE PlanExecution WITH Kind <- Kind \cap {"rename"}, Keep <- {FALSE},
                                        Discard <- {FALSE}, Fault <- Fault \cap {"delete", "unlink"}

partsVars == <<part, planVars, vars>>

\* No property is about the states after any other exposure.
Unexposed ==
  exposed \subseteq {"pending twice"} \cup (IF part = "leftover" THEN {"backup kept"} ELSE {})

\* One part is looked at; the others stay in a state of their own.
PartsInit ==
  /\ part \in {"plan", "reruns", "phases", "leftover", "queue"}
  /\ IF part = "plan" THEN OnePhase!PlanInit
     ELSE IF part = "reruns" THEN Reruns!PlanInit
     ELSE IF part = "phases" THEN TwoPhases!PlanInit
     ELSE IF part = "leftover" THEN Leftover!PlanInit
     ELSE conf = [keep |-> FALSE, discard |-> FALSE] /\ PlanInit
  /\ Init

NotPlan == <<vars>>
NotQueue == <<planVars>>

PartsNext ==
  /\ UNCHANGED part
  /\ \/ part = "plan" /\ OnePhase!PlanNext /\ UNCHANGED NotPlan
     \/ part = "reruns" /\ Reruns!PlanNext /\ UNCHANGED NotPlan
     \/ part = "phases" /\ TwoPhases!PlanNext /\ UNCHANGED NotPlan
     \/ part = "leftover" /\ Leftover!PlanNext /\ UNCHANGED NotPlan
     \/ part = "queue" /\ Next /\ UNCHANGED NotQueue

PartsSpec ==
  /\ PartsInit /\ [][PartsNext]_partsVars
=============================================================================
