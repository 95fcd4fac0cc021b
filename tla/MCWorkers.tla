----------------------------- MODULE MCWorkers ------------------------------
(* The workers of a run, and the store's in-memory double of a session. *)
EXTENDS WorkerStream, TestStore, TLC

-----------------------------------------------------------------------------
(* Two workers, two items of either priority and one row an earlier run left *)
(* pending; a result channel of one slot, so that senders do block.          *)
CONSTANTS s1, j1, j2, w1, w2

MCPriority == {1, 2}
Perms == Permutations(WorkerId) \cup Permutations(JobId \ StaleJobs)

-----------------------------------------------------------------------------
(* A small instance of TestStore, one part at a time. *)
VARIABLE tsPart

TsMCInit ==
    /\ tsPart \in {"session", "summary"}
    /\ TsInit /\ TsSummaryInit

TsMCNext ==
    /\ UNCHANGED tsPart
    /\ \/ tsPart = "session" /\ TsNext /\ UNCHANGED summaryVars
       \/ tsPart = "summary" /\ TsSummaryNext /\ UNCHANGED tsVars

-----------------------------------------------------------------------------
VARIABLE part

partsVars == <<part, vars, tsVars, summaryVars, tsPart>>

\* One part is looked at; the others stay in a state of their own.
PartsInit ==
  /\ part \in {"workers", "double"}
  /\ Init
  /\ IF part = "double" THEN TsMCInit
     ELSE tsPart = "session" /\ TsMCInit

NotWorkers == <<tsVars, summaryVars, tsPart>>
NotDouble == <<vars>>

PartsNext ==
  /\ UNCHANGED part
  /\ \/ part = "workers" /\ Next /\ UNCHANGED NotWorkers
     \/ part = "double" /\ TsMCNext /\ UNCHANGED NotDouble

PartsSpec ==
  /\ PartsInit /\ [][PartsNext]_partsVars
=============================================================================
