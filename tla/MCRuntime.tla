----------------------------- MODULE MCRuntime ------------------------------
(* The kernel and the runtime side by side.                                *)
(* Bus: four plugins: two that share a name, two of one priority, two that  *)
(* claim one exclusive capability and two that shard discovery by scheme.   *)
(* Sink: more records than channel and buffer hold.  WASM: two threads.     *)
(* Bootstrap: three plugins that may be disabled, a WASM plugin that cannot *)
(* be loaded and one whose capability may be taken.  Tool: more output than *)
(* pipe and capture hold.  Batch: three items, two workers, a device for one *)
(* plan at a time.                                                          *)
EXTENDS Kernel, StatsSink, WasmPlugin, ToolRunner, WorkerBatch, Discovery, TLC

-----------------------------------------------------------------------------
(* The file and the scan are checked side by side, one of them at a time.   *)
VARIABLE dsPart
mcContents == {<<0, 0>>, <<0, 1>>, <<0, 0, 0, 0>>, <<0, 1, 0, 0>>, <<0, 0, 0, 1>>, <<1, 0, 0, 0>>}
mcEntries == [a |-> "media", b |-> "media", c |-> "media", d |-> "unreadable", l |-> "symlink", t |-> "temp", x |-> "walk_error"]
dsMCVars == <<dsPart, dsFileVars, dsScanVars>>
DsMCInit ==
    \/ dsPart = "file" /\ DsFileInit /\ DsScanInit
    \/ dsPart = "scan" /\ DsScanInit /\ DsFileInit /\ dsData = <<0, 0>>
DsMCNext ==
    \/ dsPart = "file" /\ DsFileNext /\ UNCHANGED <<dsPart, dsScanVars>>
    \/ dsPart = "scan" /\ DsScanNext /\ UNCHANGED <<dsPart, dsFileVars>>

-----------------------------------------------------------------------------
(* Small capabilities, answers, replies and manifests for TLC.             *)
\* Names of one atom, and one with a colon in it.
pxNames == {<<"x">>, <<"y">>, <<"s3", ":", "eu">>}
pxLists == {<<>>} \cup {<<a>> : a \in pxNames} \cup {<<a, b>> : a, b \in pxNames}
pxOps == {<<>>, <<<<"transcode_video">>>>, <<<<"set_default">>, <<"transcode_video">>>>}
pxCap(k, a, b) == [kind |-> k, list1 |-> a, list2 |-> b]
mcPxCaps ==
  {pxCap(k, l, <<>>) : k \in ListKinds, l \in pxLists}
    \cup {pxCap("execute", l, o) : l \in pxLists, o \in pxOps}
    \cup {pxCap(k, <<n>>, <<>>) : k \in NameKinds, n \in pxNames \cup {<<>>}}
    \cup {pxCap("verify", <<>>, l) :
            l \in {<<>>, <<<<"hash">>>>, <<<<"quick">>, <<"thorough">>>>}}
    \cup {pxCap("backup", <<>>, <<>>)}

pxBytes == {[v |-> "list", pure |-> TRUE, is |-> i, size |-> 1] :
              i \in {"FileDiscovered", "PlanFailed", "rubbish"}}
             \cup {[v |-> "list", pure |-> FALSE, is |-> "rubbish", size |-> 1],
                   [v |-> "list", pure |-> TRUE, is |-> "FileDiscovered", size |-> 3]}
pxTypes == {[v |-> "string", is |-> t] : t \in {"file.discovered", "plan.failed"}}
pxItems == {[v |-> "record", type |-> t, payload |-> b] : t \in pxTypes, b \in pxBytes}
             \cup {[v |-> "list", type |-> [v |-> "u8", is |-> ""],
                    payload |-> [v |-> "string", pure |-> FALSE, is |-> "", size |-> 0]]}
pxOptions(ofs, docs) ==
  {[v |-> "option", some |-> FALSE, of |-> "", pure |-> TRUE, is |-> "", size |-> 0]}
    \cup {[v |-> "option", some |-> TRUE, of |-> o, pure |-> TRUE, is |-> d, size |-> 1] :
            o \in ofs, d \in docs}
pxAbsent == [v |-> "absent", some |-> FALSE, of |-> "", pure |-> TRUE, is |-> "", size |-> 0]
\* Any item alone, or before one whose payload is of its type, of another, or bad.
pxSeconds == {i \in pxItems : i.type.is = "plan.failed" /\ i.payload.pure /\ i.payload.size = 1}
pxProduced == {[v |-> "list", items |-> s] :
                 s \in {<<>>} \cup {<<a>> : a \in pxItems} \cup {<<a, b>> : a \in pxItems, b \in pxSeconds}}
mcPxAnswers ==
  [v : {"record"}, name : {[v |-> "string", is |-> "p"]}, produced : pxProduced,
   data : pxOptions({"list", "string"}, {"json", "rubbish"}),
   claimed : {[v |-> "bool", is |-> TRUE], [v |-> "absent", is |-> FALSE],
              [v |-> "u8", is |-> FALSE]},
   error : {pxAbsent} \cup pxOptions({"string"}, {"message"}),
   detail : {pxAbsent} \cup pxOptions({"list"}, {"json", "rubbish"})]
    \cup {[v |-> "none"], [v |-> "other"]}

mcPxReplies ==
  [call : CallsMade, request : {1, 4}, result : BOOLEAN, good : BOOLEAN,
   v : {"list", "string", "none"}, pure : BOOLEAN, size : {1, 4},
   is : CallsMade \cup {"rubbish"}]

pxGrants == {[given |-> FALSE, dirs |-> {}]}
              \cup {[given |-> TRUE, dirs |-> d] : d \in SUBSET {"a", "b"}}
mcPxManifests ==
  [found : BOOLEAN, open : BOOLEAN, readable : BOOLEAN, parses : BOOLEAN, named : BOOLEAN,
   version : {"semver", "other"}, declares : BOOLEAN, protocol : {0, 1, 2},
   paths : pxGrants]
mcPxPaths == [dir : {"a", "b", "l"}, exists : BOOLEAN]

-----------------------------------------------------------------------------
CONSTANTS p1, p2, p3, p4, j1, j2, j3

VARIABLE part

Cap(k, keys) == [kind |-> k, keys |-> keys]

MCInfo ==
  (p1 :> [name |-> "a", priority |-> 2, handles |-> {"file"},
          caps |-> {Cap("store", {}), Cap("discover", {"file"})}, init |-> <<"file">>])
  @@ (p2 :> [name |-> "b", priority |-> 2, handles |-> {"file"},
          caps |-> {Cap("execute", {}), Cap("discover", {"smb"})}, init |-> <<>>])
  @@ (p3 :> [name |-> "c", priority |-> 1, handles |-> {"error"},
          caps |-> {Cap("execute", {})}, init |-> <<>>])
  @@ (p4 :> [name |-> "b", priority |-> 1, handles |-> {"file"},
          caps |-> {Cap("store", {}), Cap("discover", {"file", "smb"})}, init |-> <<>>])

MCWasmFile ==
  {[name |-> "w1", usable |-> TRUE, collides |-> FALSE],
   [name |-> "w2", usable |-> TRUE, collides |-> TRUE],
   [name |-> "w3", usable |-> FALSE, collides |-> FALSE]}

MCLimit == [r \in Resource |-> 1]
MCPlanDevice == (j1 :> "gpu") @@ (j2 :> "gpu") @@ (j3 :> NoDevice)

aCapability == CHOOSE k \in PxCaps : TRUE

partsVars == <<part, busVars, sinkVars, wasmVars, bootVars, toolVars, jobs, now,
     batchVars, pxVars, dsMCVars>>

\* One part is looked at; the others stay in a state of their own.
PartsInit ==
  /\ part \in {"bus", "sink", "wasm", "boot", "tool", "batch", "boundary", "discovery"}
  /\ BusInit
  /\ SinkInit
  /\ IF part = "wasm" THEN WasmInit
     ELSE WasmInit /\ memory["config"] = NoValue
  /\ IF part = "boot" THEN BootInit
     ELSE disabled = {} /\ BootInit
  /\ IF part = "tool" THEN ToolInit
     ELSE mode = "async" /\ ToolInit
  /\ IF part = "batch" THEN BatchInit
     ELSE on_error = "Fail" /\ BatchInit
  /\ IF part = "boundary" THEN PxInit
     ELSE pxPart = "capability" /\ pxGiven = aCapability /\ PxInit
  /\ IF part = "discovery" THEN DsMCInit
     ELSE dsPart = "file" /\ dsData = <<0, 0>> /\ DsMCInit

NotBus == <<sinkVars, wasmVars, bootVars, toolVars, jobs, now, batchVars, pxVars, dsMCVars>>
NotSink == <<busVars, wasmVars, bootVars, toolVars, jobs, now, batchVars, pxVars, dsMCVars>>
NotWasm == <<busVars, sinkVars, bootVars, toolVars, jobs, now, batchVars, pxVars, dsMCVars>>
NotBoot == <<busVars, sinkVars, wasmVars, toolVars, jobs, now, batchVars, pxVars, dsMCVars>>
NotTool == <<busVars, sinkVars, wasmVars, bootVars, jobs, now, batchVars, pxVars, dsMCVars>>
NotBatch == <<busVars, sinkVars, wasmVars, bootVars, toolVars, pxVars, dsMCVars>>
NotBoundary == <<busVars, sinkVars, wasmVars, bootVars, toolVars, jobs, now, batchVars, dsMCVars>>
NotDiscovery == <<busVars, sinkVars, wasmVars, bootVars, toolVars, jobs, now, batchVars, pxVars>>

PartsNext ==
  /\ UNCHANGED part
  /\ \/ part = "bus" /\ BusNext /\ UNCHANGED NotBus
     \/ part = "sink" /\ SinkNext /\ UNCHANGED NotSink
     \/ part = "wasm" /\ WasmNext /\ UNCHANGED NotWasm
     \/ part = "boot" /\ BootNext /\ UNCHANGED NotBoot
     \/ part = "tool" /\ ToolNext /\ UNCHANGED NotTool
     \/ part = "batch" /\ BatchNext /\ UNCHANGED NotBatch
     \/ part = "boundary" /\ PxNext /\ UNCHANGED NotBoundary
     \/ part = "discovery" /\ DsMCNext /\ UNCHANGED NotDiscovery

\* Fairness of a part's step: the scheduler runs the bus's caller, the sink's
\* writer, the readers and the caller of a tool, the tasks of a pool, and
\* the threads of a scan.

PartsSpec ==
  /\ PartsInit /\ [][PartsNext]_partsVars
  /\ WF_busVars(part = "bus" /\ DispatchStep)
  /\ WF_sinkVars(part = "sink" /\ WriterStep)
  /\ WF_toolVars(part = "tool" /\ ReaderStep)
  /\ WF_toolVars(part = "tool" /\ RunnerStep)
  /\ WF_<<jobs, now, batchVars>>(part = "batch" /\ PoolStep)
  /\ \A j \in JobId : WF_<<jobs, now, batchVars>>(part = "batch" /\ TaskStep(j))
  /\ WF_dsMCVars(part = "discovery" /\ dsPart = "scan" /\ DsWalkStep /\ UNCHANGED <<dsPart, dsFileVars>>)
  /\ WF_dsMCVars(part = "discovery" /\ dsPart = "scan" /\ ScanAnswers /\ UNCHANGED <<dsPart, dsFileVars>>)
  /\ \A t \in DsThreads : WF_dsMCVars(part = "discovery" /\ dsPart = "scan" /\ DsThreadStep(t) /\ UNCHANGED <<dsPart, dsFileVars>>)

\* Every call into the runtime comes to an end under fair scheduling: a
\* dispatch, the drop of the statistics sink, a call of a tool, a batch and a
\* scan.
EveryCallReturns ==
  /\ DispatchReturns
  /\ DropJoins
  /\ ToolCallReturns
  /\ BatchReturns
  /\ ScanCompletes
=============================================================================
