---------------------------- MODULE MCProcessing ----------------------------
(* The commands: the streaming pipeline of a process run and its workers,   *)
(* the scan command, the run as a whole, the configuration and the check of *)
(* the environment.                                                         *)
(* Pipeline: two roots, r2 inside r1: f2 lies in both and belongs to r2, so *)
(* both walks come across it; f3 is known to be bad; channels of one slot   *)
(* make every send a possible wait.  Workers: two workers, one item.        *)
EXTENDS StreamingPipeline, WorkerStream, RunCommands, LocalSetup, TLC

-----------------------------------------------------------------------------
(***************************************************************************)
(* Two roots, r2 inside r1: f2 lies in both and belongs to r2, so both      *)
(* walks come across it; f3 is known to be bad. Channels of one slot make    *)
(* every send a possible wait.                                               *)
(***************************************************************************)
CONSTANTS r1, r2, f1, f2, f3

RootSeq == <<r1, r2>>
NestedWalks == (r1 :> {f1, f2}) @@ (r2 :> {f2, f3})
InnermostRoot == (f1 :> r1) @@ (f2 :> r2) @@ (f3 :> r2)
KnownBad == {f3}

-----------------------------------------------------------------------------
(* Overlapping roots, one file gone, channels of depth one. *)
mcScRoots == << {"a"}, {"a", "b"} >>
mcFresh == {{}, {"a"}}

\* Every kind of row for each of the two files, the file that is gone known.
mcScRows ==
  {[a |-> p[1], b |-> p[2], g |-> "known"] :
     p \in {<<"none", "none">>, <<"known", "outdated">>, <<"outdated", "known">>,
            <<"stub", "left">>, <<"left", "stub">>, <<"none", "stub">>}}

-----------------------------------------------------------------------------
(***************************************************************************)
(* CliConfig with two shells: keys with and without a default, a retention *)
(* limit, a free plugin option, a key the configuration does not have; an  *)
(* optional and a required plugin; edited texts with a wrong type, with a  *)
(* bare limits table and with an option.                                   *)
(***************************************************************************)
mcCgSets == {<<"auth_token", "secret">>, <<"retention_days", "90">>, <<"retention_days", "soon">>,
             <<"keep_last", "5">>, <<"option", "true">>, <<"typo", "5">>}
mcCgTexts ==
    {[tables |-> {"pruning"}, vals |-> [retention_days |-> StrV("later")], disabled |-> {}],
     [tables |-> {"retention", "jobs", "pruning"}, vals |-> [keep_for_days |-> IntV(0)], disabled |-> {}],
     [tables |-> {"plugin", "plugins"}, vals |-> [option |-> StrV("x")],
      disabled |-> {"job-manager"}]}

-----------------------------------------------------------------------------
(* Two destinations, two tools and a few ticks for TLC.                    *)
ecKinds == {"local", "nameless", "remote"}
ecRuns == [EcTools -> {"ok", "fails"}]

\* All the basics with no destination or one, and all destinations in a sound
\* environment.
mcEcEnvs ==
  [config : {"ok", "broken", "absent"}, backup : BOOLEAN, database : {"ok", "failing", "absent"},
   job : {-1, 0, 1, 3}, event : {-1, 0, 1, 3}, runs : ecRuns, libvmaf : BOOLEAN,
   model : BOOLEAN, dests : {<<>>, <<"nameless">>}]
    \cup
  [config : {"ok"}, backup : {TRUE}, database : {"ok", "absent"}, job : {0}, event : {0},
   runs : {[t \in EcTools |-> "ok"]}, libvmaf : {TRUE}, model : {TRUE},
   dests : {<<a>> : a \in ecKinds} \cup {<<a, b>> : a, b \in ecKinds}]

-----------------------------------------------------------------------------
CONSTANTS j1, w1, w2

VARIABLE part

(* A part that is not looked at stands still: a run that was cancelled       *)
(* before it began, a pool that has returned, files whose jobs are done.     *)
PipelineIdle ==
  /\ run_token = TRUE /\ pcancel = TRUE /\ errors = FALSE /\ fired = FALSE
  /\ disc = [pc |-> "ok", with_gate |-> TRUE, root |-> 1, todo |-> {}, sending |-> {}]
  /\ discq = <<>> /\ rootq = <<>> /\ items = <<>> /\ sent = [f \in File |-> 0]
  /\ ing = [pc |-> "ended", file |-> NoFile, err |-> FALSE]
  /\ seen = {} /\ registered = {} /\ open = {} /\ holding = {}
  /\ dsp = [pc |-> "ended", root |-> Roots[1], batch |-> {}]
  /\ workers = [pc |-> "ended", queued |-> {}, refused |-> {}, run |-> {}, unclaimed |-> {},
                at |-> [w \in Worker |-> "gone"]]
  /\ session = "cancelled" /\ awaited = "done"
WorkersIdle ==
  /\ jobs = [j \in JobId |-> UnusedRow] /\ now = 1 /\ token = FALSE /\ gate = FALSE
  /\ enq = "recv" /\ heap = {} /\ enqueued = {} /\ leftover = {}
  /\ pc = [w \in WorkerId |-> "spawned"] /\ job = [w \in WorkerId |-> NoJob]
  /\ pre_failed = [w \in WorkerId |-> 0]
  /\ completed = 0 /\ failed = 0 /\ inflight = 0 /\ faults = 0
  /\ results = [j \in JobId |-> [o \in Outcome |-> 0]] /\ started = [j \in JobId |-> 0]
  /\ pool = "done" /\ command = NoJob
ScanIdle ==
  /\ scHash = TRUE /\ scVerify = FALSE /\ scFresh = {} /\ scRow = [f \in ScFiles |-> "known"]
  /\ scToken = FALSE /\ scRoot = 1 /\ scLeft = {} /\ scWalk = "done"
  /\ scUnread = {} /\ scLost = {} /\ scDisc = <<>> /\ scStage = "done" /\ scFile = NoScFile
  /\ scSession = "none" /\ scSeen = {} /\ scStamped = {} /\ scProbe = <<>>
  /\ scLoop = "done" /\ scHeld = NoScFile /\ scTasks = {} /\ scProbed = {} /\ scFailed = {}
  /\ scMain = "err" /\ scChecked = {} /\ scAnnounced = FALSE /\ scFaults = 0
anEnv == CHOOSE e \in EcEnvs : e.config = "ok" /\ e.dests = <<>>
CommandIdle ==
  /\ prMode = [r \in PrRuns |-> CHOOSE m \in PrModes : TRUE] /\ prNoBackup = [r \in PrRuns |-> FALSE]
  /\ PrInit

partsVars == <<part, pipelineVars, vars, scVars, prVars, cgVars, ecVars>>

\* One part is looked at; the others stay in a state of their own.
PartsInit ==
  /\ part \in {"pipeline", "workers", "scan", "command", "config", "environment"}
  /\ IF part = "pipeline" THEN PipelineInit
     ELSE PipelineIdle
  /\ IF part = "workers" THEN Init
     ELSE WorkersIdle
  /\ IF part = "scan" THEN ScInit
     ELSE ScanIdle
  /\ IF part = "command" THEN PrInit
     ELSE CommandIdle
  /\ IF part = "config" THEN CgInit
     ELSE cgPart = "config" /\ CgInit
  /\ IF part = "environment" THEN EcInit
     ELSE ecPart = "check" /\ ecEnv = anEnv /\ EcInit

NotPipeline == <<vars, scVars, prVars, cgVars, ecVars>>
NotWorkers == <<pipelineVars, scVars, prVars, cgVars, ecVars>>
NotScan == <<pipelineVars, vars, prVars, cgVars, ecVars>>
NotCommand == <<pipelineVars, vars, scVars, cgVars, ecVars>>
NotConfig == <<pipelineVars, vars, scVars, prVars, ecVars>>
NotEnvironment == <<pipelineVars, vars, scVars, prVars, cgVars>>

PartsNext ==
  /\ UNCHANGED part
  /\ \/ part = "pipeline" /\ PipelineNext /\ UNCHANGED NotPipeline
     \/ part = "workers" /\ TimelyNext /\ UNCHANGED NotWorkers
     \/ part = "scan" /\ ScNext /\ UNCHANGED NotScan
     \/ part = "command" /\ PrNext /\ UNCHANGED NotCommand
     \/ part = "config" /\ CgNext /\ UNCHANGED NotConfig
     \/ part = "environment" /\ EcNext /\ UNCHANGED NotEnvironment

PartsSpec ==
  /\ PartsInit /\ [][PartsNext]_partsVars
  /\ WF_pipelineVars(part = "pipeline" /\ Ingest)
  /\ WF_pipelineVars(part = "pipeline" /\ Dispatch)
  /\ WF_pipelineVars(part = "pipeline" /\ Pool)
  /\ WF_pipelineVars(part = "pipeline" /\ Command)
  /\ WF_pipelineVars(part = "pipeline" /\ Walk)
  /\ WF_vars(part = "workers" /\ EnqueuerSends)
  /\ WF_vars(part = "workers" /\ EnqueuerStops)
  /\ \A w \in WorkerId : WF_vars(part = "workers" /\ WorkerStep(w))
  /\ WF_vars(part = "workers" /\ Collect)
  /\ WF_vars(part = "workers" /\ MainStep)
  /\ WF_vars(part = "workers" /\ FireGate)
  /\ WF_scVars(part = "scan" /\ ScStep)

\* Every run comes to an end under fair scheduling, whatever fails: the
\* streaming pipeline, its worker pool and `voom scan`.
EveryRunReturns ==
  /\ Terminates
  /\ Returns
  /\ ScanReturns
=============================================================================
