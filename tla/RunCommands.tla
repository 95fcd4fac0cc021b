---------------------------- MODULE RunCommands -----------------------------
(* `voom scan`, and a run of `voom process` as a whole.                     *)
EXTENDS FiniteSets, Integers, Sequences

-----------------------------------------------------------------------------
(***************************************************************************)
(* `voom scan` (voom-cli commands/scan): discovery, ingest and probe run   *)
(* as three tasks joined by bounded channels and one cancellation token;   *)
(* when all are done the command purges, verifies, announces the scan and  *)
(* runs retention.  The token is cancelled by Ctrl-C at any moment or by   *)
(* the stage that fails.  What a row says of its file is one word:         *)
(* none, known (hash current and probed), outdated, unprobed (written by   *)
(* this scan), left (written and not probed by a scan whose session        *)
(* completed), stub (written by a scan whose session did not) or missing.  *)
(***************************************************************************)

CONSTANTS
    ScRoots,        \* the roots in order, each the set of media files under it
    ScGone,         \* files with a row and no longer on disk
    ScRows,         \* what the rows may say before the scan
    ScFreshSets,    \* which files may have a recent verification
    ScDepth,        \* channel_depth
    ScWorkers,      \* probe workers
    ScMaxFaults     \* bound: failing calls per scan

ScOnDisk == UNION {ScRoots[i] : i \in DOMAIN ScRoots}
ScFiles == ScOnDisk \cup ScGone

VARIABLES
    scHash,         \* hash_files
    scVerify,       \* --verify or verify_on_scan
    scFresh,        \* files verified within verify_freshness_days
    scRow,          \* the row of each file
    scToken,        \* pipeline_cancel is cancelled
    scRoot,         \* root being walked
    scLeft,         \* files of that root not yet hashed
    scWalk,         \* discovery: walking, cancelling, closing, ok, err
    scUnread,       \* files that discovery reported an error for
    scLost,         \* files never sent because of a cancelled token
    scDisc,         \* channel discovery to ingest
    scStage,        \* ingest: begin, loop, send, post, ok, err
    scFile,         \* the event ingest holds
    scSession,      \* none, open, completed, cancelled
    scSeen,         \* seen, and the paths of `formatted`
    scStamped,      \* files ingested in the session
    scProbe,        \* channel ingest to probe
    scLoop,         \* probe: recv, acquire, drain, done
    scHeld,         \* the event waiting for a permit
    scTasks,        \* probe tasks running
    scProbed,       \* files introspected
    scFailed,       \* files whose probe failed or panicked
    scMain,         \* run: disc, ingest, probe, report, verify, announce, retain, ok, err
    scChecked,      \* files with a new verification record
    scAnnounced,    \* ScanComplete was dispatched
    scFaults

discoverer == <<scRoot, scLeft, scWalk, scUnread, scLost>>
ingester == <<scStage, scFile, scSession, scSeen, scStamped>>
probe == <<scLoop, scHeld, scTasks, scProbed, scFailed>>
commander == <<scMain, scChecked, scAnnounced>>
settings == <<scHash, scVerify, scFresh>>
scVars == <<settings, scRow, scToken, discoverer, scDisc, ingester, scProbe, probe, commander, scFaults>>

NoScFile == "-"
ScFault == scFaults < ScMaxFaults /\ scFaults' = scFaults + 1

ScInit ==
    /\ scHash \in BOOLEAN /\ scVerify \in BOOLEAN /\ scFresh \in ScFreshSets
    /\ scRow \in ScRows
    /\ scFresh \subseteq {f \in ScOnDisk : scRow[f] # "none"}
    /\ scToken = FALSE
    /\ scRoot = 1 /\ scLeft = ScRoots[1] /\ scWalk = "walking"
    /\ scUnread = {} /\ scLost = {} /\ scDisc = <<>>
    /\ scStage = "begin" /\ scFile = NoScFile /\ scSession = "none"
    /\ scSeen = {} /\ scStamped = {} /\ scProbe = <<>>
    /\ scLoop = "recv" /\ scHeld = NoScFile /\ scTasks = {}
    /\ scProbed = {} /\ scFailed = {}
    /\ scMain = "disc" /\ scChecked = {} /\ scAnnounced = FALSE
    /\ scFaults = 0

(* Ctrl-C. *)
ScInterrupt ==
    /\ ~scToken /\ scMain \notin {"ok", "err"}
    /\ scToken' = TRUE
    /\ UNCHANGED <<settings, scRow, discoverer, scDisc, ingester, scProbe, probe, commander, scFaults>>

-----------------------------------------------------------------------------
(* Discovery.                                                               *)

IngestReturned == scStage \in {"ok", "err"}

(* A file is hashed and sent, or dropped: when the token is cancelled, and *)
(* when ingest has dropped its receiver.                                   *)
ScWalkFile(f) ==
    /\ scWalk = "walking" /\ f \in scLeft
    /\ scLeft' = scLeft \ {f}
    /\ \/ /\ ~scToken /\ ~IngestReturned /\ Len(scDisc) < ScDepth
          /\ scDisc' = Append(scDisc, f)
          /\ UNCHANGED <<scUnread, scLost, scFaults>>
       \/ /\ scToken \/ IngestReturned
          /\ scLost' = scLost \cup {f}
          /\ UNCHANGED <<scDisc, scUnread, scFaults>>
       \/ /\ ~scToken /\ ScFault
          /\ scUnread' = scUnread \cup {f}
          /\ UNCHANGED <<scDisc, scLost>>
    /\ UNCHANGED <<settings, scRow, scToken, scRoot, scWalk, ingester, scProbe, probe, commander>>

(* The next root, unless the token is cancelled. *)
NextScRoot ==
    /\ scWalk = "walking" /\ scLeft = {}
    /\ \/ /\ scRoot < Len(ScRoots) /\ ~scToken
          /\ scRoot' = scRoot + 1 /\ scLeft' = ScRoots[scRoot + 1]
          /\ UNCHANGED <<scWalk, scLost>>
       \/ /\ scRoot = Len(ScRoots) \/ scToken
          /\ scLost' = scLost \cup UNION {ScRoots[i] : i \in {j \in DOMAIN ScRoots : j > scRoot}}
          /\ scWalk' = "closing"
          /\ UNCHANGED <<scRoot, scLeft>>
    /\ UNCHANGED <<settings, scRow, scToken, scUnread, scDisc, ingester, scProbe, probe, commander, scFaults>>

(* handle_dispatch_result fails: the root cannot be walked, or the answer  *)
(* is not a ScanLibrary one.                                               *)
ScRootFails ==
    /\ scWalk = "walking" /\ scLeft = ScRoots[scRoot] /\ ScFault
    /\ scLost' = scLost \cup UNION {ScRoots[i] : i \in {j \in DOMAIN ScRoots : j >= scRoot}}
    /\ scWalk' = "cancelling"
    /\ UNCHANGED <<settings, scRow, scToken, scRoot, scLeft, scUnread, scDisc, ingester, scProbe, probe, commander>>

(* token.cancel() before drop(tx_disc). *)
CancelWalk ==
    /\ \/ scWalk = "cancelling" /\ scToken' = TRUE /\ scWalk' = "cancelled"
       \/ scWalk = "cancelled" /\ scWalk' = "err" /\ UNCHANGED scToken
    /\ UNCHANGED <<settings, scRow, scRoot, scLeft, scUnread, scLost, scDisc, ingester, scProbe,
                   probe, commander, scFaults>>

CloseWalk ==
    /\ scWalk = "closing" /\ scWalk' = "ok"
    /\ UNCHANGED <<settings, scRow, scToken, scRoot, scLeft, scUnread, scLost, scDisc, ingester,
                   scProbe, probe, commander, scFaults>>

WalkClosed == scWalk \in {"ok", "err"}

-----------------------------------------------------------------------------
(* Ingest.                                                                  *)

ProbeReturned == scLoop \in {"drain", "done"}

(* with_scan_session begins one; another session in progress refuses it. *)
BeginSession ==
    /\ scStage = "begin"
    /\ \/ ~scHash /\ scStage' = "loop" /\ UNCHANGED <<scSession, scToken, scFaults>>
       \/ scHash /\ scSession' = "open" /\ scStage' = "loop" /\ UNCHANGED <<scToken, scFaults>>
       \/ scHash /\ ScFault /\ scToken' = TRUE /\ scStage' = "err" /\ UNCHANGED scSession
    /\ UNCHANGED <<settings, scRow, discoverer, scDisc, scFile, scSeen, scStamped, scProbe, probe, commander>>

(* cancel_scan_session(session)?; return Ok: when it fails the error path  *)
(* of with_scan_session tries once more.                                   *)
CancelSession ==
    \/ /\ scHash /\ scSession' = "cancelled" /\ scStage' = "ok" /\ UNCHANGED <<scToken, scFaults>>
    \/ /\ scHash /\ ScFault /\ scSession' \in {"open", "cancelled"} /\ scStage' = "err"
       /\ scToken' = TRUE
    \/ /\ ~scHash /\ scStage' = "post" /\ UNCHANGED <<scSession, scToken, scFaults>>

ReceiveFile ==
    /\ scStage = "loop" /\ scDisc # <<>>
    /\ scDisc' = Tail(scDisc)
    /\ LET f == Head(scDisc)
       IN  \/ /\ scToken /\ CancelSession
              /\ UNCHANGED <<scFile, scSeen, scStamped, scRow>>
           \/ /\ ~scToken /\ f \in scSeen
              /\ UNCHANGED <<scToken, ingester, scRow, scFaults>>
           \/ /\ ~scToken /\ f \notin scSeen
              /\ scSeen' = scSeen \cup {f}
              /\ scStage' = IF scHash THEN "store" ELSE "send"
              /\ scFile' = f
              /\ UNCHANGED <<scToken, scSession, scStamped, scRow, scFaults>>
    /\ UNCHANGED <<settings, discoverer, scProbe, probe, commander>>

(* The hash is the row's and the last session that saw it completed. *)
Unchanged(f) == scRow[f] \in {"known", "left"}

(* ingest_discovered_file: a row for a new file, a fresh row for a changed *)
(* one and for one of a session that did not complete; only those are sent *)
(* on.                                                                     *)
IngestScFile ==
    /\ scStage = "store"
    /\ \/ /\ scRow' = [scRow EXCEPT ![scFile] = IF Unchanged(scFile) THEN @ ELSE "unprobed"]
          /\ scStamped' = scStamped \cup {scFile}
          /\ scStage' = IF Unchanged(scFile) THEN "loop" ELSE "send"
          /\ scFile' = IF Unchanged(scFile) THEN NoScFile ELSE scFile
          /\ UNCHANGED <<scSession, scToken, scFaults>>
       \/ /\ ScFault
          /\ scStage' = "err" /\ scToken' = TRUE /\ scFile' = NoScFile
          /\ scSession' = "cancelled"
          /\ UNCHANGED <<scRow, scStamped>>
    /\ UNCHANGED <<settings, discoverer, scDisc, scSeen, scProbe, probe, commander>>

(* tx_probe.blocking_send: waits for room; fails when probe has gone, which *)
(* is an error unless the token is cancelled.                               *)
SendToProbe ==
    /\ scStage = "send"
    /\ scFile' = NoScFile
    /\ \/ /\ ~ProbeReturned /\ Len(scProbe) < ScDepth
          /\ scProbe' = Append(scProbe, scFile) /\ scStage' = "loop"
          /\ UNCHANGED <<scSession, scToken, scFaults>>
       \/ /\ ProbeReturned /\ scToken /\ CancelSession
          /\ UNCHANGED scProbe
    /\ UNCHANGED <<settings, scRow, discoverer, scDisc, scSeen, scStamped, probe, commander>>

(* The channel is closed and empty. *)
EndIngestLoop ==
    /\ scStage = "loop" /\ WalkClosed /\ scDisc = <<>>
    /\ scStage' = "post"
    /\ UNCHANGED <<settings, scRow, scToken, discoverer, scDisc, scFile, scSession, scSeen, scStamped,
                   scProbe, probe, commander, scFaults>>

MarkMissing(present) ==
    scRow' = [f \in ScFiles |-> IF f \in present \/ scRow[f] = "none" THEN scRow[f] ELSE "missing"]

(* finish_scan_session, or mark_missing_paths without hashes; a cancelled  *)
(* token ends the session without a missing pass.                          *)
FinishIngest ==
    /\ scStage = "post"
    /\ \/ /\ scToken /\ scHash /\ CancelSession /\ UNCHANGED scRow
       \/ /\ scToken /\ ~scHash /\ scStage' = "ok"
          /\ UNCHANGED <<scSession, scToken, scRow, scFaults>>
       \/ /\ ~scToken
          /\ MarkMissing(IF scHash THEN scStamped ELSE scSeen)
          /\ scSession' = IF scHash THEN "completed" ELSE scSession
          /\ scStage' = "ok" /\ UNCHANGED <<scToken, scFaults>>
       \/ /\ ~scToken /\ ScFault
          /\ scSession' = IF scHash THEN "cancelled" ELSE scSession
          /\ scToken' = (scToken \/ scHash)
          /\ scStage' = "err" /\ UNCHANGED scRow
    /\ UNCHANGED <<settings, discoverer, scDisc, scFile, scSeen, scStamped, scProbe, probe, commander>>

-----------------------------------------------------------------------------
(* tx_probe is dropped after the loop, and by every return. *)
IngestClosed == scStage \in {"post", "ok", "err"}

TakeProbe ==
    /\ scLoop = "recv"
    /\ \/ /\ scProbe # <<>> /\ scProbe' = Tail(scProbe)
          /\ IF scToken THEN scLoop' = "drain" /\ UNCHANGED scHeld
                        ELSE scLoop' = "acquire" /\ scHeld' = Head(scProbe)
       \/ /\ scProbe = <<>> /\ IngestClosed
          /\ scLoop' = "drain" /\ UNCHANGED <<scProbe, scHeld>>
    /\ UNCHANGED <<settings, scRow, scToken, discoverer, scDisc, ingester, scTasks, scProbed, scFailed,
                   commander, scFaults>>

SpawnProbe ==
    /\ scLoop = "acquire" /\ Cardinality(scTasks) < ScWorkers
    /\ scTasks' = scTasks \cup {scHeld}
    /\ scLoop' = "recv" /\ scHeld' = NoScFile
    /\ UNCHANGED <<settings, scRow, scToken, discoverer, scDisc, ingester, scProbe, scProbed, scFailed,
                   commander, scFaults>>

(* A task that starts after cancellation does nothing; the others dispatch *)
(* FileIntrospected, which the store turns into a full row.                *)
ProbeFile(f) ==
    /\ f \in scTasks /\ scTasks' = scTasks \ {f}
    /\ \/ scToken /\ UNCHANGED <<scProbed, scFailed, scRow, scFaults>>
       \/ /\ scProbed' = scProbed \cup {f}
          /\ scRow' = [scRow EXCEPT ![f] = "known"]
          /\ UNCHANGED <<scFailed, scFaults>>
       \/ /\ ScFault /\ scFailed' = scFailed \cup {f} /\ UNCHANGED <<scProbed, scRow>>
    /\ UNCHANGED <<settings, scToken, discoverer, scDisc, ingester, scProbe, scLoop, scHeld, commander>>

DrainProbes ==
    /\ scLoop = "drain" /\ scTasks = {}
    /\ scLoop' = "done"
    /\ UNCHANGED <<settings, scRow, scToken, discoverer, scDisc, ingester, scProbe, scHeld, scTasks,
                   scProbed, scFailed, commander, scFaults>>

-----------------------------------------------------------------------------
(* The command.                                                             *)

(* All three are awaited before any error is returned. *)
AwaitStage ==
    /\ \/ /\ scMain = "disc" /\ scWalk \in {"ok", "err"} /\ scMain' = "ingest"
          /\ scToken' = (scToken \/ scWalk = "err")
       \/ /\ scMain = "ingest" /\ IngestReturned /\ scMain' = "probe"
          /\ scToken' = (scToken \/ scStage = "err")
       \/ /\ scMain = "probe" /\ scLoop = "done"
          /\ scMain' = IF "err" \in {scWalk, scStage} THEN "failed" ELSE "report"
          /\ UNCHANGED scToken
    /\ UNCHANGED <<settings, scRow, discoverer, scDisc, ingester, scProbe, probe, scChecked,
                   scAnnounced, scFaults>>

(* Nothing found, or interrupted: no purge, no verification, no event. *)
ReportScan ==
    /\ scMain = "report"
    /\ scMain' = IF scSeen = {} \/ scToken THEN "done"
                 ELSE IF scVerify THEN "verify" ELSE "announce"
    /\ UNCHANGED <<settings, scRow, scToken, discoverer, scDisc, ingester, scProbe, probe, scChecked,
                   scAnnounced, scFaults>>

build_verify_targets == {f \in scSeen : scRow[f] # "none" /\ f \notin scFresh}

(* run_quick_pass: a target whose check or insert fails has no record. *)
run_verify_pass ==
    /\ scMain = "verify" /\ scMain' = "announce"
    /\ \/ scToken /\ UNCHANGED <<scChecked, scFaults>>
       \/ ~scToken /\ scChecked' = build_verify_targets /\ UNCHANGED scFaults
       \/ /\ ~scToken /\ ScFault
          /\ \E f \in build_verify_targets : scChecked' = build_verify_targets \ {f}
    /\ UNCHANGED <<settings, scRow, scToken, discoverer, scDisc, ingester, scProbe, probe, scAnnounced>>

AnnounceScan ==
    /\ scMain = "announce" /\ scMain' = "done"
    /\ scAnnounced' = TRUE
    /\ UNCHANGED <<settings, scRow, scToken, discoverer, scDisc, ingester, scProbe, probe, scChecked,
                   scFaults>>

(* Retention runs whatever the result was. *)
RetainAfterScan ==
    /\ scMain \in {"done", "failed"}
    /\ scMain' = IF scMain = "done" THEN "ok" ELSE "err"
    /\ UNCHANGED <<settings, scRow, scToken, discoverer, scDisc, ingester, scProbe, probe, scChecked,
                   scAnnounced, scFaults>>

ScStep ==
    \/ \E f \in ScOnDisk : ScWalkFile(f) \/ ProbeFile(f)
    \/ NextScRoot \/ CancelWalk \/ CloseWalk
    \/ BeginSession \/ ReceiveFile \/ IngestScFile \/ SendToProbe \/ EndIngestLoop \/ FinishIngest
    \/ TakeProbe \/ SpawnProbe \/ DrainProbes
    \/ AwaitStage \/ ReportScan \/ run_verify_pass \/ AnnounceScan \/ RetainAfterScan

ScNext == ScStep \/ ScRootFails \/ ScInterrupt

-----------------------------------------------------------------------------
(* Properties.                                                              *)

(***************************************************************************)
(* A file that is on disk and that discovery did not report an error for   *)
(* is never marked missing, however the stages, their failures and Ctrl-C  *)
(* interleave: the missing pass runs only after a complete walk            *)
(* (spawn_discovery_stage cancels before it drops tx_disc).                *)
(***************************************************************************)
MissingOnlyAfterFullWalk ==
    \A f \in ScOnDisk \ scUnread : scRow[f] # "missing"

(***************************************************************************)
(* When the command returns and no call failed, its session is settled:   *)
(* "the scan session always ends in a terminal state (Finished or           *)
(* Cancelled), never InProgress"; and it is completed only when every file *)
(* of every root was sent (run_streaming_pipeline, with_scan_session).     *)
(***************************************************************************)
SessionSettled ==
    /\ scMain \in {"ok", "err"} /\ scFaults = 0 => scSession # "open"
    /\ scSession = "completed" => scLost = {}

(***************************************************************************)
(* A scan that was not interrupted has, for every file found, a probed row *)
(* or a reported failure: also for the rows an interrupted scan left       *)
(* behind.  The one exception are files that an earlier scan recorded in a *)
(* completed session and did not probe: with hashes they count as          *)
(* unchanged (spawn_probe_stage, prior_session_needs_recovery_in_tx).      *)
(***************************************************************************)
FoundIsProbed ==
    scMain \in {"report", "verify", "announce"} /\ ~scToken =>
        \A f \in ScOnDisk \ (scUnread \cup scFailed) :
            scRow[f] = "known" \/ (scHash /\ scRow[f] = "left")

(***************************************************************************)
(* The verification pass checks every file found that has a row and no     *)
(* recent check, and no other (build_verify_targets, freshness_cutoff).    *)
(***************************************************************************)
StaleIsVerified ==
    scMain = "announce" /\ scVerify /\ ~scToken /\ scFaults = 0 =>
        \A f \in scSeen : f \in scChecked <=> f \notin scFresh

(***************************************************************************)
(* The command returns, also when a stage fails or stops while another     *)
(* waits on a full channel.                                                *)
(***************************************************************************)
ScanReturns == scMain = "disc" ~> scMain \in {"ok", "err"}

-----------------------------------------------------------------------------
(***************************************************************************)
(* `voom process` around its pipeline (voom-cli commands/process/mod.rs):  *)
(* what happens before the scan session begins, how the session is settled *)
(* in each way the pipeline may end, and what follows; started from the    *)
(* command line under the process lock, or by `voom serve` as a task of    *)
(* the server without it.  The pipeline itself is StreamingPipeline; here  *)
(* it is one step with its possible results.                               *)
(***************************************************************************)

CONSTANTS
    PrRuns,         \* runs
    PrWebRuns,      \* those started by the web server
    PrMaxFaults     \* bound: failing calls of the store

PrModes == {"real", "plan_only", "estimate"}

VARIABLES
    prMode,         \* mode of each run
    prNoBackup,     \* --no-backup
    prStep,         \* where each run is
    prToken,        \* its cancellation token is cancelled
    prSession,      \* its scan session: none, open, stale, completed, cancelled
    prWalk,         \* how its walk went: none, whole, errors, cut
    prMarked,       \* its missing pass ran
    prSampled,      \* list_cost_model_samples succeeded
    prBadCall,      \* cancel_scan_session failed
    prRetained,     \* retention ran after it
    prServer,       \* voom serve: up, stopping, down
    prLock,         \* the command-line run holding the process lock, 0 is none
    prFaults

prVars == <<prMode, prNoBackup, prStep, prToken, prSession, prWalk, prMarked, prSampled, prBadCall,
            prRetained, prServer, prLock, prFaults>>

PrDone == {"ok", "err", "aborted"}
PrFault == prFaults < PrMaxFaults /\ prFaults' = prFaults + 1
AtStep(r, s) == prStep[r] = s
StepTo(r, s) == prStep' = [prStep EXCEPT ![r] = s]

PrInit ==
    /\ prMode \in [PrRuns -> PrModes] /\ prNoBackup \in [PrRuns -> BOOLEAN]
    /\ prStep = [r \in PrRuns |-> "idle"]
    /\ prToken = [r \in PrRuns |-> FALSE] /\ prSession = [r \in PrRuns |-> "none"]
    /\ prWalk = [r \in PrRuns |-> "none"] /\ prMarked = [r \in PrRuns |-> FALSE]
    /\ prSampled = [r \in PrRuns |-> FALSE] /\ prBadCall = [r \in PrRuns |-> FALSE]
    /\ prRetained = [r \in PrRuns |-> FALSE]
    /\ prServer = "up" /\ prLock = 0 /\ prFaults = 0

(* CliProcessRunLauncher::launch spawns the run: real, with backups, under *)
(* a child of the server's token.  main takes the lock for the others.     *)
Launch(r) ==
    /\ AtStep(r, "idle") /\ StepTo(r, "prepare")
    /\ \/ /\ r \in PrWebRuns /\ prServer = "up" /\ UNCHANGED prLock
          /\ prMode[r] = "real" /\ ~prNoBackup[r]
       \/ r \notin PrWebRuns /\ prLock = 0 /\ prLock' = r
    /\ UNCHANGED <<prMode, prNoBackup, prToken, prSession, prWalk, prMarked, prSampled, prBadCall,
                   prRetained, prServer, prFaults>>

(* Ctrl-C cancels a command-line run. *)
CancelRun(r) ==
    /\ r \notin PrWebRuns /\ ~AtStep(r, "idle") /\ prStep[r] \notin PrDone /\ ~prToken[r]
    /\ prToken' = [prToken EXCEPT ![r] = TRUE]
    /\ UNCHANGED <<prMode, prNoBackup, prStep, prSession, prWalk, prMarked, prSampled, prBadCall,
                   prRetained, prServer, prLock, prFaults>>

(* Ctrl-C stops the server and cancels the runs it started. *)
StopServer ==
    /\ prServer = "up" /\ prServer' = "stopping"
    /\ prToken' = [r \in PrRuns |-> prToken[r] \/ (r \in PrWebRuns /\ ~AtStep(r, "idle"))]
    /\ UNCHANGED <<prMode, prNoBackup, prStep, prSession, prWalk, prMarked, prSampled, prBadCall,
                   prRetained, prLock, prFaults>>

(* serve::run returns without awaiting the runs; the runtime drops them.   *)
(* Without heartbeats a session they held goes stale.                      *)
ServerGone ==
    /\ prServer = "stopping" /\ prServer' = "down"
    /\ prStep' = [r \in PrRuns |-> IF r \in PrWebRuns /\ prStep[r] \notin PrDone \cup {"idle"}
                                   THEN "aborted" ELSE prStep[r]]
    /\ prSession' = [r \in PrRuns |-> IF r \in PrWebRuns /\ prSession[r] = "open"
                                      THEN "stale" ELSE prSession[r]]
    /\ UNCHANGED <<prMode, prNoBackup, prToken, prWalk, prMarked, prSampled, prBadCall, prRetained,
                   prLock, prFaults>>

(* Policies are compiled, files gone from disk pruned, crashed executions  *)
(* recovered (failures of both are logged) and the bad files listed, in    *)
(* every mode; then a cancelled run returns Ok.                            *)
PrepareRun(r) ==
    /\ AtStep(r, "prepare")
    /\ \/ prToken[r] /\ StepTo(r, "primary_ok") /\ UNCHANGED prFaults
       \/ ~prToken[r] /\ StepTo(r, "begin") /\ UNCHANGED prFaults
       \/ PrFault /\ StepTo(r, "primary_err")
    /\ UNCHANGED <<prMode, prNoBackup, prToken, prSession, prWalk, prMarked, prSampled, prBadCall,
                   prRetained, prServer, prLock>>

(* begin_scan_session refuses while a session has heartbeats and cancels a *)
(* stale one.                                                              *)
BeginRun(r) ==
    /\ AtStep(r, "begin")
    /\ \/ /\ \A o \in PrRuns : prSession[o] # "open"
          /\ prSession' = [o \in PrRuns |-> IF o = r THEN "open"
                                            ELSE IF prSession[o] = "stale" THEN "cancelled"
                                            ELSE prSession[o]]
          /\ StepTo(r, "samples") /\ UNCHANGED prFaults
       \/ /\ \E o \in PrRuns : prSession[o] = "open"
          /\ StepTo(r, "primary_err") /\ UNCHANGED <<prSession, prFaults>>
       \/ PrFault /\ StepTo(r, "primary_err") /\ UNCHANGED prSession
    /\ UNCHANGED <<prMode, prNoBackup, prToken, prWalk, prMarked, prSampled, prBadCall, prRetained,
                   prServer, prLock>>

(* list_cost_model_samples(..)?: its error returns past the settlement. *)
LoadSamples(r) ==
    /\ AtStep(r, "samples")
    /\ \/ /\ prSampled' = [prSampled EXCEPT ![r] = TRUE]
          /\ StepTo(r, "pipeline") /\ UNCHANGED prFaults
       \/ PrFault /\ StepTo(r, "primary_err") /\ UNCHANGED prSampled
    /\ UNCHANGED <<prMode, prNoBackup, prToken, prSession, prWalk, prMarked, prBadCall, prRetained,
                   prServer, prLock>>

(* The pipeline ends well, with errors of discovery, cut short by its      *)
(* cancelled token, or with an error.                                      *)
RunPipeline(r) ==
    /\ AtStep(r, "pipeline")
    /\ \/ /\ prWalk' = [prWalk EXCEPT ![r] = "whole"] /\ StepTo(r, "settle") /\ UNCHANGED prFaults
       \/ /\ prToken[r] /\ prWalk' = [prWalk EXCEPT ![r] = "cut"] /\ StepTo(r, "settle")
          /\ UNCHANGED prFaults
       \/ PrFault /\ prWalk' = [prWalk EXCEPT ![r] = "errors"] /\ StepTo(r, "settle")
       \/ PrFault /\ prWalk' = [prWalk EXCEPT ![r] = "cut"] /\ StepTo(r, "pipeline_err")
    /\ UNCHANGED <<prMode, prNoBackup, prToken, prSession, prMarked, prSampled, prBadCall, prRetained,
                   prServer, prLock>>

EndSession(r, how) == prSession' = [prSession EXCEPT ![r] = how]

(* cancel_scan_session, whose failure leaves the session to go stale. *)
TryCancel(r, next) ==
    \/ EndSession(r, "cancelled") /\ StepTo(r, next) /\ UNCHANGED <<prBadCall, prFaults>>
    \/ /\ PrFault /\ prBadCall' = [prBadCall EXCEPT ![r] = TRUE]
       /\ EndSession(r, "stale") /\ StepTo(r, next)

(* The session is cancelled after a cancelled run, an error of discovery   *)
(* or an error of the pipeline; --no-backup marks missing by path and      *)
(* cancels it; otherwise it is finished, or cancelled when that fails.     *)
SettleRun(r) ==
    /\ \/ AtStep(r, "pipeline_err") /\ TryCancel(r, "primary_err") /\ UNCHANGED prMarked
       \/ /\ AtStep(r, "settle") /\ prToken[r]
          /\ TryCancel(r, "results") /\ UNCHANGED prMarked
       \/ /\ AtStep(r, "settle") /\ ~prToken[r] /\ prWalk[r] = "errors"
          /\ TryCancel(r, "primary_err") /\ UNCHANGED prMarked
       \/ /\ AtStep(r, "settle") /\ ~prToken[r] /\ prWalk[r] # "errors" /\ prNoBackup[r]
          /\ \/ /\ prMarked' = [prMarked EXCEPT ![r] = TRUE]
                /\ EndSession(r, "cancelled") /\ StepTo(r, "results")
                /\ UNCHANGED <<prBadCall, prFaults>>
             \/ /\ prMarked' = [prMarked EXCEPT ![r] = TRUE] /\ PrFault
                /\ prBadCall' = [prBadCall EXCEPT ![r] = TRUE]
                /\ EndSession(r, "stale") /\ StepTo(r, "primary_err")
             \/ /\ PrFault /\ EndSession(r, "cancelled") /\ StepTo(r, "primary_err")
                /\ UNCHANGED <<prMarked, prBadCall>>
       \/ /\ AtStep(r, "settle") /\ ~prToken[r] /\ prWalk[r] # "errors" /\ ~prNoBackup[r]
          /\ \/ /\ EndSession(r, "completed") /\ StepTo(r, "results")
                /\ prMarked' = [prMarked EXCEPT ![r] = TRUE] /\ UNCHANGED <<prBadCall, prFaults>>
             \/ /\ PrFault /\ EndSession(r, "cancelled") /\ StepTo(r, "primary_err")
                /\ UNCHANGED <<prMarked, prBadCall>>
    /\ UNCHANGED <<prMode, prNoBackup, prToken, prWalk, prSampled, prRetained, prServer, prLock>>

(* print_run_results: an estimate is stored and may fail to be. *)
PrintResults(r) ==
    /\ AtStep(r, "results")
    /\ \/ StepTo(r, "primary_ok") /\ UNCHANGED prFaults
       \/ prMode[r] = "estimate" /\ PrFault /\ StepTo(r, "primary_err")
    /\ UNCHANGED <<prMode, prNoBackup, prToken, prSession, prWalk, prMarked, prSampled, prBadCall,
                   prRetained, prServer, prLock>>

(* maybe_run_after_cli, then the result; main releases its lock.  The      *)
(* session of a run that left it open has no heartbeats any more.          *)
ReturnRun(r) ==
    /\ prStep[r] \in {"primary_ok", "primary_err"}
    /\ StepTo(r, IF AtStep(r, "primary_ok") THEN "ok" ELSE "err")
    /\ prRetained' = [prRetained EXCEPT ![r] = TRUE]
    /\ prSession' = [prSession EXCEPT ![r] = IF @ = "open" THEN "stale" ELSE @]
    /\ prLock' = IF prLock = r THEN 0 ELSE prLock
    /\ UNCHANGED <<prMode, prNoBackup, prToken, prWalk, prMarked, prSampled, prBadCall, prServer,
                   prFaults>>

PrStep(r) == PrepareRun(r) \/ BeginRun(r) \/ LoadSamples(r) \/ RunPipeline(r) \/ SettleRun(r)
             \/ PrintResults(r) \/ ReturnRun(r)
PrNext == StopServer \/ ServerGone \/ \E r \in PrRuns : Launch(r) \/ CancelRun(r) \/ PrStep(r)

-----------------------------------------------------------------------------
(***************************************************************************)
(* Two runs never walk and change files at the same time, also when one is *)
(* started by the web server, which takes no process lock                  *)
(* (begin_scan_session in run).                                            *)
(***************************************************************************)
OneRunAtATime ==
    \A r, o \in PrRuns : r # o => ~(AtStep(r, "pipeline") /\ AtStep(o, "pipeline"))

(***************************************************************************)
(* A run that returns, Ok or not, leaves no session in progress, unless    *)
(* cancelling it failed or the cost samples could not be read: the next    *)
(* run is not refused until the session goes stale (run, "leaving it       *)
(* in_progress would block subsequent runs").                              *)
(***************************************************************************)
RunSettlesSession ==
    \A r \in PrRuns : prStep[r] \in {"ok", "err"} /\ ~prBadCall[r] /\ prSampled[r] =>
        prSession[r] \in {"completed", "cancelled"}

(***************************************************************************)
(* Rows are marked missing only by a run whose walk was whole and without  *)
(* errors ("to avoid false-missing reconciliation"), and a completed       *)
(* session had its missing pass.                                           *)
(***************************************************************************)
MarkedAfterCleanWalk ==
    \A r \in PrRuns : /\ prMarked[r] => prWalk[r] = "whole"
                      /\ prSession[r] = "completed" => prMarked[r]

=============================================================================
