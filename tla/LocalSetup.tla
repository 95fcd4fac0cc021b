----------------------------- MODULE LocalSetup -----------------------------
(* `voom env check`, the health checks, and the configuration commands.     *)
EXTENDS FiniteSets, Integers, Sequences, TLC

-----------------------------------------------------------------------------
(***************************************************************************)
(* `voom env check` (crates/voom-cli/src/commands/env.rs): configuration,  *)
(* database, retention coverage, external tools, VMAF models and the       *)
(* backup destinations, each remote of which is probed by writing and      *)
(* deleting a file with rclone; and the health checks `voom serve` runs on *)
(* a timer (serve.rs, plugins/health-checker, health_check_storage.rs).    *)
(*                                                                         *)
(* External: rclone, which may fail, and may fail after it has done its    *)
(* work (the ten second timeout), and the tools on the path.               *)
(***************************************************************************)

CONSTANTS
  EcTools,       \* tools that may be installed
  EcRequired,    \* the four that must be
  NOISE_FLOOR,   \* lag of the event log that is tolerated
  EcEnvs,        \* environments: [config, backup, database, job, event, runs, libvmaf,
                 \* model, dests]; job and event are the oldest creation times, 0 for
                 \* none and -1 for a query that fails
  EcDay,         \* length of a day in units of the clock
  EcIntervals,   \* health check intervals
  EcRetention,   \* retention_days in units of the clock
  EcMaxTime

VARIABLES
  ecPart,      \* "check" or "serve"
  ecEnv,       \* what the check finds
  ecStage,     \* where the check is
  ecNext,      \* index of the destination being probed
  ecResults,   \* verdicts of the destinations so far
  ecLocal,     \* the local probe file exists
  ecRemote,    \* destinations that hold a probe file
  ecDid,       \* ghost: what rclone really did for each destination
  ecSaved,     \* rows of health_checks written by the check
  ecHealth,    \* rows of health_checks of the server
  ecDir,       \* state of the data directory
  ecTick,      \* ticks of the server's timer
  ecTime

ecVars == <<ecPart, ecEnv, ecStage, ecNext, ecResults, ecLocal, ecRemote, ecDid, ecSaved,
            ecHealth, ecDir, ecTick, ecTime>>
ecServer == <<ecHealth, ecDir, ecTick, ecTime>>

---------------------------------------------------------------------------
(* What is counted.                                                        *)

\* retention_coverage::evaluate.
CoverageStatus(job, event) ==
  IF job = 0 THEN "ok"
  ELSE IF event = 0 THEN "empty"
  ELSE IF event - job <= NOISE_FLOOR THEN "ok" ELSE "asymmetry"

\* evaluate_query_results and the check's use of it: one issue for each query that
\* failed, or one for a gap.
coverage_issues(job, event) ==
  IF job < 0 \/ event < 0 THEN Cardinality({n \in 1 .. 2 : <<job, event>>[n] < 0})
  ELSE IF CoverageStatus(job, event) = "ok" THEN 0 ELSE 1

\* populate_cache and detect_tool: a known tool that runs and exits with success.
detect_all(runs) == {t \in EcTools : runs[t] = "ok"}

\* print_tool_status, and the list the JSON format goes by.
missing_required(tools) == Cardinality(EcRequired \ tools)

\* LibvmafReport::from_probe: models matter only to an ffmpeg that has libvmaf.
VmafModelStatus(env) ==
  IF ~(env.libvmaf /\ "ffmpeg" \in detect_all(env.runs)) THEN "not_required"
  ELSE IF env.model THEN "present" ELSE "missing"

\* check: everything before the destinations.  Without a database the coverage is not
\* looked at.
BasicIssues(env) ==
  (IF env.config = "broken" THEN 1 ELSE 0)
    + (IF env.database = "ok" THEN 0 ELSE 1)
    + (IF env.database = "absent" THEN 0 ELSE coverage_issues(env.job, env.event))
    + missing_required(detect_all(env.runs))
    + (IF VmafModelStatus(env) = "missing" THEN 1 ELSE 0)

\* A configuration that cannot be loaded is replaced by the defaults, which have no
\* destinations.
Destinations(env) == IF env.config = "ok" THEN env.dests ELSE <<>>

FailedDests == {n \in DOMAIN ecResults : ~ecResults[n].passed}
Issues == BasicIssues(ecEnv) + Cardinality(FailedDests)

---------------------------------------------------------------------------
(* The destinations, one after the other.                                  *)

Verdict(status) == [passed |-> status = "healthy", status |-> status]

\* The verdict on the destination being probed, and on to the next one.
Judged(status) ==
  /\ ecResults' = Append(ecResults, Verdict(status))
  /\ ecNext' = ecNext + 1
  /\ ecStage' = "dest"

\* backup_destination_health_checks_with_runner: a configuration of the plugin that
\* does not parse is one failed check.
DestinationsInvalid ==
  /\ ecStage = "start" /\ ecEnv.config = "ok" /\ ~ecEnv.backup
  /\ ecResults' = <<Verdict("config_invalid")>>
  /\ ecStage' = "save"
  /\ UNCHANGED <<ecPart, ecEnv, ecNext, ecLocal, ecRemote, ecDid, ecSaved, ecServer>>

StartDestinations ==
  /\ ecStage = "start" /\ (ecEnv.config = "ok" => ecEnv.backup)
  /\ ecStage' = "dest"
  /\ UNCHANGED <<ecPart, ecEnv, ecNext, ecResults, ecLocal, ecRemote, ecDid, ecSaved, ecServer>>

AtDest(kinds) ==
  /\ ecStage = "dest" /\ ecNext \in DOMAIN Destinations(ecEnv)
  /\ Destinations(ecEnv)[ecNext] \in kinds

\* check_backup_destination: a local one needs no probe, one without a remote fails.
CheckLocal ==
  /\ AtDest({"local"}) /\ Judged("healthy")
  /\ UNCHANGED <<ecPart, ecEnv, ecLocal, ecRemote, ecDid, ecSaved, ecServer>>
CheckNoRemote ==
  /\ AtDest({"nameless"}) /\ Judged("config_invalid")
  /\ UNCHANGED <<ecPart, ecEnv, ecLocal, ecRemote, ecDid, ecSaved, ecServer>>

\* run_rclone_destination_checks: the version, then a listing.
CheckRclone ==
  /\ AtDest({"remote"})
  /\ \/ Judged("rclone_unavailable")
     \/ Judged("remote_unreachable")
     \/ ecStage' = "write" /\ UNCHANGED <<ecNext, ecResults>>
  /\ UNCHANGED <<ecPart, ecEnv, ecLocal, ecRemote, ecDid, ecSaved, ecServer>>

\* run_backup_destination_write_probe: the local file.
WriteLocalProbe ==
  /\ ecStage = "write"
  /\ \/ /\ Judged("probe_failed") /\ UNCHANGED ecLocal
     \/ /\ ecLocal' = TRUE /\ ecStage' = "copy" /\ UNCHANGED <<ecNext, ecResults>>
  /\ UNCHANGED <<ecPart, ecEnv, ecRemote, ecDid, ecSaved, ecServer>>

\* copyto: done, failed, or failed after the file was there.
CopyProbe ==
  /\ ecStage = "copy"
  /\ \E done, reported \in BOOLEAN :
       /\ reported => done
       /\ ecRemote' = IF done THEN ecRemote \cup {ecNext} ELSE ecRemote
       /\ ecDid' = [ecDid EXCEPT ![ecNext].wrote = done]
       /\ ecStage' = IF reported THEN "delete" ELSE "failed"
  /\ UNCHANGED <<ecPart, ecEnv, ecNext, ecResults, ecLocal, ecSaved, ecServer>>

\* deletefile, after a copy that was reported done.
DeleteProbe ==
  /\ ecStage = "delete"
  /\ \E done, reported \in BOOLEAN :
       /\ reported => done
       /\ ecRemote' = IF done THEN ecRemote \ {ecNext} ELSE ecRemote
       /\ ecDid' = [ecDid EXCEPT ![ecNext].deleted = done]
       /\ ecStage' = IF reported THEN "worked" ELSE "failed"
  /\ UNCHANGED <<ecPart, ecEnv, ecNext, ecResults, ecLocal, ecSaved, ecServer>>

\* The local file is removed either way; both commands must have been reported done.
EndProbe ==
  /\ ecStage \in {"worked", "failed"}
  /\ ecLocal' = FALSE
  /\ Judged(IF ecStage = "worked" THEN "healthy" ELSE "probe_failed")
  /\ UNCHANGED <<ecPart, ecEnv, ecRemote, ecDid, ecSaved, ecServer>>

EndDestinations ==
  /\ ecStage = "dest" /\ ecNext \notin DOMAIN Destinations(ecEnv)
  /\ ecStage' = "save"
  /\ UNCHANGED <<ecPart, ecEnv, ecNext, ecResults, ecLocal, ecRemote, ecDid, ecSaved, ecServer>>

\* check: a row for each destination and one for the whole, when there is a store; an
\* insert that fails is only logged.  env_snapshot_record: what is reported as passed.
SaveCheck ==
  /\ ecStage = "save"
  /\ LET passed == /\ ecEnv.config # "broken" /\ ecEnv.database = "ok" /\ Issues = 0
                   /\ VmafModelStatus(ecEnv) # "missing"
         rows == {[name |-> n, passed |-> ecResults[n].passed] : n \in DOMAIN ecResults}
                   \cup {[name |-> 0, passed |-> passed]}
     IN ecSaved' \in IF ecEnv.database = "absent" THEN {{}} ELSE SUBSET rows
  /\ ecStage' = "reported"
  /\ UNCHANGED <<ecPart, ecEnv, ecNext, ecResults, ecLocal, ecRemote, ecDid, ecServer>>

CheckNext ==
  /\ ecPart = "check"
  /\ \/ DestinationsInvalid \/ StartDestinations \/ CheckLocal \/ CheckNoRemote
     \/ CheckRclone \/ WriteLocalProbe \/ CopyProbe \/ DeleteProbe \/ EndProbe
     \/ EndDestinations \/ SaveCheck

---------------------------------------------------------------------------
(* The server's health checks.  A row is [id, name, passed, at].           *)

\* HealthCheckerPlugin::run_checks and handle_health_status: the directory exists, and
\* only then, it can be written.
run_checks(dir, at) ==
  {[name |-> "exists", passed |-> dir # "gone", at |-> at]}
    \cup (IF dir = "gone" THEN {}
          ELSE {[name |-> "writable", passed |-> dir = "writable", at |-> at]})

\* latest_health_checks: the rows at the newest time of their name.
latest_health_checks(rows) ==
  {r \in rows : \A o \in rows : o.name = r.name => o.at <= r.at}

\* About once a day, and never zero.
prune_every(interval) ==
  IF EcDay \div interval > 1 THEN EcDay \div interval ELSE 1

\* prune_health_checks.
prune_health_checks(rows, before) == {r \in rows : r.at >= before}

\* The timer: prune on every prune_every-th tick, then run the checks.
HealthTick ==
  /\ ecPart = "serve" /\ ecTime + ecEnv.interval <= EcMaxTime
  /\ ecTime' = ecTime + ecEnv.interval
  /\ ecTick' = ecTick + 1
  /\ LET due == ecTick' % prune_every(ecEnv.interval) = 0
         kept == IF due THEN prune_health_checks(ecHealth, ecTime' - EcRetention)
                 ELSE ecHealth
     IN ecHealth' = kept \cup run_checks(ecDir, ecTime')
  /\ UNCHANGED <<ecPart, ecEnv, ecStage, ecNext, ecResults, ecLocal, ecRemote, ecDid, ecSaved,
                 ecDir>>

\* The data directory is removed, protected or restored from outside.
ChangeDir(d) ==
  /\ ecPart = "serve" /\ d # ecDir
  /\ ecDir' = d
  /\ UNCHANGED <<ecPart, ecEnv, ecStage, ecNext, ecResults, ecLocal, ecRemote, ecDid, ecSaved,
                 ecHealth, ecTick, ecTime>>

DirStates == {"writable", "protected", "gone"}
ServeNext == HealthTick \/ \E d \in DirStates : ChangeDir(d)

---------------------------------------------------------------------------

EcInit ==
  /\ ecStage = "start" /\ ecNext = 1 /\ ecResults = <<>> /\ ecLocal = FALSE /\ ecRemote = {}
  /\ ecDid = [n \in 1 .. 2 |-> [wrote |-> FALSE, deleted |-> FALSE]] /\ ecSaved = {}
  /\ ecTick = 0 /\ ecTime = 0 /\ ecDir = "writable"
  /\ \/ ecPart = "check" /\ ecEnv \in EcEnvs /\ ecHealth = {}
     \/ /\ ecPart = "serve" /\ ecEnv \in [interval : EcIntervals]
        /\ ecHealth = run_checks("writable", 0)    \* init has run them

EcNext == CheckNext \/ ServeNext

EcSpec == EcInit /\ [][EcNext]_ecVars

---------------------------------------------------------------------------
(* Properties.                                                             *)

\* `voom env check` records the environment as passed exactly when no part of it is at
\* fault: a query that failed, a destination that could not be probed or a missing tool
\* is never lost in the count, in either output format.
EnvVerdictIsWhole ==
  \A r \in ecSaved :
    r.name = 0 =>
      (r.passed <=>
         /\ ecEnv.config # "broken" /\ ecEnv.database = "ok"
         /\ ecEnv.job >= 0 /\ ecEnv.event >= 0
         /\ ecEnv.job > 0 => ecEnv.event > 0 /\ ecEnv.event - ecEnv.job <= NOISE_FLOOR
         /\ \A t \in EcRequired : ecEnv.runs[t] = "ok"
         /\ ecEnv.libvmaf => ecEnv.model
         /\ \A n \in DOMAIN ecResults : ecResults[n].status = "healthy")

\* Probing leaves nothing behind on this machine, and leaves a file on a remote only
\* when that destination is reported as failed.
ProbesAreRemoved ==
  ecPart = "check" /\ ecStage = "reported" =>
    /\ ~ecLocal
    /\ \A n \in ecRemote : ecResults[n].status = "probe_failed"

\* A remote destination reported healthy was written to and deleted from in this check.
HealthyIsUsable ==
  ecPart = "check" =>
    \A n \in DOMAIN ecResults :
      /\ ecResults[n].status = "healthy" /\ ecEnv.backup
      /\ Destinations(ecEnv)[n] = "remote"
      => ecDid[n].wrote /\ ecDid[n].deleted

\* The health history is bounded: after a tick of the server no row is older than the
\* retention plus the day between two prunes (or the interval, when that is longer).
HealthHistoryBounded ==
  ecPart = "serve" =>
    \A r \in ecHealth :
      ecTime - r.at <= EcRetention + (IF ecEnv.interval > EcDay THEN ecEnv.interval ELSE EcDay)

\* What is reported as the latest health is what the last run of each check found: one
\* row for each check, and "exists" is never older than the last tick.
LatestIsLast ==
  ecPart = "serve" =>
    LET latest == latest_health_checks(ecHealth)
    IN /\ \A r, o \in latest : r.name = o.name => r = o
       /\ \E r \in latest : r.name = "exists" /\ r.at = ecTime

-----------------------------------------------------------------------------
(***************************************************************************)
(* The files the command line keeps for its user: config.toml as `voom     *)
(* config set`, `voom plugin enable|disable`, `voom init` and an editor    *)
(* change it, an installed WASM plugin, and the directory of a bug report. *)
(*                                                                         *)
(* A TOML document is the set of its tables and the typed values of its    *)
(* keys.  Saving truncates the file and then writes it, and no lock is     *)
(* held between the load and the save, so commands interleave, a write may *)
(* land on the text of another and a crash falls between any two steps.    *)
(***************************************************************************)

CONSTANTS CgActors,       \* shells that run a command
          CgSets,         \* the (key, text) pairs given to `config set`
          CgPlugins,      \* plugin names given to `plugin enable|disable`
          CgTexts,        \* what the user may leave in the editor
          CgMaxCommands   \* commands of one behaviour

VARIABLES cgPart,         \* "config", "install" or "bundle"
          cgFile,         \* config.toml
          cgActs,         \* what each shell is doing
          cgDone,         \* the last finished command, with the file around it
          cgCount,        \* commands started
          cgDir           \* the plugin directory, or the report directory

cgVars == <<cgPart, cgFile, cgActs, cgDone, cgCount, cgDir>>

----------------------------------------------------------------------------
(* Documents and configurations *)

IntV(n) == [t |-> "int", v |-> ToString(n)]
BoolV(b) == [t |-> "bool", v |-> IF b THEN "true" ELSE "false"]
StrV(s) == [t |-> "str", v |-> s]
Unset == [t |-> "none", v |-> ""]

\* The keys told apart, with the table each is in.
TableOf == [auth_token |-> "top", retention_days |-> "pruning", run_after_cli |-> "retention",
            keep_for_days |-> "jobs", keep_last |-> "jobs", option |-> "plugin",
            typo |-> "unknown"]
CgKeys == DOMAIN TableOf
KnownKeys == CgKeys \ {"typo"}

\* A table, when present, has its parents present.
Parents(t) == IF t = "jobs" THEN {"retention", "jobs"} ELSE IF t = "top" THEN {} ELSE {t}

EmptyDoc == [tables |-> {}, vals |-> [k \in {} |-> Unset], disabled |-> {}]
AbsentFile == [exists |-> FALSE, torn |-> FALSE, doc |-> EmptyDoc]
FileOf(d) == [exists |-> TRUE, torn |-> FALSE, doc |-> d]
\* The beginning of a text, or one text with the end of a longer one after it.
TornFile == [exists |-> TRUE, torn |-> TRUE, doc |-> EmptyDoc]

\* The value type serde expects of a key.
KeyType == [auth_token |-> {"str"}, retention_days |-> {"int"}, run_after_cli |-> {"bool"},
            keep_for_days |-> {"int"}, keep_last |-> {"int"},
            option |-> {"int", "bool", "str"}, typo |-> {"int", "bool", "str"}]

CgParses(d) == \A k \in DOMAIN d.vals : d.vals[k].t \in KeyType[k]

\* AppConfig::default(), and the per-field defaults of the nested tables.
AppDefault == [auth_token |-> Unset, retention_days |-> IntV(30), run_after_cli |-> BoolV(TRUE),
               keep_for_days |-> IntV(7), keep_last |-> IntV(50000), option |-> Unset]

\* Reading a document.  The two limits of a retention table have no default
\* of their own: a table that is there without one of them leaves it unset.
FromToml(d) ==
    [set |-> [k \in KnownKeys |->
                IF k \in DOMAIN d.vals THEN d.vals[k]
                ELSE IF TableOf[k] = "jobs" /\ "jobs" \in d.tables THEN Unset
                ELSE AppDefault[k]],
     disabled |-> d.disabled]

\* Writing a configuration: every table of the structure, and every value that is set.
ToToml(c) ==
    LET there == {k \in KnownKeys : c.set[k] # Unset}
    IN  [tables |-> {"plugins", "recovery", "pruning", "retention", "jobs"}
                      \cup UNION {Parents(TableOf[k]) : k \in there},
         vals |-> [k \in there |-> c.set[k]],
         disabled |-> c.disabled]

\* default_config_contents(): the commented template `voom init` writes.
DefaultTemplate ==
    [tables |-> {"plugins", "recovery", "pruning", "retention", "jobs"},
     vals |-> [retention_days |-> IntV(30), run_after_cli |-> BoolV(TRUE),
               keep_for_days |-> IntV(7), keep_last |-> IntV(50000)],
     disabled |-> {}]

KNOWN_PLUGIN_NAMES == {"discovery", "ffmpeg-executor", "job-manager"}
REQUIRED_PLUGIN_NAMES == {"discovery"}

validate_config(c) == c.disabled \cap REQUIRED_PLUGIN_NAMES = {}

\* load_config and load_raw_toml: no file reads as an empty document.
LoadedDoc(f) == IF f.exists THEN f.doc ELSE EmptyDoc
CgLoads(f) == ~f.torn /\ CgParses(LoadedDoc(f))
Effective(f) == FromToml(LoadedDoc(f))

----------------------------------------------------------------------------
(* config set and get *)

IsInt(x) == x \in {"0", "5", "90"}
IsBool(x) == x \in {"true", "false"}

\* coerce_value: the type of the value that is there decides; a new value is
\* a boolean or a number when it reads as one.
CoercedTo(x, t) ==
    CASE t = "bool" -> IF IsBool(x) THEN [t |-> "bool", v |-> x] ELSE Unset
      [] t = "int" -> IF IsInt(x) THEN [t |-> "int", v |-> x] ELSE Unset
      [] t = "str" -> StrV(x)

coerce_value(x, old) ==
    IF old # Unset THEN CoercedTo(x, old.t)
    ELSE IF IsBool(x) THEN [t |-> "bool", v |-> x]
    ELSE IF IsInt(x) THEN [t |-> "int", v |-> x]
    ELSE StrV(x)

RawValue(d, k) == IF k \in DOMAIN d.vals THEN d.vals[k] ELSE Unset

InsertKey(d, k, val) ==
    [d EXCEPT !.tables = @ \cup Parents(TableOf[k]),
              !.vals = [j \in DOMAIN d.vals \cup {k} |-> IF j = k THEN val ELSE d.vals[j]]]

config_set(d, k, x) ==
    LET val == coerce_value(x, RawValue(d, k))
        new == InsertKey(d, k, val)
    IN  IF val = Unset \/ ~CgParses(new) THEN [ok |-> FALSE, doc |-> d]
        ELSE [ok |-> TRUE, doc |-> ToToml(FromToml(new))]

is_secret_key(k) == k = "auth_token"
\* `config get` reads the document itself, not the configuration; the text of
\* a secret is not shown.
config_get(f, k) ==
    LET val == RawValue(LoadedDoc(f), k)
    IN  IF f.torn THEN Unset
        ELSE IF is_secret_key(k) /\ val.t = "str" THEN StrV("[REDACTED]") ELSE val

----------------------------------------------------------------------------
apply_plugin_enable_change(c, name, on) ==
    IF name \notin KNOWN_PLUGIN_NAMES \/ (~on /\ name \in REQUIRED_PLUGIN_NAMES)
    THEN [ok |-> FALSE, changed |-> FALSE, cfg |-> c]
    ELSE IF on # (name \in c.disabled) THEN [ok |-> TRUE, changed |-> FALSE, cfg |-> c]
    ELSE [ok |-> TRUE, changed |-> TRUE,
          cfg |-> [c EXCEPT !.disabled = IF on THEN @ \ {name} ELSE @ \cup {name}]]

----------------------------------------------------------------------------
(* The commands *)

NoCmd == [name |-> "none", key |-> "", text |-> ""]
AtRest == [at |-> "idle", cmd |-> NoCmd, before |-> AbsentFile, doc |-> EmptyDoc, alone |-> TRUE]
NoneDone == [cmd |-> NoCmd, ok |-> FALSE, before |-> AbsentFile, after |-> AbsentFile, alone |-> TRUE]

InUse(a) == {b \in CgActors \ {a} : cgActs[b].at # "idle"}

\* Another shell in the middle of a command: neither ran alone.
Started(a, act) ==
    [b \in CgActors |->
        IF b = a THEN [act EXCEPT !.alone = act.at = "idle" \/ InUse(a) = {}]
        ELSE IF cgActs[b].at # "idle" THEN [cgActs[b] EXCEPT !.alone = FALSE] ELSE cgActs[b]]

Finished(a, cmd, ok, before, after, alone) ==
    /\ cgActs' = Started(a, AtRest)
    /\ cgDone' = [cmd |-> cmd, ok |-> ok, before |-> before, after |-> after, alone |-> alone]

MayStart(a) == cgActs[a].at = "idle" /\ cgCount < CgMaxCommands /\ cgPart = "config"

\* A command that ends where it starts, leaving the file as it finds it.
EndsAtOnce(a, cmd, ok) ==
    /\ Finished(a, cmd, ok, cgFile, cgFile, InUse(a) = {})
    /\ UNCHANGED cgFile

\* A command that has loaded the file and will save doc.
WillSave(a, cmd, doc) ==
    /\ cgActs' = Started(a, [at |-> "loaded", cmd |-> cmd, before |-> cgFile, doc |-> doc,
                             alone |-> TRUE])
    /\ UNCHANGED <<cgFile, cgDone>>

RunSet(a) ==
    /\ MayStart(a)
    /\ \E kx \in CgSets :
         LET cmd == [name |-> "set", key |-> kx[1], text |-> kx[2]]
             out == config_set(LoadedDoc(cgFile), kx[1], kx[2])
         IN  IF ~cgFile.torn /\ out.ok
             THEN WillSave(a, cmd, out.doc)
             ELSE EndsAtOnce(a, cmd, FALSE)
    /\ cgCount' = cgCount + 1
    /\ UNCHANGED <<cgPart, cgDir>>

set_plugin_enabled(a) ==
    /\ MayStart(a)
    /\ \E name \in CgPlugins, on \in BOOLEAN :
         LET cmd == [name |-> IF on THEN "enable" ELSE "disable", key |-> "", text |-> name]
             out == apply_plugin_enable_change(Effective(cgFile), name, on)
         IN  IF CgLoads(cgFile) /\ out.changed
             THEN WillSave(a, cmd, ToToml(out.cfg))
             ELSE EndsAtOnce(a, cmd, CgLoads(cgFile) /\ out.ok)
    /\ cgCount' = cgCount + 1
    /\ UNCHANGED <<cgPart, cgDir>>

RunInit(a) ==
    /\ MayStart(a)
    /\ LET cmd == [name |-> "init", key |-> "", text |-> ""]
       IN  IF cgFile.exists THEN EndsAtOnce(a, cmd, TRUE) ELSE WillSave(a, cmd, DefaultTemplate)
    /\ cgCount' = cgCount + 1
    /\ UNCHANGED <<cgPart, cgDir>>

\* edit: a default file first if there is none; then whatever the user leaves.
RunEdit(a) ==
    /\ MayStart(a)
    /\ LET cmd == [name |-> "edit", key |-> "", text |-> ""]
           opened == IF cgFile.exists THEN cgFile
                     ELSE FileOf(ToToml([set |-> AppDefault, disabled |-> {}]))
       IN  \E left \in {FileOf(d) : d \in CgTexts} \cup {opened} :
             /\ cgFile' = left
             /\ Finished(a, cmd, TRUE, cgFile, left, InUse(a) = {})
    /\ cgCount' = cgCount + 1
    /\ UNCHANGED <<cgPart, cgDir>>

\* save_config: open with truncate, then one write.
TruncateConfig(a) ==
    /\ cgActs[a].at = "loaded"
    /\ cgFile' = FileOf(EmptyDoc)
    /\ cgActs' = [cgActs EXCEPT ![a].at = "truncated"]
    /\ UNCHANGED <<cgPart, cgDone, cgCount, cgDir>>

\* What another command or the editor has written since the truncation is
\* overwritten from its beginning, and its end stays when it is the longer.
WriteConfig(a) ==
    /\ cgActs[a].at = "truncated"
    /\ \/ cgFile' = FileOf(cgActs[a].doc)
       \/ cgFile # FileOf(EmptyDoc) /\ cgFile' = TornFile
    /\ Finished(a, cgActs[a].cmd, TRUE, cgActs[a].before, cgFile', cgActs[a].alone)
    /\ UNCHANGED <<cgPart, cgCount, cgDir>>

\* The write fails or the process dies in it: as much as was written stays.
CutShort(a) ==
    /\ cgActs[a].at = "truncated" /\ cgFile' = TornFile
    /\ cgActs' = [cgActs EXCEPT ![a] = AtRest]
    /\ UNCHANGED <<cgPart, cgDone, cgCount, cgDir>>

CrashCommand(a) ==
    /\ cgActs[a].at # "idle"
    /\ cgActs' = [cgActs EXCEPT ![a] = AtRest]
    /\ UNCHANGED <<cgPart, cgFile, cgDone, cgCount, cgDir>>

----------------------------------------------------------------------------
(* plugin install: check the manifest, copy the module, copy the manifest *)

\* A source: the versions of its module and manifest, and whether the
\* manifest parses and validates.
PluginSources == [wasm : {"v1", "v2"}, manifest : {"none", "bad", "good"}]
NoDir == [wasm |-> "none", manifest |-> "none", at |-> "idle", from |-> "", said |-> "",
          held |-> "none"]

install_check(src) == src.manifest = "good"

StartInstall ==
    /\ cgPart = "install" /\ cgDir.at = "idle" /\ cgCount < CgMaxCommands
    /\ \E src \in PluginSources :
         cgDir' = IF install_check(src)
                  THEN [cgDir EXCEPT !.at = "wasm", !.from = src.wasm, !.said = "",
                                     !.held = src.manifest]
                  ELSE [cgDir EXCEPT !.said = "refused", !.from = src.wasm, !.held = src.manifest]
    /\ cgCount' = cgCount + 1
    /\ UNCHANGED <<cgPart, cgFile, cgActs, cgDone>>

\* std::fs::copy: whole, or cut short by an error.
CopyPart ==
    /\ cgPart = "install" /\ cgDir.at \in {"wasm", "manifest"}
    /\ \/ /\ cgDir.at = "wasm"
          /\ cgDir' = [cgDir EXCEPT !.wasm = cgDir.from, !.at = "manifest"]
       \/ /\ cgDir.at = "manifest"
          /\ cgDir' = [cgDir EXCEPT !.manifest = cgDir.from, !.at = "idle", !.said = "installed"]
       \/ cgDir' = [cgDir EXCEPT ![cgDir.at] = "cut", !.at = "idle", !.said = "failed"]
    /\ UNCHANGED <<cgPart, cgFile, cgActs, cgDone, cgCount>>

----------------------------------------------------------------------------
\* The order write_bundle writes them in.
WriteOrder == <<"report.md", "report.json", "redactions.public.json", "redactions.local.json",
                "metadata.json", "README.txt">>
\* The order prepare_output_dir removes them in.
RemoveOrder == <<"report.md", "report.json", "redactions.public.json", "redactions.local.json",
                 "README.txt", "metadata.json">>

\* A directory: each file's owner; metadata.json may be the user's own.
Report(dir, at, i) == [files |-> dir, at |-> at, i |-> i]
NoReport == Report([f \in {} |-> ""], "idle", 0)
UserNames == {"notes.txt", "report.md", "metadata.json"}

Without(dir, f) == [g \in DOMAIN dir \ {f} |-> dir[g]]
With(dir, f) == [g \in DOMAIN dir \cup {f} |-> IF g = f THEN "voom" ELSE dir[g]]

prepare_output_dir(dir) ==
    \/ dir = [f \in {} |-> ""]
    \/ "metadata.json" \in DOMAIN dir /\ dir["metadata.json"] = "voom"

StartReport ==
    /\ cgPart = "bundle" /\ cgDir.at = "idle" /\ cgCount < CgMaxCommands
    /\ cgDir' = IF prepare_output_dir(cgDir.files)
                THEN Report(cgDir.files, "remove", 1) ELSE cgDir
    /\ cgCount' = cgCount + 1
    /\ UNCHANGED <<cgPart, cgFile, cgActs, cgDone>>

RemoveOld ==
    /\ cgPart = "bundle" /\ cgDir.at = "remove"
    /\ cgDir' = LET next == cgDir.i + 1 IN
                Report(Without(cgDir.files, RemoveOrder[cgDir.i]),
                       IF next > Len(RemoveOrder) THEN "write" ELSE "remove",
                       IF next > Len(RemoveOrder) THEN 1 ELSE next)
    /\ UNCHANGED <<cgPart, cgFile, cgActs, cgDone, cgCount>>

write_bundle ==
    /\ cgPart = "bundle" /\ cgDir.at = "write"
    /\ cgDir' = LET next == cgDir.i + 1 IN
                Report(With(cgDir.files, WriteOrder[cgDir.i]),
                       IF next > Len(WriteOrder) THEN "idle" ELSE "write", next)
    /\ UNCHANGED <<cgPart, cgFile, cgActs, cgDone, cgCount>>

\* A crash or a failed step ends the command where it is; so may the user add a file.
StopReport ==
    /\ cgPart = "bundle" /\ cgDir.at # "idle"
    /\ cgDir' = Report(cgDir.files, "idle", 0)
    /\ UNCHANGED <<cgPart, cgFile, cgActs, cgDone, cgCount>>

AddUserFile ==
    /\ cgPart = "bundle" /\ cgDir.at = "idle"
    /\ \E f \in UserNames \ DOMAIN cgDir.files :
         cgDir' = Report([g \in DOMAIN cgDir.files \cup {f} |->
                             IF g = f THEN "user" ELSE cgDir.files[g]], "idle", 0)
    /\ UNCHANGED <<cgPart, cgFile, cgActs, cgDone, cgCount>>

----------------------------------------------------------------------------
CgInit ==
    /\ cgPart \in {"config", "install", "bundle"}
    /\ cgFile = AbsentFile
    /\ cgActs = [a \in CgActors |-> AtRest]
    /\ cgDone = NoneDone
    /\ cgCount = 0
    /\ cgDir = IF cgPart = "bundle" THEN NoReport ELSE NoDir

CgNext ==
    \/ \E a \in CgActors :
         \/ RunSet(a) \/ set_plugin_enabled(a) \/ RunInit(a) \/ RunEdit(a)
         \/ TruncateConfig(a) \/ WriteConfig(a) \/ CutShort(a) \/ CrashCommand(a)
    \/ StartInstall \/ CopyPart
    \/ StartReport \/ RemoveOld \/ write_bundle \/ StopReport \/ AddUserFile

CgSpec == CgInit /\ [][CgNext]_cgVars
----------------------------------------------------------------------------
(* Properties *)

\* A table of limits started by the command itself: its other limit has no default then.
StartsLimits(done) ==
    /\ done.cmd.name = "set" /\ TableOf[done.cmd.key] = "jobs"
    /\ "jobs" \notin LoadedDoc(done.before).tables

\* Setting one key, or enabling or disabling a plugin, changes nothing else
\* of the configuration the next command loads, although the whole file is
\* rewritten from the parsed structure: the defaults the rewrite spells out
\* are the ones a missing key had.  (Starting a table of limits is left out:
\* naming one limit there lifts the default of the other.)
OneSettingAtATime ==
    (cgDone.ok /\ cgDone.alone /\ cgDone.cmd.name \in {"set", "enable", "disable"}
       /\ ~StartsLimits(cgDone)) =>
      LET old == Effective(cgDone.before)
          new == Effective(cgDone.after)
      IN  /\ \A k \in KnownKeys \ {cgDone.cmd.key} : new.set[k] = old.set[k]
          /\ \A p \in KNOWN_PLUGIN_NAMES \ {cgDone.cmd.text} :
               p \in new.disabled <=> p \in old.disabled

\* After `config set` has reported a key of the configuration as set, the next
\* command loads it and `config get` shows the text that was given, whatever
\* type it was taken for; a secret is stored and not shown.  (Two saves at once
\* may have left a mixture of their texts.)
SetIsRead ==
    (cgDone.ok /\ cgDone.cmd.name = "set" /\ cgDone.cmd.key \in KnownKeys /\ ~cgDone.after.torn) =>
      /\ Effective(cgDone.after).set[cgDone.cmd.key].v = cgDone.cmd.text
      /\ config_get(cgDone.after, cgDone.cmd.key).v =
           IF is_secret_key(cgDone.cmd.key) THEN "[REDACTED]" ELSE cgDone.cmd.text

\* No command decides on a configuration that cannot be loaded, whatever it
\* found and whatever another command did in between: a file that does not load
\* is a text the user left in the editor, which no command rewrites, or a save
\* that was cut short or ran into another save.  A command that ran alone and
\* reported success has left a file that loads.
CommandsLeaveItLoadable ==
    cgPart = "config" =>
      /\ CgLoads(cgFile) \/ cgFile.doc \in CgTexts \/ cgFile.torn
      /\ cgDone.ok /\ cgDone.alone /\ cgDone.cmd.name \in {"set", "enable", "disable"}
           => CgLoads(cgDone.after)

\* plugin enable and disable never make a configuration that the bootstrap
\* refuses: one that lists no required plugin as disabled still lists none.
RequiredStayEnabled ==
    (cgDone.ok /\ cgDone.cmd.name \in {"set", "enable", "disable"}
       /\ CgLoads(cgDone.before) /\ validate_config(Effective(cgDone.before))) =>
      validate_config(Effective(cgDone.after))

\* An install that reports success has left the module and the manifest of
\* one plugin version side by side, the manifest one that validates, whatever
\* an earlier install that failed half-way had left there.
InstalledIsWhole ==
    (cgPart = "install" /\ cgDir.said = "installed") =>
      cgDir.wasm = cgDir.from /\ cgDir.manifest = cgDir.from /\ cgDir.held = "good"

=============================================================================
