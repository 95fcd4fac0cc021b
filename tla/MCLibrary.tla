----------------------------- MODULE MCLibrary ------------------------------
(* The library and its copies: retention of the growing tables,             *)
(* verification and quarantine, the store's event handlers, the reports,    *)
(* the forecasts, the store's in-memory double, remote and global backups,  *)
(* the backups beside the files, and the totals of a run.                   *)
EXTENDS StoreEvents, LibraryHealth, RunProgress, StoreDouble, Backups

-----------------------------------------------------------------------------
(* Small instance of Retention. *)
mcConfig ==
  [jobs |-> [keep_for_days |-> 1, keep_last |-> 1],
   event_log |-> [keep_for_days |-> 1, keep_last |-> 3],
   file_transitions |-> [keep_for_days |-> 1, keep_last |-> 1],
   plugin_stats |-> [keep_for_days |-> 0, keep_last |-> 1]]

\* The two pairs of tables share only the clock and run_once.
VARIABLE rtPart

RtNext ==
  /\ \/ rtPart = "log" /\ LogNext
     \/ rtPart = "follow" /\ FollowNext
     \/ rtPart = "history" /\ HistoryNext
  /\ UNCHANGED rtPart

-----------------------------------------------------------------------------
(* Small instance of Verification. *)
mcBasename == [a |-> "film", b |-> "film"]
mcProbed == {"vaapi"}

\* Verification of files nobody looked at yet, or quarantine of those found damaged.
VARIABLE vfPart

VfBegin ==
  \/ vfPart = "check" /\ VfInit(<<>>)
  \/ vfPart = "quarantine" /\ VfInit(FirstRecords("error"))

VfNext ==
  /\ \/ vfPart = "check" /\ CheckNext
     \/ vfPart = "quarantine" /\ QuarantineNext
  /\ UNCHANGED vfPart

-----------------------------------------------------------------------------
(* The store's event handlers on two paths and two plans. *)
VARIABLE sePart

mcKnown == [p \in SePaths |-> [id |-> IF p = "p" THEN 1 ELSE 2, status |-> "active"]]
mcNew == [p \in SePaths |-> SeNoRow]

SeMcInit ==
  \/ sePart = "files" /\ SeInit({"good", "bad"}, mcNew)
  \/ sePart = "plans" /\ SeInit({"good"}, mcKnown)

SeMcNext ==
  /\ UNCHANGED sePart
  /\ \/ sePart = "files" /\ SeFilesNext
     \/ sePart = "plans" /\ SePlansNext

-----------------------------------------------------------------------------
(* Reports over three files, four transitions and short sequences of values. *)
VARIABLE lrPart

mcFiles == [f \in LrFiles |-> [status |-> IF f = "c" THEN "missing" ELSE "active",
                               container |-> IF f = "a" THEN "mkv" ELSE "mp4",
                               rate |-> 25000, hdr |-> f = "a"]]

mcMoveRows ==
  {[file |-> f, phase |-> p, day |-> d, session |-> s, source |-> "voom", outcome |-> o, from |-> z, to |-> 3] :
      f \in {"a"}, p \in {"v", "w"}, d \in {1, 2}, s \in {1, 2, 3}, o \in {"success", "failure"}, z \in {5}}
  \cup {[file |-> "b", phase |-> "v", day |-> 2, session |-> 2, source |-> "external", outcome |-> "success", from |-> 9, to |-> 1],
        [file |-> "b", phase |-> "v", day |-> 2, session |-> 2, source |-> "voom", outcome |-> "success", from |-> 0, to |-> 1],
        [file |-> "b", phase |-> "v", day |-> 2, session |-> 2, source |-> "voom", outcome |-> "success", from |-> 1, to |-> 4]}

mcValues == UNION {[1..n -> {-1, 1, 2, 5}] : n \in 0..4}

LrMcInit == lrPart \in {"snapshot", "moves", "figures"} /\ LrInit(mcFiles)

LrMcNext ==
  /\ UNCHANGED lrPart
  /\ \/ lrPart = "snapshot" /\ LrSnapshotNext
     \/ lrPart = "moves" /\ LrMovesNext
     \/ lrPart = "figures" /\ LrFiguresNext

-----------------------------------------------------------------------------
(***************************************************************************)
(* Forecast for a batch of three files, one empty, on two workers; corpora  *)
(* of up to three fixtures with good and failing benchmarks; estimates of  *)
(* up to two plans that shrink, grow and leave a file.                   *)
(***************************************************************************)
mcFcSize == <<0, 2, 3>>

Bench(in, out, px, t, ok) == [input |-> in, output |-> out, pixels |-> px, elapsed |-> t, ok |-> ok]
mcFcBench == {Bench(100, 60, 40, 2, TRUE), Bench(50, 10, 90, 3, TRUE), Bench(0, 5, 40, 1, TRUE),
              Bench(80, 8, 30, 1, FALSE)}
mcFcCorpora == UNION {[1..n -> mcFcBench] : n \in 0..3}

PlanFor(size, outs, ms, unsure) == [size |-> size, outs |-> outs, ms |-> ms, unsure |-> unsure]
mcFcPlan == {PlanFor(10, {4, 10}, 5, FALSE), PlanFor(10, {3}, 2, TRUE), PlanFor(6, {}, 0, FALSE),
             PlanFor(5, {8}, 1, TRUE)}
mcFcPlans == UNION {[1..n -> mcFcPlan] : n \in 0..2}

-----------------------------------------------------------------------------
(* One part of the tables at a time. *)
sdVars == <<jobVars, logVars, moveVars, sdFileVars, sdPart>>

mcSdTimes == {<<0, 0, 0, 0>>, <<0, 1, 0, 0>>, <<0, 1, 1, 0>>, <<0, 0, 0, 1>>, <<1, 0, 0, 0>>}
mcSdUpdates ==
    LET none == [status |-> {}, output |-> {}, completed |-> {}, worker |-> {}] IN
    {[none EXCEPT !.status = {"completed"}, !.completed = {{<<0, 1, 1, 0>>}}, !.output = {{"nothing"}}],
     [none EXCEPT !.status = {"pending"}, !.output = {{}}, !.worker = {{}}],
     [none EXCEPT !.output = {{"path"}}]}
mcSdTypes == {<<"m", "_">>, <<"m", "x">>}
mcSdPrefixes == {<<"m">>, <<"m", "_">>}
mcSdPaths == {<<"m", "/">>, <<"m", "_", "/">>, <<"m", "x", "/">>, <<"M", "/">>}
mcSdTracks ==
    {<<>>, <<[codec |-> "hevc", lang |-> "und"], [codec |-> "aac", lang |-> "eng"],
             [codec |-> "ac3", lang |-> "eng"]>>}

NoHistory(empty) == [moves |-> empty, ops |-> empty, shots |-> empty]

SdParts == {"jobs", "log", "transitions", "ops", "shots", "files"}
SdInit ==
    /\ sdRows = [i \in SdJobs |-> NoStoredJob] /\ sdJobs = [i \in SdJobs |-> NoStoredJob]
    /\ sdClaims = <<{}, {}>>
    /\ sdLog = <<>> /\ sdNext = 1 /\ sdMemLog = <<>>
    /\ sdMoves = NoHistory({}) /\ sdMemMoves = NoHistory(<<>>)
    /\ \/ sdPart # "files" /\ sdFiles = <<>>
       \/ /\ sdPart = "files"
          /\ \E p, q \in SdPaths, tracks \in SdTracks :
               /\ sdFiles = [i \in 1..2 |-> [path |-> <<p, q>>[i], status |-> "active",
                                             tracks |-> IF i = 1 THEN tracks ELSE <<>>]]
               /\ p # q
    /\ sdMemFiles = sdFiles

SdNext ==
    /\ UNCHANGED sdPart
    /\ \/ sdPart = "jobs" /\ JobNext /\ UNCHANGED <<logVars, moveVars, sdFileVars>>
       \/ sdPart = "log" /\ EventLogNext /\ UNCHANGED <<jobVars, moveVars, sdFileVars>>
       \/ sdPart = "transitions" /\ TransitionNext /\ UNCHANGED <<jobVars, logVars, sdFileVars>>
       \/ sdPart = "ops" /\ OpNext /\ UNCHANGED <<jobVars, logVars, sdFileVars>>
       \/ sdPart = "shots" /\ ShotNext /\ UNCHANGED <<jobVars, logVars, sdFileVars>>
       \/ sdPart = "files" /\ FileNext /\ UNCHANGED <<jobVars, logVars, moveVars>>

-----------------------------------------------------------------------------
(* Instances of BackupStore: remote copies, or the global directory. *)
VARIABLE bkPart

mcDests == <<[kind |-> "rclone", min |-> 1], [kind |-> "local", min |-> 0],
             [kind |-> "s3", min |-> 0]>>
mcNames == [a |-> "x", b |-> "x", c |-> "y"]

BkMCInit == bkPart \in {"remote", "global"} /\ BkInit /\ BgInit
BkMCNext ==
    /\ UNCHANGED bkPart
    /\ \/ bkPart = "remote" /\ BkNext /\ UNCHANGED bgVars
       \/ bkPart = "global" /\ BgNext /\ UNCHANGED bkVars

-----------------------------------------------------------------------------
(* An instance of LocalBackups: two workers on two files. *)
lbNames == {<<"movie", "mkv">>, <<"movie">>, <<"", "mkv">>, <<"20200101000000", "mkv">>,
            <<"movie", "20200101000000", "mkv">>, <<"movie", "20200101000000", "vbak">>,
            <<"movie", "20240101000000">>, <<"back\\slash", "mkv">>}
lbDirs == {<<>>, <<"tv">>, <<"tv", "show">>, <<"tv", ".hidden">>, <<"link">>, <<".voom-backup">>}
mcLbPaths == [dirs : lbDirs, name : lbNames]
mcLbRoots == {<<>>, <<"tv">>, <<"tv", ".hidden">>}

-----------------------------------------------------------------------------
(* An instance of RunSummary: two files, two phases, two workers. *)
mcRsPhases == <<"first", "second">>
mcRsPlans == UNION {[1 .. n -> RsBackends \cup {"auto", "unset"}] : n \in 0 .. 2}

-----------------------------------------------------------------------------
VARIABLE part

partsVars == <<part, rtVars, rtPart, vfVars, vfPart, seVars, sePart, lrVars, lrPart,
     fcVars, sdVars, bkPart, bkVars, bgVars, lbVars, rsVars>>

\* One part is looked at; the others stay in a state of their own.
PartsInit ==
  /\ part \in {"retention", "verification", "events", "report", "forecast", "double", "backups", "local", "summary"}
  /\ IF part = "retention" THEN rtPart \in {"log", "follow", "history"} /\ RtInit
     ELSE rtPart = "log" /\ RtInit
  /\ IF part = "verification" THEN VfBegin
     ELSE vfPart = "check" /\ VfBegin
  /\ IF part = "events" THEN SeMcInit
     ELSE sePart = "plans" /\ SeMcInit
  /\ IF part = "report" THEN LrMcInit
     ELSE lrPart = "figures" /\ LrMcInit
  /\ IF part = "forecast" THEN FcInit
     ELSE fcPart = "runs" /\ FcInit
  /\ IF part = "double" THEN sdPart \in SdParts /\ SdInit
     ELSE sdPart = "none" /\ SdInit
  /\ IF part = "backups" THEN BkMCInit
     ELSE bkPart = "global" /\ BkMCInit
  /\ IF part = "local" THEN LbInit
     ELSE lbPart = "dir" /\ lbForeign = FALSE /\ LbInit
  /\ IF part = "summary" THEN RsInit
     ELSE rsPart = "run" /\ rsMode = [kind |-> "real", keep |-> FALSE, fail |-> FALSE] /\ RsInit

NotRetention == <<vfVars, vfPart, seVars, sePart, lrVars, lrPart, fcVars, sdVars, bkPart,
     bkVars, bgVars, lbVars, rsVars>>
NotVerification == <<rtVars, rtPart, seVars, sePart, lrVars, lrPart, fcVars, sdVars, bkPart,
     bkVars, bgVars, lbVars, rsVars>>
NotEvents == <<rtVars, rtPart, vfVars, vfPart, lrVars, lrPart, fcVars, sdVars, bkPart,
     bkVars, bgVars, lbVars, rsVars>>
NotReport == <<rtVars, rtPart, vfVars, vfPart, seVars, sePart, fcVars, sdVars, bkPart,
     bkVars, bgVars, lbVars, rsVars>>
NotForecast == <<rtVars, rtPart, vfVars, vfPart, seVars, sePart, lrVars, lrPart, sdVars,
     bkPart, bkVars, bgVars, lbVars, rsVars>>
NotDouble == <<rtVars, rtPart, vfVars, vfPart, seVars, sePart, lrVars, lrPart, fcVars,
     bkPart, bkVars, bgVars, lbVars, rsVars>>
NotBackups == <<rtVars, rtPart, vfVars, vfPart, seVars, sePart, lrVars, lrPart, fcVars,
     sdVars, lbVars, rsVars>>
NotLocal == <<rtVars, rtPart, vfVars, vfPart, seVars, sePart, lrVars, lrPart, fcVars,
     sdVars, bkPart, bkVars, bgVars, rsVars>>
NotSummary == <<rtVars, rtPart, vfVars, vfPart, seVars, sePart, lrVars, lrPart, fcVars,
     sdVars, bkPart, bkVars, bgVars, lbVars>>

PartsNext ==
  /\ UNCHANGED part
  /\ \/ part = "retention" /\ RtNext /\ UNCHANGED NotRetention
     \/ part = "verification" /\ VfNext /\ UNCHANGED NotVerification
     \/ part = "events" /\ SeMcNext /\ UNCHANGED NotEvents
     \/ part = "report" /\ LrMcNext /\ UNCHANGED NotReport
     \/ part = "forecast" /\ FcNext /\ UNCHANGED NotForecast
     \/ part = "double" /\ SdNext /\ UNCHANGED NotDouble
     \/ part = "backups" /\ BkMCNext /\ UNCHANGED NotBackups
     \/ part = "local" /\ LbNext /\ UNCHANGED NotLocal
     \/ part = "summary" /\ RsNext /\ UNCHANGED NotSummary

PartsSpec ==
  /\ PartsInit /\ [][PartsNext]_partsVars
=============================================================================
