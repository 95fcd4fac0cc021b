--------------------------- MODULE LibraryHealth ----------------------------
(* Verification of the library's files, and the reports about them.         *)
EXTENDS FiniteSets, Integers, Sequences, FiniteSetsExt, Functions,
        SequencesExt

-----------------------------------------------------------------------------
(* Media integrity: the verifier plugin (plugins/verifier), `voom verify run`
   (crates/voom-cli/src/commands/verify.rs), the verifications table of the
   store, and quarantine.

   A file's content is a small value: what was on disk when it was catalogued,
   or a damaged version of it.  Verification workers of one or more runs work in
   parallel: a worker looks up the earlier hash, reads the file, and only then
   inserts its record; a quarantine worker chooses a name and only then moves. *)

CONSTANTS VfFiles,       \* file ids; also the directories the files live in
          VfBasename,    \* file -> basename of its path
          VfHwAccel,     \* thorough_hw_accel, what the operator configured
          VfProbed,      \* what `ffmpeg -hwaccels` lists
          VfWorkers,     \* quarantine workers at a time
          VfMaxRecords,  \* bound on the verification records
          VfMaxChanges,  \* bound on changes of a file's bytes and interruptions
          VfMaxTime      \* bound on the clock

VARIABLES vfNow,
          vfDisk,      \* library: file -> content at its path, or "gone"
          vfStatus,    \* files.status: "active", "missing", "quarantined"
          vfRecords,   \* verifications: sequence of [file, at, mode, outcome, hash]
          vfRun,       \* `voom verify run`: targets left to do
          vfWork,      \* file -> the check in progress on it
          vfJail,      \* quarantine directory: name -> [of, content]
          vfMove,      \* file -> the quarantine in progress on it
          vfChanges

vfVars == <<vfNow, vfDisk, vfStatus, vfRecords, vfRun, vfWork, vfJail, vfMove, vfChanges>>

Gone == "gone"
Good == "good"
Damaged == {"rotten", "bad"}
Contents == {Good} \cup Damaged

Modes == {"quick", "thorough", "hash"}
NoHash == "none"

-----------------------------------------------------------------------------
(* Checks *)

\* The decoder lines of a damaged file; lines a missing or refusing hardware
\* decoder adds.
DecodeLines(c) == IF c \in Damaged THEN {"decode"} ELSE {}

Backends == [nvdec |-> "cuda", vaapi |-> "vaapi", qsv |-> "qsv", videotoolbox |-> "videotoolbox"]

\* HwAccelMode::parse: names that mean the same backend; "none" when unknown.
parse_hw(name) ==
  IF name \in {"nvdec", "cuda", "nvenc"} THEN "nvdec"
  ELSE IF name \in {"auto", "vaapi", "qsv", "videotoolbox"} THEN name ELSE "none"

auto_pick(probed) ==
  IF "cuda" \in probed THEN "nvdec"
  ELSE IF "qsv" \in probed THEN "qsv"
  ELSE IF "vaapi" \in probed THEN "vaapi"
  ELSE IF "videotoolbox" \in probed THEN "videotoolbox" ELSE "none"

\* resolve: an explicit backend only when this ffmpeg lists it.
resolve_hw(mode, probed) ==
  CASE mode = "none" -> "none"
    [] mode = "auto" -> auto_pick(probed)
    [] OTHER -> IF Backends[mode] \in probed THEN mode ELSE "none"

resolve_thorough_hw_accel == resolve_hw(parse_hw(VfHwAccel), VfProbed)

\* classify_lines: with hardware decoding on, the decoder's complaints about
\* itself (is_hwaccel_noise) are not held against the file.
classify_lines(lines, hw) == IF hw THEN lines \ {"hwaccel"} ELSE lines

\* run_thorough: the device may turn out not to do, and says so on stderr.
run_thorough(c, noise) ==
  LET hw == resolve_thorough_hw_accel # "none"
      lines == DecodeLines(c) \cup (IF hw /\ noise THEN {"hwaccel"} ELSE {})
  IN IF classify_lines(lines, hw) # {} THEN "error" ELSE "ok"

\* run_quick: ffprobe's exit status, then whether it said anything.
run_quick(c) == IF c = "bad" THEN "error" ELSE IF c = "rotten" THEN "warning" ELSE "ok"

\* run_hash against the earlier hash record, if there is one.
run_hash(c, prior) == IF prior # NoHash /\ prior # c THEN "error" ELSE "ok"

RecordsOf(f) == {i \in 1..Len(vfRecords) : vfRecords[i].file = f}
HashRecordsOf(f) == {i \in RecordsOf(f) : vfRecords[i].mode = "hash"}

\* ORDER BY verified_at DESC LIMIT 1; time stamps of one day keep insertion order.
LatestOf(S) ==
  CHOOSE i \in S : \A k \in S : \/ vfRecords[k].at < vfRecords[i].at
                                \/ vfRecords[k].at = vfRecords[i].at /\ k <= i


latest_verification(f) ==
  IF HashRecordsOf(f) = {} THEN NoHash ELSE vfRecords[LatestOf(HashRecordsOf(f))].hash

-----------------------------------------------------------------------------
(* Who is due *)

LastAt(f) == IF RecordsOf(f) = {} THEN -1 ELSE Max({vfRecords[i].at : i \in RecordsOf(f)})

\* Never verified, or last verified before the cutoff.
list_files_due_for_verification(cutoff) ==
  {f \in VfFiles : vfStatus[f] = "active" /\ (RecordsOf(f) = {} \/ LastAt(f) < cutoff)}

Epoch == 0

\* resolve_due_targets: --all passes the epoch as the cutoff.
resolve_due_targets(all, since) == list_files_due_for_verification(IF all THEN Epoch ELSE since)

integrity_summary(since) ==
  LET active == {f \in VfFiles : vfStatus[f] = "active"}
      seen   == {f \in active : RecordsOf(f) # {}}
      latest(f) == vfRecords[LatestOf(RecordsOf(f))]
  IN [total    |-> Cardinality(active),
      never    |-> Cardinality(active \ seen),
      stale    |-> Cardinality({f \in seen : LastAt(f) < since}),
      errors   |-> Cardinality({f \in seen : latest(f).outcome = "error"}),
      warnings |-> Cardinality({f \in seen : latest(f).outcome = "warning"})]

-----------------------------------------------------------------------------
(* Behaviour *)

Idle == [step |-> "idle", mode |-> "quick", at |-> 0, prior |-> NoHash, outcome |-> "ok", hash |-> NoHash]
Unmoved == [step |-> "no", name |-> <<>>]

\* A hash check of every file that came out with this outcome.
FirstRecords(outcome) ==
  SetToSeq({[file |-> f, at |-> 1, mode |-> "hash", outcome |-> outcome, hash |-> "bad"] : f \in VfFiles})

VfInit(records) ==
  /\ vfNow = 1
  /\ vfDisk = [f \in VfFiles |-> Good]
  /\ vfStatus = [f \in VfFiles |-> "active"]
  /\ vfRecords = records
  /\ vfRun = {}
  /\ vfWork = [f \in VfFiles |-> Idle]
  /\ vfJail = <<>>
  /\ vfMove = [f \in VfFiles |-> Unmoved]
  /\ vfChanges = 0

VfTick ==
  /\ vfNow < VfMaxTime /\ vfNow' = vfNow + 1
  /\ UNCHANGED <<vfDisk, vfStatus, vfRecords, vfRun, vfWork, vfJail, vfMove, vfChanges>>

\* The bytes change under VOOM: decay, or the operator puts the file back.
Change(f, c) ==
  /\ vfDisk[f] # Gone /\ vfDisk[f] # c /\ vfChanges < VfMaxChanges
  /\ vfDisk' = [vfDisk EXCEPT ![f] = c]
  /\ vfChanges' = vfChanges + 1
  /\ UNCHANGED <<vfNow, vfStatus, vfRecords, vfRun, vfWork, vfJail, vfMove>>

\* resolve_targets: the given paths as far as they are in the database, else
\* whoever is due.
resolve_targets(paths, all, since) ==
  IF paths # {} THEN paths ELSE resolve_due_targets(all, since)

\* voom verify run: the targets are resolved once.
run_verify(paths, all, since) ==
  /\ vfRun = {} /\ \A f \in VfFiles : vfWork[f].step = "idle"
  /\ Len(vfRecords) < VfMaxRecords
  /\ vfRun' = resolve_targets(paths, all, since)
  /\ UNCHANGED <<vfNow, vfDisk, vfStatus, vfRecords, vfWork, vfJail, vfMove, vfChanges>>

\* run_one begins on a target: verified_at is taken, and for a hash the earlier
\* record is read.
StartCheck(f, mode) ==
  /\ f \in vfRun /\ vfWork[f].step = "idle"
  /\ vfRun' = vfRun \ {f}
  /\ vfWork' = [vfWork EXCEPT ![f] = [Idle EXCEPT !.step = "reading", !.mode = mode, !.at = vfNow,
                                                  !.prior = latest_verification(f)]]
  /\ UNCHANGED <<vfNow, vfDisk, vfStatus, vfRecords, vfJail, vfMove, vfChanges>>

\* The tool reads the file.  A file that is gone makes the run fail without a
\* record.
Read(f, noise) ==
  /\ vfWork[f].step = "reading"
  /\ LET c == vfDisk[f]
         w == vfWork[f]
         outcome == CASE w.mode = "quick" -> run_quick(c)
                      [] w.mode = "thorough" -> run_thorough(c, noise)
                      [] w.mode = "hash" -> run_hash(c, w.prior)
     IN vfWork' = [vfWork EXCEPT ![f] =
          IF c = Gone THEN Idle
          ELSE [w EXCEPT !.step = "read", !.outcome = outcome, !.hash = c]]
  /\ UNCHANGED <<vfNow, vfDisk, vfStatus, vfRecords, vfRun, vfJail, vfMove, vfChanges>>

\* insert_verification; the hash column is filled by hash checks only ("hash" of
\* the others is what they saw, for the properties).
insert_verification(f) ==
  /\ vfWork[f].step = "read" /\ Len(vfRecords) < VfMaxRecords
  /\ LET w == vfWork[f] IN
     vfRecords' = Append(vfRecords, [file |-> f, at |-> w.at, mode |-> w.mode,
                                     outcome |-> w.outcome, hash |-> w.hash])
  /\ vfWork' = [vfWork EXCEPT ![f] = Idle]
  /\ UNCHANGED <<vfNow, vfDisk, vfStatus, vfRun, vfJail, vfMove, vfChanges>>

\* The basename, or the basename with .n appended.
JailName(f, k) == <<VfBasename[f], k>>

\* quarantine_file chooses the first free name.
ChooseName(f) ==
  /\ vfMove[f].step = "no" /\ vfStatus[f] = "active" /\ vfDisk[f] # Gone
  /\ Cardinality({g \in VfFiles : vfMove[g].step # "no"}) < VfWorkers
  /\ \E i \in RecordsOf(f) : vfRecords[i].outcome = "error"
  /\ LET k == Min({n \in 0..Cardinality(DOMAIN vfJail) : JailName(f, n) \notin DOMAIN vfJail})
     IN vfMove' = [vfMove EXCEPT ![f] = [step |-> "move", name |-> JailName(f, k)]]
  /\ UNCHANGED <<vfNow, vfDisk, vfStatus, vfRecords, vfRun, vfWork, vfJail, vfChanges>>

Jailed(f) == [n \in DOMAIN vfJail \cup {vfMove[f].name} |->
                IF n = vfMove[f].name THEN [of |-> f, content |-> vfDisk[f]] ELSE vfJail[n]]

\* rename on one file system.
Rename(f) ==
  /\ vfMove[f].step = "move" /\ vfDisk[f] # Gone
  /\ vfJail' = Jailed(f)
  /\ vfDisk' = [vfDisk EXCEPT ![f] = Gone]
  /\ vfMove' = [vfMove EXCEPT ![f].step = "status"]
  /\ UNCHANGED <<vfNow, vfStatus, vfRecords, vfRun, vfWork, vfChanges>>

\* EXDEV: copy, then remove.
CopyAcross(f) ==
  /\ vfMove[f].step = "move" /\ vfDisk[f] # Gone
  /\ vfJail' = Jailed(f)
  /\ vfMove' = [vfMove EXCEPT ![f].step = "remove"]
  /\ UNCHANGED <<vfNow, vfDisk, vfStatus, vfRecords, vfRun, vfWork, vfChanges>>

RemoveSource(f) ==
  /\ vfMove[f].step = "remove"
  /\ vfDisk' = [vfDisk EXCEPT ![f] = Gone]
  /\ vfMove' = [vfMove EXCEPT ![f].step = "status"]
  /\ UNCHANGED <<vfNow, vfStatus, vfRecords, vfRun, vfWork, vfJail, vfChanges>>

\* set_file_status(Quarantined)
SetQuarantined(f) ==
  /\ vfMove[f].step = "status"
  /\ vfStatus' = [vfStatus EXCEPT ![f] = "quarantined"]
  /\ vfMove' = [vfMove EXCEPT ![f] = Unmoved]
  /\ UNCHANGED <<vfNow, vfDisk, vfRecords, vfRun, vfWork, vfJail, vfChanges>>

\* The process dies, or the status cannot be written.
QuarantineInterrupted(f) ==
  /\ vfMove[f].step # "no" /\ vfChanges < VfMaxChanges
  /\ vfMove' = [vfMove EXCEPT ![f] = Unmoved]
  /\ vfChanges' = vfChanges + 1
  /\ UNCHANGED <<vfNow, vfDisk, vfStatus, vfRecords, vfRun, vfWork, vfJail>>

\* Verification while files decay.
CheckNext ==
  \/ VfTick
  \/ \E all \in BOOLEAN : run_verify({}, all, vfNow - 1)
  \/ \E f \in VfFiles : run_verify({f}, FALSE, vfNow - 1)
  \/ \E f \in VfFiles :
       \/ \E c \in Contents : Change(f, c)
       \/ \E mode \in Modes : StartCheck(f, mode)
       \/ \E noise \in BOOLEAN : Read(f, noise)
       \/ insert_verification(f)

\* Quarantine of the files that were found damaged.
QuarantineNext ==
  \E f \in VfFiles :
    \/ ChooseName(f) \/ Rename(f) \/ CopyAcross(f) \/ RemoveSource(f)
    \/ SetQuarantined(f) \/ QuarantineInterrupted(f)

-----------------------------------------------------------------------------

\* `voom report --integrity` and `voom verify run` count the same files: never
\* verified plus stale is what the next run takes on.
DueAgreesWithReport ==
  \A since \in 0..vfNow :
    LET s == integrity_summary(since) IN
    s.never + s.stale = Cardinality(list_files_due_for_verification(since))

\* A thorough check judges the file, not the hardware decoder that read it.
ThoroughJudgesFile ==
  \A i \in 1..Len(vfRecords) :
    vfRecords[i].mode = "thorough" => (vfRecords[i].outcome = "error" <=> vfRecords[i].hash \in Damaged)

\* Damage between two hash checks of which the later began after the earlier was
\* recorded is reported by the later.
RotIsReported ==
  \A f \in VfFiles : vfWork[f].step = "read" /\ vfWork[f].mode = "hash" =>
    LET earlier == {i \in HashRecordsOf(f) : vfRecords[i].at < vfWork[f].at} IN
    earlier # {} /\ vfRecords[LatestOf(earlier)].hash # vfWork[f].hash /\ earlier = HashRecordsOf(f)
      => vfWork[f].outcome = "error"

\* Quarantine moves a file and loses none, wherever it is interrupted: its bytes
\* are at its path or in the quarantine directory.
QuarantineKeepsFiles ==
  \A f \in VfFiles : vfDisk[f] = Gone => \E n \in DOMAIN vfJail : vfJail[n].of = f

-----------------------------------------------------------------------------
(* What the reports say about the library: the statistics of a snapshot
   (snapshot_storage.rs and the report plugin), the savings by provenance and
   the failed sessions (file_transition_storage.rs), the lineage of a file
   (commands/history.rs), the rollup of plugin statistics, the estimates of
   plans (voom-domain estimate.rs) and the VMAF summary (commands/report.rs).

   A snapshot is gathered by several queries, each of which sees the tables as
   they are at that moment; scans and workers change them in between. *)

CONSTANTS LrFiles,       \* file ids
          LrRates,       \* frame rates in 1/1000, 0 = not known
          LrMoveRows,    \* what a file_transitions row may be
          LrMaxMoves, LrMaxShots, LrMaxChanges,
          LrValues,      \* sequences of measured values
          LrSessionLimit, VMAF_BOTTOM_LIMIT, MAX_PREDECESSORS

VARIABLES lrFile,    \* id -> [status, container, rate, hdr]: the files and tracks tables
          lrStep,    \* the query a gather is at, "idle" when none is under way
          lrSnap,    \* the snapshot being gathered
          lrQuiet,   \* the tables have not changed since the gather began
          lrShots,   \* library_snapshots, oldest first
          lrChanges,
          lrMoves,   \* file_transitions by created_at: [file, phase, day, session, source, outcome, from, to]
          lrAsked    \* the last figure asked for: [kind, arg, answer]

lrTables == <<lrFile, lrStep, lrSnap, lrQuiet, lrShots, lrChanges>>
lrVars == <<lrTables, lrMoves, lrAsked>>

NoSnap == [count |-> 0, containers |-> <<>>, tracks |-> 0, rates |-> <<>>, hdr |-> 0, quiet |-> TRUE]
NotAsked == [kind |-> "none", arg |-> <<>>, answer |-> <<>>]

LrInit(files) ==
  /\ lrFile = files
  /\ lrStep = "idle" /\ lrSnap = NoSnap /\ lrQuiet = TRUE /\ lrShots = <<>> /\ lrChanges = 0
  /\ lrMoves = <<>> /\ lrAsked = NotAsked

-----------------------------------------------------------------------------
(* Snapshots *)

Active == {f \in LrFiles : lrFile[f].status = "active"}

\* SELECT key, COUNT ... GROUP BY key: the keys that occur with their counts.
query_distribution(rows, key) ==
  [k \in {key[r] : r \in rows} |-> Cardinality({r \in rows : key[r] = k})]

TotalOf(d) == FoldFunction(+, 0, d)

\* The bands of gather_video_stats: the first that is closer than 0.1.
RateBands == <<23976, 24000, 25000, 29970, 30000, 50000, 59940, 60000>>
Near(rate) == {i \in DOMAIN RateBands : rate - RateBands[i] < 100 /\ RateBands[i] - rate < 100}
Band(rate) == IF rate = 0 \/ Near(rate) = {} THEN rate ELSE RateBands[Min(Near(rate))]

gather_containers == query_distribution(Active, [f \in LrFiles |-> lrFile[f].container])
gather_rates == query_distribution(Active, [f \in LrFiles |-> Band(lrFile[f].rate)])

\* gather_library_stats, one query at a time.
gather_library_stats ==
  /\ \/ /\ lrStep = "idle" /\ Len(lrShots) < LrMaxShots
        /\ lrSnap' = [NoSnap EXCEPT !.count = Cardinality(Active)]
        /\ lrStep' = "containers" /\ lrQuiet' = TRUE
     \/ /\ lrStep = "containers"
        /\ lrSnap' = [lrSnap EXCEPT !.containers = gather_containers]
        /\ lrStep' = "video" /\ UNCHANGED lrQuiet
     \/ /\ lrStep = "video"
        /\ lrSnap' = [lrSnap EXCEPT !.tracks = Cardinality(Active),
                                    !.hdr = Cardinality({f \in Active : lrFile[f].hdr})]
        /\ lrStep' = "rates" /\ UNCHANGED lrQuiet
     \/ /\ lrStep = "rates"
        /\ lrSnap' = [lrSnap EXCEPT !.rates = gather_rates, !.quiet = lrQuiet]
        /\ lrStep' = "save" /\ UNCHANGED lrQuiet
  /\ UNCHANGED <<lrFile, lrShots, lrChanges>>

\* capture_snapshot: the gathered figures are saved, or the failure is warned about.
save_snapshot ==
  /\ lrStep = "save" /\ lrStep' = "idle"
  /\ \/ lrShots' = Append(lrShots, lrSnap)
     \/ UNCHANGED lrShots
  /\ UNCHANGED <<lrFile, lrSnap, lrQuiet, lrChanges>>

\* Another process scans or works.
TablesChange ==
  /\ lrChanges < LrMaxChanges
  /\ \E f \in LrFiles, s \in {"active", "missing"}, r \in LrRates :
       /\ lrFile' = [lrFile EXCEPT ![f].status = s, ![f].rate = r]
       /\ lrFile' # lrFile
  /\ lrChanges' = lrChanges + 1 /\ lrQuiet' = FALSE
  /\ UNCHANGED <<lrStep, lrSnap, lrShots>>

LrSnapshotNext == (gather_library_stats \/ save_snapshot \/ TablesChange) /\ UNCHANGED <<lrMoves, lrAsked>>

-----------------------------------------------------------------------------
(* Savings and failures over file_transitions *)

\* Sessions follow one another: the process lock allows one at a time.
RecordMove ==
  /\ Len(lrMoves) < LrMaxMoves
  /\ \E m \in LrMoveRows :
       /\ lrMoves # <<>> => m.session >= Last(lrMoves).session /\ m.day >= Last(lrMoves).day
       /\ lrMoves' = Append(lrMoves, m)

Rows == DOMAIN lrMoves

Saves(i) == lrMoves[i].source = "voom" /\ lrMoves[i].outcome = "success"

Saved(i) == IF lrMoves[i].from # 0 THEN lrMoves[i].from - lrMoves[i].to ELSE 0

\* gather_processing_stats: one sum over all rows.
total_size_saved == MapThenSumSet(LAMBDA i : Saved(i), {i \in Rows : lrMoves[i].source = "voom" /\ lrMoves[i].outcome = "success"})

\* savings_by_provenance: buckets by executor and phase, and by period when asked.
BucketKey(i, byDay) == <<lrMoves[i].phase, IF byDay THEN lrMoves[i].day ELSE 0>>
savings_by_provenance(byDay) ==
  LET rows == {i \in Rows : Saves(i)} IN
  [k \in {BucketKey(i, byDay) : i \in rows} |->
     LET mine == {i \in rows : BucketKey(i, byDay) = k} IN
     [saved |-> MapThenSumSet(LAMBDA i : Saved(i), mine),
      count |-> Cardinality(mine),
      files |-> Cardinality({lrMoves[i].file : i \in mine})]]

FailedIn(s) == {i \in Rows : lrMoves[i].outcome = "failure" /\ lrMoves[i].session = s}
FailedSessions == {lrMoves[i].session : i \in {x \in Rows : lrMoves[x].outcome = "failure"}}

\* failure_sessions: by their first failure, latest first, up to the limit.
failure_sessions ==
  {s \in FailedSessions : Cardinality({t \in FailedSessions : Min(FailedIn(t)) > Min(FailedIn(s))}) < LrSessionLimit}

latest_failure_session == lrMoves[Max({i \in Rows : lrMoves[i].outcome = "failure"})].session

LrMovesNext == RecordMove /\ UNCHANGED <<lrTables, lrAsked>>

-----------------------------------------------------------------------------
Ordered(s) == SortSeq(s, <)

\* median_f64, median_u64.
median(s) == Ordered(s)[(Len(s) \div 2) + 1]

CeilDiv(a, b) == (a + b - 1) \div b

Rank(n, p) == Max({1, CeilDiv(p * n, 100)})

\* nearest_rank_percentile over the sorted durations of a plugin.
nearest_rank_percentile(s, p) == IF s = <<>> THEN 0 ELSE Ordered(s)[Min({Rank(Len(s), p), Len(s)})]

\* build_vmaf_bottom_files over the deficits in hundredths: the worst first.
build_vmaf_bottom_files(deficits) ==
  LET missed == SelectSeq(deficits, LAMBDA d : d > 0) IN
  SubSeq(SortSeq(missed, >), 1, Min({VMAF_BOTTOM_LIMIT, Len(missed)}))

\* collect_lineage: predecessors, until there is none, one is met again or the
\* limit is reached; oldest first.
collect_lineage(pred, start) ==
  LET Walk[n \in 0..MAX_PREDECESSORS] ==
        IF n = 0 THEN <<start>>
        ELSE LET chain == Walk[n - 1]  p == pred[Last(chain)] IN
             IF Len(chain) < n \/ p = 0 \/ p \in Range(chain) THEN chain ELSE Append(chain, p)
  IN Reverse(Walk[MAX_PREDECESSORS])

\* estimate_action: a transcode shrinks by the median ratio of the samples of its
\* operation (in percent, rounded), anything else leaves the size alone.
DEFAULT_TRANSCODE_SIZE_RATIO == 65
estimate_action(size, samples, transcode) ==
  LET ratio == IF samples = <<>> THEN DEFAULT_TRANSCODE_SIZE_RATIO ELSE median(samples) IN
  IF transcode THEN (size * ratio + 50) \div 100 ELSE size

\* estimate_file: the largest output any action of the plan is expected to leave.
estimate_file(size, samples, actions) ==
  IF actions = {} THEN size ELSE Max({estimate_action(size, samples, t) : t \in actions})

\* savings_below_threshold: --confirm-savings skips the plan.
savings_below_threshold(size, samples, actions, threshold) ==
  size - estimate_file(size, samples, actions) < threshold

Preds == [{1, 2, 3} -> {0, 1, 2, 3}]

AskFigure ==
  /\ lrAsked = NotAsked
  /\ \/ \E s \in LrValues \ {<<>>} : lrAsked' = [kind |-> "median", arg |-> s, answer |-> <<median(s)>>]
     \/ \E s \in LrValues, p \in {50, 95, 99} :
          lrAsked' = [kind |-> "percentile", arg |-> Append(s, p), answer |-> <<nearest_rank_percentile(s, p)>>]
     \/ \E s \in LrValues :
          lrAsked' = [kind |-> "vmaf", arg |-> s, answer |-> build_vmaf_bottom_files(s)]
     \/ \E s \in LrValues, size \in {10, 100}, actions \in SUBSET BOOLEAN, threshold \in {0, 30, 60} :
          /\ \A i \in DOMAIN s : s[i] >= 0
          /\ lrAsked' = [kind |-> "estimate", arg |-> <<size, [i \in DOMAIN s |-> 25 * s[i]], actions, threshold>>,
                         answer |-> <<savings_below_threshold(size, [i \in DOMAIN s |-> 25 * s[i]], actions, threshold)>>]
     \/ \E g \in Preds : lrAsked' = [kind |-> "lineage", arg |-> g, answer |-> collect_lineage(g, 1)]

LrFiguresNext == AskFigure /\ UNCHANGED <<lrTables, lrMoves>>

-----------------------------------------------------------------------------

\* A saved snapshot during whose queries nothing changed adds up: the containers
\* and the frame rates of gather_library_stats each count every active file and
\* every video track once.
SnapshotAddsUp ==
  \A i \in DOMAIN lrShots : lrShots[i].quiet =>
    /\ TotalOf(lrShots[i].containers) = lrShots[i].count
    /\ TotalOf(lrShots[i].rates) = lrShots[i].tracks
    /\ lrShots[i].hdr <= lrShots[i].tracks

\* The savings report and the library report tell the same story: whatever the
\* grouping, the buckets of savings_by_provenance add up to the bytes saved that
\* gather_processing_stats sums directly.
SavingsAgree ==
  \A byDay \in BOOLEAN :
    LET b == savings_by_provenance(byDay) IN
    /\ MapThenSumSet(LAMBDA k : b[k].saved, DOMAIN b) = total_size_saved
    /\ \A k \in DOMAIN b : b[k].files <= b[k].count

\* The session `voom report --errors` opens by default is among the sessions it
\* lists, so its prefix can be given to --session, and the list holds every failed
\* session that is as recent.
LatestFailureListed ==
  FailedSessions # {} =>
    /\ latest_failure_session \in failure_sessions
    /\ \A s \in FailedSessions \ failure_sessions, t \in failure_sessions : s < t

AtMost(s, v) == Cardinality({i \in DOMAIN s : s[i] <= v})
AtLeast(s, v) == Cardinality({i \in DOMAIN s : s[i] >= v})

\* The medians behind an estimate split its samples: at least half of them are not
\* above the median and at least half are not below.
MedianIsMiddle ==
  lrAsked.kind = "median" =>
    LET s == lrAsked.arg  m == lrAsked.answer[1] IN
    2 * AtMost(s, m) >= Len(s) /\ 2 * AtLeast(s, m) >= Len(s)

\* --confirm-savings executes a plan only on savings that hold for it as a whole: a
\* plan that runs is estimated to save the threshold by each of its actions, and one
\* whose samples all promise as much for its only transcode does run.
ConfirmedSavingsHold ==
  lrAsked.kind = "estimate" =>
    LET size == lrAsked.arg[1]  s == lrAsked.arg[2]  actions == lrAsked.arg[3]  t == lrAsked.arg[4] IN
    /\ ~lrAsked.answer[1] /\ t > 0 => actions = {TRUE}
    /\ actions = {TRUE} /\ s # <<>> /\ (\A i \in DOMAIN s : size - ((size * s[i] + 50) \div 100) >= t)
         => ~lrAsked.answer[1]

\* The nearest-rank percentile of a plugin's durations is one of them, p percent of
\* them are not above it, and no smaller duration has that property.
PercentileIsNearestRank ==
  lrAsked.kind = "percentile" =>
    LET s == Front(lrAsked.arg)  p == Last(lrAsked.arg)  v == lrAsked.answer[1] IN
    IF s = <<>> THEN v = 0
    ELSE /\ v \in Range(s)
         /\ 100 * AtMost(s, v) >= p * Len(s)
         /\ \A w \in Range(s) : w < v => 100 * AtMost(s, w) < p * Len(s)

\* The VMAF report lists the transcodes that missed their target by most: nothing it
\* leaves out is worse than what it shows.
WorstMissesShown ==
  lrAsked.kind = "vmaf" =>
    LET all == lrAsked.arg  shown == lrAsked.answer IN
    /\ \A v \in Range(all) : v > 0 =>
         \/ Cardinality({i \in DOMAIN shown : shown[i] = v}) = Cardinality({i \in DOMAIN all : all[i] = v})
         \/ Len(shown) = VMAF_BOTTOM_LIMIT /\ v <= Last(shown)
    /\ \A i \in 1..(Len(shown) - 1) : shown[i] >= shown[i + 1]

\* The history of a file follows its predecessors and ends even when they form a
\* cycle: each link is a predecessor, none occurs twice, and the chain stops only at
\* a file without one, at a cycle or at the limit.
LineageFollowsPredecessors ==
  lrAsked.kind = "lineage" =>
    LET g == lrAsked.arg  c == lrAsked.answer IN
    /\ Last(c) = 1 /\ IsInjective(c)
    /\ \A i \in 1..(Len(c) - 1) : g[c[i + 1]] = c[i]
    /\ g[c[1]] \in {0} \cup Range(c) \/ Len(c) = MAX_PREDECESSORS + 1

=============================================================================
