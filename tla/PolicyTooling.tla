--------------------------- MODULE PolicyTooling ----------------------------
(* The policy commands, and the codec and language names policies use.      *)
EXTENDS FiniteSets, Integers, Sequences, TLC, SequencesExt

-----------------------------------------------------------------------------
(* The tools around policies: the policy map that gives each file of a     *)
(* library its policy, `voom policy diff`, `voom policy describe` and the   *)
(* suites of `voom policy test` with their expectations and snapshots.      *)

CONSTANTS
  PtMaps,       \* policy maps: [default, entries, root]
  PtPaths,      \* files given to the map, each a sequence of components
  PtPolicies,   \* compiled policies compared: [name, phases, order, hash]
  PtPlanLists,  \* plans compared: sequences of [phase, action, id, hash]
  PtOrders,     \* pairs [phases, order] to describe
  PtCases,      \* the cases of the test suite, in order
  PtVersions,   \* versions of the policy under test
  PtPlans,      \* version -> fixture -> capabilities -> the evaluator's plans
  PtMaxRuns     \* how many test runs are looked at

VARIABLES ptPart, ptGiven, ptGot, ptRun, ptDisk

ptVars == <<ptPart, ptGiven, ptGot, ptRun, ptDisk>>

None == "none"
----------------------------------------------------------------------------
(* The policy map.  A prefix is its components and whether it is written   *)
(* with a slash at its end; an entry names a policy or skips.              *)

\* MappingEntry::validate: a policy or skip = true, not both.
ValidEntry(e) == (e.policy # None) # e.skip

OsLen(prefix) ==
  FoldLeft(LAMBDA n, c : n + Len(c), 0, prefix.at) + (Len(prefix.at) - 1)
    + (IF prefix.slash THEN 1 ELSE 0)

\* The distinct policies a map names, the default first.
PolicyNames(map) ==
  LET named == (IF map.default \in {None, "skip"} THEN <<>> ELSE <<map.default>>)
                 \o [i \in 1..Len(map.entries) |-> map.entries[i].policy]
  IN FoldLeft(LAMBDA seen, p : IF p = None \/ Contains(seen, p) THEN seen
                               ELSE Append(seen, p), <<>>, named)

Index(names, p) == CHOOSE i \in 1..Len(names) : names[i] = p

(* Mutant: mappings are tried in the order of the file. *)
SortByLength_FileOrder(entries) == entries

\* A stable sort by descending length of the written prefix.
SortByLength(entries) ==
  LET before(i, j) == \/ OsLen(entries[i].prefix) > OsLen(entries[j].prefix)
                      \/ OsLen(entries[i].prefix) = OsLen(entries[j].prefix) /\ i < j
      rank(i) == 1 + Cardinality({j \in 1..Len(entries) : before(j, i)})
  IN [k \in 1..Len(entries) |-> entries[CHOOSE i \in 1..Len(entries) : rank(i) = k]]

Act(kind, i) == [kind |-> kind, policy |-> i]

\* An invalid entry, or a policy that does not compile.
MapRefused(map) ==
  \/ \E i \in 1..Len(map.entries) : ~ ValidEntry(map.entries[i])
  \/ Contains(PolicyNames(map), "broken")

BuildMap(map) ==
  LET names == PolicyNames(map)
      act(e) == IF e.skip THEN Act("skip", 0) ELSE Act("policy", Index(names, e.policy))
      sorted == SortByLength(map.entries)
  IN [names |-> names,
      default |-> IF map.default = "skip" THEN Act("skip", 0)
                  ELSE IF map.default = None THEN Act("none", 0)
                  ELSE Act("policy", Index(names, map.default)),
      mappings |-> [i \in 1..Len(sorted) |-> [prefix |-> sorted[i].prefix, act |-> act(sorted[i])]]]

\* strip_prefix, or the whole path when it is not under the root.
Relative(map, path) ==
  IF IsPrefix(map.root, path) THEN SubSeq(path, Len(map.root) + 1, Len(path)) ELSE path

ActResult(act, names) ==
  IF act.kind = "policy" THEN [kind |-> "policy", policy |-> names[act.policy]]
  ELSE IF act.kind = "skip" THEN [kind |-> "skip", policy |-> None]
  ELSE [kind |-> "unmatched", policy |-> None]

\* The action of the first mapping that is a prefix of the path, or the default.
ResolveIn(built, path) ==
  LET hits == {i \in 1..Len(built.mappings) : IsPrefix(built.mappings[i].prefix.at, path)}
  IN  ActResult(IF hits = {} THEN built.default ELSE built.mappings[Min(hits)].act, built.names)

ResolvePolicy(map, path) ==
  IF MapRefused(map) THEN [kind |-> "refused", policy |-> None]
  ELSE ResolveIn(BuildMap(map), Relative(map, path))

ResolveFile ==
  /\ ptPart = "map" /\ ptGot = <<>>
  /\ \E path \in PtPaths : ptGot' = <<path, ResolvePolicy(ptGiven, path)>>
  /\ UNCHANGED <<ptPart, ptGiven, ptRun, ptDisk>>
----------------------------------------------------------------------------
(* JSON values, as a compiled policy or a list of plans is written.        *)

NoFields == [k \in {} |-> 0]
Literal(x) == [kind |-> "lit", lit |-> x, fields |-> NoFields, items |-> <<>>]
Obj(f) == [kind |-> "obj", lit |-> None, fields |-> f, items |-> <<>>]
Arr(s) == [kind |-> "arr", lit |-> None, fields |-> NoFields, items |-> s]

Drop(f, keys) == [k \in DOMAIN f \ keys |-> f[k]]

PolicyJson(p) ==
  Obj([name |-> Literal(p.name),
       phases |-> Arr([i \in 1..Len(p.phases) |->
                         Obj([name |-> Literal(p.phases[i].name), op |-> Literal(p.phases[i].op)])]),
       phase_order |-> Arr([i \in 1..Len(p.order) |-> Literal(p.order[i])]),
       source_hash |-> Literal(p.hash)])

PlansJson(ps) ==
  Arr([i \in 1..Len(ps) |->
         Obj([phase_name |-> Literal(ps[i].phase), id |-> Literal(ps[i].id),
              actions |-> Arr(<<Obj([operation |-> Literal(ps[i].action)])>>),
              policy_hash |-> Literal(ps[i].hash), evaluated_at |-> Literal(ps[i].id)])])

strip_policy_volatiles(v) == [v EXCEPT !.fields = Drop(@, {"source_hash"})]

RECURSIVE strip_plan_volatiles(_)
strip_plan_volatiles(v) ==
  CASE v.kind = "obj" ->
         LET kept == Drop(v.fields, {"evaluated_at", "id", "introspected_at", "policy_hash", "session_id"})
         IN Obj([k \in DOMAIN kept |-> strip_plan_volatiles(kept[k])])
    [] v.kind = "arr" -> Arr([i \in 1..Len(v.items) |-> strip_plan_volatiles(v.items[i])])
    [] OTHER -> v

diff_array_key(s) ==
  IF s = <<>> THEN None
  ELSE IF Head(s).kind # "obj" THEN None
  ELSE IF "name" \in DOMAIN Head(s).fields THEN "name"
  ELSE IF "phase_name" \in DOMAIN Head(s).fields THEN "phase_name"
  ELSE None

Line(op, at) == [op |-> op, at |-> at]

\* The names of an array's items under a key; items without one have none.
ItemNames(s, key) ==
  LET named == SelectSeq(s, LAMBDA v : v.kind = "obj" /\ key \in DOMAIN v.fields)
  IN [i \in 1..Len(named) |-> named[i].fields[key].lit]

\* HashMap::collect: of two items with one name the last stays.
ItemNamed(s, key, name) ==
  s[CHOOSE i \in 1..Len(s) :
      /\ s[i].kind = "obj" /\ key \in DOMAIN s[i].fields /\ s[i].fields[key].lit = name
      /\ \A j \in (i + 1)..Len(s) :
           ~ (s[j].kind = "obj" /\ key \in DOMAIN s[j].fields /\ s[j].fields[key].lit = name)]

\* The names only the second array has.
OnlyIn(a, b) == SelectSeq(b, LAMBDA n : ~ Contains(a, n))

RECURSIVE diff_values(_, _, _)
diff_values(at, a, b) ==
  LET keyA == diff_array_key(a.items)
      key == IF keyA # None THEN keyA ELSE diff_array_key(b.items)
      in(v, k) == k \in DOMAIN v.fields
      member(k) == IF in(a, k) /\ in(b, k)
                   THEN diff_values(Append(at, k), a.fields[k], b.fields[k])
                   ELSE <<Line(IF in(a, k) THEN "removed" ELSE "added", Append(at, k))>>
      aNames == ItemNames(a.items, key)
      bNames == ItemNames(b.items, key)
      common == SelectSeq(aNames, LAMBDA n : Contains(bNames, n))
  IN IF a = b THEN <<>>
     ELSE IF a.kind = "obj" /\ b.kind = "obj"
     THEN FlattenSeq([i \in 1..Cardinality(DOMAIN a.fields \cup DOMAIN b.fields) |->
                        member(SetToSeq(DOMAIN a.fields \cup DOMAIN b.fields)[i])])
     ELSE IF a.kind = "arr" /\ b.kind = "arr" /\ key # None
     THEN [i \in 1..Len(OnlyIn(bNames, aNames)) |-> Line("removed", Append(at, OnlyIn(bNames, aNames)[i]))]
          \o [i \in 1..Len(OnlyIn(aNames, bNames)) |-> Line("added", Append(at, OnlyIn(aNames, bNames)[i]))]
          \o FlattenSeq([i \in 1..Len(common) |->
               diff_values(Append(at, common[i]), ItemNamed(a.items, key, common[i]),
                           ItemNamed(b.items, key, common[i]))])
     ELSE <<Line("changed", at)>>

DiffPolicies ==
  /\ ptPart = "diff" /\ ptGot = <<>>
  /\ ptGot' = <<"lines", diff_values(<<>>, strip_policy_volatiles(PolicyJson(ptGiven.a)),
                                     strip_policy_volatiles(PolicyJson(ptGiven.b)))>>
  /\ UNCHANGED <<ptPart, ptGiven, ptRun, ptDisk>>

DiffPlans ==
  /\ ptPart = "plans" /\ ptGot = <<>>
  /\ ptGot' = <<"lines", diff_values(<<>>, strip_plan_volatiles(PlansJson(ptGiven.a)),
                                     strip_plan_volatiles(PlansJson(ptGiven.b)))>>
  /\ UNCHANGED <<ptPart, ptGiven, ptRun, ptDisk>>
----------------------------------------------------------------------------
\* The phases in phase_order, then those the order does not name.
ordered_describe_phases(phases, order) ==
  LET step(acc, name) ==
        LET free == {i \in 1..Len(phases) : i \notin acc.used /\ phases[i] = name}
        IN IF free = {} THEN acc
           ELSE LET i == CHOOSE x \in free : \A y \in free : x <= y
                IN [out |-> Append(acc.out, phases[i]), used |-> acc.used \cup {i}]
      first == FoldLeft(step, [out |-> <<>>, used |-> {}], order)
      rest == SelectSeq([i \in 1..Len(phases) |-> i], LAMBDA i : i \notin first.used)
  IN first.out \o [k \in 1..Len(rest) |-> phases[rest[k]]]

DescribePolicy ==
  /\ ptPart = "describe" /\ ptGot = <<>>
  /\ ptGot' = <<"phases", ordered_describe_phases(ptGiven.phases, ptGiven.order)>>
  /\ UNCHANGED <<ptPart, ptGiven, ptRun, ptDisk>>
----------------------------------------------------------------------------
(* The test suites.  The plans of one evaluation carry a fresh id, here    *)
(* the number of the run; ptDisk holds the snapshot files.                 *)

PlansOf(v, case) ==
  LET caps == IF case.caps # None THEN case.caps ELSE "fixture"
  IN PtPlans[v][case.fixture][caps]

FindPlan(plans, phase) ==
  LET at == {i \in 1..Len(plans) : plans[i].phase = phase}
  IN IF at = {} THEN 0 ELSE CHOOSE i \in at : \A j \in at : i <= j

assert_phases_run(plans, expected) ==
  \A p \in expected : FindPlan(plans, p) # 0 /\ plans[FindPlan(plans, p)].skip = None

assert_phases_skipped(plans, expected) ==
  \A e \in expected : FindPlan(plans, e[1]) # 0 /\ plans[FindPlan(plans, e[1])].skip = e[2]

\* Removals are counted over all plans; the subtraction saturates.
assert_tracks_kept(plans, expected, type) ==
  /\ plans # <<>>
  /\ LET tracks == Head(plans).tracks
         initial == Cardinality({i \in 1..Len(tracks) : tracks[i] = type})
         gone(p) == Cardinality({i \in p.removes : tracks[i] = type})
         removed == FoldLeft(LAMBDA n, p : n + gone(p), 0, plans)
     IN expected = IF removed >= initial THEN 0 ELSE initial - removed

assert_no_warnings(plans) == \A i \in 1..Len(plans) : ~ plans[i].warns

Assertions_check(expect, plans) ==
  /\ assert_phases_run(plans, expect.run)
  /\ assert_phases_skipped(plans, expect.skipped)
  /\ expect.audio # -1 => assert_tracks_kept(plans, expect.audio, "audio")
  /\ expect.quiet => assert_no_warnings(plans)

\* The plans as JSON with the ids and times replaced by fixed values.
Snapshot(plans, id) == [plans |-> plans, id |-> id]
canonicalize_plans_for_snapshot(plans, id) == Snapshot(plans, "null")

snapshot_json(plans, id) == canonicalize_plans_for_snapshot(plans, id)

NoSnapshot == Snapshot(<<>>, "absent")

\* assert_snapshot_file: with update the file is written, else compared.
SnapshotResult(plans, id, case) ==
  IF case.snapshot = None THEN [ok |-> TRUE, disk |-> ptDisk, updated |-> 0]
  ELSE IF ptRun.update
  THEN [ok |-> TRUE, disk |-> [ptDisk EXCEPT ![case.snapshot] = snapshot_json(plans, id)], updated |-> 1]
  ELSE [ok |-> ptDisk[case.snapshot] = snapshot_json(plans, id), disk |-> ptDisk, updated |-> 0]

\* write_snapshot may fail; the case is then reported as failed.
WriteFails(case) == [ok |-> FALSE, disk |-> ptDisk, updated |-> 0]

StartTests ==
  /\ ptPart = "test" /\ ptRun.at = 0 /\ ptRun.number < PtMaxRuns
  /\ \E update \in BOOLEAN :
       ptRun' = [ptRun EXCEPT !.at = 1, !.number = @ + 1, !.update = update, !.results = <<>>,
                              !.updated = 0]
  /\ UNCHANGED <<ptPart, ptGiven, ptGot, ptDisk>>

RunCase ==
  /\ ptPart = "test" /\ ptRun.at \in 1..Len(PtCases)
  /\ LET case == PtCases[ptRun.at]
         plans == PlansOf(ptGiven, case)
         met == Assertions_check(case.expect, plans)
     IN \E snap \in {SnapshotResult(plans, ptRun.number, case)}
                      \cup (IF case.snapshot # None /\ ptRun.update THEN {WriteFails(case)} ELSE {}) :
          /\ ptDisk' = snap.disk
          /\ ptRun' = [ptRun EXCEPT !.at = @ + 1, !.updated = @ + snap.updated,
                 !.results = Append(@, [met |-> met, kept |-> snap.ok, pass |-> met /\ snap.ok])]
  /\ UNCHANGED <<ptPart, ptGiven, ptGot>>

\* A fixture that cannot be loaded ends the run without a report.
AbortTests ==
  /\ ptPart = "test" /\ ptRun.at \in 1..Len(PtCases)
  /\ ptRun' = [ptRun EXCEPT !.at = 0, !.results = <<>>]
  /\ ptGot' = [ptGot EXCEPT !.written = None]
  /\ UNCHANGED <<ptPart, ptGiven, ptDisk>>

\* TestOutput::from_cases and the exit code; ptGot.written remembers the
\* policy version whose snapshots an update run wrote without a failure.
ReportTests ==
  /\ ptPart = "test" /\ ptRun.at = Len(PtCases) + 1
  /\ LET passed == Cardinality({i \in 1..Len(PtCases) : ptRun.results[i].pass})
     IN ptGot' = [exit |-> IF Len(PtCases) > passed THEN 1 ELSE 0,
                  update |-> ptRun.update, version |-> ptGiven, results |-> ptRun.results,
                  earlier |-> ptGot.written,
                  written |-> IF ~ ptRun.update THEN ptGot.written
                              ELSE IF \A i \in 1..Len(PtCases) : ptRun.results[i].kept
                              THEN ptGiven ELSE None]
  /\ ptRun' = [ptRun EXCEPT !.at = 0, !.results = <<>>]
  /\ UNCHANGED <<ptPart, ptGiven, ptDisk>>

EditPolicy ==
  /\ ptPart = "test" /\ ptRun.at = 0
  /\ \E v \in PtVersions \ {ptGiven} : ptGiven' = v
  /\ UNCHANGED <<ptPart, ptGot, ptRun, ptDisk>>
----------------------------------------------------------------------------
SnapshotPaths == {PtCases[i].snapshot : i \in 1..Len(PtCases)} \ {None}

PtIdle == [at |-> 0, number |-> 0, update |-> FALSE, results |-> <<>>, updated |-> 0]

PtInit ==
  /\ ptRun = PtIdle /\ ptDisk = [p \in SnapshotPaths |-> NoSnapshot]
  /\ \/ ptPart = "map" /\ ptGiven \in PtMaps /\ ptGot = <<>>
     \/ ptPart = "diff" /\ ptGiven \in [a : PtPolicies, b : PtPolicies] /\ ptGot = <<>>
     \/ ptPart = "plans" /\ ptGiven \in [a : PtPlanLists, b : PtPlanLists] /\ ptGot = <<>>
     \/ ptPart = "describe" /\ ptGiven \in PtOrders /\ ptGot = <<>>
     \/ /\ ptPart = "test" /\ ptGiven \in PtVersions
        /\ ptGot = [exit |-> 0, update |-> FALSE, version |-> None, results |-> <<>>,
                    earlier |-> None, written |-> None]

PtNext ==
  \/ ResolveFile \/ DiffPolicies \/ DiffPlans \/ DescribePolicy
  \/ StartTests \/ RunCase \/ AbortTests \/ ReportTests \/ EditPolicy

PtSpec == PtInit /\ [][PtNext]_ptVars
----------------------------------------------------------------------------
Resolved == ptPart = "map" /\ ptGot # <<>>

(* A file gets the policy of the most specific mapping over it: no other   *)
(* mapping that covers the file has more components, whatever the order of *)
(* the entries and whether prefixes end with a slash; the default decides  *)
(* only when none covers it (PolicyResolver::build and resolve).           *)
MostSpecificWins ==
  Resolved /\ ptGot[2].kind # "refused" =>
    LET entries == ptGiven.entries
        path == Relative(ptGiven, ptGot[1])
        over == {i \in 1..Len(entries) : IsPrefix(entries[i].prefix.at, path)}
        gives(e) == IF e.skip THEN [kind |-> "skip", policy |-> None]
                    ELSE [kind |-> "policy", policy |-> e.policy]
    IN IF over = {}
       THEN ptGot[2] = CASE ptGiven.default = None -> [kind |-> "unmatched", policy |-> None]
                         [] ptGiven.default = "skip" -> [kind |-> "skip", policy |-> None]
                         [] OTHER -> [kind |-> "policy", policy |-> ptGiven.default]
       ELSE \E i \in over : /\ ptGot[2] = gives(entries[i])
                            /\ \A j \in over : Len(entries[j].prefix.at) <= Len(entries[i].prefix.at)

PhaseMap(p) == [n \in {p.phases[i].name : i \in 1..Len(p.phases)} |->
                  {p.phases[i].op : i \in {j \in 1..Len(p.phases) : p.phases[j].name = n}}]

(* `voom policy diff` calls two policies identical exactly when they have  *)
(* the same name, the same phases with the same operations and run them in *)
(* the same order; a different source text alone is no difference          *)
(* (diff_values over the stripped JSON).                                   *)
DiffTellsPolicies ==
  ptPart = "diff" /\ ptGot # <<>> =>
    LET a == ptGiven.a b == ptGiven.b
    IN ptGot[2] = <<>> <=> a.name = b.name /\ a.order = b.order /\ PhaseMap(a) = PhaseMap(b)

(* With a fixture, the diff is empty exactly when the same phases plan the *)
(* same actions; ids, times and hashes of the two evaluations never show.  *)
(* The order of the plans is not compared (diff_named_arrays).             *)
DiffTellsPlans ==
  ptPart = "plans" /\ ptGot # <<>> =>
    LET plan(ps) == {<<ps[i].phase, ps[i].action>> : i \in 1..Len(ps)}
    IN ptGot[2] = <<>> <=> plan(ptGiven.a) = plan(ptGiven.b)

(* `voom policy describe` lists every phase of the policy exactly once,    *)
(* those the phase order names first and in that order, also when the      *)
(* order leaves phases out (ordered_describe_phases).                      *)
EveryPhaseDescribedOnce ==
  ptPart = "describe" /\ ptGot # <<>> =>
    LET out == ptGot[2]
        named == SelectSeq(ptGiven.order, LAMBDA n : Contains(ptGiven.phases, n))
    IN /\ Len(out) = Len(ptGiven.phases)
       /\ Range(out) = Range(ptGiven.phases)
       /\ IsPrefix(named, out)

(* After an update run that wrote every snapshot, a later run with the     *)
(* same policy finds all snapshots matching, although every evaluation     *)
(* makes new ids and times; so it fails only on an expectation             *)
(* (assert_snapshot_file, scrub_nondeterministic_fields).                  *)
UpdatedSnapshotsMatch ==
  ptPart = "test" /\ ptGot.results # <<>> /\ ~ ptGot.update /\ ptGot.version = ptGot.earlier =>
    \A i \in 1..Len(ptGot.results) : ptGot.results[i].kept

Remaining(plans) ==
  LET tracks == Head(plans).tracks
      gone == UNION {plans[i].removes : i \in 1..Len(plans)}
  IN Cardinality({i \in 1..Len(tracks) : tracks[i] = "audio" /\ i \notin gone})

RemovedTwice(plans) ==
  \E i, j \in 1..Len(plans) : i # j /\ plans[i].removes \cap plans[j].removes # {}

(* A run that exits with success told the truth of the policy: every case  *)
(* that states how many audio tracks stay is right about the tracks its    *)
(* plans leave, unless two phases remove the same track                    *)
(* (Assertions::check, assert_tracks_kept, TestOutput::from_cases).        *)
PassingTestsHold ==
  ptPart = "test" /\ ptGot.results # <<>> /\ ptGot.exit = 0 =>
    \A i \in 1..Len(PtCases) :
      LET plans == PlansOf(ptGot.version, PtCases[i])
          expect == PtCases[i].expect
      IN /\ expect.audio # -1 /\ ~ RemovedTwice(plans) => Remaining(plans) = expect.audio
         /\ \A p \in expect.run : \E k \in 1..Len(plans) : plans[k].phase = p /\ plans[k].skip = None

-----------------------------------------------------------------------------
(***************************************************************************)
(* The names of codecs and languages: the alias tables of voom-domain, the *)
(* way a name a policy writes is validated and compiled, the way ffprobe's *)
(* name for the same thing is normalised, and whether the two meet when a  *)
(* filter is evaluated.  Also the spelling hint for an unknown codec.      *)
(*                                                                         *)
(* A text is a word of the tables and whether it is written in upper case. *)
(* For the hint, where spelling matters, a word is a sequence of letters   *)
(* (numbers, ordered as their bytes) and the tables are a constant.        *)
(***************************************************************************)

CONSTANTS
  NmUnknown,    \* words that are in no table
  NmWords,      \* the misspelt words looked up, sequences of letters
  NmShort,      \* the words whose distances are compared with the definition
  NmTables      \* <<video, audio, subtitle>>: functions from words to words

VARIABLES
  nmPart,       \* "codec", "language" or "hint": what the behaviour looks at
  nmStage,      \* how far the written name has got
  nmUse,        \* where the policy writes the name
  nmWritten,    \* the text in the policy
  nmTagged,     \* the text ffprobe reports for the track
  nmCompiled,   \* the text the compiled policy compares with
  nmTrack,      \* the text of the introspected track
  nmAnswer      \* whether the filter matched; for a hint, the word suggested

nmVars == <<nmPart, nmStage, nmUse, nmWritten, nmTagged, nmCompiled, nmTrack, nmAnswer>>

NoText == [word |-> "", upper |-> FALSE]

\* A table of names: the canonical name of each group's aliases.
AliasTable(groups) ==
  [a \in UNION {groups[c] : c \in DOMAIN groups} |-> CHOOSE c \in DOMAIN groups : a \in groups[c]]

VIDEO_CODECS ==
  AliasTable([h264 |-> {"h264", "avc", "avc1", "x264"}, hevc |-> {"h265", "hevc", "x265", "hev1"},
         av1 |-> {"av1", "av01"}, vp9 |-> {"vp9", "vp09"}, vp8 |-> {"vp8"},
         mpeg2video |-> {"mpeg2", "mpeg2video", "m2v"}, vc1 |-> {"vc1", "vc-1", "wmv3"}])

AUDIO_CODECS ==
  AliasTable([aac |-> {"aac", "aac-lc", "mp4a"}, ac3 |-> {"ac3", "ac-3", "a_ac3"},
         eac3 |-> {"eac3", "e-ac-3", "a_eac3"}, truehd |-> {"truehd", "mlp", "a_truehd"},
         dts |-> {"dts", "a_dts"}, dts_hd_ma |-> {"dts_hd", "dts-hd", "dts-hd ma", "dts_hd_ma"},
         flac |-> {"flac", "a_flac"}, opus |-> {"opus", "a_opus"},
         vorbis |-> {"vorbis", "a_vorbis"}, mp3 |-> {"mp3"}, mp2 |-> {"mp2"},
         pcm |-> {"pcm", "pcm_s16le", "pcm_s24le"}])

SUBTITLE_CODECS ==
  AliasTable([subrip |-> {"srt", "subrip", "s_text/utf8"}, ass |-> {"ass", "ssa", "s_text/ass"},
         hdmv_pgs_subtitle |-> {"pgs", "hdmv_pgs_subtitle", "s_hdmv/pgs"},
         dvd_subtitle |-> {"vobsub", "dvd_subtitle", "s_vobsub"},
         dvb_subtitle |-> {"dvb_subtitle"}, webvtt |-> {"webvtt"}])

CodecTables == <<VIDEO_CODECS, AUDIO_CODECS, SUBTITLE_CODECS>>

\* The canonical code of each two- and three-letter code.
LANGUAGE_CODES ==
  AliasTable([eng |-> {"en", "eng"}, fre |-> {"fr", "fra", "fre"}, ger |-> {"de", "deu", "ger"},
         spa |-> {"es", "spa"}, ita |-> {"it", "ita"}, por |-> {"pt", "por"},
         rus |-> {"ru", "rus"}, jpn |-> {"ja", "jpn"}, chi |-> {"zh", "zho", "chi"},
         kor |-> {"ko", "kor"}, ara |-> {"ar", "ara"}, hin |-> {"hi", "hin"},
         dut |-> {"nl", "nld", "dut"}, swe |-> {"sv", "swe"}, nor |-> {"no", "nor"},
         dan |-> {"da", "dan"}, fin |-> {"fi", "fin"}, pol |-> {"pl", "pol"},
         cze |-> {"cs", "ces", "cze"}, hun |-> {"hu", "hun"}, rum |-> {"ro", "ron", "rum"},
         gre |-> {"el", "ell", "gre"}, tur |-> {"tr", "tur"}, heb |-> {"he", "heb"},
         tha |-> {"th", "tha"}, vie |-> {"vi", "vie"}, ukr |-> {"uk", "ukr"},
         und |-> {"und"}, zxx |-> {"zxx"}, mul |-> {"mul"}])

LANGUAGE_NAMES ==
  [eng |-> "english", fre |-> "french", ger |-> "german", spa |-> "spanish",
   ita |-> "italian", por |-> "portuguese", rus |-> "russian", jpn |-> "japanese",
   chi |-> "chinese", kor |-> "korean", ara |-> "arabic", hin |-> "hindi",
   dut |-> "dutch", swe |-> "swedish", nor |-> "norwegian", dan |-> "danish",
   fin |-> "finnish", pol |-> "polish", cze |-> "czech", hun |-> "hungarian",
   rum |-> "romanian", gre |-> "greek", tur |-> "turkish", heb |-> "hebrew",
   tha |-> "thai", vie |-> "vietnamese", ukr |-> "ukrainian", und |-> "undetermined",
   zxx |-> "no linguistic content", mul |-> "multiple languages"]

-----------------------------------------------------------------------------
(* Lookups                                                                 *)

to_ascii_lowercase(text) == [text EXCEPT !.upper = FALSE]

\* What a table holds for a text, or no text: the lookup is by the exact text.
TableGet(table, text) ==
  IF ~text.upper /\ text.word \in DOMAIN table
    THEN [word |-> table[text.word], upper |-> FALSE]
    ELSE NoText

FirstGet(tables, text) ==
  LET hits == SelectSeq([i \in 1..Len(tables) |-> TableGet(tables[i], text)], LAMBDA t : t # NoText)
  IN  IF hits = <<>> THEN NoText ELSE hits[1]

normalize_codec(text) == FirstGet(CodecTables, to_ascii_lowercase(text))

\* The kind of the first table that knows the name.
codec_type(text) ==
  LET known == {i \in 1..3 : TableGet(CodecTables[i], to_ascii_lowercase(text)) # NoText}
  IN  IF known = {} THEN "none"
      ELSE <<"video", "audio", "subtitle">>[CHOOSE i \in known : \A j \in known : i <= j]

normalize_language(text) == TableGet(LANGUAGE_CODES, to_ascii_lowercase(text))

is_valid_language(text) == to_ascii_lowercase(text).word \in DOMAIN LANGUAGE_CODES

\* The code of a display name; the names are compared in lower case.
language_code_from_name(name) ==
  LET codes == {c \in DOMAIN LANGUAGE_NAMES : LANGUAGE_NAMES[c] = to_ascii_lowercase(name).word}
  IN  IF codes = {} THEN NoText ELSE [word |-> CHOOSE c \in codes : TRUE, upper |-> FALSE]

language_name(text) ==
  IF normalize_language(text) = NoText THEN "" ELSE LANGUAGE_NAMES[normalize_language(text).word]

-----------------------------------------------------------------------------
(* A name from the policy to the track                                     *)

CodecUses == {"filter", "transcode video", "transcode audio"}

LanguageUses == {"filter", "list", "original"}

\* An unknown codec is refused.
validate_codec_name(text) == normalize_codec(text) # NoText

\* A transcode names a codec of its target's kind.
validate_codec_track_type(target, text) ==
  codec_type(text) \in {"none", target}

\* The kind of track a use is about; a filter is not tied to one.
TargetOf(use) == CASE use = "transcode video" -> "video"
                   [] use = "transcode audio" -> "audio"
                   [] OTHER -> "any"

\* What validation says of the written name; a list option, and a field that
\* is only known when the filter runs, are not validated.
NameAccepted ==
  CASE nmPart = "codec" ->
         /\ validate_codec_name(nmWritten)
         /\ TargetOf(nmUse) # "any" => validate_codec_track_type(TargetOf(nmUse), nmWritten)
    [] nmUse = "filter" -> is_valid_language(nmWritten)
    [] OTHER -> TRUE

ValidateName ==
  /\ nmPart \in {"codec", "language"} /\ nmStage = "written"
  /\ nmStage' = IF NameAccepted THEN "accepted" ELSE "refused"
  /\ UNCHANGED <<nmPart, nmUse, nmWritten, nmTagged, nmCompiled, nmTrack, nmAnswer>>

OrElse(text, other) == IF text # NoText THEN text ELSE other

\* A codec is compiled to its canonical name.
compile_codec(text) == OrElse(normalize_codec(text), text)

\* A language is kept as it is written.
compile_language(text) == text

CompileName ==
  /\ nmStage = "accepted"
  /\ nmStage' = "compiled"
  /\ nmCompiled' = CASE nmPart = "codec" -> compile_codec(nmWritten)
                     [] nmUse = "original" -> language_code_from_name(nmWritten)
                     [] OTHER -> compile_language(nmWritten)
  /\ UNCHANGED <<nmPart, nmUse, nmWritten, nmTagged, nmTrack, nmAnswer>>

\* The language of a track; a tag in no table is taken as undetermined.
parse_language(text) == OrElse(normalize_language(text), [word |-> "und", upper |-> FALSE])

\* The codec of a track; an unknown one keeps its name in lower case.
parse_codec(text) == OrElse(normalize_codec(text), to_ascii_lowercase(text))

ProbeName ==
  /\ nmStage = "compiled"
  /\ nmStage' = "probed"
  /\ nmTrack' = IF nmPart = "codec" THEN parse_codec(nmTagged) ELSE parse_language(nmTagged)
  /\ UNCHANGED <<nmPart, nmUse, nmWritten, nmTagged, nmCompiled, nmAnswer>>

\* The filter compares the texts; a field without a value never matches.
MatchName ==
  /\ nmStage = "probed"
  /\ nmStage' = "matched"
  /\ nmAnswer' = (nmCompiled # NoText /\ nmTrack = nmCompiled)
  /\ UNCHANGED <<nmPart, nmUse, nmWritten, nmTagged, nmCompiled, nmTrack>>

-----------------------------------------------------------------------------
(* The hint for an unknown codec                                           *)

LeastNum(S) == CHOOSE n \in S : \A m \in S : n <= m

\* The distance of two words, computed a row at a time from the row before.
edit_distance(a, b) ==
  LET first == [j \in 0..Len(b) |-> j]
      Row(prev, i) ==
        LET curr[j \in 0..Len(b)] ==
              IF j = 0 THEN i
              ELSE LeastNum({prev[j] + 1, curr[j - 1] + 1,
                          prev[j - 1] + (IF a[i] # b[j] THEN 1 ELSE 0)})
        IN  curr
      rows[i \in 0..Len(a)] == IF i = 0 THEN first ELSE Row(rows[i - 1], i)
  IN  rows[Len(a)][Len(b)]

\* The order of words by their bytes.
BytesBefore(a, b) ==
  \/ Len(a) < Len(b) /\ SubSeq(b, 1, Len(a)) = a
  \/ \E i \in 1..Len(a) : /\ i <= Len(b) /\ a[i] < b[i]
                          /\ \A k \in 1..(i - 1) : a[k] = b[k]

\* The canonical names of all tables, each once and in order.
ALL_CODEC_NAMES ==
  SetToSortSeq(UNION {{t[w] : w \in DOMAIN t} : t \in ToSet(NmTables)}, BytesBefore)

NoHint == [name |-> <<>>, dist |-> 99]

Nearer(best, name, dist) ==
  IF dist <= 3 /\ dist < best.dist THEN [name |-> name, dist |-> dist] ELSE best

\* The orders in which a hash table may give its keys.
HashOrders(table) == SetToSeqs(DOMAIN table)

\* First the canonical names, then the aliases table by table; order holds
\* the order of each table's keys.
suggest_codec(word, order) ==
  LET canonical == FoldLeft(LAMBDA b, n : Nearer(b, n, edit_distance(word, n)),
                            NoHint, ALL_CODEC_NAMES)
      InTable(best, i) ==
        FoldLeft(LAMBDA b, n : Nearer(b, NmTables[i][n], edit_distance(word, n)), best, order[i])
  IN  InTable(InTable(InTable(canonical, 1), 2), 3).name

SuggestName ==
  /\ nmPart = "hint" /\ nmStage = "written"
  /\ nmStage' = "matched"
  /\ \E v \in HashOrders(NmTables[1]), u \in HashOrders(NmTables[2]), s \in HashOrders(NmTables[3]) :
       nmAnswer' = suggest_codec(nmWritten, <<v, u, s>>)
  /\ UNCHANGED <<nmPart, nmUse, nmWritten, nmTagged, nmCompiled, nmTrack>>

-----------------------------------------------------------------------------
NmTexts(words) == [word : words, upper : BOOLEAN]

CodecWords == UNION {DOMAIN t : t \in ToSet(CodecTables)}

NmInit ==
  /\ nmStage = "written" /\ nmCompiled = NoText /\ nmTrack = NoText
  /\ \/ /\ nmPart = "codec" /\ nmAnswer = FALSE /\ nmUse \in CodecUses
        /\ nmWritten \in NmTexts(CodecWords \cup NmUnknown)
        /\ nmTagged \in [word : CodecWords \cup NmUnknown, upper : {FALSE}]
     \/ /\ nmPart = "language" /\ nmAnswer = FALSE /\ nmUse \in LanguageUses
        /\ nmWritten \in NmTexts(IF nmUse = "original"
                                  THEN {LANGUAGE_NAMES[c] : c \in DOMAIN LANGUAGE_NAMES} \cup NmUnknown
                                  ELSE DOMAIN LANGUAGE_CODES \cup NmUnknown)
        /\ nmTagged \in NmTexts(DOMAIN LANGUAGE_CODES \cup NmUnknown)
     \/ /\ nmPart = "hint" /\ nmAnswer = <<>> /\ nmUse = "filter"
        /\ nmWritten \in NmWords /\ nmTagged = NoText

NmNext == ValidateName \/ CompileName \/ ProbeName \/ MatchName \/ SuggestName

NmSpec == NmInit /\ [][NmNext]_nmVars

-----------------------------------------------------------------------------
(* Properties                                                              *)

SameCodec(a, b) ==
  LET Name(t) == OrElse(normalize_codec(t), to_ascii_lowercase(t)) IN Name(a) = Name(b)

\* A codec the validator accepts selects exactly the tracks of that codec,
\* whichever alias, in whichever case, the policy writes and ffprobe reports:
\* the compiler and the ffprobe parser end at the same name.
CodecSelectsItsTracks ==
  nmPart = "codec" /\ nmStage = "matched" => nmAnswer = SameCodec(nmWritten, nmTagged)

\* A transcode that is compiled names a codec of the kind of track it is for,
\* and the compiled name is still of that kind when it is looked up again.
TranscodeNamesItsKind ==
  nmPart = "codec" /\ nmStage \in {"compiled", "probed", "matched"} /\ TargetOf(nmUse) # "any"
    => codec_type(nmCompiled) = TargetOf(nmUse)

\* The original language Radarr and Sonarr give by its display name selects
\* exactly the tracks tagged with a code of that language, so a filter
\* lang == plugin.radarr.original_language finds them.
OriginalLanguageSelects ==
  nmPart = "language" /\ nmUse = "original" /\ nmStage = "matched"
    => nmAnswer = (/\ language_name(parse_language(nmTagged)) = to_ascii_lowercase(nmWritten).word
                   /\ nmWritten.word \notin NmUnknown)

\* The cost of turning a into b when the pairs of matching, a set of
\* positions that does not cross itself, are kept or substituted.
Matchings(a, b) ==
  {m \in SUBSET ((1..Len(a)) \X (1..Len(b))) :
     \A p, q \in m : p # q => (p[1] < q[1] /\ p[2] < q[2]) \/ (q[1] < p[1] /\ q[2] < p[2])}

MatchingCost(a, b, m) ==
  (Len(a) - Cardinality(m)) + (Len(b) - Cardinality(m))
    + Cardinality({p \in m : a[p[1]] # b[p[2]]})

\* edit_distance is the least number of letters to insert, delete and replace.
DistanceIsLeast ==
  nmPart = "hint" /\ nmStage = "written" =>
    \A w \in NmShort :
      nmWritten \in NmShort =>
        edit_distance(nmWritten, w) = LeastNum({MatchingCost(nmWritten, w, m) : m \in Matchings(nmWritten, w)})

\* The hint is the name of a nearest spelling: whatever order the hash tables
\* give, no canonical name and no alias is nearer than one of its spellings,
\* and no hint is given only when nothing is within three letters.
HintIsNearest ==
  nmPart = "hint" /\ nmStage = "matched" =>
    LET all == UNION {DOMAIN t : t \in ToSet(NmTables)}
        near == LeastNum({edit_distance(nmWritten, w) : w \in all})
        spellings == {w \in all : \E i \in 1..3 : w \in DOMAIN NmTables[i] /\ NmTables[i][w] = nmAnswer}
    IN  IF near > 3 THEN nmAnswer = <<>>
        ELSE \E w \in spellings : edit_distance(nmWritten, w) = near

\* The policy tools tell the truth of a policy: names written in a policy
\* select the tracks they mean, hints are nearest, the most specific mapping
\* wins, a diff is empty exactly when nothing differs, and tests that pass
\* hold.
ToolsTellTruth ==
  /\ CodecSelectsItsTracks
  /\ TranscodeNamesItsKind
  /\ OriginalLanguageSelects
  /\ DistanceIsLeast
  /\ HintIsNearest
  /\ MostSpecificWins
  /\ DiffTellsPolicies
  /\ DiffTellsPlans
  /\ EveryPhaseDescribedOnce
  /\ UpdatedSnapshotsMatch
  /\ PassingTestsHold
=============================================================================
