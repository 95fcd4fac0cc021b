-------------------------- MODULE PolicyEvaluator ---------------------------
(* Evaluating a policy's phases into plans, and running them over a file.   *)
EXTENDS PlanExecutors, FiniteSetsExt

-----------------------------------------------------------------------------
(***************************************************************************)
(* The policy evaluator (plugins/policy-evaluator): a compiled phase and   *)
(* the file as it is now give a plan.  Every operation appends the actions *)
(* it needs; afterwards the safeguards retract what would leave the file   *)
(* without video or audio, or in a container that cannot hold it.          *)
(*                                                                         *)
(* Filters and conditions are trees [k, v, parts] with k the constructor   *)
(* of CompiledFilter or CompiledCondition.  The attribute tests that only  *)
(* differ in the attribute (channels, title) are represented by those on   *)
(* language and codec.                                                     *)
(***************************************************************************)

CONSTANTS
    HwAccels,     \* the hardware backends the probed executors report
    Encoders      \* what each executor reports it can encode

Filter(k, v, parts) == [k |-> k, v |-> v, parts |-> parts]

\* No filter: `keep audio`, `remove subtitles`.
All == Filter("all", {}, <<>>)

\* resolve_field, for the fields a policy of the model can name: a field of the
\* first video or audio track, of the file, or one nothing has set.
resolve_field(file, path) ==
    LET First(target) == At(file, Head(tracks_for_target(file, target))) IN
    CASE path = "video.codec" -> IF HasTrack(file, "video") THEN {First("video").codec} ELSE {}
      [] path = "audio.lang"  -> IF HasTrack(file, "audio") THEN {First("audio").lang} ELSE {}
      [] path = "file.container" -> {file.container}
      [] path \in file.tags   -> {path}
      [] OTHER                -> {}

RECURSIVE track_matches(_, _, _)
track_matches(track, filter, file) ==
    LET Part(n) == track_matches(track, filter.parts[n], file) IN
    CASE filter.k = "all"          -> TRUE
      [] filter.k = "lang_in"      -> track.lang \in filter.v
      [] filter.k = "lang_ne"      -> track.lang \notin filter.v
      [] filter.k = "lang_field"   -> track.lang \in UNION {resolve_field(file, p) : p \in filter.v}
      [] filter.k = "codec_in"     -> track.codec \in filter.v
      [] filter.k = "codec_ne"     -> track.codec \notin filter.v
      [] filter.k = "commentary"   -> track.type \in {"audio_commentary", "subtitle_commentary"}
      [] filter.k = "forced"       -> track.forced
      [] filter.k = "default"      -> track.default
      [] filter.k = "font"         -> track.type = "attachment" /\ track.codec = "ttf"
      [] filter.k = "and"          -> \A n \in DOMAIN filter.parts : Part(n)
      [] filter.k = "or"           -> \E n \in DOMAIN filter.parts : Part(n)
      [] filter.k = "not"          -> ~Part(1)

Matching(file, target, filter) ==
    SelectSeq(tracks_for_target(file, target),
              LAMBDA i : track_matches(At(file, i), filter, file))

audio_languages(file) ==
    {At(file, i).lang : i \in Range(tracks_for_target(file, "audio"))} \ {"und"}

Condition(k, target, filter, v, parts) ==
    [k |-> k, target |-> target, filter |-> filter, v |-> v, parts |-> parts]

RECURSIVE evaluate_condition(_, _)
evaluate_condition(cond, file) ==
    LET found   == Matching(file, cond.target, cond.filter)
        Part(n) == evaluate_condition(cond.parts[n], file)
    IN
    CASE cond.k = "exists"         -> found # <<>>
      [] cond.k = "count_gt"       -> \E n \in cond.v : Len(found) > n
      [] cond.k = "field_eq"       -> resolve_field(file, cond.target) \cap cond.v # {}
      [] cond.k = "field_exists"   -> resolve_field(file, cond.target) # {}
      [] cond.k = "multi_language" -> Cardinality(audio_languages(file)) > 1
      [] cond.k = "is_dubbed"      -> Cardinality(audio_languages(file)) > 1 /\ HasTrack(file, "subtitle")
      [] cond.k = "is_original"    -> Cardinality(audio_languages(file)) <= 1
      [] cond.k = "and"            -> \A n \in DOMAIN cond.parts : Part(n)
      [] cond.k = "or"             -> \E n \in DOMAIN cond.parts : Part(n)
      [] cond.k = "not"            -> ~Part(1)

(***************************************************************************)
(* Operations.  `v` is what the operation sets; `ref` is the field a tag's *)
(* value comes from, or the hardware backend a transcode insists on (with  *)
(* hw_fallback: false); `rules` are the conditionals of `when` and `rules` *)
(* and the create_if of a synthesis: [cond, then, else].  The filter of a  *)
(* transcode is its `preserve` list.                                       *)
(***************************************************************************)
Op(k, target, filter, v) ==
    [k |-> k, target |-> target, filter |-> filter, v |-> v, ref |-> "", rules |-> <<>>]

\* What the containers of the model hold (container_compat.rs; the codecs of the
\* model's tracks).  mkv holds every codec; of `ts` nothing is known.
codec_supported(container, codec) ==
    CASE container = "mp4"  -> codec \in {"h264", "hevc", "aac", "ac3", "mov_text"}
      [] container = "webm" -> codec \in {"vp9", "opus", "webvtt"}
      [] OTHER              -> TRUE

Safeguarded(plan, kind) == [plan EXCEPT !.safeguards = @ \cup {kind}]

Appended(plan, actions) == [plan EXCEPT !.actions = @ \o actions]

EachTrack(indices, A(_)) == [n \in 1..Len(indices) |-> A(indices[n])]

Removal(file, indices) ==
    EachTrack(indices, LAMBDA i : track_op("remove_track", i, At(file, i).type))

emit_keep(plan, file, target, filter) ==
    LET tracks == tracks_for_target(file, target)
        gone   == SelectSeq(tracks, LAMBDA i : ~track_matches(At(file, i), filter, file))
    IN  IF tracks = <<>> THEN plan
        ELSE IF gone = tracks THEN Safeguarded(plan, "all_tracks_removed")
        ELSE Appended(plan, Removal(file, gone))

emit_remove(plan, file, target, filter) ==
    LET tracks == tracks_for_target(file, target)
        gone   == Matching(file, target, filter)
    IN  IF tracks # <<>> /\ gone = tracks /\ target \in {"video", "audio"}
        THEN Safeguarded(plan, "all_tracks_removed")
        ELSE Appended(plan, Removal(file, gone))

emit_set_container(plan, file, target) ==
    IF file.container = target THEN plan
    ELSE Push(plan, file_op("convert_container", target))

\* emit_set_defaults: for each strategy, which of the tracks are to be default.
DefaultTracks(file, tracks, strategy) ==
    CASE strategy = "none"  -> {}
      [] strategy = "all"   -> Range(tracks)
      [] strategy = "first" -> {i \in Range(tracks) : i = Head(tracks)}
      [] strategy = "first_per_language" ->
            {i \in Range(tracks) : \A j \in Range(tracks) :
                At(file, j).lang = At(file, i).lang => i <= j}

emit_set_defaults(plan, file, target, strategy) ==
    LET tracks  == tracks_for_target(file, target)
        wanted  == DefaultTracks(file, tracks, strategy)
        changed == SelectSeq(tracks, LAMBDA i : At(file, i).default # (i \in wanted))
    IN  Appended(plan, EachTrack(changed, LAMBDA i :
            track_op(IF i \in wanted THEN "set_default" ELSE "clear_default", i, "")))

\* emit_clear_actions: the flags the settings ask to clear, one or all, track by track.
emit_clear_actions(plan, file, target, flags) ==
    LET Clears(i) ==
            (IF flags \in {"default", "all"} /\ At(file, i).default
             THEN <<track_op("clear_default", i, "")>> ELSE <<>>) \o
            (IF flags \in {"forced", "all"} /\ At(file, i).forced
             THEN <<track_op("clear_forced", i, "")>> ELSE <<>>) \o
            (IF flags \in {"titles", "all"} /\ At(file, i).title # ""
             THEN <<track_op("set_title", i, "")>> ELSE <<>>)
    IN  Appended(plan, FlattenSeq(EachTrack(tracks_for_target(file, target), Clears)))

\* A backend the policy insists on (hw_fallback: false) that is not there skips the
\* plan and drops what earlier operations emitted; later operations still emit.
emit_transcode(plan, file, op) ==
    LET kind == IF op.target = "video" THEN "transcode_video" ELSE "transcode_audio"
        todo == SelectSeq(tracks_for_target(file, op.target),
                          LAMBDA i : At(file, i).codec # op.v /\ ~track_matches(At(file, i), op.filter, file))
    IN  IF op.target \notin {"video", "audio"} THEN plan
        ELSE IF op.ref # "" /\ op.ref \notin HwAccels
        THEN [plan EXCEPT !.skipped = TRUE, !.actions = <<>>]
        ELSE Appended(plan, EachTrack(todo, LAMBDA i : track_op(kind, i, op.v)))

\* Normalising keeps the matching tracks and re-encodes them in their own codec.
\* (No track of an introspected file carries a loudness measurement.)
emit_normalize_audio(plan, file, op) ==
    LET kept == emit_keep(plan, file, op.target, op.filter)
    IN  IF op.target # "audio" THEN kept
        ELSE Appended(kept, EachTrack(Matching(file, "audio", op.filter),
                LAMBDA i : track_op("transcode_audio", i, At(file, i).codec)))

\* The source is the first audio track that matches; a track that already
\* satisfies skip_if_exists (here: has the wanted codec) ends the operation.
emit_synthesize(plan, file, op) ==
    LET audio   == tracks_for_target(file, "audio")
        sources == Matching(file, "audio", op.filter)
    IN  IF \/ \E n \in DOMAIN op.rules : ~evaluate_condition(op.rules[n].cond, file)
           \/ \E i \in Range(audio) : At(file, i).codec = op.v
        THEN plan
        ELSE Push(plan, track_op("synthesize_audio",
                                 IF sources = <<>> THEN NoTrack ELSE Head(sources), op.v))

emit_clear_tags(plan, file) ==
    IF file.tags = {} THEN plan ELSE Push(plan, file_op("clear_container_tags", ""))

emit_delete_tag(plan, file, tag) ==
    IF tag \in file.tags THEN Push(plan, file_op("delete_container_tag", tag)) ELSE plan

emit_flag_action(plan, file, op, kind) ==
    LET IsSet(t) == IF kind = "set_default" THEN t.default ELSE t.forced
        todo     == SelectSeq(Matching(file, op.target, op.filter), LAMBDA i : ~IsSet(At(file, i)))
    IN  Appended(plan, EachTrack(todo, LAMBDA i : track_op(kind, i, "")))

emit_set_language(plan, file, op) ==
    LET todo == SelectSeq(Matching(file, op.target, op.filter), LAMBDA i : At(file, i).lang # op.v)
    IN  Appended(plan, EachTrack(todo, LAMBDA i : track_op("set_language", i, op.v)))

\* An emission is the plan so far and whether the operation raised an error.
Good(plan) == [plan |-> plan, ok |-> TRUE]

Failing(plan) == [plan |-> [plan EXCEPT !.errors = @ + 1], ok |-> FALSE]

\* set_tag reads its value from a field or has it as a literal.
emit_set_tag(plan, file, op) ==
    IF op.ref # "" /\ resolve_field(file, op.ref) = {} THEN Failing(plan)
    ELSE Good(Push(plan, file_op("set_container_tag", op.v)))

emit_action(op, plan, file) ==
    CASE op.k = "keep"         -> Good(emit_keep(plan, file, op.target, op.filter))
      [] op.k = "remove"       -> Good(emit_remove(plan, file, op.target, op.filter))
      [] op.k = "skip"         -> Good([plan EXCEPT !.skipped = TRUE])
      [] op.k = "warn"         -> Good(plan)
      [] op.k = "fail"         -> Failing(plan)
      [] op.k = "set_default"  -> Good(emit_flag_action(plan, file, op, "set_default"))
      [] op.k = "set_forced"   -> Good(emit_flag_action(plan, file, op, "set_forced"))
      [] op.k = "set_language" -> Good(emit_set_language(plan, file, op))
      [] op.k = "set_tag"      -> emit_set_tag(plan, file, op)

\* The actions of a branch one after another, up to the first that fails.
emit_actions(ops, emitted, file) ==
    FoldLeft(LAMBDA e, op : IF e.ok THEN emit_action(op, e.plan, file) ELSE e, emitted, ops)

\* `when` is one rule; `rules first` stops after the first rule whose condition holds.
emit_rules(op, plan, file) ==
    LET Holds(n)   == evaluate_condition(op.rules[n].cond, file)
        Reached(n) == op.k = "rules_first" => \A m \in 1..(n - 1) : ~Holds(m)
        Branch(n)  == IF Holds(n) THEN op.rules[n].then ELSE op.rules[n].else
    IN  FoldLeft(LAMBDA e, n : IF Reached(n) THEN emit_actions(Branch(n), e, file) ELSE e,
                 Good(plan), [n \in 1..Len(op.rules) |-> n])

emit_operation(op, plan, file) ==
    CASE op.k = "set_container" -> Good(emit_set_container(plan, file, op.v))
      [] op.k = "reorder"       -> Good(Push(plan, file_op("reorder_tracks", op.v)))
      [] op.k = "verify"        -> Good(Push(plan, file_op("verify_media", op.v)))
      [] op.k = "defaults"      -> Good(emit_set_defaults(plan, file, op.target, op.v))
      [] op.k = "clear_actions" -> Good(emit_clear_actions(plan, file, op.target, op.v))
      [] op.k = "transcode"     -> Good(emit_transcode(plan, file, op))
      [] op.k = "normalize"     -> Good(emit_normalize_audio(plan, file, op))
      [] op.k = "synthesize"    -> Good(emit_synthesize(plan, file, op))
      [] op.k = "clear_tags"    -> Good(emit_clear_tags(plan, file))
      [] op.k = "delete_tag"    -> Good(emit_delete_tag(plan, file, op.v))
      [] op.k \in {"when", "rules_first", "rules_all"} -> emit_rules(op, plan, file)
      [] OTHER                  -> emit_action(op, plan, file)


apply_safeguard_for_track_type(plan, file, category) ==
    LET tracks  == Range(tracks_for_target(file, category))
        removed == Removed(Actions(plan))
    IN  IF tracks = {} \/ ~(tracks \subseteq removed) THEN plan
        ELSE Safeguarded([plan EXCEPT !.actions =
                SelectSeq(@, LAMBDA a : ~(a.op = "remove_track" /\ a.track \in tracks))],
                "no_" \o category \o "_track")

\* The codec a track ends up with: that of the last transcode that names it.
effective_codec(plan, file, i) ==
    FoldLeft(LAMBDA c, a : IF a.op \in Transcodes /\ a.track = i THEN a.arg ELSE c,
             At(file, i).codec, plan.actions)

\* The first conversion of the plan is the one judged; an offender drops them all.
apply_container_safeguard(plan, file) ==
    LET target   == ConversionTarget(plan.actions, "")
        kept     == Range(Indices(file)) \ Removed(Actions(plan))
        codecs   == {effective_codec(plan, file, i) : i \in kept} \cup
                    {a.arg : a \in {b \in Actions(plan) : b.op = "synthesize_audio"}}
    IN  IF target = "" \/ \A c \in codecs : codec_supported(target, c) THEN plan
        ELSE Safeguarded([plan EXCEPT !.actions =
                SelectSeq(@, LAMBDA a : a.op # "convert_container")], "container_incompatible")

apply_safeguards(plan, file) ==
    IF is_skipped(plan) THEN plan
    ELSE apply_container_safeguard(
            apply_safeguard_for_track_type(
                apply_safeguard_for_track_type(plan, file, "video"), file, "audio"), file)

(***************************************************************************)
(* A phase: [name, ops, skip_when, run_if, depends_on, on_error], and the  *)
(* outcomes of the phases before it.                                       *)
(***************************************************************************)
run_if_satisfied(run_if, outcomes) ==
    IF run_if.phase \notin DOMAIN outcomes THEN FALSE
    ELSE outcomes[run_if.phase] \in
            (IF run_if.trigger = "modified" THEN {"modified"} ELSE {"modified", "unmodified"})

check_skip_conditions(phase, file, outcomes) ==
    \/ \E c \in phase.skip_when : evaluate_condition(c, file)
    \/ \E r \in phase.run_if : ~run_if_satisfied(r, outcomes)
    \/ ~(phase.depends_on \subseteq DOMAIN outcomes)

\* An error under `continue` goes on to the next operation, under `skip` skips the
\* plan; under `abort` and `quarantine` the remaining operations are left out and
\* what was emitted before stays planned.
AfterOperation(on_error, r) ==
    [plan |-> IF ~r.ok /\ on_error = "skip" THEN [r.plan EXCEPT !.skipped = TRUE] ELSE r.plan,
     stop |-> ~r.ok /\ on_error # "continue"]

\* The operations in order.
evaluate_operations(phase, file) ==
    FoldLeft(LAMBDA e, op : IF e.stop THEN e
                            ELSE AfterOperation(phase.on_error, emit_operation(op, e.plan, file)),
             [plan |-> NewPlan, stop |-> FALSE], phase.ops).plan

\* apply_capability_hints: the executors that can do every encode of the plan; one
\* that is alone becomes the hint.
WantedCodecs(plan) ==
    {a.arg : a \in {b \in Actions(plan) : b.op \in Transcodes \cup {"synthesize_audio"}}}

apply_capability_hints(plan) ==
    LET able == {e \in DOMAIN Encoders : WantedCodecs(plan) \subseteq Encoders[e]}
    IN  IF is_skipped(plan) \/ WantedCodecs(plan) = {} \/ Cardinality(able) # 1 THEN plan
        ELSE [plan EXCEPT !.hint = CHOOSE e \in able : TRUE]

evaluate_phase(phase, file, outcomes) ==
    IF check_skip_conditions(phase, file, outcomes) THEN [NewPlan EXCEPT !.skipped = TRUE]
    ELSE apply_capability_hints(apply_safeguards(evaluate_operations(phase, file), file))

-----------------------------------------------------------------------------
(***************************************************************************)
(* A policy applied to one file (process_single_file_execute_inner): for   *)
(* each phase in order the evaluator makes a plan from the file as it was  *)
(* last read, an executor carries it out, and the file is read again.  The *)
(* composition of PolicyEvaluator and PlanExecutors; the backups, database *)
(* rows and files on disk of an execution are the subject of PlanExecution.*)
(***************************************************************************)

CONSTANTS
    Policies,   \* the compiled policies: phases in the order they run
    Files,      \* the files they are applied to
    ConfirmSavings  \* whether a threshold for the estimated savings was asked for

VARIABLES
    policy,     \* the phases
    disk,       \* the file as it is
    seen,       \* current_file: the file as it was last read
    at,         \* the phase the loop is at
    plan,       \* the plan of that phase
    outcomes,   \* phase_outcomes
    failed,     \* failed_plan_count
    stage,      \* "evaluate", "decide", "execute", "done"
    original,   \* history: the file at the start
    effect,     \* history: the last execution, [before, plan, reported, after]
    fresh,      \* history: every plan was made from the file as it was
    aborted     \* history: the file when an operation failed under `on_error: abort`

runVars == <<policy, disk, seen, at, plan, outcomes, failed, stage, original, effect, fresh, aborted>>

NoEffect == [ran |-> FALSE, who |-> "none", before |-> MediaFile("mkv", <<>>, {}),
             actions |-> <<>>, reported |-> {}]

Outcome == [p \in {} |-> "skipped"]

RunInit ==
    /\ policy \in Policies
    /\ disk \in Files
    /\ seen = disk /\ original = disk
    /\ at = 1 /\ plan = NewPlan /\ outcomes = Outcome /\ failed = 0
    /\ stage = "evaluate"
    /\ effect = NoEffect /\ fresh = TRUE /\ aborted = <<>>

Recorded(outcome) == (policy[at].name :> outcome) @@ outcomes

\* The loop goes on to the next phase or returns.
NextPhase ==
    /\ at' = at + 1
    /\ plan' = NewPlan
    /\ stage' = IF at = Len(policy) THEN "done" ELSE "evaluate"

\* evaluate_single_phase, through the evaluator plugin.
EvaluatePhase ==
    /\ stage = "evaluate"
    /\ plan' = evaluate_phase(policy[at], seen, outcomes)
    /\ stage' = "decide"
    /\ effect' = NoEffect
    /\ aborted' = IF aborted = <<>> /\ policy[at].on_error = "abort" /\ plan'.errors > 0
                  THEN <<disk>> ELSE aborted
    /\ UNCHANGED <<policy, disk, seen, at, outcomes, failed, original, fresh>>

\* A skipped plan, or one whose estimated savings are below the threshold the user
\* asked for, is recorded as skipped.
SkipPlan ==
    /\ stage = "decide"
    /\ is_skipped(plan) \/ ConfirmSavings
    /\ outcomes' = Recorded("skipped")
    /\ NextPhase
    /\ UNCHANGED <<policy, disk, seen, failed, original, effect, fresh, aborted>>

EmptyPlan ==
    /\ stage = "decide" /\ ~is_skipped(plan) /\ is_empty(plan)
    /\ outcomes' = Recorded("unmodified")
    /\ NextPhase
    /\ UNCHANGED <<policy, disk, seen, failed, original, effect, fresh, aborted>>

\* Before an executor is asked, detecting the crop may fail and check_disk_space
\* may refuse the plan.
RefusePlan ==
    /\ stage = "decide" /\ ~is_skipped(plan) /\ ~is_empty(plan)
    /\ \E outcome \in {"execution_failed", "safeguard_failed"} : outcomes' = Recorded(outcome)
    /\ failed' = failed + 1
    /\ NextPhase
    /\ UNCHANGED <<policy, disk, seen, original, effect, fresh, aborted>>

\* Cancellation leaves the loop before a phase or while waiting to execute one.
Cancel ==
    /\ stage = "evaluate" \/ (stage = "decide" /\ ~is_skipped(plan) /\ ~is_empty(plan))
    /\ stage' = "done"
    /\ UNCHANGED <<policy, disk, seen, at, plan, outcomes, failed, original, effect, fresh, aborted>>

\* A failed plan leaves the file as the executor left it or, when the backup
\* manager has a backup, as it was before.  The file is not read again.
FailPlan(ending, outcome) ==
    /\ disk' \in {disk, ending.file}
    /\ outcomes' = Recorded(outcome)
    /\ failed' = failed + 1
    /\ UNCHANGED seen

\* The file is read again after a success; when ffprobe fails the old tracks are
\* kept under the container the file now has.
reintrospect(file) == seen' \in {file, [seen EXCEPT !.container = file.container]}

SucceedPlan(ending) ==
    /\ disk' = ending.file
    /\ outcomes' = Recorded("modified")
    /\ reintrospect(ending.file)
    /\ UNCHANGED failed

\* Execution, then the size and duration safeguards on its output.
ExecutePlan ==
    /\ stage = "decide" /\ ~is_skipped(plan) /\ ~is_empty(plan)
    /\ fresh' = (fresh /\ seen = disk)
    /\ \E ending \in Endings(plan, seen, disk) :
        /\ effect' = [ran |-> ending.ok, who |-> Claimant(plan, seen), before |-> disk,
                      actions |-> plan.actions, reported |-> ending.reported]
        /\ IF ending.ok THEN SucceedPlan(ending) \/ FailPlan(ending, "safeguard_failed")
                        ELSE FailPlan(ending, "execution_failed")
    /\ NextPhase
    /\ UNCHANGED <<policy, original, aborted>>

RunDone == stage = "done" /\ UNCHANGED runVars

RunNext == EvaluatePhase \/ SkipPlan \/ EmptyPlan \/ RefusePlan \/ Cancel \/ ExecutePlan \/ RunDone

RunSpec == RunInit /\ [][RunNext]_runVars

(***************************************************************************)
(* Properties.                                                             *)
(***************************************************************************)

\* As long as every plan was made from the file as it was, no policy takes a file's
\* last video or its last audio: not one operation, not several operations of a phase
\* that each leave some, not phase after phase, whichever executor carries them out.
KeepsVideoAndAudio ==
    fresh => \A target \in {"video", "audio"} :
                HasTrack(original, target) => HasTrack(disk, target)

\* A conversion stays in a plan only if the target container holds every track of
\* the file the plan asks for: the codecs after its transcodes, without the tracks
\* it removes, with those it synthesizes.
ConversionHolds ==
    LET wanted == Intended(seen, plan.actions) IN
    stage = "decide" /\ ~is_skipped(plan) /\ wanted.container # seen.container =>
        \A i \in Range(Indices(wanted)) : codec_supported(wanted.container, At(wanted, i).codec)

\* Planning again after the plan has taken effect finds nothing left to do, for a
\* phase of one operation that states what the file should be like: a second run
\* over a library leaves the files it has already treated alone.
Settling(op) ==
    /\ op.k \in {"keep", "remove", "set_container", "defaults", "clear_actions", "transcode",
                 "clear_tags", "delete_tag", "set_default", "set_forced", "set_language",
                 "synthesize"}
    /\ op.filter.k # "lang_field"

SecondPlanEmpty ==
    stage = "decide" /\ ~is_skipped(plan) /\ Len(policy[at].ops) = 1 /\ Settling(policy[at].ops[1]) =>
        \A again \in {evaluate_phase(policy[at], Intended(seen, plan.actions), outcomes)} :
            is_skipped(again) \/ is_empty(again)

\* Where the executors carry a plan out in full: mkvtoolnix on an mkv file, without
\* attachments to remove, orders or tags that are no segment information; ffmpeg when
\* the plan removes, orders, verifies and synthesizes nothing and each re-encoded
\* track has the same number among the tracks of its kind as in the file.
CarriedOut(who, file, actions) ==
    \/ /\ who = "mkvtoolnix" /\ file.container = "mkv"
       /\ \A a \in Range(actions) :
            /\ a.op \notin {"reorder_tracks", "convert_container", "clear_container_tags"}
            /\ a.op = "remove_track" => a.arg # "attachment"
            /\ a.op \in {"set_container_tag", "delete_container_tag"} => a.arg \in SegmentInfo
    \/ /\ who = "ffmpeg"
       /\ \A a \in Range(actions) :
            /\ a.op \notin {"remove_track", "reorder_tracks", "verify_media", "synthesize_audio"}
            /\ a.op \in Transcodes =>
                    a.track = StreamNumber(file, Indices(file), a.track + 1)

\* Re-encoding video leaves the attachments out.
Expected(file, actions) ==
    LET wanted == Intended(file, actions) IN
    IF ReencodesVideo(actions)
    THEN [wanted EXCEPT !.tracks = SelectSeq(@, LAMBDA t : t.type # "attachment")]
    ELSE wanted

\* A plan of that kind that was made from the file as it was and that is reported
\* successful has had exactly the effect it describes, on every track, although the
\* tools run one after the other on a file whose tracks they renumber.
CarriedOutInFull ==
    effect.ran /\ fresh /\ outcomes[policy[at - 1].name] = "modified" /\
    effect.reported = Range(effect.actions) /\
    CarriedOut(effect.who, effect.before, effect.actions) =>
        disk = Expected(effect.before, effect.actions)

=============================================================================
