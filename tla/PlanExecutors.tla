--------------------------- MODULE PlanExecutors ----------------------------
(* Media files as plans see them, and the executors of plans.               *)
EXTENDS FiniteSets, Integers, Sequences, SequencesExt

-----------------------------------------------------------------------------
(***************************************************************************)
(* What the policy evaluator, the executors and the introspector all speak *)
(* about: a media file as MediaFile and Track describe it, and the planned *)
(* actions of a Plan (crates/voom-domain/src/media.rs, plan.rs).           *)
(*                                                                         *)
(* A track carries the fields the properties tell apart.  `id` is history: *)
(* the stream a track was when the file was first read, so that a property *)
(* can follow one stream through executions that renumber the others.      *)
(* Track indices count from 0, as Track.index does.                        *)
(***************************************************************************)

\* An action that is not about one track: track_index == None.
NoTrack == -1

\* TrackType::{is_video, is_audio, is_subtitle} and track_category.
is_audio(type) == type \in {"audio_main", "audio_alternate", "audio_commentary"}

is_subtitle(type) == type \in {"subtitle_main", "subtitle_forced", "subtitle_commentary"}

track_category(type) ==
    CASE is_audio(type)    -> "audio"
      [] is_subtitle(type) -> "subtitle"
      [] OTHER             -> type

Track(id, type, codec, lang) ==
    [id |-> id, type |-> type, codec |-> codec, lang |-> lang,
     title |-> "", default |-> FALSE, forced |-> FALSE]

MediaFile(container, tracks, tags) ==
    [container |-> container, tracks |-> tracks, tags |-> tags]

At(file, i) == file.tracks[i + 1]

Indices(file) == [n \in 1..Len(file.tracks) |-> n - 1]

HasIndex(file, i) == i \in 0..(Len(file.tracks) - 1)

\* MediaFile::{tracks_of_type, video_tracks, audio_tracks, subtitle_tracks} and
\* tracks_for_target: the indices of the tracks an operation is about, in order.
tracks_for_target(file, target) ==
    SelectSeq(Indices(file),
              LAMBDA i : target = "any" \/ track_category(At(file, i).type) = target)

HasTrack(file, target) == tracks_for_target(file, target) # <<>>

\* PlannedAction: file_op and track_op.
track_op(op, i, arg) == [op |-> op, track |-> i, arg |-> arg]

file_op(op, arg) == track_op(op, NoTrack, arg)

\* OperationType::METADATA_OPS.
MetadataOps == {"set_default", "clear_default", "set_forced", "clear_forced", "set_title",
                "set_language", "set_container_tag", "clear_container_tags",
                "delete_container_tag"}

Transcodes == {"transcode_video", "transcode_audio"}

is_metadata_op(op) == op \in MetadataOps

\* Plan: its actions, why it is skipped, the safeguards it records, whether an
\* operation of the phase raised an error, and the executor it is hinted to.
NewPlan == [actions |-> <<>>, skipped |-> FALSE, safeguards |-> {}, errors |-> 0, hint |-> ""]

is_empty(plan) == plan.actions = <<>>

is_skipped(plan) == plan.skipped

Push(plan, action) == [plan EXCEPT !.actions = Append(@, action)]

Actions(plan) == Range(plan.actions)

Removed(actions) == {a.track : a \in {b \in actions : b.op = "remove_track"}}

(***************************************************************************)
(* What a plan asks for, whoever executes it: the file in which every      *)
(* action has had the effect its description states.                       *)
(***************************************************************************)
Edited(track, a) ==
    CASE a.op = "set_default"   -> [track EXCEPT !.default = TRUE]
      [] a.op = "clear_default" -> [track EXCEPT !.default = FALSE]
      [] a.op = "set_forced"    -> [track EXCEPT !.forced = TRUE]
      [] a.op = "clear_forced"  -> [track EXCEPT !.forced = FALSE]
      [] a.op = "set_title"     -> [track EXCEPT !.title = a.arg]
      [] a.op = "set_language"  -> [track EXCEPT !.lang = a.arg]
      [] a.op \in Transcodes    -> [track EXCEPT !.codec = a.arg]
      [] OTHER                  -> track

EditedTags(tags, a) ==
    CASE a.op = "set_container_tag"    -> tags \cup {a.arg}
      [] a.op = "delete_container_tag" -> tags \ {a.arg}
      [] a.op = "clear_container_tags" -> {}
      [] OTHER                         -> tags

\* Tracks edited by the actions that name them, in the actions' order.
EditedTracks(file, actions, Names(_, _)) ==
    [n \in 1..Len(file.tracks) |->
        FoldLeft(LAMBDA t, a : IF Names(a, n - 1) THEN Edited(t, a) ELSE t,
                 file.tracks[n], actions)]

Without(tracks, removed) ==
    LET kept == SelectSeq([n \in 1..Len(tracks) |-> n], LAMBDA n : (n - 1) \notin removed)
    IN  [m \in 1..Len(kept) |-> tracks[kept[m]]]

ConversionTarget(actions, container) ==
    LET conversions == SelectSeq(actions, LAMBDA a : a.op = "convert_container")
    IN  IF conversions = <<>> THEN container ELSE Head(conversions).arg

\* The tracks `synthesize` asks for, each in the language of its source.
Synthesized(file, actions) ==
    LET wanted == SelectSeq(actions, LAMBDA a : a.op = "synthesize_audio")
    IN  [n \in 1..Len(wanted) |->
            Track("new", "audio_main", wanted[n].arg,
                  IF HasIndex(file, wanted[n].track) THEN At(file, wanted[n].track).lang
                                                     ELSE "und")]

Intended(file, actions) ==
    LET edited == EditedTracks(file, actions, LAMBDA a, i : a.track = i)
    IN  MediaFile(ConversionTarget(actions, file.container),
                  Without(edited, Removed(Range(actions))) \o Synthesized(file, actions),
                  FoldLeft(EditedTags, file.tags, actions))

-----------------------------------------------------------------------------
(***************************************************************************)
(* Who executes a plan and what becomes of the file: the mkvtoolnix        *)
(* executor (priority 39), the ffmpeg executor (40) and the verifier (50)  *)
(* are offered the PlanCreated event in this order and the first that      *)
(* claims it executes it.                                                  *)
(*                                                                         *)
(* Each executor turns the actions into the arguments of a tool.  What the *)
(* tools make of their arguments is external: ffmpeg numbers the streams   *)
(* of `-c:a:N` among the audio streams of its output, the last matching    *)
(* option of a stream counts; mkvmerge's `--audio-tracks !N` drops track N *)
(* if it is an audio track; mkvpropedit's `track:N` counts from one.       *)
(***************************************************************************)

CONSTANTS
    ProbedEncoders,   \* what the probed ffmpeg can encode
    ProbedFormats     \* the containers it can write

\* is_segment_info_property: what mkvpropedit edits as segment information.
SegmentInfo == {"title"}

MergeOps == {"remove_track", "reorder_tracks", "convert_container"}

mkvtoolnix_can_handle(plan, file) ==
    /\ \/ file.container = "mkv"
       \/ \E a \in Actions(plan) : a.op = "convert_container" /\ a.arg = "mkv"
    /\ \A a \in Actions(plan) : is_metadata_op(a.op) \/ a.op \in MergeOps

can_handle_probed(plan) ==
    \A a \in Actions(plan) :
        /\ a.op \in Transcodes \cup {"synthesize_audio"} => a.arg \in ProbedEncoders
        /\ a.op = "convert_container" => a.arg \in ProbedFormats

ffmpeg_can_handle(plan, file) ==
    IF \E a \in Actions(plan) : a.op \in Transcodes \cup {"synthesize_audio", "convert_container"}
    THEN can_handle_probed(plan)
    ELSE file.container # "mkv" /\ \A a \in Actions(plan) : is_metadata_op(a.op)

\* The verifier looks at the first action of a plan only.
verifier_claims(plan) == Head(plan.actions).op = "verify_media"

Claimant(plan, file) ==
    IF mkvtoolnix_can_handle(plan, file) THEN "mkvtoolnix"
    ELSE IF ffmpeg_can_handle(plan, file) THEN "ffmpeg"
    ELSE IF verifier_claims(plan) THEN "verifier"
    ELSE "none"

(***************************************************************************)
(* ffmpeg                                                                  *)
(***************************************************************************)
ReencodesVideo(actions) == \E a \in Range(actions) : a.op = "transcode_video"

\* Transcoding video maps the tracks that are not attachments, one by one as the
\* plan's description of the file lists them; otherwise every stream is mapped.
MappedTracks(seen, file, actions) ==
    LET others == SelectSeq(Indices(seen), LAMBDA i : At(seen, i).type # "attachment")
    IN  IF ReencodesVideo(actions) /\ others # <<>> THEN others ELSE Indices(file)

\* The number ffmpeg gives output stream n among those of its kind.
StreamNumber(file, mapped, n) ==
    Cardinality({m \in 1..(n - 1) : track_category(At(file, mapped[m]).type) =
                                    track_category(At(file, mapped[n]).type)})

\* The codec options of the command line: [kind, number, codec].
CodecOptions(actions) ==
    LET encodes == SelectSeq(actions, LAMBDA a : a.op \in Transcodes \cup {"synthesize_audio"})
    IN  [n \in 1..Len(encodes) |->
            [kind   |-> IF encodes[n].op = "transcode_video" THEN "video" ELSE "audio",
             number |-> encodes[n].track, codec |-> encodes[n].arg]]

Coded(file, mapped, actions, n) ==
    FoldLeft(LAMBDA t, o : IF /\ o.kind = track_category(t.type)
                              /\ o.number \in {NoTrack, StreamNumber(file, mapped, n)}
                           THEN [t EXCEPT !.codec = o.codec] ELSE t,
             At(file, mapped[n]), CodecOptions(actions))

\* output_track_metadata and apply_track_metadata_actions: what is written on the
\* output streams, in the order of the description.
OutputMetadata(seen, actions) ==
    LET edited == EditedTracks(seen, SelectSeq(actions, LAMBDA a : is_metadata_op(a.op)),
                               LAMBDA a, i : a.track = i)
    IN  SelectSeq(edited, LAMBDA t : ~(ReencodesVideo(actions) /\ t.type = "attachment"))

Described(track, meta, n) ==
    IF n > Len(meta) THEN track
    ELSE [track EXCEPT !.lang = meta[n].lang, !.title = meta[n].title,
                       !.default = meta[n].default, !.forced = meta[n].forced]

build_ffmpeg_command(seen, file, actions) ==
    LET mapped == MappedTracks(seen, file, actions)
        meta   == OutputMetadata(seen, actions)
    IN  MediaFile(ConversionTarget(actions, file.container),
                  [n \in 1..Len(mapped) |-> Described(Coded(file, mapped, actions, n), meta, n)],
                  FoldLeft(EditedTags, file.tags, actions))

(***************************************************************************)
(* mkvtoolnix                                                              *)
(***************************************************************************)
propedit_actions(actions) == SelectSeq(actions, LAMBDA a : is_metadata_op(a.op))

merge_actions(actions) == SelectSeq(actions, LAMBDA a : a.op \in MergeOps)

\* `--tags all:` removes the tags; what is segment information stays.
PropeditTags(tags, a) ==
    CASE a.op = "clear_container_tags" -> tags \cap SegmentInfo
      [] a.arg \in SegmentInfo         -> EditedTags(tags, a)
      [] OTHER                         -> tags

\* `track:{index + 1}` of the file as it is when mkvpropedit runs.
build_propedit_args(file, actions) ==
    MediaFile(file.container,
              EditedTracks(file, actions, LAMBDA a, i : a.track = i),
              FoldLeft(PropeditTags, file.tags, actions))

\* A removal names the track's type and index; no option removes an attachment.
\* Orders are category names, and only numbers become a --track-order.
build_merge_args(file, actions) ==
    LET Hits(a, i) == /\ a.op = "remove_track"
                      /\ a.track = i
                      /\ At(file, i).type # "attachment"
                      /\ track_category(a.arg) \in {track_category(At(file, i).type), "attachment"}
        gone == {i \in Range(Indices(file)) : \E a \in Range(actions) : Hits(a, i)}
    IN  MediaFile(IF \E a \in Range(actions) : a.op = "convert_container"
                  THEN "mkv" ELSE file.container,
                  Without(file.tracks, gone), file.tags)

(***************************************************************************)
(* The ways an execution can end: the file it leaves, the actions reported *)
(* successful, and whether an error is reported for the whole plan.        *)
(***************************************************************************)
Ending(file, reported, error) == [file |-> file, reported |-> reported, error |-> error]

\* On an mkv file the in-place edits come first, otherwise the merge that makes it
\* one.  mkvpropedit fails with an error; mkvmerge fails with a failed action of its
\* own (exit code above one) or with an error (timeout, rename).

mkvtoolnix_execute(file, actions) ==
    LET edits  == propedit_actions(actions)
        merges == merge_actions(actions)
        edited == build_propedit_args(file, edits)
        merged == build_merge_args(file, merges)
        all    == Range(actions)
    IN  IF file.container = "mkv" \/ merges = <<>>
        THEN {Ending(build_merge_args(edited, merges), all, FALSE)} \cup
             (IF edits = <<>> THEN {} ELSE {Ending(file, {}, TRUE)}) \cup
             (IF merges = <<>> THEN {}
              ELSE {Ending(edited, Range(edits), FALSE), Ending(edited, {}, TRUE)})
        ELSE {Ending(build_propedit_args(merged, edits), all, FALSE),
              Ending(file, {}, FALSE), Ending(file, {}, TRUE)} \cup
             (IF edits = <<>> THEN {} ELSE {Ending(merged, {}, TRUE)})

\* A track to map that is no longer there makes ffmpeg fail.
ffmpeg_execute(seen, file, actions) ==
    {Ending(file, {}, FALSE), Ending(file, {}, TRUE)} \cup
    (IF \A i \in Range(MappedTracks(seen, file, actions)) : HasIndex(file, i)
     THEN {Ending(build_ffmpeg_command(seen, file, actions), Range(actions), FALSE)} ELSE {})

\* from_plan_execution: the plan fails on an error or when nothing was applied.
from_plan_execution(ending) ==
    [file |-> ending.file, reported |-> ending.reported,
     ok |-> ~ending.error /\ ending.reported # {}]

\* `file` is the file on disk, `seen` the description the plan carries.  On disk
\* the tools follow the indices of the plan, whatever stands there now.
Endings(plan, seen, file) ==
    LET who == Claimant(plan, seen) IN
    CASE who = "mkvtoolnix" -> {from_plan_execution(e) : e \in mkvtoolnix_execute(file, plan.actions)}
      [] who = "ffmpeg"     -> {from_plan_execution(e) : e \in ffmpeg_execute(seen, file, plan.actions)}
      [] who = "verifier"   -> {[file |-> file, reported |-> Actions(plan), ok |-> TRUE],
                                [file |-> file, reported |-> {}, ok |-> FALSE]}
      [] OTHER              -> {[file |-> file, reported |-> {}, ok |-> FALSE]}
=============================================================================
