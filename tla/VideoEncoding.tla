--------------------------- MODULE VideoEncoding ----------------------------
(* Encoding: quality search, hardware encoders and the ffmpeg job.          *)
EXTENDS FiniteSets, Integers, Sequences, TLC, FiniteSetsExt, SequencesExt

-----------------------------------------------------------------------------
(***************************************************************************)
(* How the ffmpeg executor chooses the quality and the frame of an encode: *)
(* the bisection over CRF values that looks for a VMAF score               *)
(* (vmaf_iterate.rs, vmaf.rs, executor.rs), the samples an extractor cuts  *)
(* from a source (vmaf.rs), and the crop that is safe for every sample     *)
(* (cropdetect.rs).                                                        *)
(*                                                                         *)
(* A VMAF score is what the bisection tells apart: "below" the target,     *)
(* "within" the tolerance of it, or "above".  ffmpeg may answer any of     *)
(* them for any CRF.  Times are whole ticks.                               *)
(***************************************************************************)

CONSTANTS
    VqDurations,   \* lengths of a source, in ticks
    VqCounts,      \* numbers of samples asked for
    VqSpans,       \* lengths of a sample, in ticks
    VqScenes,      \* lists of scene changes ffmpeg reports: <<[time, score], ...>>
    VqFrames,      \* sizes of a video frame: [width, height]
    VqDetected,    \* crops one sample shows: [left, top, right, bottom]
    VqCropConfigs  \* [minimum, preserve, locks]

VARIABLES
    vqPlan,      \* the settings of the transcode action
    vqMachine,   \* what this machine's ffmpeg offers
    vqRun,       \* the search under way
    vqMeasured,  \* the (crf, score) pairs ffmpeg has answered
    vqOutcome,   \* the transcode outcome the executor records
    vqSample,    \* a sample plan: its inputs and its segments
    vqCrop       \* a crop detection: its inputs and its rectangle

searchVars == <<vqPlan, vqMachine, vqRun, vqMeasured, vqOutcome>>
vqVars == <<searchVars, vqSample, vqCrop>>

MIN_CRF == 0
MAX_CRF == 51
DEFAULT_START_CRF == 23

MaxIterations == 5

Scores == {"below", "within", "above"}
NoOutcome == [target |-> 0, achieved |-> "none", crf |-> -1, iterations |-> 0, fallback |-> FALSE]
NoRun == [pc |-> "idle", low |-> MIN_CRF, high |-> MAX_CRF, crf |-> DEFAULT_START_CRF,
          iteration |-> 0, score |-> "none", dir |-> FALSE, error |-> FALSE]

(* settings.crf = -1 and fallback = -1 stand for None; target = 0 for None *)
Plans ==
    [target : {0, 50, 90}, animation : {0, 88}, animated : BOOLEAN,
     crf : {-1, 20}, preset : BOOLEAN, fallback : {-1, 28}]

(* Which libvmaf models this machine has, and the resolution of the source. *)
Machines == [libvmaf : BOOLEAN, models : SUBSET {"V4k", "Phone"}, frame : VqFrames \cup {[width |-> 3840, height |-> 2160]}]

VqInit ==
    /\ vqPlan \in Plans
    /\ vqMachine \in Machines
    /\ vqRun = NoRun /\ vqMeasured = {} /\ vqOutcome = NoOutcome
    /\ vqSample = [pc |-> "idle"] /\ vqCrop = [pc |-> "idle"]

(***************************************************************************)
(* The search                                                              *)
(***************************************************************************)

(* An animated file may have a target of its own. *)
resolve_target_vmaf(plan) ==
    IF plan.animated /\ plan.animation # 0 THEN plan.animation ELSE plan.target

validate_inputs(target) == target \in 60 .. 100 /\ MaxIterations > 0

pick_model_for_resolution(frame) ==
    IF Min({frame.width, frame.height}) >= 2160 \/ Max({frame.width, frame.height}) >= 3840 THEN "V4k"
    ELSE IF frame.width <= 1080 /\ frame.height > frame.width THEN "Phone"
    ELSE "V061"

(* V061 is built into libvmaf; the others are files of the model directory. *)
model_path(machine, model) == model = "V061" \/ model \in machine.models

(* The libvmaf run of ffmpeg, whose log is then parsed: it may always fail. *)
libvmaf_answers == Scores \cup {"failed"}
compute_vmaf(machine) ==
    IF machine.libvmaf /\ model_path(machine, pick_model_for_resolution(machine.frame))
    THEN libvmaf_answers
    ELSE {"failed"}

(* The midpoint of u32 bounds.  Once they have crossed, high - low wraps and  *)
(* the midpoint is a number beyond the range of every encoder.               *)
OutOfRange == 2147483647
Midpoint(low, high) == IF low <= high THEN low + (high - low) \div 2 ELSE OutOfRange

update_bounds(run, score) ==
    IF score = "below"
    THEN [run EXCEPT !.high = IF run.crf = 0 THEN 0 ELSE run.crf - 1]
    ELSE [run EXCEPT !.low = Min({run.crf + 1, MAX_CRF})]

(* prepare_vmaf_action: an action without a target is encoded as it stands. *)
Prepare ==
    /\ vqRun.pc = "idle"
    /\ LET target == resolve_target_vmaf(vqPlan) IN
       /\ vqPlan' = [vqPlan EXCEPT !.target = target]
       /\ vqRun' = IF target = 0 THEN [vqRun EXCEPT !.pc = "record"]
                   ELSE IF ~validate_inputs(target) THEN [vqRun EXCEPT !.pc = "decide", !.error = TRUE]
                   ELSE [vqRun EXCEPT !.pc = "extract"]
    /\ UNCHANGED <<vqMachine, vqMeasured, vqOutcome>>

(* The work directory is made, and the source copied into it; either fails. *)
Extract ==
    /\ vqRun.pc = "extract"
    /\ vqRun' \in {[vqRun EXCEPT !.pc = "encode", !.dir = TRUE, !.iteration = 1],
                   [vqRun EXCEPT !.pc = "cleanup", !.dir = TRUE, !.error = TRUE],
                   [vqRun EXCEPT !.pc = "decide", !.error = TRUE]}
    /\ UNCHANGED <<vqPlan, vqMachine, vqMeasured, vqOutcome>>

encode_sample ==
    /\ vqRun.pc = "encode"
    /\ vqRun' \in {[vqRun EXCEPT !.pc = "measure"], [vqRun EXCEPT !.pc = "cleanup", !.error = TRUE]}
    /\ UNCHANGED <<vqPlan, vqMachine, vqMeasured, vqOutcome>>

(* One round of run_bisection: the score decides whether the search is done, *)
(* else it moves a bound and the next CRF, and stops after the last round.   *)
Measure ==
    /\ vqRun.pc = "measure"
    /\ \/ /\ "failed" \in compute_vmaf(vqMachine)
          /\ vqRun' = [vqRun EXCEPT !.pc = "cleanup", !.error = TRUE]
          /\ UNCHANGED vqMeasured
       \/ /\ \E score \in compute_vmaf(vqMachine) \cap Scores :
               /\ vqMeasured' = vqMeasured \cup {<<vqRun.crf, score>>}
               /\ IF score = "within"
                  THEN vqRun' = [vqRun EXCEPT !.pc = "cleanup", !.score = score]
                  ELSE LET moved == update_bounds(vqRun, score)
                           next == [moved EXCEPT !.score = score, !.crf = Midpoint(moved.low, moved.high)]
                       IN  vqRun' = IF vqRun.iteration = MaxIterations
                                    THEN [next EXCEPT !.pc = "cleanup", !.error = TRUE]
                                    ELSE [next EXCEPT !.pc = "encode", !.iteration = @ + 1]
    /\ UNCHANGED <<vqPlan, vqMachine, vqOutcome>>

(* cleanup_work_dir: a directory that cannot be removed fails a search that  *)
(* succeeded.                                                                *)
cleanup_work_dir ==
    /\ vqRun.pc = "cleanup"
    /\ vqRun' \in {[vqRun EXCEPT !.pc = "decide", !.dir = FALSE],
                   [vqRun EXCEPT !.pc = "decide", !.error = TRUE]}
    /\ UNCHANGED <<vqPlan, vqMachine, vqMeasured, vqOutcome>>

Decide ==
    /\ vqRun.pc = "decide"
    /\ vqPlan' = IF ~vqRun.error THEN [vqPlan EXCEPT !.crf = vqRun.crf, !.preset = FALSE]
                 ELSE IF vqPlan.fallback # -1 THEN [vqPlan EXCEPT !.crf = vqPlan.fallback, !.preset = TRUE]
                 ELSE vqPlan
    /\ vqRun' = [vqRun EXCEPT !.pc = "record"]
    /\ UNCHANGED <<vqMachine, vqMeasured, vqOutcome>>

(* transcode_outcome: one round is reported for a search that failed. *)
RecordOutcome ==
    /\ vqRun.pc = "record"
    /\ LET searched == vqPlan.target # 0
           found == searched /\ ~vqRun.error
       IN  vqOutcome' = [target |-> vqPlan.target, crf |-> vqPlan.crf,
                         achieved |-> IF found THEN vqRun.score ELSE "none",
                         iterations |-> IF found THEN vqRun.iteration ELSE 1,
                         fallback |-> searched /\ vqRun.error]
    /\ vqRun' = [vqRun EXCEPT !.pc = "done"]
    /\ UNCHANGED <<vqPlan, vqMachine, vqMeasured>>

SearchNext ==
    /\ Prepare \/ Extract \/ encode_sample \/ Measure \/ cleanup_work_dir \/ Decide \/ RecordOutcome
    /\ UNCHANGED <<vqSample, vqCrop>>

(***************************************************************************)
(* Samples of a source                                                     *)
(***************************************************************************)

validate_sample_request(count, span) == count > 0 /\ span > 0

(* The middle of each of count equal parts of the source. *)
uniform_sample_timestamps(duration, count) ==
    [i \in 1 .. count |-> (duration * (2 * i - 1)) \div (2 * count)]

(* The scene changes, the most marked first. *)
parse_scene_metadata(scenes) ==
    LET ranked == SortSeq(scenes, LAMBDA a, b : a.score > b.score)
    IN  [i \in DOMAIN ranked |-> ranked[i].time]

timestamp_sample_plan(duration, count, span, times) ==
    IF duration <= count * span THEN <<[start |-> 0, length |-> duration]>>
    ELSE LET taken == SelectSeq(SubSeq(times, 1, Min({count, Len(times)})), LAMBDA t : t < duration)
         IN  [i \in DOMAIN taken |->
                [start |-> taken[i], length |-> Min({span, duration - taken[i]})]]

(* UniformSample and SceneSample; without scene changes the latter takes     *)
(* uniform samples.  No usable time is an error.                             *)
ExtractSamples ==
    /\ vqSample.pc = "idle"
    /\ \E duration \in VqDurations, count \in VqCounts, span \in VqSpans,
          scenes \in VqScenes, uniform \in BOOLEAN :
         /\ validate_sample_request(count, span)
         /\ LET times == IF uniform \/ scenes = <<>>
                         THEN uniform_sample_timestamps(duration, count)
                         ELSE parse_scene_metadata(scenes)
                plan == timestamp_sample_plan(duration, count, span, times)
            IN  vqSample' = [pc |-> IF plan = <<>> THEN "failed" ELSE "planned", duration |-> duration,
                             count |-> count, span |-> span,
                             spread |-> uniform \/ scenes = <<>>, plan |-> plan]
    /\ UNCHANGED <<searchVars, vqCrop>>

(* ffprobe could not tell the length of the source. *)
ffprobe_duration_fails ==
    /\ vqSample.pc = "idle"
    /\ vqSample' = [pc |-> "failed"]
    /\ UNCHANGED <<searchVars, vqCrop>>

(* Every segment is cut, then they are joined; the first failure of ffmpeg   *)
(* ends it.                                                                  *)
extract_sample_segments ==
    /\ vqSample.pc = "planned"
    /\ vqSample' \in {[vqSample EXCEPT !.pc = "cut"], [vqSample EXCEPT !.pc = "failed"]}
    /\ UNCHANGED <<searchVars, vqCrop>>

(***************************************************************************)
(* The crop                                                                *)
(***************************************************************************)

NoPicture == [width |-> 0, height |-> 0]

(* What is left of the frame; NoPicture when the crop leaves nothing. *)
output_dimensions(rect, frame) ==
    LET width == frame.width - rect.left - rect.right
        height == frame.height - rect.top - rect.bottom
    IN  IF width > 0 /\ height > 0 THEN [width |-> width, height |-> height] ELSE NoPicture

Area(dims) == dims.width * dims.height
UpToEven(n) == n + (n % 2)
DivCeil(a, b) == (a + b - 1) \div b

(* Give back expand_by pixels of the two crops of an axis, half of them at   *)
(* the start where that has as many; <<>> when the crops are too small.      *)
expand_axis(start, end, by) ==
    IF by > start + end THEN <<>>
    ELSE LET fromStart == Min({by \div 2, start})
             fromEnd == Min({by - fromStart, end})
         IN  <<start - fromStart - (by - fromStart - fromEnd), end - fromEnd>>

(* The rectangle grown to one aspect ratio, as a set with at most one member. *)
snap_to_aspect(rect, frame, dims, ratio) ==
    LET current == dims.width * ratio.height
        target == dims.height * ratio.width
        height == UpToEven(DivCeil(current, ratio.width))
        width == UpToEven(DivCeil(target, ratio.height))
    IN  IF current = target THEN {rect}
        ELSE IF current > target
        THEN LET axis == expand_axis(rect.top, rect.bottom, height - dims.height)
             IN  IF height > frame.height \/ axis = <<>> THEN {}
                 ELSE {[rect EXCEPT !.top = axis[1], !.bottom = axis[2]]}
        ELSE LET axis == expand_axis(rect.left, rect.right, width - dims.width)
             IN  IF width > frame.width \/ axis = <<>> THEN {}
                 ELSE {[rect EXCEPT !.left = axis[1], !.right = axis[2]]}

(* The crops the locks allow, each with the pixels it gives back. *)
LockCandidates(rect, frame, dims, locks) ==
    UNION {{[at |-> i, rect |-> r, cost |-> Area(output_dimensions(r, frame)) - Area(dims)] :
              r \in snap_to_aspect(rect, frame, dims, locks[i])} : i \in DOMAIN locks}

FirstCheapest(candidates) ==
    CHOOSE c \in candidates : \A d \in candidates :
        c.cost < d.cost \/ (c.cost = d.cost /\ c.at <= d.at)

ChosenCrop(rect, candidates) ==
    IF candidates = {} THEN rect ELSE FirstCheapest(candidates).rect

(* The first lock that grows the picture least; the rectangle as it is when  *)
(* no lock fits.                                                             *)
snap_to_aspect_lock(rect, frame, locks) ==
    ChosenCrop(rect, LockCandidates(rect, frame, output_dimensions(rect, frame), locks))

Sides == {"left", "top", "right", "bottom"}

LeastCrop(rects) == [side \in Sides |-> Min({rects[i][side] : i \in DOMAIN rects})]

apply_minimum_crop(rect, minimum) ==
    [side \in Sides |-> IF rect[side] < minimum THEN 0 ELSE rect[side]]

(* Encoders need even sizes: an odd one loses a pixel more. *)
snap_output_to_even(rect, dims) ==
    [rect EXCEPT !.right = @ + (dims.width % 2), !.bottom = @ + (dims.height % 2)]

PreserveBottom(rect, pixels) == [rect EXCEPT !.bottom = Max({0, @ - pixels})]

(* The crop an error of a later step leaves nothing of is the empty set. *)
EvenCrop(rect, dims) == IF dims = NoPicture THEN {} ELSE {snap_output_to_even(rect, dims)}
InFrame(rect, frame) == EvenCrop(rect, output_dimensions(rect, frame))

LockedCrop(rect, frame, locks) ==
    IF locks = <<>> THEN InFrame(rect, frame)
    ELSE IF output_dimensions(rect, frame) = NoPicture THEN {}
    ELSE InFrame(snap_to_aspect_lock(rect, frame, locks), frame)

(* conservative_crop as a set: empty when the crop would leave no picture. *)
conservative_crop(rects, frame, config) ==
    LockedCrop(PreserveBottom(apply_minimum_crop(LeastCrop(rects), config.minimum), config.preserve),
               frame, config.locks)

(* detect_crop over what the samples show: a crop larger than the frame is   *)
(* refused, and an empty one is no crop.                                     *)
detect_crop ==
    /\ vqCrop.pc = "idle"
    /\ \E frame \in VqFrames, first \in VqDetected, second \in VqDetected, config \in VqCropConfigs :
         \E rects \in {<<first, second>>} :
         \E found \in {IF \E i \in DOMAIN rects : output_dimensions(rects[i], frame) = NoPicture THEN {}
                       ELSE conservative_crop(rects, frame, config)} :
           \/ found = {} /\ vqCrop' = [pc |-> "failed"]
           \/ \E rect \in found :
                vqCrop' = [pc |-> IF \A side \in Sides : rect[side] = 0 THEN "none" ELSE "crop",
                           frame |-> frame, rects |-> rects, config |-> config, rect |-> rect]
    /\ UNCHANGED <<searchVars, vqSample>>

(* The crop filter of the encode: the frame less the crop, in even sizes. *)
crop_filter(rect, frame) ==
    [width |-> LET w == frame.width - rect.left - rect.right IN w - (w % 2),
     height |-> LET h == frame.height - rect.top - rect.bottom IN h - (h % 2)]

SampleNext == ExtractSamples \/ ffprobe_duration_fails \/ extract_sample_segments
CropNext == detect_crop
VqNext == SearchNext \/ SampleNext \/ CropNext

VqSpec == VqInit /\ [][VqNext]_vqVars

(***************************************************************************)
(* Properties                                                              *)
(***************************************************************************)

(* Every CRF an encode is started with is one the encoder knows: the bounds  *)
(* of run_bisection may cross, and their u32 difference wrap, only after the *)
(* last of the encodes the executor allows.                                  *)
EncodesInRange == vqRun.pc \in {"encode", "measure"} => vqRun.crf \in MIN_CRF .. MAX_CRF

(* A recorded outcome that claims a score names the CRF that ffmpeg measured *)
(* within the tolerance of the target, after as many encodes as it says; one *)
(* whose search failed ran with the fallback of the policy where there is    *)
(* one, never with a CRF the search had tried and rejected.                  *)
OutcomeIsMeasured ==
    vqRun.pc = "done" =>
        /\ vqOutcome.achieved # "none" =>
              /\ <<vqOutcome.crf, "within">> \in vqMeasured
              /\ vqOutcome.iterations = Cardinality(vqMeasured)
        /\ vqOutcome.fallback /\ vqPlan.fallback # -1 => vqOutcome.crf = vqPlan.fallback

(* Samples lie inside the source and are not empty, and uniform samples do   *)
(* not overlap, so that no part of a source counts twice.                    *)
SamplesWithinSource ==
    vqSample.pc = "cut" =>
        LET plan == vqSample.plan
            End(i) == plan[i].start + plan[i].length
        IN  /\ \A i \in DOMAIN plan :
                 plan[i].start >= 0 /\ plan[i].length > 0 /\ End(i) <= vqSample.duration
            /\ vqSample.spread => \A i \in 1 .. Len(plan) - 1 : End(i) <= plan[i + 1].start

(* A crop never cuts into what some sample showed as picture, but for the one *)
(* pixel that makes a size even; it leaves a picture, and the filter of the   *)
(* encode asks for exactly that picture.                                      *)
CropKeepsPicture ==
    vqCrop.pc \in {"crop", "none"} =>
        LET rect == vqCrop.rect
            Slack(side) == IF side \in {"right", "bottom"} THEN 1 ELSE 0
            filter == crop_filter(rect, vqCrop.frame)
        IN  /\ \A i \in DOMAIN vqCrop.rects, side \in Sides :
                 rect[side] <= vqCrop.rects[i][side] + Slack(side)
            /\ filter = [width |-> vqCrop.frame.width - rect.left - rect.right,
                         height |-> vqCrop.frame.height - rect.top - rect.bottom]
            /\ filter.width > 0 /\ filter.height > 0

-----------------------------------------------------------------------------
(***************************************************************************)
(* Hardware encoding in the ffmpeg executor: what it probes when it starts *)
(* (probe.rs, lib.rs init), the backend and device it settles on           *)
(* (hwaccel.rs), and the encoder, the decoder and the filters it then asks *)
(* ffmpeg for when it transcodes a video track (command.rs).               *)
(*                                                                         *)
(* A hardware encoder is a pair of a codec and a backend; the software     *)
(* encoder of a codec has the backend "software".                          *)
(***************************************************************************)

CONSTANTS
    HwCodecs,      \* codecs a policy transcodes to
    HwBackends,    \* backends of this machine's world, in the order of preference
    HwDevices,     \* ids of GPU devices
    HwListed       \* what "ffmpeg -encoders" lists: sets of <<codec, backend>>

VARIABLES
    hwWorld,   \* the machine: ffmpeg's answers and the hardware that is really there
    hwPlugin,  \* the executor after init: [ready, backend, device, validated, decode, limits]
    hwAsked,   \* the transcode action being built
    hwCommand  \* the command built for it

hwVars == <<hwWorld, hwPlugin, hwAsked, hwCommand>>

NoBackend == "none"
Software == "software"
BackendSet == {HwBackends[i] : i \in DOMAIN HwBackends}

Worlds ==
    [ffmpeg : BOOLEAN,                             \* the codec probe answers
     accels : SUBSET BackendSet,                   \* methods "ffmpeg -hwaccels" names
     listed : HwListed,                            \* encoders it lists
     decoders : {{}, BackendSet},                  \* backends it lists decoders for
     hardware : [BackendSet -> SUBSET HwDevices],  \* the devices that work
     named : {"", "none", "bogus"} \cup BackendSet,\* hw_accel in the configuration
     device : {""} \cup HwDevices]                 \* gpu_device in the configuration

NotReady == [ready |-> FALSE, backend |-> NoBackend, device |-> "", validated |-> {}, decoders |-> {}, limit |-> FALSE]
NoCommand == [pc |-> "none", encoder |-> <<>>, surfaces |-> NoBackend, colour |-> "source", job |-> "none"]
NoAction == [codec |-> "", hw |-> "", strict |-> FALSE, filtered |-> FALSE,
             alpha |-> FALSE, hdr |-> "sdr", preserve |-> "unset", tonemap |-> FALSE, ext |-> "mkv"]

HwInit ==
    /\ hwWorld \in Worlds
    /\ hwPlugin = NotReady /\ hwAsked = NoAction /\ hwCommand = NoCommand

(***************************************************************************)
(* Probing                                                                 *)
(***************************************************************************)

(* Codecs each backend has an encoder for. *)
hw_encoder_for_backend(backend, codec) ==
    CASE backend = "nvenc" -> codec \in {"hevc", "h264", "av1"}
      [] backend \in {"qsv", "vaapi"} -> codec \in {"hevc", "h264", "av1", "vp9"}
      [] backend = "videotoolbox" -> codec \in {"hevc", "h264"}
      [] OTHER -> FALSE

(* Whether hardware of a backend answers: nvidia-smi, vainfo, an Intel card; *)
(* videotoolbox is taken to be there.                                        *)
verify_backend(backend) == backend = "videotoolbox" \/ hwWorld.hardware[backend] # {}

(* The first backend ffmpeg names whose hardware answers. *)
detect_backend_from_text(accels) ==
    LET candidates == SelectSeq(HwBackends, LAMBDA b : b \in accels /\ verify_backend(b))
    IN  IF candidates = <<>> THEN NoBackend ELSE Head(candidates)

(* The configured backend is taken even when its hardware does not answer;   *)
(* a name nobody knows means detection.                                      *)
resolve_hw_config(named, accels) ==
    CASE named = "none" -> NoBackend
      [] named \in BackendSet -> named
      [] OTHER -> detect_backend_from_text(accels)

(* The devices of a backend; vaapi and qsv share the render nodes, and the   *)
(* device of videotoolbox is only a name.                                    *)
enumerate_gpus(backend) ==
    CASE backend = "nvenc" -> hwWorld.hardware["nvenc"]
      [] backend \in {"vaapi", "qsv"} -> HwDevices
      [] OTHER -> {}

validate_hw_encoder(encoder, backend, device) ==
    \/ encoder[2] = "videotoolbox"
    \/ IF encoder[2] = backend /\ device # "" THEN device \in hwWorld.hardware[encoder[2]]
       ELSE hwWorld.hardware[encoder[2]] # {}

(* One limit, for nvenc, once one of its encoders is validated. *)
nvenc_parallel_limits(backend, validated) ==
    backend = "nvenc" /\ \E e \in validated : e[2] = "nvenc"

(* Plugin::init. *)
init_executor ==
    /\ ~hwPlugin.ready /\ hwWorld.ffmpeg
    /\ LET backend == resolve_hw_config(hwWorld.named, hwWorld.accels)
           device == IF backend # NoBackend /\ hwWorld.device \in enumerate_gpus(backend)
                     THEN hwWorld.device ELSE ""
           validated == {e \in hwWorld.listed : validate_hw_encoder(e, backend, device)}
       IN  hwPlugin' = [ready |-> TRUE, backend |-> backend, device |-> device, validated |-> validated,
                        decoders |-> hwWorld.decoders, limit |-> nvenc_parallel_limits(backend, validated)]
    /\ UNCHANGED <<hwWorld, hwAsked, hwCommand>>

(***************************************************************************)
(* The command of one video transcode                                      *)
(***************************************************************************)

(* A hardware configuration: what is known of its encoders only when it is   *)
(* the one init validated.                                                   *)
NoConfig == [backend |-> NoBackend, checked |-> FALSE, validated |-> {}, decoders |-> {}]
SystemConfig ==
    IF hwPlugin.backend = NoBackend THEN NoConfig
    ELSE [backend |-> hwPlugin.backend, checked |-> TRUE, validated |-> hwPlugin.validated,
          decoders |-> hwPlugin.decoders]

config_from_backend_with_system(name) ==
    IF SystemConfig.backend = name THEN SystemConfig ELSE [NoConfig EXCEPT !.backend = name]

(* "none" turns hardware off, a backend's name chooses it, any other name    *)
(* means what the system has.                                                *)
resolve_effective_hw(hw) ==
    IF hw = "none" THEN NoConfig
    ELSE IF hw \in BackendSet THEN config_from_backend_with_system(hw)
    ELSE SystemConfig

has_hw_encoder(config, codec) ==
    /\ hw_encoder_for_backend(config.backend, codec)
    /\ config.checked => <<codec, config.backend>> \in config.validated

encoder_name(config, codec) ==
    IF has_hw_encoder(config, codec) THEN <<codec, config.backend>> ELSE <<codec, Software>>

RefusesFallback(action) ==
    /\ action.hw \notin {"", "none"} /\ action.strict
    /\ ~has_hw_encoder(resolve_effective_hw(action.hw), action.codec)

action_allows_direct_hw_decode(action, config) ==
    /\ has_hw_encoder(config, action.codec)
    /\ ~action.filtered /\ ~action.tonemap /\ action.preserve # "false"
    /\ ~action.alpha

decoder_input_args(config) ==
    IF config.backend \in config.decoders \ {"videotoolbox"} THEN config.backend ELSE NoBackend

should_tonemap(action) == action.tonemap \/ action.preserve = "false"
IsHdr(action) == action.hdr # "sdr"
should_preserve_hdr(action) == IsHdr(action) /\ ~should_tonemap(action)
encoder_supports_hdr(codec) == codec \in {"hevc", "av1", "h264"}

(* What re-injecting dynamic metadata takes: its kind, a tool for it, hevc   *)
(* and a container that holds it.                                            *)
dynamic_hdr_kind(hdr) ==
    CASE hdr = "hdr10+" -> "hdr10plus_tool"
      [] hdr \in {"dv5", "dv7", "dv8"} -> "dovi_tool"
      [] hdr \in {"dv", "dv4"} -> "error"
      [] OTHER -> "none"
dynamic_hdr_job(action) ==
    IF ~should_preserve_hdr(action) \/ dynamic_hdr_kind(action.hdr) = "none" THEN "none"
    ELSE IF action.codec # "hevc" \/ action.ext \notin {"mkv", "mp4"} THEN "error"
    ELSE dynamic_hdr_kind(action.hdr)

(* apply_transcode_video and build_ffmpeg_command for one video track, then  *)
(* the check for dynamic HDR: every refusal comes before ffmpeg is run.      *)
build_ffmpeg_video(action) ==
    /\ hwPlugin.ready /\ hwCommand.pc = "none"
    /\ hwAsked' = action
    /\ LET config == resolve_effective_hw(action.hw)
           failed == \/ RefusesFallback(action)
                     \/ should_preserve_hdr(action) /\ ~encoder_supports_hdr(action.codec)
                     \/ dynamic_hdr_job(action) = "error"
       IN  hwCommand' =
             IF failed THEN [NoCommand EXCEPT !.pc = "refused"]
             ELSE [pc |-> "built", encoder |-> encoder_name(config, action.codec),
                   surfaces |-> IF action_allows_direct_hw_decode(action, config)
                                THEN decoder_input_args(config) ELSE NoBackend,
                   colour |-> IF should_preserve_hdr(action) THEN "hdr"
                              ELSE IF should_tonemap(action) /\ (IsHdr(action) \/ action.tonemap) THEN "tonemapped"
                              ELSE "source",
                   job |-> dynamic_hdr_job(action)]
    /\ UNCHANGED <<hwWorld, hwPlugin>>

(* The actions looked at: how the encoder is asked for, or how HDR is kept. *)
HwActions ==
    {[NoAction EXCEPT !.codec = c, !.hw = h, !.strict = t, !.filtered = f, !.alpha = a] :
        c \in HwCodecs, h \in {"", "none", "auto"} \cup BackendSet, t \in BOOLEAN, f \in BOOLEAN, a \in BOOLEAN}
HdrActions ==
    {[NoAction EXCEPT !.codec = c, !.hdr = h, !.preserve = p, !.tonemap = t, !.ext = e] :
        c \in HwCodecs, h \in {"sdr", "hdr10", "hdr10+", "dv", "dv4", "dv5", "dv8"},
        p \in {"unset", "true", "false"}, t \in BOOLEAN, e \in {"mkv", "mp4", "avi"}}

HwEncodeNext == init_executor \/ \E action \in HwActions : build_ffmpeg_video(action)
HdrNext == init_executor \/ \E action \in HdrActions : build_ffmpeg_video(action)
HwNext == HwEncodeNext \/ HdrNext
HwSpec == HwInit /\ [][HwNext]_hwVars

(***************************************************************************)
(* Properties                                                              *)
(***************************************************************************)

(* An encoder that init found wanting on the device in use is never asked    *)
(* for: a hardware encoder of the system's own backend works on the device   *)
(* ffmpeg will be told to use.  Only a backend that a policy names against   *)
(* the system's is taken on faith.                                           *)
ValidatedEncodersOnly ==
    hwCommand.pc = "built" /\ hwCommand.encoder[2] \notin {Software, "videotoolbox"} =>
        \/ hwCommand.encoder[2] # hwPlugin.backend
        \/ IF hwPlugin.device = "" THEN hwWorld.hardware[hwPlugin.backend] # {}
           ELSE hwPlugin.device \in hwWorld.hardware[hwPlugin.backend]

(* A policy that asks for hardware with hw_fallback: false never gets a      *)
(* software encode.                                                          *)
NoSilentFallback ==
    hwCommand.pc = "built" /\ hwAsked.strict /\ hwAsked.hw \notin {"", "none"}
        => hwCommand.encoder[2] # Software

(* Frames decoded into the memory of a GPU go to an encoder of that GPU, and *)
(* no CPU filter is asked to touch them.                                     *)
SurfacesStayOnDevice ==
    hwCommand.pc = "built" /\ hwCommand.surfaces # NoBackend =>
        /\ hwCommand.encoder[2] = hwCommand.surfaces
        /\ ~hwAsked.filtered /\ hwCommand.colour # "tonemapped" /\ ~hwAsked.alpha

(* High dynamic range is never lost by accident: an encode of an HDR track   *)
(* that the policy did not ask to tone-map carries its colour description,   *)
(* and its dynamic metadata where it has some.                               *)
HdrNeverLost ==
    hwCommand.pc = "built" /\ IsHdr(hwAsked) =>
        \/ hwCommand.colour = "tonemapped" /\ should_tonemap(hwAsked)
        \/ /\ hwCommand.colour = "hdr"
           /\ hwAsked.hdr # "hdr10" => hwCommand.job # "none"

-----------------------------------------------------------------------------
(***************************************************************************)
(* One plan carried out by the ffmpeg executor (executor.rs, lib.rs        *)
(* execute_plan): loudness is measured and the plan's actions adjusted,    *)
(* ffmpeg writes a temporary output, dynamic HDR metadata is put back into *)
(* it, the output takes the place of the file, and what was learnt is      *)
(* stored.  Every tool run, file operation and database write may fail.    *)
(*                                                                         *)
(* The content of a file is what the properties tell apart: the original,  *)
(* a half-written file, or an encode with the facts true of it.            *)
(***************************************************************************)

VARIABLES
    fjPlan,   \* [convert, audio, video]: what the plan asks
    fjStep,   \* where the executor is
    fjFiles,  \* [source, target, output, work, remuxed]: contents on disk
    fjPrep,   \* [actions, updates, outcomes]: the prepared plan
    fjTold,   \* paths announced to the scan session before they are written
    fjRows,   \* what the store learnt: [outcomes, loudness]
    fjResult  \* how execute_plan came back

fjVars == <<fjPlan, fjStep, fjFiles, fjPrep, fjTold, fjRows, fjResult>>

Gone == [kind |-> "absent"]
Original == [kind |-> "original"]
Partial == [kind |-> "partial"]
Encoded(loud, hdr) == [kind |-> "encoded", loud |-> loud, hdr |-> hdr]

(* "only": an action that exists to normalise the track; "with": a transcode *)
(* that also normalises; "known": one that carries its measurement already.  *)
FjPlans ==
    [convert : BOOLEAN, audio : {"none", "only", "with", "known"},
     video : {"none", "plain", "hdr"}, vmaf : BOOLEAN]

FjInit ==
    /\ fjPlan \in {p \in FjPlans : (p.audio # "none" \/ p.video # "none" \/ p.convert) /\ (p.vmaf => p.video # "none")}
    /\ fjStep = "start"
    /\ fjFiles = [source |-> Original, target |-> Gone, output |-> Gone, remuxed |-> Gone, work |-> FALSE]
    /\ fjPrep = [loud |-> "none", actions |-> 0, updates |-> FALSE, outcomes |-> 0]
    /\ fjTold = {}
    /\ fjRows = [outcomes |-> 0, loudness |-> FALSE]
    /\ fjResult = "running"

FjGoto(step) == fjStep' = step /\ UNCHANGED fjResult
FjEnds(result) == fjStep' = "done" /\ fjResult' = result
Keep(what) == [fjFiles EXCEPT !.output = what]
WantsHdr == fjPlan.video = "hdr"

(***************************************************************************)
(* Preparation                                                             *)
(***************************************************************************)

(* A missing file is refused before anything is measured. *)
FileMissing ==
    /\ fjStep = "start"
    /\ FjEnds("error")
    /\ UNCHANGED <<fjPlan, fjFiles, fjPrep, fjTold, fjRows>>

(* The actions a plan of this kind has. *)
ActionCount == (IF fjPlan.audio = "none" THEN 0 ELSE 1) + (IF fjPlan.video = "none" THEN 0 ELSE 1)
                 + (IF fjPlan.convert THEN 1 ELSE 0)

(* A track within the target loses its action when normalising was all the   *)
(* action did, and its loudness setting otherwise; any other is normalised   *)
(* with the measurement, and the target recorded as its level.  An action    *)
(* that brings its measurement is left alone.                                *)
prepare_loudness_actions(within) ==
    CASE fjPlan.audio \in {"only", "with"} /\ within ->
            [loud |-> "none", actions |-> ActionCount - (IF fjPlan.audio = "only" THEN 1 ELSE 0), updates |-> FALSE]
      [] fjPlan.audio \in {"only", "with"} /\ ~within ->
            [loud |-> "normalise", actions |-> ActionCount, updates |-> TRUE]
      [] fjPlan.audio = "known" -> [loud |-> "normalise", actions |-> ActionCount, updates |-> FALSE]
      [] OTHER -> [loud |-> "none", actions |-> ActionCount, updates |-> FALSE]

(* The VMAF search leaves one outcome per searched action. *)
PrepareActions ==
    /\ fjStep = "start"
    /\ \E within \in BOOLEAN :
          LET p == prepare_loudness_actions(within)
          IN  fjPrep' = [loud |-> p.loud, actions |-> p.actions, updates |-> p.updates,
                         outcomes |-> IF fjPlan.vmaf THEN 1 ELSE 0]
    /\ FjGoto("ready")
    /\ UNCHANGED <<fjPlan, fjFiles, fjTold, fjRows>>

(* The measuring run fails, or prints no figures that can be read. *)
measure_loudness_fails ==
    /\ fjStep = "start" /\ fjPlan.audio \in {"only", "with"}
    /\ FjEnds("error")
    /\ UNCHANGED <<fjPlan, fjFiles, fjPrep, fjTold, fjRows>>

(* The tool that puts HDR metadata back is asked for before ffmpeg runs. *)
ensure_tool_available ==
    /\ fjStep = "ready"
    /\ \/ FjGoto("encode")
       \/ WantsHdr /\ FjEnds("error")
    /\ UNCHANGED <<fjPlan, fjFiles, fjPrep, fjTold, fjRows>>

(***************************************************************************)
(* The encode                                                              *)
(***************************************************************************)

(* The temporary output grows from the moment ffmpeg runs. *)
StartFfmpeg ==
    /\ fjStep = "encode"
    /\ fjFiles' = Keep(Partial)
    /\ FjGoto("encoding")
    /\ UNCHANGED <<fjPlan, fjPrep, fjTold, fjRows>>

RunFfmpeg ==
    /\ fjStep = "encoding"
    /\ fjFiles' = Keep(Encoded(fjPrep.loud = "normalise", FALSE))
    /\ FjGoto(IF WantsHdr THEN "inject" ELSE "rename")
    /\ UNCHANGED <<fjPlan, fjPrep, fjTold, fjRows>>

(* A run that exits with an error leaves part of the output, which is        *)
(* removed; the outcomes of the search stay, the loudness updates do not.    *)
(* The failure is attributed to the plan's first action: when the only       *)
(* action was dropped there is none, and the call panics.                    *)
FfmpegFails ==
    /\ fjStep = "encoding"
    /\ fjFiles' = Keep(Gone)
    /\ IF fjPrep.actions = 0 THEN FjEnds("panic") ELSE FjGoto("store failure")
    /\ fjPrep' = [fjPrep EXCEPT !.updates = FALSE]
    /\ UNCHANGED <<fjPlan, fjTold, fjRows>>

(* ffmpeg does not start, or runs out of time. *)
FfmpegLost ==
    /\ fjStep = "encoding"
    /\ fjFiles' = Keep(Gone)
    /\ FjEnds("error")
    /\ UNCHANGED <<fjPlan, fjPrep, fjTold, fjRows>>

(***************************************************************************)
(* Dynamic HDR                                                             *)
(***************************************************************************)

(* The work directory, and the five tool runs that end in a remuxed output.  *)
(* Any of them failing removes the directory and the output.                 *)
InjectFails ==
    /\ fjStep = "inject"
    /\ fjFiles' = [fjFiles EXCEPT !.output = Gone, !.work = FALSE]
    /\ FjEnds("error")
    /\ UNCHANGED <<fjPlan, fjPrep, fjTold, fjRows>>

apply_dynamic_hdr_reinjection ==
    /\ fjStep = "inject"
    /\ fjFiles' = [fjFiles EXCEPT !.work = TRUE, !.remuxed = Encoded(fjFiles.output.loud, TRUE)]
    /\ FjGoto("replace")
    /\ UNCHANGED <<fjPlan, fjPrep, fjTold, fjRows>>

(* The write is announced, the output removed and the remuxed file, which    *)
(* lies in the system's temporary directory, moved to its place; then the    *)
(* work directory goes.                                                      *)
replace_output ==
    /\ fjStep = "replace"
    /\ fjTold' = fjTold \cup {"output"}
    /\ fjFiles' = [fjFiles EXCEPT !.output = fjFiles.remuxed, !.remuxed = Gone, !.work = FALSE]
    /\ FjGoto("rename")
    /\ UNCHANGED <<fjPlan, fjPrep, fjRows>>

(* The announcement, the removal, the move (another filesystem) or the       *)
(* removal of the directory fails.  The output is removed in every case; the *)
(* directory stays in the last.                                              *)
ReplaceFails ==
    /\ fjStep = "replace"
    /\ fjTold' \in {fjTold, fjTold \cup {"output"}}
    /\ \E stays \in BOOLEAN :
          fjFiles' = [fjFiles EXCEPT !.output = Gone, !.remuxed = Gone, !.work = stays]
    /\ FjEnds("error")
    /\ UNCHANGED <<fjPlan, fjPrep, fjRows>>

(***************************************************************************)
(* The output takes the file's place                                       *)
(***************************************************************************)

Destination == IF fjPlan.convert THEN "target" ELSE "source"

record_mutation_for_pending_write ==
    /\ fjStep = "rename"
    /\ fjTold' = fjTold \cup {Destination}
    /\ FjGoto("move")
    /\ UNCHANGED <<fjPlan, fjFiles, fjPrep, fjRows>>

(* A write that cannot be announced is not made. *)
RefusesWrite ==
    /\ fjStep = "rename"
    /\ fjFiles' = Keep(Gone)
    /\ FjEnds("error")
    /\ UNCHANGED <<fjPlan, fjPrep, fjTold, fjRows>>

(* Mutant: the original is removed before the output is moved. *)
rename_output_RemovesFirst ==
    /\ fjStep = "move"
    /\ \/ /\ fjFiles' = [fjFiles EXCEPT ![Destination] = fjFiles.output, !.output = Gone,
                                        !.source = IF fjPlan.convert THEN Gone ELSE fjFiles.output]
          /\ FjGoto("store")
       \/ /\ fjFiles' = [fjFiles EXCEPT !.output = Gone, !.source = IF fjPlan.convert THEN Gone ELSE @]
          /\ FjEnds("error")
    /\ UNCHANGED <<fjPlan, fjPrep, fjTold, fjRows>>

(* A converted file is moved to its new name before the original goes; the   *)
(* original may stay when it cannot be removed.                              *)
rename_output ==
    /\ fjStep = "move"
    /\ \/ /\ \E kept \in BOOLEAN :
                fjFiles' = [fjFiles EXCEPT ![Destination] = fjFiles.output, !.output = Gone,
                               !.source = IF ~fjPlan.convert THEN fjFiles.output
                                          ELSE IF kept THEN @ ELSE Gone]
          /\ FjGoto("store")
       \/ fjFiles' = Keep(Gone) /\ FjEnds("error")
    /\ UNCHANGED <<fjPlan, fjPrep, fjTold, fjRows>>

(***************************************************************************)
(* What was learnt                                                         *)
(***************************************************************************)

(* The outcomes are stored, then the loudness of the file; a write that      *)
(* fails ends the call with an error, though the file is changed.            *)
execute_plan ==
    /\ fjStep \in {"store", "store failure"}
    /\ \/ /\ fjRows' = [outcomes |-> fjPrep.outcomes, loudness |-> fjPrep.updates]
          /\ FjEnds(IF fjStep = "store" THEN "success" ELSE "failure")
       \/ /\ fjPrep.outcomes > 0
          /\ UNCHANGED fjRows /\ FjEnds("unstored")
       \/ /\ fjPrep.updates
          /\ fjRows' = [outcomes |-> fjPrep.outcomes, loudness |-> FALSE] /\ FjEnds("unstored")
    /\ UNCHANGED <<fjPlan, fjFiles, fjPrep, fjTold>>

FjNext ==
    \/ FileMissing \/ PrepareActions \/ measure_loudness_fails \/ ensure_tool_available
    \/ StartFfmpeg \/ RunFfmpeg \/ FfmpegFails \/ FfmpegLost
    \/ apply_dynamic_hdr_reinjection \/ InjectFails \/ replace_output \/ ReplaceFails
    \/ record_mutation_for_pending_write \/ RefusesWrite \/ rename_output
    \/ execute_plan

FjSpec == FjInit /\ [][FjNext]_fjVars

(***************************************************************************)
(* Properties                                                              *)
(***************************************************************************)

Final == IF fjPlan.convert /\ fjFiles.target # Gone THEN fjFiles.target ELSE fjFiles.source

(* A call that comes back with an error or a failed action has left the file *)
(* as it was and no new one beside it (executor.rs:861-916), the storing of  *)
(* what was learnt apart.                                                    *)
FailureLeavesFile ==
    fjResult \in {"error", "failure", "panic"} => fjFiles.source = Original /\ fjFiles.target = Gone

(* Whenever the call is over, its temporary output is gone (executor.rs:180, *)
(* 212, 244, 883, 886).                                                      *)
OutputNeverLeft == fjStep = "done" => fjFiles.output = Gone /\ fjFiles.remuxed = Gone

(* A path has new content only after the scan session was told of the write  *)
(* (executor.rs:876, 899), so a walk that meets it knows whose change it is. *)
WritesAnnounced ==
    /\ fjFiles.source.kind = "encoded" => "source" \in fjTold
    /\ fjFiles.target.kind = "encoded" => "target" \in fjTold

(* The stored loudness of a file is that of its content: only a file whose   *)
(* track was normalised is recorded at the target level (executor.rs:648-668,*)
(* lib.rs:345-360).                                                          *)
LoudnessRowTrue == fjRows.loudness => Final.kind = "encoded" /\ Final.loud

(* A plan that must keep dynamic HDR metadata succeeds only with the         *)
(* metadata in the file (executor.rs:148-183).                               *)
HdrReinjected == fjResult = "success" /\ WantsHdr => Final.hdr

\* An encode does what its plan asked: its quality was measured within range,
\* crop and samples stay inside the picture and the source, only encoders
\* that work on the device are used, HDR is never lost by accident, and a
\* call that fails leaves the file as it was and no output behind.
EncodingSound ==
  /\ EncodesInRange
  /\ OutcomeIsMeasured
  /\ SamplesWithinSource
  /\ CropKeepsPicture
  /\ ValidatedEncodersOnly
  /\ NoSilentFallback
  /\ SurfacesStayOnDevice
  /\ HdrNeverLost
  /\ FailureLeavesFile
  /\ OutputNeverLeft
  /\ WritesAnnounced
  /\ LoudnessRowTrue
  /\ HdrReinjected
=============================================================================
