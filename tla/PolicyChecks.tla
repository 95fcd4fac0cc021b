---------------------------- MODULE PolicyChecks ----------------------------
(***************************************************************************)
(* What the validator accepts (voom-dsl validator.rs) against what the     *)
(* compiler makes of it (compiler.rs).  The two are written separately:    *)
(* the validator reports errors and the compiler, which runs only on what  *)
(* was accepted, turns each setting into a typed value or drops it.        *)
(* Inputs are syntax trees as PolicySyntax builds them; a check yields the *)
(* set of its errors.  The names and order of phases are PolicyComposition.*)
(***************************************************************************)
EXTENDS PolicySyntax, FiniteSetsExt

CONSTANTS Phases,      \* the phases to check: syntax trees
          PhaseNames,  \* the phases a field path may name
          Tenths,      \* numeral |-> its value in tenths
          MaxU32,      \* u32::MAX
          Codecs,      \* codec name |-> "video", "audio" or "subtitle"
          Languages,   \* valid language codes
          Containers,  \* known container extensions
          BadRegexes   \* title patterns the regex crate rejects

VARIABLES candidate,   \* the phase
          errors,      \* what the validator reported
          compiled,    \* its operations as compiled, or "none"
          checkStage   \* "written", "validated" or "compiled"

checkVars == <<candidate, errors, compiled, checkStage>>

AllErrors(F(_), s) == UNION {F(s[i]) : i \in DOMAIN s}
Unless(ok, error) == IF ok THEN {} ELSE {error}
IsName(v) == v.k \in {"ident", "string"}
IsText(v) == v.k \in {"ident", "string", "number"}
IsKey(p, key) == p.v = <<key>>
Named(settings, key) == SelectSeq(settings, LAMBDA p : IsKey(p, key))
Has(settings, key) == Named(settings, key) # <<>>
IsOverride(p) == p.v[1] = "target_vmaf_when"

(* numeric_u32 of the validator and safe_u32 of the compiler. *)
Integral(v) == v.k = "number" /\ Tenths[v.v[1]] \in 0..(10 * MaxU32) /\ Tenths[v.v[1]] % 10 = 0
Value(v) == Tenths[v.v[1]] \div 10

---------------------------------------------------------------------------
(* Transcode settings. *)

HwValues      == {"auto", "nvenc", "qsv", "vaapi", "videotoolbox", "none"}
HdrModes      == {"preserve", "tonemap"}
Tonemaps      == {"bt2390", "hable", "mobius", "reinhard", "clip"}
Tunes         == {"film", "animation", "grain", "stillimage", "fastdecode", "zerolatency", "psnr", "ssim"}
Scales        == {"lanczos", "bicubic", "bilinear", "neighbor", "area", "spline", "sinc"}
Resolutions   == {<<"480", "p">>, <<"720", "p">>, <<"1080", "p">>, <<"1440", "p">>, <<"2160", "p">>, <<"4", "k">>, <<"8", "k">>}
CropKeys      == {"crop_sample_duration", "crop_sample_count", "crop_threshold", "crop_minimum",
                  "crop_preserve_bottom_pixels", "crop_aspect_lock"}
VideoOnlyKeys == {"hdr_mode", "preserve_hdr", "tonemap", "hdr_color_metadata", "dolby_vision", "tune",
                  "scale_algorithm", "max_resolution", "target_vmaf", "max_bitrate", "min_bitrate",
                  "sample_strategy", "fallback", "crop"} \cup CropKeys
KnownTranscodeKeys == VideoOnlyKeys \cup {"preserve", "crf", "preset", "bitrate", "channels", "hw",
                                          "hw_fallback", "normalize"}

validate_number_suffix(raw) == Unless(Len(raw) = 1 \/ raw[2] \in {"k", "K", "p", "m", "M", "g", "G"}, "suffix")
validate_value(v) == IF v.k = "number" THEN validate_number_suffix(v.v) ELSE {}
validate_ident_setting(v, key, valid) == Unless(IsName(v) /\ \E n \in valid : v.v = <<n>>, key)
validate_bool_setting(v, key) == Unless(v.k = "bool", key)

numeric_arg(items, key) == Has(items, key) /\ Integral(Named(items, key)[1].kids[1])
string_arg(items, key)  == Has(items, key) /\ IsText(Named(items, key)[1].kids[1])

(* parse_bitrate; a value that is not one has the rate -1. *)
parse_bitrate(raw) ==
  LET digits == raw[1] \in DOMAIN Tenths /\ Tenths[raw[1]] >= 0 /\ Tenths[raw[1]] % 10 = 0
      scale  == IF Len(raw) = 1 THEN 1
                ELSE CASE raw[2] \in {"k", "K"} -> 1000 [] raw[2] \in {"m", "M"} -> 1000000
                       [] raw[2] \in {"g", "G"} -> 1000000000 [] OTHER -> 0
  IN IF digits /\ scale > 0 THEN (Tenths[raw[1]] \div 10) * scale ELSE -1

validate_bitrate_value(v, key) == Unless(IsText(v) /\ parse_bitrate(v.v) >= 0, key)

validate_vmaf_target(v, key) == Unless(Integral(v) /\ Value(v) \in 60..100, key)

validate_vmaf_override(p) ==
  Unless(p.v[2] = "content", "override_path") \cup validate_vmaf_target(p.kids[1], "target_vmaf_when")

validate_sample_strategy(v) ==
  CASE v.k = "ident" /\ v.v = <<"full">> -> {}
    [] v.k = "call" -> Unless(numeric_arg(v.kids, "count"), "count") \cup Unless(string_arg(v.kids, "duration"), "duration")
    [] OTHER -> {"sample_strategy"}

validate_transcode_fallback(v) ==
  IF v.k # "object" THEN {"fallback"}
  ELSE Unless(numeric_arg(v.kids, "crf") /\ Value(Named(v.kids, "crf")[1].kids[1]) <= 51, "fallback.crf")
         \cup Unless(string_arg(v.kids, "preset"), "fallback.preset")

LastRate(settings, key) ==
  IF Has(settings, key) /\ IsText(Last(Named(settings, key)).kids[1])
  THEN parse_bitrate(Last(Named(settings, key)).kids[1].v) ELSE -1

(* The minimum and maximum compared are the last ones given. *)
BitratesOrdered(settings) ==
  LET min == LastRate(settings, "min_bitrate")
      max == LastRate(settings, "max_bitrate")
  IN min >= 0 /\ max >= 0 => min <= max

validate_vmaf_transcode_settings(settings) ==
  LET Check(p) == LET v == p.kids[1]
                  IN CASE IsKey(p, "target_vmaf")     -> validate_vmaf_target(v, "target_vmaf")
                       [] IsKey(p, "min_bitrate")     -> validate_bitrate_value(v, "min_bitrate")
                       [] IsKey(p, "max_bitrate")     -> validate_bitrate_value(v, "max_bitrate")
                       [] IsKey(p, "sample_strategy") -> validate_sample_strategy(v)
                       [] IsKey(p, "fallback")        -> validate_transcode_fallback(v)
                       [] IsOverride(p)               -> validate_vmaf_override(p)
                       [] OTHER                       -> {}
  IN AllErrors(Check, settings) \cup Unless(BitratesOrdered(settings), "bitrate_order")

CropOn(settings) == \E i \in DOMAIN settings : IsKey(settings[i], "crop") /\ IsName(settings[i].kids[1])
                                               /\ settings[i].kids[1].v = <<"auto">>

validate_crop_aspect_lock(v) ==
  IF v.k # "list" THEN {"crop_aspect_lock"}
  ELSE AllErrors(LAMBDA r : Unless(IsText(r) /\ Len(r.v) = 3 /\ r.v[2] = "/", "crop_ratio"), v.kids)

validate_video_transcode_settings(settings) ==
  LET Bounded(v, lo, hi, key) == Unless(Integral(v) /\ Value(v) \in lo..hi, key)
      Check(p) ==
        LET v == p.kids[1]
            key == p.v[1]
        IN CASE key = "hdr_mode"           -> validate_ident_setting(v, key, HdrModes)
             [] key = "preserve_hdr"       -> validate_bool_setting(v, key)
             [] key = "tonemap"            -> validate_ident_setting(v, key, Tonemaps)
             [] key = "hdr_color_metadata" -> validate_ident_setting(v, key, {"copy"})
             [] key = "dolby_vision"       -> validate_ident_setting(v, key, {"copy_rpu"})
             [] key = "tune"               -> validate_ident_setting(v, key, Tunes)
             [] key = "scale_algorithm"    -> validate_ident_setting(v, key, Scales)
             [] key = "max_resolution"     -> Unless(IsText(v) /\ v.v \in Resolutions, key)
             [] key = "crop"               -> validate_ident_setting(v, key, {"auto"})
             [] key \in CropKeys ->
                  Unless(CropOn(settings), "crop_off")
                    \cup (CASE key \in {"crop_sample_duration", "crop_sample_count"} -> Bounded(v, 1, MaxU32, key)
                            [] key = "crop_threshold"   -> Bounded(v, 0, 255, key)
                            [] key = "crop_aspect_lock" -> validate_crop_aspect_lock(v)
                            [] OTHER                    -> Bounded(v, 0, MaxU32, key))
             [] OTHER -> {}
  IN AllErrors(Check, settings)

validate_hw_settings(settings) ==
  AllErrors(LAMBDA p : IF IsKey(p, "hw") THEN validate_ident_setting(p.kids[1], "hw", HwValues) ELSE {}, settings)
    \cup Unless(Has(settings, "hw_fallback") => Has(settings, "hw"), "hw_fallback")

reject_video_only_keys(settings) ==
  AllErrors(LAMBDA p : Unless(p.v[1] \notin VideoOnlyKeys /\ ~IsOverride(p), "video_only"), settings)

validate_transcode_keys(settings) ==
  AllErrors(LAMBDA p : Unless(IsOverride(p) \/ p.v[1] \in KnownTranscodeKeys, "unknown_key"), settings)

validate_codec(codec) == Unless(codec \in DOMAIN Codecs, "codec")

validate_transcode_operation(op) ==
  LET settings == Tail(op.kids)
      codec    == op.kids[1].v[1]
      target   == op.v[1]
  IN validate_codec(codec)
       \cup Unless(codec \in DOMAIN Codecs => Codecs[codec] = target, "codec_type")
       \cup AllErrors(LAMBDA p : validate_value(p.kids[1]), settings)
       \cup validate_transcode_keys(settings) \cup validate_hw_settings(settings)
       \cup (IF target = "video"
             THEN validate_video_transcode_settings(settings) \cup validate_vmaf_transcode_settings(settings)
             ELSE reject_video_only_keys(settings))

---------------------------------------------------------------------------
(* Paths, filters and conditions. *)

FieldRoots == {"plugin", "file", "video", "audio", "system"}
PhaseOutputFields == {"completed", "modified", "outcome", "error_count", "warning_count"}

validate_phase_output_path(path) == Unless(Len(path) = 2 /\ path[2] \in PhaseOutputFields, "phase_output")

validate_field_path(path) ==
  CASE Head(path) \in FieldRoots -> {}
    [] Head(path) \in PhaseNames -> validate_phase_output_path(path)
    [] OTHER                     -> {"field_root"}

ValidLanguage(v) == \E l \in Languages : v = <<l>>
ValidCodec(v)    == \E c \in DOMAIN Codecs : v = <<c>>

\* Mutant: the operand of `not` is not looked at.
RECURSIVE validate_filter(_)
validate_filter(f) ==
  LET Operand(x) == CASE x.k = "field"         -> validate_field_path(x.v)
                      [] f.v[1] = "lang"       -> Unless(ValidLanguage(x.v), "language")
                      [] f.v[1] = "codec"      -> Unless(ValidCodec(x.v), "codec")
                      [] OTHER                 -> {}
  IN CASE f.k \in {"in", "compare"}     -> AllErrors(Operand, f.kids)
       [] f.k \in {"and", "or", "not"}  -> AllErrors(validate_filter, f.kids)
       [] f.k = "title"                 -> Unless(f.v = <<"matches">> => f.kids[1].v[1] \notin BadRegexes, "regex")
       [] OTHER                         -> {}

TargetNames == {"video", "audio", "subtitle", "subtitles", "attachment", "attachments", "track"}
validate_track_target(target) == Unless(target \in TargetNames, "target")
validate_query(q) == validate_track_target(q.v[1]) \cup AllErrors(validate_filter, q.kids)

RECURSIVE validate_condition(_)
validate_condition(c) ==
  CASE c.k \in {"exists", "count"}     -> validate_query(c.kids[1])
    [] c.k = "field_compare"           -> validate_field_path(c.kids[1].v) \cup validate_value(c.kids[2])
    [] c.k = "field_exists"            -> validate_field_path(c.kids[1].v)
    [] c.k \in {"and", "or", "not"}    -> AllErrors(validate_condition, c.kids)
    [] OTHER                           -> {}

---------------------------------------------------------------------------
(* Actions and operations. *)

validate_action(a) ==
  CASE a.k \in {"keep", "remove"} -> validate_query(a)
    [] a.k \in {"set_default", "set_forced"} -> validate_query(a.kids[1])
    [] a.k = "set_language" ->
         validate_query(a.kids[1])
           \cup (CASE a.kids[2].k = "string" -> Unless(ValidLanguage(a.kids[2].v), "language")
                   [] a.kids[2].k = "field"  -> validate_field_path(a.kids[2].v)
                   [] OTHER                  -> {})
    [] a.k = "set_tag" -> IF a.kids[1].k = "field" THEN validate_field_path(a.kids[1].v) ELSE {}
    [] OTHER -> {}

validate_when(w) ==
  validate_condition(w.kids[1]) \cup AllErrors(validate_action, w.kids[2].kids)
    \cup AllErrors(validate_action, w.kids[3].kids)

Presets == {"ebu_r128", "ebu_r128_broadcast", "streaming_movies", "streaming_music", "mobile", "voice_focused"}
ValidPreset(v) == \E p \in Presets : v = <<p>>
NormalizeKeys == {"target_lufs", "true_peak_db", "lra_max", "tolerance_lufs"}

validate_normalize_setting(n) ==
  Unless(ValidPreset(n.v), "preset")
    \cup AllErrors(LAMBDA p : Unless(p.v[1] \in NormalizeKeys /\ p.kids[1].k = "number", "normalize"), n.kids)

(* 5.1 and 7.1 are let through as numbers too. *)
validate_synth_channels(v) ==
  CASE v.k = "number" -> Unless(v.v \in {<<"5.1">>, <<"7.1">>} \/ (Len(v.v) = 1 /\ Integral(v) /\ Value(v) > 0), "channels")
    [] v.k = "ident"  -> Unless(v.v[1] \in {"mono", "stereo", "5.1", "surround", "7.1", "preserve"}, "channels")
    [] OTHER          -> {"channels"}

validate_synth_position(v) ==
  CASE v.k = "number" -> Unless(Len(v.v) = 1 /\ Integral(v), "position")
    [] v.k = "ident"  -> Unless(v.v[1] \in {"after_source", "last", "beginning"}, "position")
    [] OTHER          -> {"position"}

validate_synthesize_operation(op) ==
  LET Check(s) ==
        CASE s.k = "codec"     -> Unless(ValidCodec(s.kids[1].v), "codec")
          [] s.k = "language"  -> Unless(s.kids[1].v = <<"inherit">> \/ ValidLanguage(s.kids[1].v), "language")
          [] s.k \in {"source", "skip_if_exists"} -> validate_filter(s.kids[1])
          [] s.k = "channels"  -> validate_synth_channels(s.kids[1])
          [] s.k = "position"  -> validate_synth_position(s.kids[1])
          [] s.k = "normalize" -> validate_normalize_setting(s)
          [] OTHER             -> {}
  IN AllErrors(Check, op.kids)

ClearKeys == {"clear_all_default", "clear_all_forced", "clear_all_titles"}
validate_actions_settings(settings) ==
  AllErrors(LAMBDA p : Unless(p.v[1] \in ClearKeys /\ p.kids[1].k = "bool", "actions"), settings)

OrderItems == {"video", "audio", "audio_main", "audio_alternate", "audio_commentary", "subtitle", "subtitles",
               "subtitle_main", "subtitle_forced", "subtitle_commentary", "attachment"}
DefaultStrategies == {"first_per_language", "none", "first", "all"}
IsFilter(x) == x.k # "normalize"

(* The normalize block of a keep and the value of a set_tag are not looked at here. *)
validate_operation(op) ==
  CASE op.k = "container"          -> Unless(op.v[1] \in Containers, "container")
    [] op.k \in {"keep", "remove"} -> validate_track_target(op.v[1])
                                        \cup AllErrors(validate_filter, SelectSeq(op.kids, IsFilter))
    [] op.k = "transcode"          -> validate_transcode_operation(op)
    [] op.k = "synthesize"         -> validate_synthesize_operation(op)
    [] op.k = "when"               -> validate_when(op)
    [] op.k = "rules"              -> Unless(op.v[1] \in {"first", "all"}, "rules_mode")
                                        \cup AllErrors(LAMBDA r : validate_when(r.kids[1]), op.kids)
    [] op.k = "order"              -> AllErrors(LAMBDA i : Unless(i.v[1] \in OrderItems, "order"), op.kids)
    [] op.k = "defaults"           -> AllErrors(LAMBDA d : Unless(d.v[1] \in {"audio", "subtitle"}, "default_kind")
                                        \cup Unless(d.kids[1].v[1] \in DefaultStrategies, "default_value"), op.kids)
    [] op.k = "actions"            -> validate_track_target(op.v[1]) \cup validate_actions_settings(op.kids)
    [] op.k \in {"set_tag", "delete_tag"} -> Unless(op.v # <<>>, "tag")
    [] OTHER                       -> {}

Direct(ops, k) == {i \in DOMAIN ops : ops[i].k = k}

check_tag_conflicts(ops) ==
  LET sets == Direct(ops, "set_tag")
      clears == Direct(ops, "clear_tags")
  IN Unless({ops[i].v : i \in sets} \cap {ops[i].v : i \in Direct(ops, "delete_tag")} = {}, "set_and_deleted")
       \cup Unless(clears # {} => \A i \in sets : i > Max(clears), "set_then_cleared")

broad_track_category(target) ==
  CASE target = "subtitles" -> "subtitle" [] target = "attachments" -> "attachment" [] OTHER -> target

check_track_conflicts(ops) ==
  LET Unfiltered(k) == {broad_track_category(ops[i].v[1]) :
                          i \in {j \in Direct(ops, k) : SelectSeq(ops[j].kids, IsFilter) = <<>>}}
  IN Unless(Unfiltered("keep") \cap Unfiltered("remove") = {}, "keep_and_remove")

Controls == {"extend", "depends_on", "skip_when", "run_if", "on_error"}
Operations(phase) == SelectSeq(phase.kids, LAMBDA c : c.k \notin Controls)

validate_phase(phase) ==
  LET Control(c) == CASE c.k = "extend"    -> {"unresolved_extend"}
                      [] c.k = "skip_when" -> validate_condition(c.kids[1])
                      [] OTHER             -> {}
      ops == Operations(phase)
  IN AllErrors(Control, phase.kids) \cup AllErrors(validate_operation, ops)
       \cup check_tag_conflicts(ops) \cup check_track_conflicts(ops)

---------------------------------------------------------------------------
(***************************************************************************)
(* The compiler.  An optional value is a sequence of at most one element.  *)
(* Failures are the errors it returns, and "unreachable" where it would    *)
(* panic.                                                                  *)
(***************************************************************************)
Option(ok, v) == IF ok THEN <<v>> ELSE <<>>
get(settings, key) == IF Has(settings, key) THEN <<Named(settings, key)[1].kids[1]>> ELSE <<>>
AndThen(o, F(_)) == IF o = <<>> THEN <<>> ELSE F(o[1])

get_str(settings, key) == AndThen(get(settings, key), LAMBDA v : Option(IsName(v), v))
get_u32(settings, key) == AndThen(get(settings, key), LAMBDA v : Option(Integral(v), v))
get_text(settings, key) == AndThen(get(settings, key), LAMBDA v : Option(IsText(v), v))
get_bool(settings, key) == AndThen(get(settings, key), LAMBDA v : Option(v.k = "bool", v))

\* Mutant: the samples are read as an ident, as for `full`.
parse_sample_strategy_IdentOnly(v) == Option(v.k = "ident" /\ v.v = <<"full">>, v)

parse_sample_strategy(v) ==
  Option((v.k = "ident" /\ v.v = <<"full">>)
           \/ (v.k = "call" /\ get_u32(v.kids, "count") # <<>> /\ get_text(v.kids, "duration") # <<>>), v)

parse_transcode_fallback(v) ==
  Option(v.k = "object" /\ get_u32(v.kids, "crf") # <<>> /\ get_str(v.kids, "preset") # <<>>, v)

parse_vmaf_overrides(settings) ==
  LET of == SelectSeq(settings, LAMBDA p : IsOverride(p) /\ p.v[2] = "content" /\ Integral(p.kids[1]))
  IN [c \in {of[i].v : i \in DOMAIN of} |-> Value(Last(SelectSeq(of, LAMBDA p : p.v = c)).kids[1])]

compile_crop_settings(settings, key) ==
  IF get_str(settings, "crop") = <<>> \/ get_str(settings, "crop")[1].v # <<"auto">> THEN <<>>
  ELSE CASE key = "crop"             -> get_str(settings, key)
         [] key = "crop_threshold"   -> AndThen(get_u32(settings, key), LAMBDA v : Option(Value(v) <= 255, v))
         [] key = "crop_aspect_lock" -> AndThen(get(settings, key), LAMBDA v : Option(v.k = "list", v))
         [] OTHER                    -> get_u32(settings, key)

compile_transcode(settings) ==
  [key \in KnownTranscodeKeys |->
     CASE key \in {"preset", "hw", "scale_algorithm", "hdr_mode", "tonemap", "hdr_color_metadata",
                   "dolby_vision", "tune"}                        -> get_str(settings, key)
       [] key \in {"crf", "target_vmaf"}                          -> get_u32(settings, key)
       [] key \in {"bitrate", "min_bitrate", "max_bitrate", "max_resolution"} -> get_text(settings, key)
       [] key = "channels"   -> AndThen(get(settings, key), LAMBDA v : Option(IsName(v) \/ Integral(v), v))
       [] key \in {"hw_fallback", "preserve_hdr"}                 -> get_bool(settings, key)
       [] key = "preserve"   -> AndThen(get(settings, key), LAMBDA v : Option(v.k = "list", v))
       [] key = "sample_strategy" -> AndThen(get(settings, key), parse_sample_strategy)
       [] key = "fallback"   -> AndThen(get(settings, key), parse_transcode_fallback)
       [] key = "normalize"  -> AndThen(get_str(settings, key), LAMBDA v : Option(ValidPreset(v.v), v))
       [] OTHER              -> compile_crop_settings(settings, key)]

parse_track_target(target) == Unless(target \in TargetNames, "unreachable")

RECURSIVE compile_filter(_)
compile_filter(f) ==
  CASE f.k \in {"and", "or", "not"} -> AllErrors(compile_filter, f.kids)
    [] f.k = "title"                -> Unless(f.v = <<"matches">> => f.kids[1].v[1] \notin BadRegexes, "regex")
    [] OTHER                        -> {}

compile_query(q) == parse_track_target(q.v[1]) \cup AllErrors(compile_filter, q.kids)

RECURSIVE compile_condition(_)
compile_condition(c) ==
  CASE c.k \in {"exists", "count"}  -> compile_query(c.kids[1])
    [] c.k \in {"and", "or", "not"} -> AllErrors(compile_condition, c.kids)
    [] OTHER                        -> {}

compile_action(a) ==
  CASE a.k \in {"keep", "remove"} -> compile_query(a)
    [] a.k \in {"set_default", "set_forced", "set_language"} -> compile_query(a.kids[1])
    [] OTHER -> {}

compile_conditional(w) ==
  compile_condition(w.kids[1]) \cup AllErrors(compile_action, w.kids[2].kids)
    \cup AllErrors(compile_action, w.kids[3].kids)

compile_normalize(n) == Unless(ValidPreset(n.v), "preset")

(* The last of several settings of a kind counts, unlike those of a transcode. *)
compile_synthesize(op) ==
  LET Failure(s) == CASE s.k \in {"source", "skip_if_exists"} -> compile_filter(s.kids[1])
                      [] s.k = "create_if" -> compile_condition(s.kids[1])
                      [] s.k = "normalize" -> compile_normalize(s)
                      [] OTHER -> {}
  IN AllErrors(Failure, op.kids)

(* A position compiles to something whatever it is, channels only as a whole number or a name. *)
SynthChannels(op) ==
  LET given == SelectSeq(op.kids, LAMBDA s : s.k = "channels")
  IN IF given = <<>> THEN <<>> ELSE LET v == Last(given).kids[1] IN Option(IsName(v) \/ Integral(v), v)

compile_operation(op) ==
  CASE op.k = "container"           -> Unless(op.v[1] \in Containers, "container")
    [] op.k \in {"keep", "remove"}  -> compile_query([op EXCEPT !.kids = SelectSeq(op.kids, IsFilter)])
                                         \cup AllErrors(compile_normalize, SelectSeq(op.kids, LAMBDA x : ~IsFilter(x)))
    [] op.k = "synthesize"          -> compile_synthesize(op)
    [] op.k = "when"                -> compile_conditional(op)
    [] op.k = "rules"               -> Unless(op.v[1] \in {"first", "all"}, "unreachable")
                                         \cup AllErrors(LAMBDA r : compile_conditional(r.kids[1]), op.kids)
    [] op.k = "defaults"            -> AllErrors(LAMBDA d : parse_track_target(d.v[1]), op.kids)
    [] op.k \in {"actions", "transcode"} -> parse_track_target(op.v[1])
    [] OTHER                        -> {}

compile_phase(phase) ==
  AllErrors(compile_operation, Operations(phase))
    \cup AllErrors(LAMBDA c : CASE c.k = "extend"    -> {"unresolved_extend"}
                               [] c.k = "skip_when" -> compile_condition(c.kids[1])
                               [] OTHER             -> {}, phase.kids)

---------------------------------------------------------------------------
CheckInit == candidate \in Phases /\ errors = {} /\ compiled = {} /\ checkStage = "written"

(* compile_resolved_policy: what has an error is not compiled. *)
ValidatePhase ==
  /\ checkStage = "written"
  /\ errors' = validate_phase(candidate)
  /\ checkStage' = IF errors' = {} THEN "accepted" ELSE "rejected"
  /\ UNCHANGED <<candidate, compiled>>

CompilePhase ==
  /\ checkStage = "accepted"
  /\ compiled' = compile_phase(candidate)
  /\ checkStage' = "compiled"
  /\ UNCHANGED <<candidate, errors>>

CheckNext == ValidatePhase \/ CompilePhase
CheckSpec == CheckInit /\ [][CheckNext]_checkVars

---------------------------------------------------------------------------
Compiled == checkStage = "compiled"
OpsOf(k) == {Operations(candidate)[i] : i \in Direct(Operations(candidate), k)}
SettingsOf(op) == Tail(op.kids)
CreatesConditionally == \E op \in OpsOf("synthesize") : \E i \in DOMAIN op.kids : op.kids[i].k = "create_if"

(* The compiler has no error of its own: the errors it could return and    *)
(* the arms it marks "validator rejects unknown ..." are never met by a    *)
(* phase the validator let through.  The condition of a create_if, which   *)
(* the validator does not look at, is the one place where it can.          *)
AcceptedCompiles == Compiled /\ ~CreatesConditionally => compiled = {}

(* A setting whose value the validator checks is never dropped: the        *)
(* compiled operation has a value for it, though validator.rs and          *)
(* compiler.rs each decide for themselves what kind of value it may be.    *)
(* Not so for the settings nothing checks (crf, preset, bitrate, channels, *)
(* preserve, hw_fallback, normalize), for a number as fallback preset and  *)
(* for 5.1 or 7.1 written as a number in a synthesize.                     *)
AcceptedTakesEffect ==
  Compiled =>
    /\ \A op \in OpsOf("transcode") : \A i \in DOMAIN SettingsOf(op) :
         LET p == SettingsOf(op)[i]
             Numbered == p.v = <<"fallback">> /\ get_str(p.kids[1].kids, "preset") = <<>>
         IN /\ p.v[1] \in VideoOnlyKeys \cup {"hw"} /\ ~Numbered => compile_transcode(SettingsOf(op))[p.v[1]] # <<>>
            /\ IsOverride(p) => p.v \in DOMAIN parse_vmaf_overrides(SettingsOf(op))
    /\ \A op \in OpsOf("synthesize") :
         LET given == SelectSeq(op.kids, LAMBDA s : s.k = "channels")
         IN given # <<>> /\ Last(given).kids[1].v \notin {<<"5.1">>, <<"7.1">>} => SynthChannels(op) # <<>>

(* The rate limits a transcode runs with are a range: the minimum is not   *)
(* above the maximum, when neither is given twice (the validator compares  *)
(* the last ones, the compiler takes the first).                           *)
RatesAreARange ==
  Compiled =>
    \A op \in OpsOf("transcode") :
      LET s == SettingsOf(op)
          c == compile_transcode(s)
      IN c["min_bitrate"] # <<>> /\ c["max_bitrate"] # <<>>
         /\ Len(Named(s, "min_bitrate")) = 1 /\ Len(Named(s, "max_bitrate")) = 1
           => parse_bitrate(c["min_bitrate"][1].v) <= parse_bitrate(c["max_bitrate"][1].v)

(* The tags left when the operations of a phase are carried out in order. *)
RECURSIVE TagsAfter(_)
TagsAfter(ops) ==
  IF ops = <<>> THEN {}
  ELSE LET tags == TagsAfter(Front(ops))
       IN CASE Last(ops).k = "set_tag"    -> tags \cup {Last(ops).v}
            [] Last(ops).k = "delete_tag" -> tags \ {Last(ops).v}
            [] Last(ops).k = "clear_tags" -> {}
            [] OTHER                      -> tags

(* No operation of an accepted phase undoes one of its set_tags: carried   *)
(* out in order they leave every tag that was set.                         *)
SetTagsSurvive == Compiled => {op.v : op \in OpsOf("set_tag")} \subseteq TagsAfter(Operations(candidate))

\* A policy the validator accepts compiles, and means what it says: no
\* checked setting is dropped, rate limits are a range, and no operation of a
\* phase undoes another's tags.
AcceptedIsSound ==
  /\ AcceptedCompiles
  /\ AcceptedTakesEffect
  /\ RatesAreARange
  /\ SetTagsSurvive
=============================================================================
