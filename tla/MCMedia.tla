------------------------------ MODULE MCMedia -------------------------------
(* What a file's plan says and what is done to its media: policy texts,     *)
(* their checking, compiling, running and tooling; the codec and language   *)
(* names; introspection; hardware encoders, video quality and the ffmpeg    *)
(* job; and the plugins that enrich a file.                                 *)
EXTENDS VideoEncoding, FileMetadata, PolicyTooling, PolicyEvaluator,
        PolicySyntax, PolicyChecks

-----------------------------------------------------------------------------
(* Small instances of VideoQuality; each part is explored by itself. *)
VARIABLE vqPart

mcDurations == {12, 24}
mcScenes == {<<>>} \cup
    {<<[time |-> a, score |-> 1], [time |-> b, score |-> 2]>> : a \in {0, 5, 24}, b \in {11, 23}}
mcFrames == {[width |-> 8, height |-> 8], [width |-> 9, height |-> 7]}
mcDetected == [left : 0 .. 1, top : {0, 3}, right : 0 .. 1, bottom : 0 .. 2]
mcLocks == {<<>>, <<[width |-> 1, height |-> 1]>>,
            <<[width |-> 2, height |-> 1], [width |-> 4, height |-> 3]>>}
mcCropConfigs == [minimum : {0, 2}, preserve : {0, 1}, locks : mcLocks]

VqMCInit == VqInit /\ vqPart \in {"search", "sample", "crop"}
              /\ (vqPart # "search" => vqPlan = CHOOSE p \in Plans : TRUE)
              /\ (vqPart # "search" => vqMachine = CHOOSE m \in Machines : TRUE)
VqMCNext ==
    /\ \/ vqPart = "search" /\ SearchNext
       \/ vqPart = "sample" /\ SampleNext
       \/ vqPart = "crop" /\ CropNext
    /\ UNCHANGED vqPart

-----------------------------------------------------------------------------
(* Small instances of HardwareEncoding; the two kinds of action apart. *)
VARIABLE hwPart

mcBackends == <<"nvenc", "vaapi">>
mcListed == {{}, {<<"hevc", "nvenc">>, <<"hevc", "vaapi">>, <<"vp9", "vaapi">>}}

HwMCInit == HwInit /\ hwPart \in {"encode", "hdr"} /\ hwWorld.hardware["nvenc"] \subseteq {"0"}
              /\ (hwPart = "hdr" => hwWorld.accels = {} /\ hwWorld.listed = {} /\ hwWorld.named = ""
                                   /\ hwWorld.device = "" /\ hwWorld.decoders = {})
HwMCNext ==
    /\ \/ hwPart = "encode" /\ HwEncodeNext
       \/ hwPart = "hdr" /\ HdrNext
    /\ UNCHANGED hwPart

-----------------------------------------------------------------------------
(* Small instances of Enrichment: one file in three contents; two files.     *)
VARIABLE enPart

mcTracks == <<<<"video", "eng", "mixed">>, <<"video", "fra", "silent">>, <<"eng">>>>

EnInit == DetectInit /\ MuxInit /\ enPart \in {"detect", "mux"}
EnNext ==
    \/ enPart = "detect" /\ DetectNext /\ UNCHANGED <<enMuxVars, enPart>>
    \/ enPart = "mux" /\ MuxNext /\ UNCHANGED <<enDetectVars, enPart>>

-----------------------------------------------------------------------------
(* Two files; probes with cover art, skipped streams, HDR side data in both *)
(* orders, and numbers at and past the widths.                              *)
mcStream == [type |-> "video", codec |-> "h264", nb_frames |-> InNone, duration |-> 1, attached |-> FALSE,
             default |-> FALSE, forced |-> FALSE, comment |-> FALSE, title |-> "none", transfer |-> "sdr",
             side |-> <<>>, pix |-> "yuv", genre |-> "unknown", size |-> 1]
mcImages == {[mcStream EXCEPT !.codec = c, !.nb_frames = n, !.duration = d, !.attached = a] :
                c \in {"mjpeg", "png"}, n \in {InNone, 1, 40}, d \in {0, 1}, a \in BOOLEAN}
mcHdr == {[mcStream EXCEPT !.transfer = t, !.side = s] :
             t \in {"sdr", "pq", "hlg", "bt2020-10"},
             s \in {<<>>, <<[type |-> "mastering", value |-> 1]>>,
                    <<[type |-> "mastering", value |-> 1], [type |-> "hdr10+", value |-> 1]>>,
                    <<[type |-> "hdr10+", value |-> 1], [type |-> "dovi", value |-> 8]>>}}
mcDrawn == {[mcStream EXCEPT !.pix = "pal8", !.nb_frames = 40, !.genre = g] : g \in {"unknown", "no", "yes"}}
mcAudio == {[mcStream EXCEPT !.type = "audio", !.codec = "aac", !.default = d, !.title = t, !.size = n] :
               d \in BOOLEAN, t \in {"none", "commentary", "music", "sfx"}, n \in {2, I32Max, U32Max}}
mcSubtitles == {[mcStream EXCEPT !.type = "subtitle", !.codec = "srt", !.forced = d, !.comment = c] :
                   d \in BOOLEAN, c \in BOOLEAN}
mcData == [mcStream EXCEPT !.type = "data", !.codec = "bin"]
mcFont == [mcStream EXCEPT !.type = "attachment", !.codec = "ttf", !.default = TRUE]
mcProbe(n, ss) == [bit_rate |-> n, hash |-> "h", ext |-> "mkv", streams |-> ss]
mcProbes ==
    {mcProbe(1, <<mcData, s>>) : s \in mcImages \union mcHdr \union mcDrawn \union mcAudio \union mcSubtitles}
    \union {mcProbe(n, <<mcStream, mcFont>>) : n \in {InNone, I32Max, U32Max, U32Max + 1}}
    \union {[mcProbe(1, <<mcStream>>) EXCEPT !.hash = h, !.ext = e] : h \in {"none", "h"}, e \in {"mka", "m2ts", "xyz"}}
    \union {mcProbe(1, <<mcStream, s>>) : s \in mcImages \union {mcStream}}
mcFew == {mcProbe(n, <<mcStream, s>>) : n \in {1, U32Max}, s \in {mcStream, [mcStream EXCEPT !.codec = "png", !.nb_frames = 40]}}

(* The second file only matters to the listings. *)
InMCNext ==
    \/ \E probe \in run_ffprobe : introspect("f", probe)
    \/ \E probe \in mcFew : inRow["f"] # NoFile /\ inParsed["f"].bitrate = 1 /\ inMode = "off"
                            /\ introspect("g", probe)
    \/ \E f \in InFiles : upsert_file(f) \/ file_by_path(f)
    \/ migrate_cover_art_track_types
    \/ \E codec \in {"any", "h264", "png"} : list_files(codec)

-----------------------------------------------------------------------------
(* The tables of codec and language names, and hints over small words. *)
nmLetters == {1, 2}

\* Every word of at most three letters, and some longer ones.
mcNmShort == UNION {[1..n -> nmLetters] : n \in 0..3}

mcNmWords == mcNmShort \cup {<<1, 1, 2, 2, 1>>, <<2, 2, 2, 2, 2, 2>>, <<3, 3, 3, 3>>}

\* Canonical names are keys of their own table, as in the code.
mcNmTables ==
  <<[w \in {<<1, 1, 1, 1, 1>>, <<2, 1>>, <<1, 2, 1, 2>>} |-> <<1, 1, 1, 1, 1>>],
    [w \in {<<2, 2, 1, 1, 2, 2>>, <<1, 2>>} |-> <<2, 2, 1, 1, 2, 2>>],
    [w \in {<<3, 3, 3, 3, 3, 3, 3>>, <<2, 2, 3>>} |-> <<3, 3, 3, 3, 3, 3, 3>>]>>

-----------------------------------------------------------------------------
(* Small maps, policies, plans and one suite of three cases for TLC.       *)
ptPrefixes == [at : {<<"tv">>, <<"tv", "kids">>, <<"tvx">>}, slash : BOOLEAN]
ptEntries == {e \in [prefix : ptPrefixes, policy : {None, "a", "b", "broken"}, skip : BOOLEAN] :
                e.policy = "broken" => e.prefix.at = <<"tvx">>}
mcPtMaps == [default : {None, "skip", "a"}, root : {<<"m">>},
             entries : {<<>>} \cup {<<e>> : e \in ptEntries} \cup {<<e, f>> : e, f \in ptEntries}]
mcPtPaths == {<<"m", "tv", "x">>, <<"m", "tv", "kids", "x">>, <<"m", "tvx", "x">>, <<"tv", "x">>}

ptPhase == [name : {"p", "q"}, op : {"keep", "defaults"}]
mcPtPolicies ==
  [name : {"one"}, hash : {"h"}, order : {<<"p">>},
   phases : {<<>>} \cup {<<x>> : x \in ptPhase}]
  \cup [name : {"one", "two"}, hash : {"h", "i"}, order : {<<"p", "q">>, <<"q", "p">>},
        phases : {s \in [1..2 -> ptPhase] : s[1].name # s[2].name}]

ptPlan == [phase : {"p", "q"}, action : {"keep", "remux"}, id : {1, 2}, hash : {"h"}]
mcPtPlanLists == {<<>>} \cup {<<x>> : x \in ptPlan}
  \cup {s \in [1..2 -> ptPlan] : s[1].phase # s[2].phase}

ptNameSeqs == {<<>>} \cup {<<x>> : x \in {"p", "q", "r"}}
  \cup {s \in [1..2 -> {"p", "q", "r"}] : s[1] # s[2]}
  \cup {s \in [1..3 -> {"p", "q", "r"}] : s[1] # s[2] /\ s[2] # s[3] /\ s[1] # s[3]}
mcPtOrders == [phases : ptNameSeqs, order : ptNameSeqs]

ptExpect(run, skipped, audio, quiet) ==
  [run |-> run, skipped |-> skipped, audio |-> audio, quiet |-> quiet]
mcPtCases ==
  << [fixture |-> "movie", caps |-> None, snapshot |-> "s1", expect |-> ptExpect({"p"}, {}, 1, FALSE)],
     [fixture |-> "movie", caps |-> "few", snapshot |-> "s2",
      expect |-> ptExpect({}, {<<"q", "no match">>}, -1, TRUE)],
     [fixture |-> "series", caps |-> None, snapshot |-> None, expect |-> ptExpect({"p"}, {}, 2, TRUE)] >>

ptMade(phase, skip, removes, warns) ==
  [phase |-> phase, skip |-> skip, removes |-> removes, warns |-> warns,
   tracks |-> <<"video", "audio", "audio", "subtitle">>]
mcPtPlans ==
  [v \in {"v1", "v2", "v3"} |->
     [f \in {"movie", "series"} |->
        [c \in {"fixture", "few"} |->
           << ptMade("p", IF v = "v3" THEN "no match" ELSE None,
                     IF f = "movie" /\ v # "v3" THEN {2, 4} ELSE {}, c = "few" /\ v = "v3"),
              ptMade("q", IF f = "movie" THEN "no match" ELSE None,
                     IF v = "v2" /\ f = "series" THEN {3} ELSE {}, FALSE) >>]]]

-----------------------------------------------------------------------------
Lang(v)  == Filter("lang_in", v, <<>>)
Codec(v) == Filter("codec_in", v, <<>>)
Not(f)   == Filter("not", {}, <<f>>)
No       == Codec({})
Cond(k, target, filter, v) == Condition(k, target, filter, v, <<>>)
When(cond, then, else) ==
    [Op("when", "any", All, "") EXCEPT !.rules = <<[cond |-> cond, then |-> then, else |-> else]>>]
Rules(k, rules) == [Op(k, "any", All, "") EXCEPT !.rules = rules]
Fail == Op("fail", "any", All, "")

mcOps == {
    Op("keep", "audio", Lang({"eng"}), ""),
    Op("remove", "any", Lang({"eng"}), ""),
    Op("remove", "audio", Not(Lang({"eng"})), ""),
    Op("remove", "audio", Filter("lang_field", {"audio.lang"}, <<>>), ""),
    Op("remove", "subtitle", All, ""),
    Op("remove", "attachment", Filter("font", {}, <<>>), ""),
    Op("keep", "video", Codec({"hevc"}), ""),
    Op("set_container", "any", All, "mp4"),
    Op("set_container", "any", All, "mkv"),
    Op("set_container", "any", All, "webm"),
    Op("transcode", "video", No, "hevc"),
    Op("transcode", "audio", Codec({"ac3"}), "aac"),
    [Op("transcode", "video", No, "hevc") EXCEPT !.ref = "nvenc"],
    Op("normalize", "audio", Lang({"eng"}), ""),
    Op("synthesize", "audio", Lang({"eng"}), "aac"),
    Op("synthesize", "audio", Lang({"eng"}), "dts"),
    Op("defaults", "audio", All, "first"),
    Op("defaults", "audio", All, "first_per_language"),
    Op("clear_actions", "any", All, "all"),
    Op("set_tag", "any", All, "title"),
    [Op("set_tag", "any", All, "show") EXCEPT !.ref = "plugin.show"],
    Op("delete_tag", "any", All, "title"),
    Op("clear_tags", "any", All, ""),
    Op("reorder", "any", All, "audio"),
    Op("verify", "any", All, "quick"),
    When(Cond("count_gt", "audio", All, {1}), <<Op("set_language", "audio", Lang({"und"}), "eng"), Fail>>,
         <<Op("set_forced", "subtitle", Lang({"eng"}), "")>>),
    Rules("rules_first", <<
        [cond |-> Cond("exists", "subtitle", All, {}), then |-> <<Op("keep", "subtitle", Lang({"eng"}), "")>>, else |-> <<>>],
        [cond |-> Cond("field_eq", "file.container", All, {"mkv"}), then |-> <<Op("skip", "any", All, "")>>,
         else |-> <<Op("warn", "any", All, "")>>]>>)}

(* What comes after another operation of the phase. *)
mcLater == {o \in mcOps : o.k \notin {"reorder", "verify", "delete_tag", "clear_tags", "clear_actions", "rules_first"}
                          /\ ~(o.k = "defaults" /\ o.v = "first") /\ o.ref # "plugin.show"}

PhaseOf(name, ops, run_if, on_error) ==
    [name |-> name, ops |-> ops, skip_when |-> {}, run_if |-> run_if, depends_on |-> {}, on_error |-> on_error]
Second == {
    PhaseOf("q", <<Op("remove", "audio", Lang({"eng"}), "")>>, {}, "abort"),
    PhaseOf("q", <<Op("remove", "audio", Lang({"jpn"}), "")>>, {[phase |-> "p", trigger |-> "modified"]}, "abort"),
    [PhaseOf("q", <<Op("remove", "any", Codec({"h264", "ac3"}), "")>>, {[phase |-> "p", trigger |-> "completed"]}, "skip")
        EXCEPT !.depends_on = {"p"}],
    [PhaseOf("q", <<Op("defaults", "audio", All, "all")>>, {}, "continue")
        EXCEPT !.skip_when = {Condition("and", "any", All, {}, <<Cond("is_dubbed", "any", All, {}),
                                        Condition("not", "any", All, {}, <<Cond("is_original", "any", All, {})>>)>>)}]}
mcPolicies ==
    {<<PhaseOf("p", <<x>>, {}, e)>> : x \in mcOps, e \in {"abort", "skip"}} \cup
    {<<PhaseOf("p", <<x, y>>, {}, "abort"), q>> : x \in mcOps, y \in mcLater, q \in Second} \cup
    {<<PhaseOf("p", <<x, y>>, {}, "continue"), PhaseOf("q", <<>>, {}, "abort")>> : x, y \in mcLater}

V(c) == Track("v", "video", c, "und")
mcFiles == {
    MediaFile("mkv", <<V("h264"), [Track("a", "audio_main", "ac3", "eng") EXCEPT !.default = TRUE],
                       [Track("b", "audio_alternate", "dts", "jpn") EXCEPT !.default = TRUE, !.title = "t"],
                       Track("s", "subtitle_main", "srt", "eng"), Track("f", "attachment", "ttf", "und")>>, {"title", "show"}),
    MediaFile("mp4", <<Track("a", "audio_main", "aac", "eng"), V("hevc"), Track("b", "audio_commentary", "aac", "und")>>, {"title"}),
    MediaFile("avi", <<V("h264"), Track("a", "audio_main", "ac3", "eng")>>, {})}
mcEncoders == ("ffmpeg" :> {"hevc", "aac", "ac3"}) @@ ("handbrake" :> {"hevc"})

-----------------------------------------------------------------------------
S(x) == <<Token("str", x)>>
N(x) == <<Token("num", x)>>
T(ws) == Spelled(ws)
PhaseText(body) == T(<<"policy">>) \o S(<<"p">>) \o Block(T(<<"phase", "a">>) \o Block(body))

mcRemainder == [p \in {<<"or", "order">>, <<"ebu_r128", "ebu_r128_broadcast">>, <<"subtitle", "subtitles">>,
                       <<"in", "inherit">>, <<"attachment", "attachments">>} |->
                  CASE p[2] = "order" -> "der" [] p[2] = "ebu_r128_broadcast" -> "_broadcast"
                    [] p[2] = "inherit" -> "herit" [] OTHER -> "s"]

(* Conditions and filters as they may be written: terms, negated or in parentheses, joined. *)
Terms(atoms) == atoms \cup {T(<<"not">>) \o a : a \in atoms}
Join2(A, B) == {a \o T(<<op>>) \o b : a \in A, b \in B, op \in {"and", "or"}}
InParens(A) == {T(<<"(">>) \o a \o T(<<")">>) : a \in A}
Written(atoms, few) ==
  LET two == Join2(atoms, few)
      par == InParens(two)
  IN Terms(atoms) \cup Terms(par) \cup Join2(Terms(few), two) \cup Join2(Terms(few), Terms(par))
       \cup Join2(par, InParens(Join2(few, few)))

condAtoms == {T(<<"is_dubbed">>), T(<<"video", ".", "codec", "==", "hevc">>),
              T(<<"exists", "(", "subtitles", "where", "forced", ")">>),
              T(<<"count", "(", "track", ")", ">=">>) \o N(<<"2", "k">>),
              T(<<"plugin", ".", "radarr", ".", "title", "exists">>)}
filterAtoms == {T(<<"commentary">>), T(<<"lang", "in", "[", "eng", ",", "und", "]">>),
                T(<<"lang", "==", "eng">>), T(<<"codec", "!=", "video", ".", "codec">>),
                T(<<"codec", "!=", "aac">>), T(<<"channels", ">=">>) \o N(<<"6">>),
                T(<<"title", "contains">>) \o S(<<"a", "\\", "\"">>)}

condTexts   == {PhaseText(T(<<"skip", "when">>) \o c \o T(<<"order", "tracks", "[", "video", "]">>)) :
                  c \in Written(condAtoms, {T(<<"is_dubbed">>), T(<<"is_original">>)})}
filterTexts == {PhaseText(T(<<"keep", "subtitles", "where">>) \o f \o T(<<"order", "tracks", "[", "video", "]">>)) :
                  f \in Written(filterAtoms, {T(<<"commentary">>), T(<<"font">>)})}

(* Statements of a phase, to be written in any order. *)
statements == {
  T(<<"depends_on", ":", "[", "b", "]">>), T(<<"run_if", "b", ".", "modified">>), T(<<"on_error", ":", "skip">>),
  T(<<"skip", "when", "is_dubbed">>), T(<<"container", "mkv">>), T(<<"verify", "quick">>),
  T(<<"keep", "audio", "where", "lang", "==", "eng">>)
    \o Block(T(<<"normalize", ":", "mobile">>) \o Block(T(<<"target_lufs", ":">>) \o N(<<"6">>))),
  T(<<"remove", "attachments", "where", "not", "font">>), T(<<"order", "tracks", "[", "video", "]">>),
  T(<<"defaults">>) \o Block(T(<<"audio", ":", "first", "subtitle", ":", "none">>)),
  T(<<"audio", "actions">>) \o Block(T(<<"clear_all_default", ":", "true">>)),
  T(<<"transcode", "video", "to", "hevc">>)
    \o Block(T(<<"crf", ":">>) \o N(<<"2">>) \o T(<<"fallback">>) \o Block(T(<<"preset", ":", "medium">>))
             \o T(<<"target_vmaf_when", "file", ".", "size", ":">>) \o N(<<"6">>)
             \o T(<<"sample", ":", "scenes", "(", "count", ":">>) \o N(<<"2">>) \o T(<<")">>)),
  T(<<"transcode", "audio", "to", "aac">>) \o Block(<<>>),
  T(<<"synthesize">>) \o S(<<"x">>)
    \o Block(T(<<"codec", ":", "aac", "channels", ":">>) \o N(<<"2">>) \o T(<<"source", ":", "prefer", "(", "default", ")">>)
             \o T(<<"create_if", "is_dubbed", "language", ":", "inherit">>)
             \o T(<<"skip_if_exists">>) \o Block(T(<<"codec", "==", "aac">>))),
  T(<<"clear_tags">>), T(<<"set_tag">>) \o S(<<"x">>) \o T(<<"plugin", ".", "radarr", ".", "title">>),
  T(<<"delete_tag">>) \o S(<<"\\", "\\">>),
  T(<<"when", "is_dubbed">>) \o Block(T(<<"skip", "b", "warn">>) \o S(<<"a">>) \o T(<<"keep", "audio">>))
    \o T(<<"else">>) \o Block(T(<<"set_language", "audio", "where", "lang", "==", "und">>) \o S(<<"eng">>)),
  T(<<"rules", "first">>) \o Block(T(<<"rule">>) \o S(<<"r">>)
    \o Block(T(<<"when", "is_original">>) \o Block(T(<<"set_default", "subtitles", "where", "forced", "fail">>) \o S(<<"a">>))))}

phaseTexts == {PhaseText(a \o b) : a \in statements, b \in statements}
headed == T(<<"policy">>) \o S(<<"p">>) \o T(<<"extends">>) \o S(<<"base">>)
            \o Block(T(<<"metadata">>) \o Block(T(<<"author", ":">>) \o S(<<"a">>) \o T(<<"version", ":">>) \o S(<<"2">>)
                       \o T(<<"requires_tools", ":", "[", "mkvmerge", "]">>))
                     \o T(<<"config">>) \o Block(T(<<"keep_backups", ":", "true", "on_error", ":", "skip", "languages", "audio",
                          ":", "[", "eng", "]", "languages", "subtitle", ":", "[", "]", "commentary_patterns", ":", "[">>)
                          \o S(<<"a", "\\", "\"">>) \o T(<<"]">>))
                     \o T(<<"phase", "a">>) \o Block(T(<<"extend", "clear_tags">>)))

mcTexts == condTexts \cup filterTexts \cup phaseTexts \cup {headed}

-----------------------------------------------------------------------------
num(v) == Leaf("number", v)
idt(v) == Leaf("ident", <<v>>)
pair(k, v) == Make("pair", <<k>>, <<v>>)
mcTenths == ("0" :> 0) @@ ("2" :> 20) @@ ("8" :> 80) @@ ("59" :> 590) @@ ("60" :> 600) @@ ("100" :> 1000)
            @@ ("101" :> 1010) @@ ("255" :> 2550) @@ ("256" :> 2560) @@ ("5.1" :> 51) @@ ("-1" :> -10)
            @@ ("1080" :> 10800) @@ ("501" :> 5010)
mcCodecs == ("hevc" :> "video") @@ ("aac" :> "audio") @@ ("srt" :> "subtitle")

numbers == {num(<<n>>) : n \in DOMAIN mcTenths} \cup {num(<<"8", "M">>), num(<<"2", "k">>), num(<<"1080", "p">>), num(<<"2", "x">>)}
names   == {idt(n) : n \in {"auto", "full", "tonemap", "hable", "copy", "copy_rpu", "film", "area", "vaapi", "mobile"}}
ratios  == {Make("list", <<>>, <<Leaf("string", r)>>) : r \in {<<"16", "/", "9">>, <<"16">>}} \cup {Make("list", <<>>, <<>>)}
calls   == {Make("call", <<"scenes">>, a) :
              a \in {<<pair("count", num(<<"8">>)), pair("duration", num(<<"2", "s">>))>>,
                     <<pair("count", num(<<"5.1">>)), pair("duration", idt("full"))>>,
                     <<pair("duration", idt("full"))>>}}
objects == {Make("object", <<>>, <<pair("crf", c), pair("preset", p)>>) :
              c \in {num(<<"2">>), num(<<"60">>), idt("film")}, p \in {idt("film"), num(<<"2">>), Leaf("bool", <<"true">>)}}
values  == numbers \cup names \cup ratios \cup calls \cup objects
           \cup {Leaf("bool", <<"true">>), Leaf("string", <<"auto">>), Leaf("string", <<"8", "M">>)}

Transcode(target, codec, settings) == Make("transcode", <<target>>, <<idt(codec)>> \o settings)
phase(ops) == Make("phase", <<"p">>, ops)
keys == KnownTranscodeKeys \cup {"other"}
override(root, v) == Make("pair", <<"target_vmaf_when", root, ".", "film">>, <<v>>)

singles == {Transcode("video", "hevc", <<pair(k, v)>>) : k \in keys, v \in values}
           \cup {Transcode("audio", c, <<pair(k, num(<<"2">>))>>) : c \in {"aac", "hevc", "none"}, k \in keys}
           \cup {Transcode("video", "hevc", <<override(r, v)>>) : r \in {"content", "file"}, v \in numbers}
cropped == {Transcode("video", "hevc", <<pair("crop", c), pair(k, v)>>) :
              c \in {idt("auto"), idt("full")}, k \in CropKeys, v \in values}
rates   == {num(<<"8", "M">>), num(<<"2", "k">>), num(<<"501">>), Leaf("string", <<"2", "g">>)}
ranged  == {Transcode("video", "hevc", <<pair("min_bitrate", a), pair("max_bitrate", b)>>) : a, b \in rates}
           \cup {Transcode("video", "hevc", <<pair("max_bitrate", a), pair("min_bitrate", b), pair("hw", idt(h)),
                                             pair("hw_fallback", Leaf("bool", <<"true">>))>>) :
                   a, b \in rates, h \in {"vaapi", "film"}}

tagOps  == {Make("set_tag", <<t>>, <<Leaf("string", <<"x">>)>>) : t \in {"a", "b"}}
           \cup {Leaf("delete_tag", <<"a">>), Leaf("clear_tags", <<>>)}
tagged  == UNION {[1..n -> tagOps] : n \in 1..4}

langIs(l)  == Make("in", <<"lang">>, <<Leaf("text", <<l>>)>>)
titleIs(r) == Make("title", <<"matches">>, <<Leaf("string", <<r>>)>>)
plainFilters == {langIs("eng"), langIs("zz"), titleIs("good"), titleIs("bad"), Leaf("is", <<"forced">>),
                 Make("compare", <<"codec", "==">>, <<Leaf("field", <<"p", "outcome">>)>>),
                 Make("compare", <<"codec", "!=">>, <<Leaf("text", <<"aac">>)>>)}
filters == plainFilters \cup {Make("not", <<>>, <<f>>) : f \in plainFilters}
           \cup {Make("and", <<>>, <<f, Make("not", <<>>, <<g>>)>>) : f, g \in plainFilters}
queries == {Make("query", <<t>>, <<f>>) : t \in {"audio", "subtitles"}, f \in filters} \cup {Make("query", <<"track">>, <<>>)}
conditions == {Make("exists", <<>>, <<q>>) : q \in queries}
              \cup {Make("not", <<>>, <<Make("count", <<">">>, <<q, num(<<"2">>)>>)>>) : q \in queries}
              \cup {Make("field_exists", <<>>, <<Leaf("field", p)>>) : p \in {<<"video", "codec">>, <<"p", "x">>, <<"p", "outcome">>}}
acts == {Make("keep", <<"audio">>, <<titleIs("bad")>>), Make("set_default", <<>>, <<Make("query", <<"audio">>, <<langIs("eng")>>)>>),
         Make("set_tag", <<"a">>, <<Leaf("field", <<"p", "outcome">>)>>),
         Make("set_language", <<>>, <<Make("query", <<"audio">>, <<>>), Leaf("string", <<"eng">>)>>)}
whens == {Make("when", <<>>, <<c, Make("then", <<>>, <<a>>), Make("else", <<>>, <<>>)>>) : c \in conditions, a \in acts}
others == {Make(k, <<"audio">>, <<f>>) : k \in {"keep", "remove"}, f \in filters}
          \cup {Make("keep", <<"audio">>, <<Make("normalize", <<"mobile">>, <<pair("lra_max", num(<<"8">>))>>)>>),
                Make("remove", <<"audio">>, <<>>), Make("keep", <<"subtitles">>, <<>>), Make("remove", <<"subtitle">>, <<>>),
                Leaf("container", <<"mkv">>), Leaf("container", <<"xyz">>), Leaf("verify", <<"quick">>)}
          \cup {Make("rules", <<m>>, <<Make("rule", <<"r">>, <<w>>)>>) : m \in {"first", "all", "some"}, w \in whens}
          \cup {Make("order", <<>>, <<Leaf("text", <<o>>)>>) : o \in {"audio_main", "other"}}
          \cup {Make("defaults", <<>>, <<pair(t, idt(s))>>) : t \in {"audio", "video"}, s \in {"first", "some"}}
          \cup {Make("actions", <<"audio">>, <<pair(k, v)>>) : k \in {"clear_all_titles", "x"}, v \in {num(<<"2">>), Leaf("bool", <<"true">>)}}
          \cup {Make("synthesize", <<"s">>, <<Make(k, <<>>, <<v>>)>>) : k \in {"channels", "position"}, v \in {num(<<"2">>), num(<<"5.1">>), num(<<"8", "M">>), idt("stereo"), idt("last")}}
          \cup {Make("synthesize", <<"s">>, <<Make(k, <<>>, <<f>>)>>) : k \in {"source", "skip_if_exists"}, f \in filters}
          \cup {Make("synthesize", <<"s">>, <<Make("create_if", <<>>, <<c>>), Make("codec", <<>>, <<idt("aac")>>),
                                              Make("language", <<>>, <<idt("inherit")>>)>>) : c \in conditions}

controls == {Leaf("extend", <<>>)} \cup {Make("skip_when", <<>>, <<c>>) : c \in conditions}
mcPhases == {phase(<<o>>) : o \in singles \cup cropped \cup ranged \cup whens \cup others}
            \cup {phase(t) : t \in tagged}
            \cup {phase(<<c, Leaf("container", <<"mkv">>)>>) : c \in controls}
            \cup {phase(<<a, b>>) : a \in {Make("keep", <<"subtitles">>, <<>>)}, b \in others}

-----------------------------------------------------------------------------
VARIABLE part

aWorld   == CHOOSE w \in Worlds : w.hardware["nvenc"] = {} /\ w.accels = {} /\ w.listed = {} /\ w.named = "" /\ w.device = "" /\ w.decoders = {}
aPolicy  == CHOOSE p \in Policies : TRUE
aFile    == CHOOSE f \in Files : TRUE
aPhase   == phase(<<>>)

aPlan    == CHOOSE p \in FjPlans : p.convert /\ ~p.vmaf
anOrder  == CHOOSE o \in PtOrders : TRUE

(* A part that is not looked at stands still at one of its initial states. *)
RunIdle ==
  /\ policy = aPolicy /\ disk = aFile /\ seen = disk /\ original = disk
  /\ at = 1 /\ plan = NewPlan /\ outcomes = Outcome /\ failed = 0
  /\ stage = "evaluate" /\ effect = NoEffect /\ fresh = TRUE /\ aborted = <<>>
SyntaxIdle == written = <<>> /\ file = <<>> /\ formats = 0
FfmpegIdle == fjPlan = aPlan /\ FjInit
NamesIdle  == nmPart = "hint" /\ nmWritten = <<>> /\ NmInit
ToolingIdle == ptPart = "describe" /\ ptGiven = anOrder /\ PtInit
CheckIdle  == candidate = aPhase /\ errors = {} /\ compiled = {} /\ checkStage = "written"

partsVars == <<part, vqVars, vqPart, hwVars, hwPart, fjVars, enVars, enPart, inVars,
     nmVars, ptVars, runVars, syntaxVars, checkVars>>

\* One part is looked at; the others stay in a state of their own.
PartsInit ==
  /\ part \in {"quality", "hardware", "ffmpeg", "enrichment", "introspection", "names", "tooling", "run", "format", "check"}
  /\ IF part = "quality" THEN VqMCInit
     ELSE vqPart = "crop" /\ VqMCInit
  /\ IF part = "hardware" THEN HwMCInit
     ELSE hwPart = "hdr" /\ hwWorld = aWorld /\ HwMCInit
  /\ IF part = "ffmpeg" THEN FjInit
     ELSE FfmpegIdle
  /\ IF part = "enrichment" THEN EnInit
     ELSE enPart = "mux" /\ EnInit
  /\ IF part = "introspection" THEN InInit
     ELSE inMode = "off" /\ InInit
  /\ IF part = "names" THEN NmInit
     ELSE NamesIdle
  /\ IF part = "tooling" THEN PtInit
     ELSE ToolingIdle
  /\ IF part = "run" THEN RunInit
     ELSE RunIdle
  /\ IF part = "format" THEN SyntaxInit
     ELSE SyntaxIdle
  /\ IF part = "check" THEN CheckInit
     ELSE CheckIdle

NotQuality == <<hwVars, hwPart, fjVars, enVars, enPart, inVars, nmVars, ptVars, runVars,
     syntaxVars, checkVars>>
NotHardware == <<vqVars, vqPart, fjVars, enVars, enPart, inVars, nmVars, ptVars, runVars,
     syntaxVars, checkVars>>
NotFfmpeg == <<vqVars, vqPart, hwVars, hwPart, enVars, enPart, inVars, nmVars, ptVars,
     runVars, syntaxVars, checkVars>>
NotEnrichment == <<vqVars, vqPart, hwVars, hwPart, fjVars, inVars, nmVars, ptVars, runVars,
     syntaxVars, checkVars>>
NotIntrospection == <<vqVars, vqPart, hwVars, hwPart, fjVars, enVars, enPart, nmVars, ptVars,
     runVars, syntaxVars, checkVars>>
NotNames == <<vqVars, vqPart, hwVars, hwPart, fjVars, enVars, enPart, inVars, ptVars,
     runVars, syntaxVars, checkVars>>
NotTooling == <<vqVars, vqPart, hwVars, hwPart, fjVars, enVars, enPart, inVars, nmVars,
     runVars, syntaxVars, checkVars>>
NotRun == <<vqVars, vqPart, hwVars, hwPart, fjVars, enVars, enPart, inVars, nmVars,
     ptVars, syntaxVars, checkVars>>
NotFormat == <<vqVars, vqPart, hwVars, hwPart, fjVars, enVars, enPart, inVars, nmVars,
     ptVars, runVars, checkVars>>
NotCheck == <<vqVars, vqPart, hwVars, hwPart, fjVars, enVars, enPart, inVars, nmVars,
     ptVars, runVars, syntaxVars>>

PartsNext ==
  /\ UNCHANGED part
  /\ \/ part = "quality" /\ VqMCNext /\ UNCHANGED NotQuality
     \/ part = "hardware" /\ HwMCNext /\ UNCHANGED NotHardware
     \/ part = "ffmpeg" /\ FjNext /\ UNCHANGED NotFfmpeg
     \/ part = "enrichment" /\ EnNext /\ UNCHANGED NotEnrichment
     \/ part = "introspection" /\ InMCNext /\ UNCHANGED NotIntrospection
     \/ part = "names" /\ NmNext /\ UNCHANGED NotNames
     \/ part = "tooling" /\ PtNext /\ UNCHANGED NotTooling
     \/ part = "run" /\ RunNext /\ UNCHANGED NotRun
     \/ part = "format" /\ SyntaxNext /\ UNCHANGED NotFormat
     \/ part = "check" /\ CheckNext /\ UNCHANGED NotCheck

PartsSpec ==
  /\ PartsInit /\ [][PartsNext]_partsVars
=============================================================================
