---------------------------- MODULE FileMetadata ----------------------------
(* What is known of a file: introspection, and the plugins that add to it.  *)
EXTENDS FiniteSets, Integers, Sequences, TLC, SequencesExt

-----------------------------------------------------------------------------
(***************************************************************************)
(* How a media file becomes a row and a row a media file again             *)
(* (ffprobe-introspector: parser.rs, lib.rs; sqlite-store: upsert_file,    *)
(* row_mappers.rs, list_files and count_files; schema.rs: the cover-art    *)
(* migration, which runs whenever the database is opened).  The policy     *)
(* evaluator reads whichever of the two it is given, so they must say the  *)
(* same.                                                                   *)
(*                                                                         *)
(* A probe is the path's extension and hash, and what ffprobe printed: a   *)
(* bit rate and a sequence of streams.                                     *)
(* A number that is absent is InNone.  U32Max and I32Max are the largest   *)
(* values of the two widths, scaled down.                                  *)
(***************************************************************************)

CONSTANTS
    InFiles,    \* the files looked at
    InProbes,   \* what ffprobe may print
    U32Max, I32Max

ASSUME InWidths == I32Max \in Nat /\ U32Max = 2 * I32Max + 1

InNone == -1
IMAGE_ONLY_CODECS == {"mjpeg", "png", "bmp", "gif", "webp"}

VARIABLES
    inMode,     \* the AnimationDetectionMode configured
    inProbe,    \* inProbe[f]: the last answer of ffprobe, or NoProbe
    inParsed,   \* inParsed[f]: the MediaFile the parser made of it
    inRow,      \* inRow[f]: the row and its tracks
    inReopened, \* inReopened[f]: the database was opened since the row was written
    inLoaded    \* the last thing read from the store, [of, files]

inVars == <<inMode, inProbe, inParsed, inRow, inReopened, inLoaded>>

NoProbe == [bit_rate |-> InNone, hash |-> "none", ext |-> "none", streams |-> <<>>]
NoFile == [bitrate |-> InNone, hash |-> "none", container |-> "none", tracks |-> <<>>]
NothingRead == [of |-> "nothing", files |-> <<>>, count |-> 0]

(***************************************************************************)
(* parser.rs.  A number printed as text is dropped when it does not parse  *)
(* as a u32; a JSON number is clamped to a u32.                            *)
(***************************************************************************)
ParseU32(n) == IF n <= U32Max THEN n ELSE InNone
ClampU32(n) == IF n <= U32Max THEN n ELSE U32Max

is_likely_cover_art_stream(codec, s) ==
    /\ codec \in IMAGE_ONLY_CODECS
    /\ IF s.nb_frames # InNone THEN s.nb_frames <= 1 ELSE s.duration <= 0

(* Side data is a sequence of [type, value]; the last of a type counts. *)
HasSide(s, type) == \E i \in DOMAIN s.side : s.side[i].type = type
SideValue(s, type) ==
    IF ~HasSide(s, type) THEN InNone
    ELSE s.side[CHOOSE i \in DOMAIN s.side : /\ s.side[i].type = type
                                              /\ \A j \in DOMAIN s.side : s.side[j].type = type => j <= i].value
dolby_vision_profile(s) == SideValue(s, "dovi")

has_hdr_side_data(s) == s.side # <<>>
is_hdr(s) == s.transfer \in {"pq", "hlg", "bt2020-10"} \/ has_hdr_side_data(s)

hdr_format(s) ==
    CASE HasSide(s, "dovi") -> "Dolby Vision"
      [] ~HasSide(s, "dovi") /\ HasSide(s, "hdr10+") -> "HDR10+"
      [] OTHER -> CASE s.transfer = "pq" -> "HDR10"
                    [] s.transfer = "hlg" -> "HLG"
                    [] OTHER -> IF has_hdr_side_data(s) THEN "HDR10" ELSE "none"

heuristic_animation(s) ==
    IF is_hdr(s) THEN "no"
    ELSE IF s.pix = "pal8" /\ s.duration > 0 /\ s.nb_frames >= 20 * s.duration THEN "yes"
    ELSE "unknown"
detect_animation(s, mode) ==
    IF mode = "off" THEN "unknown"
    ELSE IF s.genre # "unknown" THEN s.genre
    ELSE IF mode = "heuristic" THEN heuristic_animation(s)
    ELSE "unknown"

(* A stream whose title names a kind is of that kind, whatever its flags. *)
classify_audio_track(s) ==
    CASE s.comment \/ s.title = "commentary" -> "audio_commentary"
      [] ~s.comment /\ s.title = "music" -> "audio_music"
      [] ~s.comment /\ s.title = "sfx" -> "audio_sfx"
      [] OTHER -> IF s.default THEN "audio_main" ELSE "audio_alternate"
classify_subtitle_track(s) ==
    IF s.forced THEN "subtitle_forced"
    ELSE IF s.comment \/ s.title = "commentary" THEN "subtitle_commentary"
    ELSE "subtitle_main"

(* Track::new and its defaults. *)
TrackNew(index, type, s) ==
    [index |-> index, type |-> type, codec |-> s.codec, default |-> s.default, forced |-> s.forced,
     channels |-> InNone, width |-> InNone, hdr |-> FALSE, format |-> "none", profile |-> InNone,
     animation |-> "unknown"]

parse_video(index, s, mode) ==
    IF s.attached \/ is_likely_cover_art_stream(s.codec, s) THEN TrackNew(index, "attachment", s)
    ELSE [TrackNew(index, "video", s) EXCEPT
              !.width = ClampU32(s.size), !.hdr = is_hdr(s), !.format = hdr_format(s),
              !.profile = dolby_vision_profile(s), !.animation = detect_animation(s, mode)]
parse_stream(index, s, mode) ==
    CASE s.type = "video" -> parse_video(index, s, mode)
      [] s.type = "audio" -> [TrackNew(index, classify_audio_track(s), s) EXCEPT !.channels = ClampU32(s.size)]
      [] s.type = "subtitle" -> TrackNew(index, classify_subtitle_track(s), s)
      [] OTHER -> [TrackNew(index, "attachment", s) EXCEPT !.default = FALSE, !.forced = FALSE]

(* A stream of another type (data, timecode) gives no track, but counts. *)
IsMedia(s) == s.type \in {"video", "audio", "subtitle", "attachment"}
parse_streams(streams, mode) ==
    LET kept == SetToSortSeq({i \in DOMAIN streams : IsMedia(streams[i])}, <)
    IN [k \in DOMAIN kept |-> parse_stream(kept[k] - 1, streams[kept[k]], mode)]

(* Container::from_extension; the text of a container is its main extension. *)
from_extension(ext) ==
    CASE ext \in {"mkv", "mka", "mks"} -> "mkv"
      [] ext \in {"mp4", "m4v", "m4a"} -> "mp4"
      [] ext \in {"ts", "m2ts", "mts"} -> "ts"
      [] OTHER -> "other"

parse_ffprobe_output(probe, mode) ==
    [bitrate |-> ParseU32(probe.bit_rate), hash |-> probe.hash, container |-> from_extension(probe.ext),
     tracks |-> parse_streams(probe.streams, mode)]

(***************************************************************************)
(* The store.  A row keeps i64 columns; reading it back goes through i32   *)
(* (row_mappers.rs), which fails for what does not fit.                    *)
(***************************************************************************)
(* A flag is 0 or 1, an optional flag NULL, 0 or 1, and no hash is "". *)
SqlFlag(b) == IF b THEN 1 ELSE 0
SqlOption(v) == CASE v = "unknown" -> InNone [] v = "no" -> 0 [] OTHER -> 1
SqlTrack(t) == [t EXCEPT !.default = SqlFlag(@), !.forced = SqlFlag(@), !.hdr = SqlFlag(@), !.animation = SqlOption(@)]
upsert_tracks_in_tx(tracks) == [i \in DOMAIN tracks |-> SqlTrack(tracks[i])]
SqlFile(file) == [file EXCEPT !.hash = IF @ = "none" THEN "" ELSE @, !.tracks = upsert_tracks_in_tx(@)]

FitsI32(n) == n <= I32Max
TrackReads(t) == FitsI32(t.channels) /\ FitsI32(t.width)
RowReads(row) == FitsI32(row.bitrate) /\ \A i \in DOMAIN row.tracks : TrackReads(row.tracks[i])
row_to_track(t) ==
    [t EXCEPT !.default = @ # 0, !.forced = @ # 0, !.hdr = @ # 0,
              !.animation = IF @ = InNone THEN "unknown" ELSE IF @ # 0 THEN "yes" ELSE "no"]
load_tracks(tracks) ==
    SortSeq([i \in DOMAIN tracks |-> row_to_track(tracks[i])], LAMBDA a, b : a.index < b.index)
row_to_file(row) ==
    [row EXCEPT !.hash = IF @ = "" THEN "none" ELSE @, !.container = from_extension(@), !.tracks = load_tracks(@)]

InHasCodec(row, codec) == \E i \in DOMAIN row.tracks : row.tracks[i].codec = codec
Rowed == {f \in InFiles : inRow[f] # NoFile}
Selected(codec) == {f \in Rowed : codec = "any" \/ InHasCodec(inRow[f], codec)}
count_files(codec) == Cardinality(Selected(codec))

(* migrate_cover_art_track_types, at each opening of the database. *)
InVideos(row) == {i \in DOMAIN row.tracks : row.tracks[i].type = "video"}
StillTaken(row) == [row EXCEPT !.tracks = [i \in DOMAIN @ |->
    IF @[i].type = "video" /\ @[i].codec \in IMAGE_ONLY_CODECS \ {"mjpeg"}
    THEN [@[i] EXCEPT !.type = "attachment"] ELSE @[i]]]
MjpegTaken(row) == [row EXCEPT !.tracks = [i \in DOMAIN @ |->
    IF @[i].type = "video" /\ @[i].codec = "mjpeg" /\ Cardinality(InVideos(row)) > 1
    THEN [@[i] EXCEPT !.type = "attachment"] ELSE @[i]]]
InMigrated(row) == MjpegTaken(StillTaken(row))

-----------------------------------------------------------------------------
(* ffprobe exits with an error, prints no JSON (NoProbe), or answers. *)
run_ffprobe == InProbes \union {NoProbe}
(* The introspector: an error ends it without a file, an answer is parsed. *)
introspect(f, probe) ==
    /\ inProbe[f] = NoProbe /\ probe # NoProbe
    /\ inProbe' = [inProbe EXCEPT ![f] = probe]
    /\ inParsed' = [inParsed EXCEPT ![f] = parse_ffprobe_output(probe, inMode)]
    /\ inLoaded' = NothingRead
    /\ UNCHANGED <<inMode, inRow, inReopened>>

upsert_file(f) ==
    /\ inProbe[f] # NoProbe /\ inRow[f] = NoFile
    /\ inRow' = [inRow EXCEPT ![f] = SqlFile(inParsed[f])]
    /\ inReopened' = [inReopened EXCEPT ![f] = FALSE]
    /\ inLoaded' = NothingRead
    /\ UNCHANGED <<inMode, inProbe, inParsed>>

migrate_cover_art_track_types ==
    /\ \E f \in InFiles : inRow[f] # NoFile /\ ~inReopened[f]
    /\ inRow' = [f \in InFiles |-> InMigrated(inRow[f])]
    /\ inReopened' = [f \in InFiles |-> inRow[f] # NoFile]
    /\ inLoaded' = NothingRead
    /\ UNCHANGED <<inMode, inProbe, inParsed>>

file_by_path(f) ==
    /\ inRow[f] # NoFile
    /\ inLoaded' = [of |-> f, count |-> 1,
                    files |-> IF RowReads(inRow[f]) THEN <<row_to_file(inRow[f])>> ELSE <<>>]
    /\ UNCHANGED <<inMode, inProbe, inParsed, inRow, inReopened>>

(* One row that does not read fails the whole list. *)
InUnread == <<"failed">>
list_files(codec) ==
    LET chosen == Selected(codec)
    IN /\ inLoaded' = [of |-> codec, count |-> count_files(codec),
                       files |-> IF \A f \in chosen : RowReads(inRow[f]) THEN SetToSeq(chosen) ELSE InUnread]
       /\ UNCHANGED <<inMode, inProbe, inParsed, inRow, inReopened>>

InInit ==
    /\ inMode \in {"off", "metadata_only", "heuristic"}
    /\ inProbe = [f \in InFiles |-> NoProbe]
    /\ inParsed = [f \in InFiles |-> NoFile]
    /\ inRow = [f \in InFiles |-> NoFile]
    /\ inReopened = [f \in InFiles |-> FALSE]
    /\ inLoaded = NothingRead

InNext ==
    \/ \E f \in InFiles : (\E probe \in run_ffprobe : introspect(f, probe)) \/ upsert_file(f) \/ file_by_path(f)
    \/ migrate_cover_art_track_types
    \/ \E codec \in {"any", "h264", "png"} : list_files(codec)
InSpec == InInit /\ [][InNext]_inVars

-----------------------------------------------------------------------------
InAudio(t) == t.type \in {"audio_main", "audio_alternate", "audio_commentary", "audio_music", "audio_sfx"}
InFits(f) == RowReads(inParsed[f])
ImageCoded(f) == \E i \in InVideos(inParsed[f]) : inParsed[f].tracks[i].codec \in IMAGE_ONLY_CODECS

(***************************************************************************)
(* The file a run reads from its row (file_by_path) is the file the parser *)
(* made, track by track, so a cached file is planned as a fresh one would  *)
(* be.  Numbers past the width of an i32 and moving pictures in an image   *)
(* codec, when the database was opened again, are left out.                *)
(***************************************************************************)
CachedIsFresh ==
    \A f \in InFiles :
        /\ inLoaded.of = f
        /\ InFits(f)
        /\ inReopened[f] => ~ImageCoded(f)
        => inLoaded.files = <<inParsed[f]>>

(***************************************************************************)
(* A track's index selects its own stream: ffmpeg's -map 0:index, which    *)
(* the executor builds from the track, reaches a stream of its codec       *)
(* and kind, also when the file has data streams that the parser skips.    *)
(***************************************************************************)
TracksAtTheirStream ==
    \A f \in InFiles : \A i \in DOMAIN inParsed[f].tracks :
        LET t == inParsed[f].tracks[i]
            s == inProbe[f].streams[t.index + 1]
        IN /\ t.index + 1 \in DOMAIN inProbe[f].streams
           /\ t.codec = s.codec
           /\ InAudio(t) <=> s.type = "audio"

(***************************************************************************)
(* Dynamic HDR reaches the executor: a video stream with Dolby Vision or   *)
(* HDR10+ side data, wherever in the list, is a track of that format with  *)
(* its profile, so that a transcode re-injects the metadata or refuses;    *)
(* a stream without a sign of HDR is never one.                            *)
(***************************************************************************)
DynamicHdrRecognised ==
    \A f \in InFiles : \A i \in InVideos(inParsed[f]) :
        LET t == inParsed[f].tracks[i]
            s == inProbe[f].streams[t.index + 1]
        IN /\ HasSide(s, "dovi") => t.hdr /\ t.format = "Dolby Vision" /\ t.profile = SideValue(s, "dovi")
           /\ HasSide(s, "hdr10+") /\ ~HasSide(s, "dovi") => t.hdr /\ t.format = "HDR10+"
           /\ t.format # "none" => t.hdr
           /\ s.transfer = "sdr" /\ s.side = <<>> => ~t.hdr

(***************************************************************************)
(* A picture that does not move is never the file's video, and a stream    *)
(* known to hold more than one frame always is (is_likely_cover_art_       *)
(* stream): cover art is not transcoded, a film in an image codec is.      *)
(***************************************************************************)
MotionDecides ==
    \A f \in InFiles : \A i \in DOMAIN inParsed[f].tracks :
        LET t == inParsed[f].tracks[i]
            s == inProbe[f].streams[t.index + 1]
        IN s.type = "video" =>
            /\ s.attached => t.type = "attachment"
            /\ s.codec \in IMAGE_ONLY_CODECS /\ s.nb_frames \in 0..1 => t.type = "attachment"
            /\ ~s.attached /\ s.nb_frames > 1 => t.type = "video"

(***************************************************************************)
(* A filtered listing and its count agree (list_files and count_files,     *)
(* which the web pages divide into pages), however many tracks of a file   *)
(* match; unless a row cannot be read, which fails the listing.            *)
(***************************************************************************)
CountMatchesList ==
    inLoaded.of \in {"any", "h264", "png"} /\ inLoaded.files # InUnread => Len(inLoaded.files) = inLoaded.count

-----------------------------------------------------------------------------
(***************************************************************************)
(* What plugins add to a file after ffprobe read it (wasm-plugins: audio-  *)
(* language-detector, whisper-transcriber, sonarr-metadata, radarr-        *)
(* metadata, example-metadata, subtitle-generator; the subtitle muxes of   *)
(* the two executors).  file.introspected goes to the detectors; what they *)
(* find is a metadata.enriched event, which the store keeps in plugin_data *)
(* and the subtitle generator reads; its subtitle.generated becomes a plan *)
(* of one executor.                                                        *)
(*                                                                         *)
(* A content is a number; EnTracks gives its tracks: "video", "silent", a  *)
(* language, or "mixed" for speech in two.  One job looks at one file at a *)
(* time; subtitles of two files are made side by side.                     *)
(***************************************************************************)

CONSTANTS
    EnTracks,       \* EnTracks[c]: the tracks of content c, a sequence
    EnSamples,      \* samples taken of a track
    EnMedia         \* files for which subtitles are made

EnContents == DOMAIN EnTracks
EnSources == {"audio-language-detector", "sonarr", "radarr", "example-metadata"}

VARIABLES
    enDisk,    \* the content of the file
    enHashing, \* the walk hashes files
    enCache,   \* enCache[key]: the detection cached under a key
    enData,    \* enData[s]: the content source s told of last, in plugin_data; 0: none
    enMeta,    \* the same for the plugin_metadata of the file's row
    enJob,     \* the job that looks at the file
    enSub,     \* enSub[f]: the subtitle on its way into file f
    enSrt,     \* enSrt[p]: whose lines the subtitle file p holds, or "none"
    enFile     \* enFile[f]: [content, backup, pending] of a media file

enDetectVars == <<enDisk, enHashing, enCache, enData, enMeta, enJob>>
enMuxVars == <<enSub, enSrt, enFile>>
enVars == <<enDetectVars, enMuxVars>>

(***************************************************************************)
(* Languages of tracks                                                     *)
(***************************************************************************)

(* The languages a sample of a track may be taken for. *)
Heard(track) == CASE track = "mixed" -> {"eng", "fra"} [] track = "silent" -> {"und"} [] OTHER -> {track}
IsAudio(track) == track # "video"
AudioOf(c) == {i \in DOMAIN EnTracks[c] : IsAudio(EnTracks[c][i])}

(* ffmpeg -map 0:a:N: the N-th audio track, counted from 0; a track's index  *)
(* counts every track.                                                       *)
MappedAudio(c, index) ==
    LET audio == SelectSeq(EnTracks[c], IsAudio)
    IN  IF index + 1 \in DOMAIN audio THEN audio[index + 1] ELSE "none"

(* Samples are [language, silent]: tenths of the probability of no speech.   *)
Confidence(samples, lang) ==
    LET S[i \in 0..Len(samples)] ==
            IF i = 0 THEN 0
            ELSE S[i - 1] + IF samples[i].language = lang THEN 10 - samples[i].silent ELSE 0
    IN  S[Len(samples)]
HeardIn(samples, lang) == Cardinality({i \in DOMAIN samples : samples[i].language = lang})
Speaks(s) == s.silent <= 9

(* The languages a track may be reported with: "zxx" when every sample is    *)
(* silent, "mul" when two languages have more than 70% of the speech each,   *)
(* else the one with the highest confidence.                                 *)
aggregate_samples(samples) ==
    LET speech == SelectSeq(samples, Speaks)
        langs == {speech[i].language : i \in DOMAIN speech}
        high == {l \in langs : 10 * HeardIn(speech, l) > 7 * Len(speech)}
    IN  IF speech = <<>> THEN {"zxx"}
        ELSE IF Cardinality(high) > 1 THEN {"mul"}
        ELSE {l \in langs : \A k \in langs : Confidence(speech, l) >= Confidence(speech, k)}

(* The content hash, or the path when the walk does not hash. *)
cache_key(hash, index) == <<hash, index>>

(***************************************************************************)
(* A job's look at its file                                                *)
(***************************************************************************)

NothingTold == [s \in EnSources |-> 0]
EnIdle == [pc |-> "idle", hash |-> 0, content |-> 0, todo |-> {}, track |-> 0, taken |-> 0,
           samples |-> <<>>, temp |-> FALSE, dets |-> {}, seen |-> NothingTold, told |-> NothingTold, raced |-> FALSE]
Detects(fields) == enJob' = fields @@ enJob
enDisc == <<enDisk, enHashing>>

(* process_single_file: the walk found the file; the stored row is read, and *)
(* the file introspected anew, which is told to the store, whose row is then *)
(* as ffprobe saw the file, and to the plugins.                              *)
IntrospectFile ==
    /\ enJob.pc = "idle"
    /\ enJob' = [EnIdle EXCEPT !.pc = "lookup", !.hash = IF enHashing THEN enDisk ELSE 0,
                               !.content = enDisk, !.todo = AudioOf(enDisk),
                               !.seen = enMeta, !.told = enData]
    /\ enMeta' = NothingTold
    /\ UNCHANGED <<enDisc, enCache, enData>>

(* One audio track after the other: a cached result, or samples. *)
CacheHit ==
    /\ enJob.pc = "lookup" /\ enJob.todo # {}
    /\ \E t \in enJob.todo :
          /\ \A u \in enJob.todo : t <= u
          /\ cache_key(enJob.hash, t) \in DOMAIN enCache
          /\ Detects([todo |-> enJob.todo \ {t}, dets |-> enJob.dets \cup {enCache[cache_key(enJob.hash, t)]}])
    /\ UNCHANGED <<enDisc, enCache, enData, enMeta>>

detect_track_language ==
    /\ enJob.pc = "lookup" /\ enJob.todo # {}
    /\ \E t \in enJob.todo :
          /\ \A u \in enJob.todo : t <= u
          /\ cache_key(enJob.hash, t) \notin DOMAIN enCache
          /\ Detects([pc |-> "extract", track |-> t, taken |-> 0, samples |-> <<>>])
    /\ UNCHANGED <<enDisc, enCache, enData, enMeta>>

(* ffmpeg cuts a sample into a file of its own, which is removed when that   *)
(* fails.                                                                    *)
extract_sample ==
    /\ enJob.pc = "extract" /\ enJob.taken < EnSamples
    /\ \/ MappedAudio(enDisk, enJob.track - 1) # "none" /\ Detects([pc |-> "whisper", temp |-> TRUE])
       \/ Detects([taken |-> enJob.taken + 1, temp |-> FALSE])
    /\ UNCHANGED <<enDisc, enCache, enData, enMeta>>

(* Whisper listens to the sample, which is removed whatever it says. *)
whisper_sample ==
    /\ enJob.pc = "whisper"
    /\ \/ Detects([pc |-> "extract", taken |-> enJob.taken + 1, temp |-> FALSE])
       \/ \E track \in {MappedAudio(enDisk, enJob.track - 1)} \ {"none"} :
             \E lang \in Heard(track) :
                Detects([pc |-> "extract", taken |-> enJob.taken + 1, temp |-> FALSE,
                         samples |-> Append(enJob.samples,
                            [language |-> lang, silent |-> IF track = "silent" THEN 10 ELSE 2, of |-> enDisk])])
    /\ UNCHANGED <<enDisc, enCache, enData, enMeta>>

(* No sample, no result; otherwise it is cached and reported. *)
KeepDetection ==
    /\ enJob.pc = "extract" /\ enJob.taken = EnSamples
    /\ IF enJob.samples = <<>>
       THEN Detects([pc |-> "lookup", todo |-> enJob.todo \ {enJob.track}]) /\ UNCHANGED enCache
       ELSE \E lang \in aggregate_samples(enJob.samples) :
               LET det == [track |-> enJob.track, lang |-> lang,
                           of |-> {enJob.samples[i].of : i \in DOMAIN enJob.samples}]
               IN  /\ enCache' = (cache_key(enJob.hash, enJob.track) :> det) @@ enCache
                   /\ Detects([pc |-> "lookup", todo |-> enJob.todo \ {enJob.track}, dets |-> enJob.dets \cup {det}])
    /\ UNCHANGED <<enDisc, enData, enMeta>>

(* metadata.enriched: the store keeps what a source told in plugin_data,     *)
(* under the source and the path.                                            *)
handle_metadata_enriched(s) ==
    enData' = [enData EXCEPT ![s] = enJob.content]

build_result ==
    /\ enJob.pc = "lookup" /\ enJob.todo = {}
    /\ IF enJob.dets = {} THEN UNCHANGED enData ELSE handle_metadata_enriched("audio-language-detector")
    /\ Detects([pc |-> "others"])
    /\ UNCHANGED <<enDisc, enCache, enMeta>>

(* A service that does not answer, or does not know the file, tells nothing. *)
lookup_episode == {{}, {"sonarr"}}
lookup_movie == {{}, {"radarr"}}

LookUp ==
    /\ enJob.pc = "others"
    /\ \E tv \in lookup_episode, film \in lookup_movie :
          enData' = [s \in EnSources |->
                        IF s \in tv \cup film \cup {"example-metadata"} THEN enJob.content ELSE enData[s]]
    /\ Detects([pc |-> "evaluate"])
    /\ UNCHANGED <<enDisc, enCache, enMeta>>

(* The policy is evaluated with the plugin_metadata of the row read at the   *)
(* start, detected languages among it; a crop or a violation found then is   *)
(* stored with the file as the job knows it.                                 *)
apply_detected_languages ==
    /\ enJob.pc = "evaluate"
    /\ enMeta' \in {enMeta, enJob.seen}
    /\ Detects([pc |-> "evaluated"])
    /\ UNCHANGED <<enDisc, enCache, enData>>

EndOfJob ==
    /\ enJob.pc = "evaluated"
    /\ enJob' = EnIdle
    /\ UNCHANGED <<enDisc, enCache, enData, enMeta>>

FileReplaced ==
    /\ enDisk + 1 \in EnContents
    /\ enDisk' = enDisk + 1
    /\ enJob' = [enJob EXCEPT !.raced = @ \/ enJob.pc # "idle"]
    /\ UNCHANGED <<enHashing, enCache, enData, enMeta>>

DetectInit ==
    /\ enDisk = 1 /\ enHashing = TRUE /\ enCache = << >>
    /\ enData = NothingTold /\ enMeta = NothingTold
    /\ enJob = EnIdle

DetectNext ==
    \/ IntrospectFile \/ CacheHit \/ detect_track_language \/ extract_sample \/ whisper_sample
    \/ KeepDetection \/ build_result \/ LookUp \/ apply_detected_languages \/ EndOfJob \/ FileReplaced

(***************************************************************************)
(* Subtitles                                                               *)
(***************************************************************************)

NoSub == [pc |-> "none", lines |-> {}, srt |-> "none", queue |-> <<>>, temp |-> FALSE, uncopied |-> FALSE]
Sub(f, fields) == enSub' = [enSub EXCEPT ![f] = fields @@ @]
Subtitled == "muxed"

(* Transcripts: the languages of the segments, in order, and the one the     *)
(* whole is in.  A segment without a language or text is not shown.          *)
Transcripts == {<<"eng", "fra", "eng">>, <<"eng", "eng">>, <<"fra", "none", "fra">>, <<>>}


foreign_segments(t, main) == {i \in DOMAIN t : t[i] \notin {"none", main}}

(* The subtitle file is named after the media file, without its extension. *)
srt_path(f) == f

(* whisper-transcriber: nothing when ffmpeg or Whisper fails, or when the    *)
(* transcript cannot be read; subtitle-generator: nothing when no segment is *)
(* foreign or the file cannot be written.                                    *)
GenerateSubtitle(f) ==
    /\ enSub[f].pc = "none"
    /\ \E t \in Transcripts :
          /\ foreign_segments(t, "eng") # {}
          /\ Sub(f, [pc |-> "generated", lines |-> {t[i] : i \in foreign_segments(t, "eng")}, srt |-> srt_path(f)])
    /\ enSrt' = [enSrt EXCEPT ![srt_path(f)] = f]
    /\ UNCHANGED enFile

NoSubtitle(f) ==
    /\ enSub[f].pc = "none"
    /\ Sub(f, [pc |-> "ended"])
    /\ UNCHANGED <<enSrt, enFile>>

(* The executor of the container claims the event and makes a plan of it.    *)
handle_subtitle_generated(f) ==
    /\ enSub[f].pc = "generated"
    /\ Sub(f, [pc |-> "cascade", queue |-> <<"PlanExecuting", "PlanCreated">>])
    /\ UNCHANGED <<enSrt, enFile>>

NotClaimed(f) ==
    /\ enSub[f].pc = "generated"
    /\ Sub(f, [pc |-> "ended"])
    /\ UNCHANGED <<enSrt, enFile>>

Awaits(f, event) == enSub[f].pc = "cascade" /\ enSub[f].queue # <<>> /\ Head(enSub[f].queue) = event

(* The store notes an operation in flight, the backup manager copies the     *)
(* file unless it holds a copy.  A copy that fails stops nobody.             *)
PlanExecuting(f) ==
    /\ Awaits(f, "PlanExecuting")
    /\ \E copied \in BOOLEAN :
          /\ enFile' = [enFile EXCEPT ![f].pending = TRUE,
                           ![f].backup = IF @ # "none" \/ ~copied THEN @ ELSE enFile[f].content]
          /\ Sub(f, [queue |-> Tail(enSub[f].queue), uncopied |-> enSub[f].uncopied \/ ~copied])
    /\ UNCHANGED enSrt

PlanCreated(f) ==
    /\ Awaits(f, "PlanCreated")
    /\ Sub(f, [pc |-> "tool", queue |-> Tail(enSub[f].queue)])
    /\ UNCHANGED <<enSrt, enFile>>

(* mkvmerge or ffmpeg writes beside the file. *)
RunMux(f) ==
    /\ enSub[f].pc = "tool"
    /\ \/ Sub(f, [pc |-> "rename", temp |-> TRUE, srt |-> enSrt[srt_path(f)]])
       \/ Sub(f, [pc |-> "cascade"])
    /\ UNCHANGED <<enSrt, enFile>>

(* The write is recorded and the output takes the file's place; when either  *)
(* fails the output is removed.                                              *)
RenameMuxed(f) ==
    /\ enSub[f].pc = "rename"
    /\ \/ /\ enFile' = [enFile EXCEPT ![f].content = Subtitled]
          /\ Sub(f, [pc |-> "cascade", temp |-> FALSE])
       \/ Sub(f, [pc |-> "cascade", temp |-> FALSE]) /\ UNCHANGED enFile
    /\ UNCHANGED enSrt

CascadeEnds(f) ==
    /\ enSub[f].pc = "cascade" /\ enSub[f].queue = <<>>
    /\ Sub(f, [pc |-> "ended"])
    /\ UNCHANGED <<enSrt, enFile>>

(* The next run takes an operation in flight for one that was cut short, and *)
(* puts the copy back.                                                       *)
NextRunRecovers(f) ==
    /\ \A g \in EnMedia : enSub[g].pc \in {"ended", "recovered"}
    /\ enSub[f].pc = "ended"
    /\ enFile' = [enFile EXCEPT ![f] = [content |-> IF @.pending /\ @.backup # "none" THEN @.backup ELSE @.content,
                                         backup |-> IF @.pending THEN "none" ELSE @.backup, pending |-> FALSE]]
    /\ Sub(f, [pc |-> "recovered"])
    /\ UNCHANGED enSrt

MuxInit ==
    /\ enSub = [f \in EnMedia |-> NoSub]
    /\ enSrt = [p \in EnMedia \cup {"forced"} |-> "none"]
    /\ enFile = [f \in EnMedia |-> [content |-> "original", backup |-> "none", pending |-> FALSE]]

MuxNext ==
    \E f \in EnMedia :
        \/ GenerateSubtitle(f) \/ NoSubtitle(f) \/ handle_subtitle_generated(f) \/ NotClaimed(f)
        \/ PlanExecuting(f) \/ PlanCreated(f) \/ RunMux(f) \/ RenameMuxed(f) \/ CascadeEnds(f)
        \/ NextRunRecovers(f)

(***************************************************************************)
(* Properties                                                              *)
(***************************************************************************)

(* A detection reported for a file comes from samples of the content with    *)
(* the file's hash, whether it was cached by this or by an earlier job       *)
(* (detector lib.rs:112-139), unless the file was replaced under the job.    *)
DetectionsOfContent ==
    enJob.hash # 0 /\ ~enJob.raced => \A d \in enJob.dets : d.of = {enJob.hash}

(* A language is reported only when a track of the file speaks it: silence   *)
(* is never taken for a language (lib.rs:353-379).                           *)
SpokenLanguageReported ==
    \A d \in enJob.dets :
        d.lang \in {"zxx"} \cup UNION {UNION {Heard(EnTracks[c][i]) : i \in {j \in AudioOf(c) : EnTracks[c][j] # "silent"}} : c \in d.of}

(* Samples are removed whether cutting them or listening to them succeeds    *)
(* or not (lib.rs:255-275).                                                  *)
SamplesRemoved == enJob.pc \notin {"extract", "whisper"} => ~enJob.temp

(* The file a subtitle is muxed into was copied first (mkvtoolnix lib.rs:    *)
(* 233-234), unless the copy failed.                                         *)
CopiedBeforeMux ==
    \A f \in EnMedia :
        enFile[f].content = Subtitled /\ enSub[f].pc # "recovered" => enFile[f].backup = "original" \/ enSub[f].uncopied

(* The lines muxed into a file are its own, and all are in a language other  *)
(* than the file's (subtitle-generator lib.rs:96-138), although two files'   *)
(* subtitles are made at the same time.                                      *)
OwnForeignLines ==
    \A f \in EnMedia :
        enSub[f].pc = "rename" => enSub[f].srt = f /\ enSub[f].lines # {} /\ enSub[f].lines \cap {"none", "eng"} = {}

(* No output of a mux is left beside the file (mkvtoolnix lib.rs:325-328,    *)
(* ffmpeg lib.rs:422-428).                                                   *)
MuxOutputNeverLeft == \A f \in EnMedia : enSub[f].pc \in {"ended", "recovered"} => ~enSub[f].temp

=============================================================================
