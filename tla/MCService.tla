----------------------------- MODULE MCService ------------------------------
(* Opening the store, a file's way through its phases, the web interface,   *)
(* its event stream (one client more than may connect), and the composition *)
(* of a policy.                                                             *)
EXTENDS SchemaMigration, ProcessFile, WebServer, PolicyComposition

-----------------------------------------------------------------------------
(* Small instance of SchemaMigration. *)
CONSTANTS o1, o2

Track(c, k) == [n |-> k, codec |-> c, type |-> "video"]

mcTracks ==
  [film |-> {Track("h264", 1), Track("mjpeg", 2)}, motion |-> {Track("mjpeg", 1), Track("png", 2)}]

\* A database of a release that already had the columns the batch indexes, the
\* columns and tables of the later releases missing.
mcRecentDatabase ==
  [tables |-> (FreshDatabase.tables \ {"plugin_stats", "cost_model_samples"})
              \cup {"processing_stats"},
   cols |-> (FreshDatabase.cols
              \ {<<"tracks", "dolby_vision_profile">>, <<"files", "crop_left">>,
                 <<"plans", "session_id">>, <<"file_transitions", "outcome">>})
            \cup {<<"scan_session_mutations", "original_path">>},
   indexes |-> FreshDatabase.indexes
              \ {"idx_subtitles_unique", "idx_plans_session", "idx_jobs_completed_at"},
   dups |-> TRUE,
   forked |-> FALSE,
   tracks |-> mcTracks]

\* A database from before a column that the batch now indexes, and one whose
\* files were superseded by the same file before an index forbade it.
mcColumnless ==
  [FreshDatabase EXCEPT !.cols = @ \ {<<"files", "superseded_by">>},
                        !.indexes = @ \ {"idx_files_superseded_by", "idx_files_superseded_by_unique"},
                        !.tracks = mcTracks]
mcForked == [FreshDatabase EXCEPT !.indexes = @ \ {"idx_files_superseded_by_unique"}, !.forked = TRUE, !.tracks = mcTracks]

mcDatabases == {EmptyDatabase, mcRecentDatabase, mcColumnless, mcForked}

mcTwo == {o1, o2}
\* Somebody opens the database first: call them o1.
SmMCInit ==
  /\ smDb \in SmDatabases /\ smFirst = smDb
  /\ smPc = [o \in SmOpeners |-> IF o = o1 THEN 1 ELSE 0]
  /\ smAlone = {o1} /\ smDecided = {} /\ smRestarts = 0

-----------------------------------------------------------------------------
(* Small instances of ProcessFile: one file through all its phases, changed  *)
(* by others; and two files side by side, in their last phase.               *)
PfOne ==
    /\ PfStart /\ pfChanges = 0
    /\ \E f \in PfFiles :
          /\ pfJob = [g \in PfFiles |-> IF g = f THEN IdleJob ELSE [IdleJob EXCEPT !.pc = "done", !.result = "ok"]]
          /\ \A g \in PfFiles \ {f} : pfRow[g].usable
PfBoth ==
    /\ PfStart /\ pfChanges = PfMaxChanges
    /\ pfJob = [f \in PfFiles |-> [IdleJob EXCEPT !.phase = PfPhases]]

PfMCInit == PfOne \/ PfBoth

-----------------------------------------------------------------------------
(* Histories of up to four verifications for TLC.                          *)
mcWaHistories == UNION {[1..k -> [file : {"a", "b", "c"}, error : BOOLEAN]] : k \in 0..4}

\* Some request of the server arrives first: call it the first one.
WaMCInit ==
  /\ \/ WaInit /\ waPart # "serve"
     \/ /\ waPart = "serve" /\ waWalk = NoWalk /\ WaStart
        /\ \E q \in Arrivals : waReq = [r \in WaRequests |-> IF r = 1 THEN q ELSE FreeSlot]

-----------------------------------------------------------------------------
Phase(n, ext, deps, ops) == [name |-> n, extend |-> ext, skip_when |-> Unset, depends_on |-> deps,
                             run_if |-> Unset, on_error |-> Unset, ops |-> ops]
Source(kind, ext, phases, cfg) == [kind |-> kind, extends |-> ext, phases |-> phases,
                                   stated |-> [config |-> cfg, version |-> Unset]]

\* One policy of three phases with every dependency relation between them.
DepLists == {<<>>, <<"a">>, <<"b">>, <<"c">>, <<"b", "a">>, <<"b", "b">>, <<"c", "zz">>}
Graphs3 == {("p" :> Source("file", NoSource, <<Phase("a", FALSE, x, <<"p">>), Phase("b", FALSE, y, <<"p">>),
                                               Phase("c", FALSE, z, <<"p">>)>>, Unset)) : x, y, z \in DepLists}

\* Chains of three sources over two phase names; each operation is named for
\* the source that states it.
PhasesOf(s) ==
  LET one == {Phase(n, e, d, <<s>>) : n \in {"a", "b"}, e \in BOOLEAN, d \in {Unset, <<>>}}
  IN {<<>>} \cup {<<x>> : x \in one} \cup {<<x, y>> : x, y \in one}
BasePhases == {<<Phase("a", FALSE, Unset, <<"base">>)>>,
               <<Phase("b", FALSE, <<"a">>, <<"base">>), Phase("a", FALSE, Unset, <<"base">>)>>,
               <<Phase("a", TRUE, Unset, <<"base">>)>>}
Chains == {("base" :> Source("bundled", NoSource, x, "c0")) @@ ("mid" :> Source("bundled", "base", y, Unset))
           @@ ("top" :> Source(k, "mid", z, IF Len(z) = 1 THEN "c1" ELSE Unset)) :
             x \in BasePhases, y \in {q \in PhasesOf("mid") : Len(q) < 2}, z \in {q \in PhasesOf("top") : Len(q) = 2 => q[2].depends_on = Unset}, k \in {"file", "inline"}}
\* Extends clauses that go anywhere, in circles too.
Circles == {("base" :> Source(k, x, <<Phase("a", FALSE, Unset, <<"base">>)>>, Unset))
            @@ ("mid" :> Source("file", y, <<>>, Unset)) @@ ("top" :> Source("file", z, <<>>, Unset)) :
              x, y, z \in {NoSource, "base", "mid", "top", "gone"}, k \in {"bundled", "file", "inline"}}
mcLibrary == Graphs3 \cup Chains \cup {l \in Circles : \A s \in DOMAIN l : l["base"].kind = "inline" => l[s].extends # "base"}
mcNames == <<"a", "b", "c">>

-----------------------------------------------------------------------------
VARIABLE part

(* A part that is not looked at stands still. *)
aLibrary == CHOOSE l \in Graphs3 : TRUE
FileIdle ==
  /\ pfArgs = [dry |-> TRUE, force |-> FALSE, hashes |-> FALSE]
  /\ pfRow = [f \in PfFiles |-> [usable |-> TRUE, hash |-> 1, expected |-> 1]]
  /\ PfStart /\ pfChanges = 0
  /\ pfJob = [g \in PfFiles |-> [IdleJob EXCEPT !.pc = "done", !.result = "ok"]]
CompIdle ==
  /\ library = aLibrary
  /\ allow = "Yes" /\ stack = <<>>
  /\ resolved = [phases |-> <<>>, sources |-> <<>>, stated |-> <<>>, chain |-> <<>>]
  /\ step = "start" /\ verdict = "none" /\ order = <<>>

partsVars == <<part, smVars, pfVars, waVars, webVars, compVars>>

\* One part is looked at; the others stay in a state of their own.
PartsInit ==
  /\ part \in {"schema", "file", "api", "web", "compose"}
  /\ IF part = "schema" THEN SmMCInit
     ELSE smDb = EmptyDatabase /\ SmInit
  /\ IF part = "file" THEN PfMCInit
     ELSE FileIdle
  /\ IF part = "api" THEN WaMCInit
     ELSE waPart = "serve" /\ WaInit
  /\ WebInit
  /\ IF part = "compose" THEN CompInit
     ELSE CompIdle

NotSchema == <<pfVars, waVars, webVars, compVars>>
NotFile == <<smVars, waVars, webVars, compVars>>
NotApi == <<smVars, pfVars, webVars, compVars>>
NotWeb == <<smVars, pfVars, waVars, compVars>>
NotCompose == <<smVars, pfVars, waVars, webVars>>

PartsNext ==
  /\ UNCHANGED part
  /\ \/ part = "schema" /\ SmNext /\ UNCHANGED NotSchema
     \/ part = "file" /\ PfNextStep /\ UNCHANGED NotFile
     \/ part = "api" /\ WaNext /\ UNCHANGED NotApi
     \/ part = "web" /\ WebNext /\ UNCHANGED NotWeb
     \/ part = "compose" /\ CompNext /\ UNCHANGED NotCompose

mcOpener == <<o1, o2>>
mcFile == SetToSeq(PfFiles)

PartsSpec ==
  /\ PartsInit /\ [][PartsNext]_partsVars
  /\ \A o \in SmOpeners : WF_smVars(part = "schema" /\ SmStep(o))
  /\ \A f \in PfFiles : WF_pfVars(part = "file" /\ PfStep(f))
  /\ \A r \in WaRequests : WF_waVars(part = "api" /\ WaServer(r))
  /\ WF_compVars(part = "compose" /\ Resolve)

\* What the k-th opener, job or request, or the resolution, has under way.
UnderWay(k) ==
  \/ part = "schema" /\ Running(mcOpener[k])
  \/ part = "file" /\ pfJob[mcFile[k]].pc # "done"
  \/ part = "api" /\ (waReq[k].op # "none" \/ waReq[k].at \notin {"free", "answered", "dropped"})
  \/ part = "compose" /\ step = "descend"

\* Whatever is asked of the service ends under fair scheduling: an open of the
\* database, opened or refused, whoever else opens it (from_manager); a job of a
\* run, because a place of the encoder always comes back whether plans fail, are
\* refused or the run stops (pipeline.rs:376, 416); a web request, also while a
\* command holds the process lock for as long as it likes (try_lock_exclusive), and
\* what a request started whose client left; and the resolution of a policy,
\* because a source that is met again is refused (push_source).
EveryRequestEnds == \A k \in 1..2 : UnderWay(k) ~> ~UnderWay(k)
=============================================================================
