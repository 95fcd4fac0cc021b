---------------------------- MODULE ProcessFile -----------------------------
(***************************************************************************)
(* The jobs of one "voom process" run (process/pipeline.rs, safeguards.rs, *)
(* audio_language.rs, transitions.rs): each loads or introspects its file, *)
(* checks that it did not change, and takes it through the phases of its   *)
(* policy, evaluating each phase against what the previous one left.       *)
(* Jobs run side by side and share the places of the hardware encoder, the *)
(* counters of the run and its cancellation; files may be changed by       *)
(* others at any moment.                                                   *)
(*                                                                         *)
(* A content is a number; a job believes a content's hash and its tracks.  *)
(***************************************************************************)
EXTENDS FiniteSets, Integers, TLC

CONSTANTS
    PfFiles,       \* files with a job in this run
    PfPhases,      \* phases of the policy
    PfPlaces,      \* plans the hardware encoder takes at a time
    PfMaxChanges,  \* bound: changes made by others
    PfKinds        \* the plans an evaluation may give: "ends" (none, too little
                   \* to save, skipped, empty), "remux", a transcode "plain" or with "crop"

ASSUME PfPlaces \in Nat \ {0} /\ PfPhases \in Nat \ {0}

VARIABLES
    pfArgs,   \* [dry, force, hashes]: the options of the run
    pfDisk,   \* pfDisk[f]: the content of a file, Gone when it is not there
    pfRow,    \* pfRow[f]: its row: [usable, hash, expected]; usable: it is active, has
              \* tracks, and the ingest did not ask for a new introspection
    pfJob,    \* pfJob[f]: its job
    pfFailed, \* pfFailed[f]: its plans that phase_stats counts as failed
    pfStop,   \* the run is cancelled
    pfChanges \* changes made by others so far

pfVars == <<pfArgs, pfDisk, pfRow, pfJob, pfFailed, pfStop, pfChanges>>

Gone == 0
NoHash == 0

(* doubt: why the job may be wrong about its file: others changed it         *)
(* ("raced"), its output could not be probed or hashed ("unprobed",          *)
(* "unhashed"), a refused output is still there ("unrestored").              *)
IdleJob == [pc |-> "queued", phase |-> 1, kind |-> "ends", same |-> TRUE, hash |-> NoHash, tracks |-> 0,
            before |-> 0, permit |-> FALSE, failed |-> 0, wrote |-> FALSE, doubt |-> {}, result |-> "open"]

PfStart ==
    /\ pfArgs \in [dry : BOOLEAN, force : BOOLEAN, hashes : BOOLEAN]
    /\ pfDisk = [f \in PfFiles |-> 1]
    /\ pfRow \in [PfFiles -> [usable : BOOLEAN, hash : {1}, expected : {1}]]
    /\ pfFailed = [f \in PfFiles |-> 0]
    /\ pfStop = FALSE

PfInit == PfStart /\ pfJob = [f \in PfFiles |-> IdleJob] /\ pfChanges = 0

(* What the walk found, and put in the job's payload: the content it saw     *)
(* first, and its hash unless hashing is off.                                *)
PayloadHash == IF pfArgs.hashes THEN 1 ELSE NoHash

Permits == {f \in PfFiles : pfJob[f].permit}
At(f, pc) == pfJob[f].pc = pc
CountsFailed(f) == pfFailed' = [pfFailed EXCEPT ![f] = @ + 1]
Job(f, fields) == pfJob' = [pfJob EXCEPT ![f] = fields @@ @]
JobEnds(f, result) ==
    pfJob' = [pfJob EXCEPT ![f] = [IdleJob EXCEPT !.pc = "done", !.result = result,
                                      !.same = pfJob[f].same, !.wrote = pfJob[f].wrote,
                                      !.doubt = pfJob[f].doubt]]
pfWorld == <<pfArgs, pfDisk, pfChanges, pfStop>>

(***************************************************************************)
(* The file                                                                *)
(***************************************************************************)

(* The stored row serves when nothing forces a rescan, neither the command   *)
(* nor the ingest of a moved or changed file, it is active with tracks, and  *)
(* its hash is the one discovered.                                           *)
matches_discovery(f) ==
    ~pfArgs.force /\ pfRow[f].usable /\ PayloadHash # NoHash /\ pfRow[f].hash = PayloadHash

LoadStored(f) ==
    /\ At(f, "queued") /\ matches_discovery(f)
    /\ Job(f, [pc |-> "policy", same |-> TRUE, hash |-> pfRow[f].hash, tracks |-> pfRow[f].hash])
    /\ UNCHANGED <<pfWorld, pfRow, pfFailed>>

(* Otherwise ffprobe reads what is on disk now; the hash stays the one       *)
(* discovered, and the file gets an identity of its own.  The row is written *)
(* under the identity it has.                                                *)
introspect_file(f) ==
    /\ At(f, "queued") /\ ~matches_discovery(f) /\ pfDisk[f] # Gone
    /\ Job(f, [pc |-> "policy", same |-> FALSE, hash |-> PayloadHash, tracks |-> pfDisk[f]])
    /\ pfRow' = [pfRow EXCEPT ![f] = [@ EXCEPT !.usable = TRUE, !.hash = PayloadHash]]
    /\ UNCHANGED <<pfWorld, pfFailed>>

IntrospectionFails(f) ==
    /\ At(f, "queued") /\ ~matches_discovery(f)
    /\ JobEnds(f, "error")
    /\ UNCHANGED <<pfWorld, pfRow, pfFailed>>

(* The policy map excludes the file, has nothing for it, or names a policy.  *)
ResolvePolicy(f) ==
    /\ At(f, "policy")
    /\ \/ JobEnds(f, "ok")
       \/ JobEnds(f, "error")
       \/ Job(f, [pc |-> IF pfArgs.dry THEN "dry" ELSE "check"])
    /\ UNCHANGED <<pfWorld, pfRow, pfFailed>>

(* A dry run evaluates every phase at once and leaves the file alone. *)
process_single_file_dry_run(f) ==
    /\ At(f, "dry")
    /\ \/ JobEnds(f, "ok")
       \/ JobEnds(f, "error")
    /\ UNCHANGED <<pfWorld, pfRow, pfFailed>>

(* A file whose content is no longer the one discovered, or that cannot be   *)
(* hashed, is left alone; with no hash there is nothing to compare.          *)
check_file_hash(f) ==
    /\ At(f, "check")
    /\ \/ pfJob[f].hash = NoHash /\ Job(f, [pc |-> "phase"])
       \/ pfJob[f].hash = pfDisk[f] /\ pfDisk[f] # Gone /\ Job(f, [pc |-> "phase", doubt |-> {}])
       \/ pfJob[f].hash # NoHash /\ JobEnds(f, "ok")
    /\ UNCHANGED <<pfWorld, pfRow, pfFailed>>

(***************************************************************************)
(* The phases                                                              *)
(***************************************************************************)

NextPhaseOf(f) == [pc |-> "phase", phase |-> pfJob[f].phase + 1, permit |-> FALSE, before |-> 0]

(* The end of the phases: a job with a failed plan fails. *)
EndFile(f) ==
    /\ At(f, "phase") /\ (pfJob[f].phase > PfPhases \/ pfStop)
    /\ JobEnds(f, IF pfJob[f].failed > 0 THEN "error" ELSE "ok")
    /\ UNCHANGED <<pfWorld, pfRow, pfFailed>>

(* One phase is evaluated against the job's file.  A plan below the savings  *)
(* asked for, a skipped one and an empty one end here.                       *)
Evaluate(f) ==
    /\ At(f, "phase") /\ pfJob[f].phase <= PfPhases /\ ~pfStop
    /\ \E kind \in PfKinds :
          CASE kind = "ends" -> Job(f, NextPhaseOf(f))
            [] kind = "crop" -> Job(f, [pc |-> "crop", kind |-> kind])
            [] OTHER -> Job(f, [pc |-> "space", kind |-> kind])
    /\ UNCHANGED <<pfWorld, pfRow, pfFailed>>

EvaluateFails(f) ==
    /\ At(f, "phase") /\ pfJob[f].phase <= PfPhases /\ ~pfStop
    /\ JobEnds(f, "error")
    /\ UNCHANGED <<pfWorld, pfRow, pfFailed>>

(* A place of the encoder, or the end of the phases when the run stops while *)
(* the job waits.                                                            *)
AcquirePermit(f) ==
    /\ pfJob[f].pc \in {"crop", "place"}
    /\ \/ /\ pfStop
          /\ Job(f, [pc |-> "phase", phase |-> PfPhases + 1])
       \/ /\ ~pfStop
          /\ pfJob[f].kind = "remux" \/ Cardinality(Permits) < PfPlaces
          /\ Job(f, [pc |-> IF At(f, "crop") THEN "detect" ELSE "execute", permit |-> pfJob[f].kind # "remux"])
    /\ UNCHANGED <<pfWorld, pfRow, pfFailed>>

(* A plan that did not go through: its phase is counted as failed, and the   *)
(* job goes on with the next phase.                                          *)
PlanFailed(f) ==
    /\ CountsFailed(f)
    /\ Job(f, [failed |-> pfJob[f].failed + 1] @@ NextPhaseOf(f))

(* Crop detection, under the place the plan will use; a result is stored     *)
(* with the file, under its path.                                            *)
apply_auto_crop_detection(f) ==
    /\ At(f, "detect")
    /\ \/ Job(f, [pc |-> "space"]) /\ UNCHANGED <<pfRow, pfFailed>>
       \/ Job(f, [pc |-> "space"]) /\ UNCHANGED pfFailed /\ pfRow' = [pfRow EXCEPT ![f].hash = pfJob[f].hash]
       \/ PlanFailed(f) /\ UNCHANGED pfRow
    /\ UNCHANGED pfWorld

(* Too little space fails the plan; so does nothing else here. *)
check_disk_space(f) ==
    /\ At(f, "space")
    /\ \/ Job(f, [pc |-> IF pfJob[f].permit THEN "execute" ELSE "place"]) /\ UNCHANGED pfFailed
       \/ PlanFailed(f)
    /\ UNCHANGED <<pfWorld, pfRow>>

(* The executor, seen from the job: the file has a new content, or it failed *)
(* and the file is as it was.  A task that panics ends the job.              *)
execute_single_plan(f) ==
    /\ At(f, "execute")
    /\ \/ /\ pfDisk[f] # Gone /\ pfDisk' = [pfDisk EXCEPT ![f] = @ + 1]
          /\ Job(f, [pc |-> "grown", permit |-> FALSE, before |-> pfDisk[f]])
       \/ /\ UNCHANGED <<pfDisk>>
          /\ Job(f, [pc |-> "failed", permit |-> FALSE])
       \/ /\ UNCHANGED <<pfDisk>>
          /\ JobEnds(f, "error")
    /\ UNCHANGED <<pfArgs, pfChanges, pfStop, pfRow, pfFailed>>

(* A plan whose output is refused has failed, and what it wrote is undone    *)
(* when there is a backup.  The job goes on with the file as it knew it.     *)
record_safeguard_failure(f) ==
    /\ CountsFailed(f)
    /\ \E restored \in BOOLEAN :
          /\ pfDisk' = IF restored THEN [pfDisk EXCEPT ![f] = pfJob[f].before] ELSE pfDisk
          /\ Job(f, [failed |-> pfJob[f].failed + 1,
                     doubt |-> pfJob[f].doubt \union (IF restored THEN {} ELSE {"unrestored"})] @@ NextPhaseOf(f))

(* The output must not have grown, and then not have got shorter; one that   *)
(* cannot be probed is refused too, one that is not there is not looked at.  *)
check_size_increase(f) ==
    /\ At(f, "grown")
    /\ \/ Job(f, [pc |-> "shrunk"]) /\ UNCHANGED <<pfFailed, pfDisk>>
       \/ pfDisk[f] # Gone /\ record_safeguard_failure(f)
    /\ UNCHANGED <<pfArgs, pfChanges, pfStop, pfRow>>

check_duration_shrink(f) ==
    /\ At(f, "shrunk")
    /\ \/ Job(f, [pc |-> "success"]) /\ UNCHANGED <<pfFailed, pfDisk>>
       \/ pfDisk[f] # Gone /\ record_safeguard_failure(f)
    /\ UNCHANGED <<pfArgs, pfChanges, pfStop, pfRow>>

(* The failure is told; when it cannot be recorded the job ends at once. *)
ExecutionFailed(f) ==
    /\ At(f, "failed")
    /\ \/ PlanFailed(f)
       \/ CountsFailed(f) /\ JobEnds(f, "error")
    /\ UNCHANGED <<pfWorld, pfRow>>

(* What the job believes of the file after a plan.  The output is hashed and *)
(* then probed, and either may fail.  A probed file has the hash just taken, *)
(* or none; one that could not be probed keeps the old tracks, and the old   *)
(* hash when there is no new one.  When there is no file to look at, the job *)
(* goes on with the one it had.                                              *)
reintrospect_file(f) ==
    IF pfDisk[f] = Gone
    THEN {[hash |-> pfJob[f].hash, tracks |-> pfJob[f].tracks, doubt |-> {"unprobed", "unhashed"}]}
    ELSE {[hash |-> IF hashed THEN pfDisk[f] ELSE IF probed THEN NoHash ELSE pfJob[f].hash,
           tracks |-> IF probed THEN pfDisk[f] ELSE pfJob[f].tracks,
           doubt |-> (IF hashed THEN {} ELSE {"unhashed"}) \union (IF probed THEN {} ELSE {"unprobed"})] :
             hashed \in BOOLEAN, probed \in BOOLEAN}


(* A changed hash becomes the one expected of the file, in the row with the  *)
(* job's identity: an identity of the job's own has none.  A file without a  *)
(* hash leaves what was expected.                                            *)
record_file_transition(f, new) ==
    IF new \in {NoHash, pfJob[f].hash} \/ ~pfJob[f].same THEN pfRow ELSE [pfRow EXCEPT ![f].expected = new]

handle_plan_success(f) ==
    /\ At(f, "success")
    /\ \/ \E seen \in reintrospect_file(f) :
             /\ Job(f, seen @@ [wrote |-> TRUE] @@ NextPhaseOf(f))
             /\ pfRow' = record_file_transition(f, seen.hash)
       \/ JobEnds(f, "error") /\ UNCHANGED pfRow
    /\ UNCHANGED <<pfWorld, pfFailed>>

(***************************************************************************)
(* Everybody else                                                          *)
(***************************************************************************)

ChangedByOthers(f) ==
    /\ pfChanges < PfMaxChanges
    /\ pfChanges' = pfChanges + 1
    /\ pfDisk[f] # Gone
    /\ \E content \in {Gone, pfDisk[f] + 1} : pfDisk' = [pfDisk EXCEPT ![f] = content]
    /\ pfJob' = [pfJob EXCEPT ![f].doubt = @ \union {"raced"}]
    /\ UNCHANGED <<pfArgs, pfRow, pfFailed, pfStop>>

InterruptJob ==
    /\ ~pfStop /\ pfStop' = TRUE
    /\ UNCHANGED <<pfArgs, pfDisk, pfRow, pfJob, pfFailed, pfChanges>>

PfStep(f) ==
    \/ LoadStored(f) \/ introspect_file(f) \/ IntrospectionFails(f) \/ ResolvePolicy(f)
    \/ process_single_file_dry_run(f) \/ check_file_hash(f)
    \/ Evaluate(f) \/ EvaluateFails(f) \/ EndFile(f)
    \/ AcquirePermit(f) \/ apply_auto_crop_detection(f) \/ check_disk_space(f)
    \/ execute_single_plan(f) \/ check_size_increase(f) \/ check_duration_shrink(f)
    \/ ExecutionFailed(f) \/ handle_plan_success(f)

PfNextStep == InterruptJob \/ \E f \in PfFiles : PfStep(f) \/ ChangedByOthers(f)
PfSpec == PfInit /\ [][PfNextStep]_pfVars /\ \A f \in PfFiles : WF_pfVars(PfStep(f))

(***************************************************************************)
(* Properties                                                              *)
(***************************************************************************)

(* A plan is carried out on the content it was made for, although it was     *)
(* evaluated steps earlier and other plans of the same file ran in between   *)
(* (pipeline.rs:284-286, 457-466), unless somebody else changed the file     *)
(* after its hash was checked, or what is on disk could not be probed again  *)
(* or is an output that was refused and not undone.                          *)
PlanFitsFile ==
    \A f \in PfFiles :
        At(f, "execute") /\ pfJob[f].doubt \subseteq {"unhashed"} => pfJob[f].tracks = pfDisk[f]

(* A job that completes has no plan counted as failed in the run's summary   *)
(* (pipeline.rs:491-495, safeguards.rs:38-42): nothing fails silently.       *)
JobReportsFailures == \A f \in PfFiles : pfJob[f].result = "ok" => pfFailed[f] = 0

(* No more transcodes run at a time than the encoder has places, crop        *)
(* detection included (pipeline.rs:355-406).                                 *)
EncoderWithinPlaces ==
    Cardinality({f \in PfFiles : pfJob[f].pc \in {"detect", "execute"} /\ pfJob[f].kind # "remux"}) <= PfPlaces

(* When a job that took its file from the store is over, the hash expected   *)
(* of the file is that of the content its plans left (transitions.rs:61-79), *)
(* so a later scan does not take the change for somebody else's, even if the *)
(* content could not be probed.  Apart from a change made by others and a    *)
(* refused output that was not undone, one case is left: the last output     *)
(* could not be hashed (pipeline.rs:668-681), and the row still expects the  *)
(* content before it.                                                        *)
KnownRowsFollow ==
    \A f \in PfFiles :
        pfJob[f].result = "ok" /\ pfJob[f].same /\ pfJob[f].wrote /\ pfJob[f].doubt \subseteq {"unprobed"} =>
            pfRow[f].expected = pfDisk[f]

=============================================================================
