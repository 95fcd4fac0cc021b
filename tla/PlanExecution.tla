--------------------------- MODULE PlanExecution ----------------------------
(***************************************************************************)
(* How `voom process` carries out the plans of a file and what it leaves on  *)
(* disk when a step fails or the process dies: the phase loop of a job, the  *)
(* plan events on the bus as backup-manager, sqlite-store and an executor    *)
(* handle them (in that order of priority), the safeguards, and the crash    *)
(* recovery that the next run begins with.                                   *)
(*                                                                           *)
(* A copy onto a file (fs::copy) and an edit in place (mkvpropedit) are two  *)
(* steps with the file Torn in between; a rename is one. The history         *)
(* variable exposed collects the circumstances the code does not guard       *)
(* against; each safety property names those it still holds under.           *)
(* Backups are made beside the file; those of a global directory, and the    *)
(* names that are ambiguous there, are in module Backups.                    *)
(***************************************************************************)
EXTENDS FiniteSets, Naturals

CONSTANTS PlanPath, PlanSource,    \* paths, and those that hold a file at first
          Converted,       \* where a container conversion of a path ends up
          Kind,            \* how executors write: "edit", "rename", "convert"
          Phases,          \* phases of the policy
          MaxRun,          \* bound on the runs of the program
          Keep,            \* values of the policy's keep_backups
          Discard,         \* values of RecoveryMode::AlwaysDiscard
          Fault            \* calls that may fail

Faults ==
  {"space", "copy", "upload", "insert", "delete", "list", "walk", "restore", "unlink",
   "record", "hash"}

ASSUME PathAssumption ==
  /\ PlanSource \subseteq PlanPath /\ Converted \in [PlanPath -> PlanPath]
  /\ "torn" \notin PlanSource /\ "absent" \notin PlanSource
ASSUME BoundAssumption == Phases \in Nat \ {0} /\ MaxRun \in Nat \ {0}
ASSUME ChoiceAssumption ==
  /\ Kind \subseteq {"edit", "rename", "convert"} /\ Fault \subseteq Faults
  /\ Keep \subseteq BOOLEAN /\ Discard \subseteq BOOLEAN

\* What a file holds: a complete version of some source, part of one, nothing.
Whole == [of : PlanSource, v : 0..(MaxRun * Phases)]
Torn == [of |-> "torn", v |-> 0]
Absent == [of |-> "absent", v |-> 0]
Data == Whole \cup {Torn, Absent}

\* A plan: the path it is for, the job that runs it, and when.
PlanId == [path : PlanPath, job : PlanPath, run : 1..MaxRun, phase : 1..Phases]
NoPlan == [path |-> "none"]

VARIABLES
  disk,      \* what is at each path
  vbak,      \* the .vbak files, by the plan whose backup they are
  ops,       \* pending_operations
  row,       \* the expected hash of the files row at each path
  rec,       \* BackupManager::records, the plan whose backup it names
  job,       \* the job of each path
  rcv,       \* recovery: pc, the orphans to resolve, the one in hand
  run,       \* the current run of the program
  found,     \* the paths discovery came across in this run
  conf,      \* keep_backups and the recovery mode
  exposed

planVars == <<disk, vbak, ops, row, rec, job, rcv, run, found, conf, exposed>>
store == <<ops, row>>
session == <<rcv, run, found, conf>>

\* What a job knows of its row: nothing (its file carries the id of no row),
\* the row without the hash of the content, the row and the hash.
Knows == {"no row", "no hash", "row"}

IdleJob(p) ==
  [pc |-> "idle", at |-> p, phase |-> 1, kind |-> "edit", before |-> Absent, knows |-> "no row"]

Pcs == {"idle", "phase", "executing", "copying", "insert", "created", "editing", "unlink",
        "check", "completed", "settle", "record", "failing", "restoring", "unpend", "failed", "done"}

PlanInit ==
  /\ disk = [p \in PlanPath |-> IF p \in PlanSource THEN [of |-> p, v |-> 0] ELSE Absent]
  /\ vbak = [b \in {} |-> Absent]
  /\ ops = {}
  /\ row \in {disk, [p \in PlanPath |-> Absent]}
  /\ rec = [p \in PlanPath |-> NoPlan]
  /\ job = [p \in PlanPath |-> IdleJob(p)]
  /\ rcv = [pc |-> "scan", todo |-> {}, at |-> NoPlan]
  /\ run = 1
  /\ found = {}
  /\ conf \in [keep : Keep, discard : Discard]
  /\ exposed = {}

PlanTypeOK ==
  /\ disk \in [PlanPath -> Data] /\ row \in [PlanPath -> Data]
  /\ DOMAIN vbak \subseteq PlanId /\ \A b \in DOMAIN vbak : vbak[b] \in Data \ {Absent}
  /\ ops \subseteq PlanId
  /\ rec \in [PlanPath -> PlanId \cup {NoPlan}]
  /\ job \in [PlanPath -> [pc : Pcs, at : PlanPath, phase : 1..(Phases + 1),
                       kind : {"edit", "rename", "convert"}, before : Data, knows : Knows]]
  /\ rcv.pc \in {"scan", "resolve", "copying", "remove", "forget", "ended"}
  /\ rcv.todo \subseteq PlanId /\ rcv.at \in PlanId \cup {NoPlan}
  /\ run \in 1..MaxRun /\ found \subseteq PlanPath

-----------------------------------------------------------------------------
\* The plan job p is at, the path it is for, where its output ends up.
Plan(p) == [path |-> job[p].at, job |-> p, run |-> run, phase |-> job[p].phase]
At(p) == job[p].at
Target(p) == IF job[p].kind = "convert" THEN Converted[At(p)] ELSE At(p)
Output(p) == IF job[p].before \in Whole
             THEN [of |-> job[p].before.of, v |-> (run - 1) * Phases + job[p].phase]
             ELSE Torn

In(p, pc) == rcv.pc = "ended" /\ job[p].pc = pc
Goto(p, pc) == job' = [job EXCEPT ![p].pc = pc]
NextPhase(p, at) ==
  job' = [job EXCEPT ![p].pc = "phase", ![p].at = at, ![p].phase = @ + 1]
Expose(s) == exposed' = exposed \cup s
WriteBackup(b, d) ==
  vbak' = [c \in DOMAIN vbak \cup {b} |-> IF c = b THEN d ELSE vbak[c]]
RemoveBackup(b) == vbak' = [c \in DOMAIN vbak \ {b} |-> vbak[c]]
Backed(p) == rec[At(p)] # NoPlan
\* A write into a file that was opened before: lost if the file was replaced.
Written(p, d) == [disk EXCEPT ![p] = IF @ = Torn THEN d ELSE @]
\* What reading the file gave, opened when the plan began.
Copied(p) == IF disk[At(p)] = Torn THEN Torn ELSE job[p].before
\* restore_file keeps the mutex of the records while it copies.
RecordsFree == \A p \in PlanPath : job[p].pc # "restoring"
\* Two jobs write to one path.
SharedBy(p, at) ==
  IF \E q \in PlanPath \ {p} : job[q].pc \notin {"idle", "done"} /\ at \in {At(q), Target(q)}
  THEN {"shared"} ELSE {}

(***************************************************************************)
(* The phase loop                                                            *)
(***************************************************************************)
\* process_single_file: the stored file is used where its row has the hash of
\* the content; any other is introspected into one with an id of its own (the
\* row keeps the id it had).
Start(p) ==
  /\ In(p, "idle") /\ p \in found /\ disk[p] \in Whole
  /\ job' = [job EXCEPT ![p].pc = "phase", ![p].knows = IF row[p] = disk[p] THEN "row" ELSE "no row"]
  /\ row' = [row EXCEPT ![p] = disk[p]]
  /\ Expose(SharedBy(p, p))
  /\ UNCHANGED <<disk, vbak, ops, rec, session>>

\* No plan, savings too small, a skip reason or nothing to do.
SkipPhase(p) ==
  /\ In(p, "phase") /\ job[p].phase <= Phases
  /\ NextPhase(p, At(p))
  /\ UNCHANGED <<disk, vbak, store, rec, session, exposed>>

\* The phases are over, or the run was cancelled.
EndJob(p) ==
  /\ In(p, "phase")
  /\ Goto(p, "done")
  /\ UNCHANGED <<disk, vbak, store, rec, session, exposed>>

\* Auto-crop detection failed or the disk is too full: PlanFailed alone.
RefusePlan(p) ==
  /\ In(p, "phase") /\ job[p].phase <= Phases
  /\ job' = [job EXCEPT ![p].pc = "failing", ![p].before = disk[At(p)]]
  /\ UNCHANGED <<disk, vbak, store, rec, session, exposed>>

\* PlanDispatcher::begin
Begin(p) ==
  /\ In(p, "phase") /\ job[p].phase <= Phases
  /\ \E k \in Kind :
       /\ k = "convert" => Converted[At(p)] # At(p)
       /\ job' = [job EXCEPT ![p].pc = "executing", ![p].kind = k, ![p].before = disk[At(p)]]
  /\ UNCHANGED <<disk, vbak, store, rec, session, exposed>>
(***************************************************************************)
(* PlanExecuting: backup-manager, then sqlite-store. What they return is     *)
(* logged and dropped, so every outcome leads on to PlanCreated.             *)
(***************************************************************************)
\* has_backup: an earlier phase's record still covers the path.
BackupExists(p) ==
  /\ In(p, "executing") /\ RecordsFree /\ Backed(p)
  /\ Goto(p, "insert")
  /\ UNCHANGED <<disk, vbak, store, rec, session, exposed>>

\* A symbolic link, a missing file or too little space.
BackupRefused(p) ==
  /\ In(p, "executing") /\ RecordsFree /\ ~Backed(p)
  /\ "space" \in Fault \/ disk[At(p)] = Absent
  /\ Goto(p, "insert")
  /\ UNCHANGED <<disk, vbak, store, rec, session, exposed>>

BackupCopies(p) ==
  /\ In(p, "executing") /\ RecordsFree /\ ~Backed(p) /\ disk[At(p)] # Absent
  /\ WriteBackup(Plan(p), Torn)
  /\ Goto(p, "copying")
  /\ UNCHANGED <<disk, store, rec, session, exposed>>

BackedUp(p) ==
  /\ In(p, "copying") /\ RecordsFree
  /\ WriteBackup(Plan(p), Copied(p))
  /\ rec' = [rec EXCEPT ![At(p)] = Plan(p)]
  /\ Goto(p, "insert")
  /\ UNCHANGED <<disk, store, session, exposed>>

\* The copy fails half way, or a required upload fails after it.
BackupFails(p) ==
  /\ In(p, "copying")
  /\ \/ /\ "copy" \in Fault /\ UNCHANGED vbak
        /\ Expose({"partial backup"})
     \/ /\ "upload" \in Fault /\ WriteBackup(Plan(p), Copied(p))
        /\ UNCHANGED exposed
  /\ Goto(p, "insert")
  /\ UNCHANGED <<disk, store, rec, session>>

\* handle_plan_executing: the pending operation, an error is only logged.
InsertOp(p) ==
  /\ In(p, "insert")
  /\ \/ ops' = ops \cup {Plan(p)} /\ UNCHANGED exposed
     \/ "insert" \in Fault /\ UNCHANGED ops /\ Expose({"no pending operation"})
  /\ Goto(p, "created")
  /\ UNCHANGED <<disk, vbak, row, rec, session>>

(***************************************************************************)
(* PlanCreated: the executor that claims the plan                            *)
(***************************************************************************)
Unbacked(p) == IF Backed(p) THEN {} ELSE {"no backup"}

\* No executor, a tool error, a mutation that cannot be recorded: no change.
ToolFails(p) ==
  /\ In(p, "created")
  /\ Goto(p, "failing")
  /\ UNCHANGED <<disk, vbak, store, rec, session, exposed>>

\* mkvpropedit writes into the file.
EditBegins(p) ==
  /\ In(p, "created") /\ job[p].kind = "edit" /\ disk[At(p)] # Absent
  /\ disk' = [disk EXCEPT ![At(p)] = Torn]
  /\ Goto(p, "editing")
  /\ Expose(Unbacked(p))
  /\ UNCHANGED <<vbak, store, rec, session>>

EditEnds(p) ==
  /\ In(p, "editing")
  /\ \/ disk' = Written(At(p), Output(p)) /\ Goto(p, "check")
     \/ UNCHANGED disk /\ Goto(p, "failing")
  /\ UNCHANGED <<vbak, store, rec, session, exposed>>

\* mkvmerge, ffmpeg: the finished temporary file is renamed to the target.
RenameOutput(p) ==
  /\ In(p, "created") /\ job[p].kind # "edit" /\ disk[At(p)] # Absent
  /\ disk' = [disk EXCEPT ![Target(p)] = Output(p)]
  /\ Goto(p, IF job[p].kind = "convert" THEN "unlink" ELSE "check")
  /\ Expose(Unbacked(p) \cup SharedBy(p, Target(p))
            \cup IF Target(p) # At(p) /\ disk[Target(p)] # Absent THEN {"overwritten"} ELSE {})
  /\ UNCHANGED <<vbak, store, rec, session>>

\* The original of a conversion is removed, a failure is ignored.
RemoveOriginal(p) ==
  /\ In(p, "unlink")
  /\ \/ disk' = [disk EXCEPT ![At(p)] = Absent]
     \/ "unlink" \in Fault /\ UNCHANGED disk
  /\ Goto(p, "check")
  /\ UNCHANGED <<vbak, store, rec, session, exposed>>

Safeguard_NotFailed(p) ==
  /\ In(p, "check")
  /\ Goto(p, "completed")
  /\ \/ UNCHANGED disk
     \/ disk' = IF Target(p) = At(p) THEN disk ELSE [disk EXCEPT ![Target(p)] = Absent]
  /\ UNCHANGED <<vbak, store, rec, session, exposed>>

\* check_size_increase, check_duration_shrink: a converted output is removed,
\* a failure to is only logged.
Safeguard(p) ==
  /\ In(p, "check")
  /\ \/ Goto(p, "completed") /\ UNCHANGED disk
     \/ /\ Goto(p, "failing")
        /\ \/ disk' = IF Target(p) = At(p) THEN disk ELSE [disk EXCEPT ![Target(p)] = Absent]
           \/ "unlink" \in Fault /\ UNCHANGED disk
  /\ UNCHANGED <<vbak, store, rec, session, exposed>>

(***************************************************************************)
(* PlanCompleted                                                             *)
(***************************************************************************)
\* on_event(PlanCompleted): remove_backup; if the file cannot be removed the
\* record stays too and the error is only logged.
ReleaseBackup(p) ==
  /\ In(p, "completed") /\ RecordsFree
  /\ \/ (conf.keep \/ ~Backed(p)) /\ UNCHANGED <<vbak, rec, exposed>>
     \/ /\ ~conf.keep /\ Backed(p)
        /\ RemoveBackup(rec[At(p)])
        /\ rec' = [rec EXCEPT ![At(p)] = NoPlan]
        /\ UNCHANGED exposed
     \/ /\ ~conf.keep /\ Backed(p) /\ "unlink" \in Fault
        /\ UNCHANGED <<vbak, rec>> /\ Expose({"backup kept"})
  /\ Goto(p, "settle")
  /\ UNCHANGED <<disk, store, session>>

\* delete_pending_op, an error is only logged.
DeleteOp(p) ==
  \/ ops' = ops \ {Plan(p)}
  \/ "delete" \in Fault /\ UNCHANGED ops

Settle(p) ==
  /\ In(p, "settle")
  /\ DeleteOp(p)
  /\ Goto(p, "record")
  /\ UNCHANGED <<disk, vbak, row, rec, session, exposed>>

\* reintrospect_file: where the job finds its file, unless it is gone.
Moved(p) == IF disk[Target(p)] = Absent THEN At(p) ELSE Target(p)
\* files.path is unique: the row cannot be moved onto another one.
RowInTheWay(p) ==
  disk[Target(p)] # Absent /\ job[p].knows # "no row" /\ Target(p) # At(p) /\ row[Target(p)] # Absent

\* reintrospect_file and record_file_transition: the row the job knows follows
\* the file; without a hash of the output the expected one stays as it was. A
\* missing output leaves all as it is, an error of the store ends the job.
RecordTransition(p) ==
  /\ In(p, "record")
  /\ \/ /\ ~RowInTheWay(p)
        /\ \E hashed \in (IF "hash" \in Fault THEN BOOLEAN ELSE {TRUE}) :
             /\ row' = IF job[p].knows = "no row" \/ disk[Target(p)] = Absent THEN row
                       ELSE [row EXCEPT ![At(p)] = Absent,
                                        ![Moved(p)] = IF hashed THEN disk[Moved(p)] ELSE row[At(p)]]
             /\ job' = [job EXCEPT ![p].pc = "phase", ![p].at = Moved(p), ![p].phase = @ + 1,
                                   ![p].knows = IF @ = "no row" \/ disk[Target(p)] = Absent THEN @
                                                ELSE IF hashed THEN "row" ELSE "no hash"]
        /\ Expose(SharedBy(p, Moved(p)))
     \/ /\ "record" \in Fault \/ RowInTheWay(p)
        /\ Goto(p, "done")
        /\ UNCHANGED <<row, exposed>>
  /\ UNCHANGED <<disk, vbak, ops, rec, session>>

(***************************************************************************)
(* PlanFailed                                                                *)
(***************************************************************************)
\* Mutant: a file that is complete is taken to need no restoring.
RestoreBegins_IfTorn(p) ==
  /\ In(p, "failing") /\ RecordsFree /\ Backed(p)
  /\ IF disk[At(p)] \in Whole
     THEN Goto(p, "unpend") /\ UNCHANGED disk
     ELSE Goto(p, "restoring") /\ disk' = [disk EXCEPT ![At(p)] = Torn]
  /\ UNCHANGED <<vbak, store, rec, session, exposed>>

\* Mutant: the pending operation goes before the file is restored.
RestoreBegins_AfterUnpend(p) ==
  /\ In(p, "failing") /\ RecordsFree /\ Backed(p)
  /\ disk' = [disk EXCEPT ![At(p)] = Torn]
  /\ ops' = ops \ {Plan(p)}
  /\ Goto(p, "restoring")
  /\ UNCHANGED <<vbak, row, rec, session, exposed>>

RestoreBegins(p) ==
  /\ In(p, "failing") /\ RecordsFree /\ Backed(p)
  /\ disk' = [disk EXCEPT ![At(p)] = Torn]
  /\ Goto(p, "restoring")
  /\ UNCHANGED <<vbak, store, rec, session, exposed>>

\* The record goes, the .vbak file stays; a failed copy keeps the record.
RestoreEnds(p) ==
  /\ In(p, "restoring")
  /\ \/ /\ disk' = Written(At(p), vbak[rec[At(p)]])
        /\ rec' = [rec EXCEPT ![At(p)] = NoPlan]
        /\ UNCHANGED exposed
     \/ "restore" \in Fault /\ UNCHANGED <<disk, rec>> /\ Expose({"not restored"})
  /\ Goto(p, "unpend")
  /\ UNCHANGED <<vbak, store, session>>

NothingToRestore(p) ==
  /\ In(p, "failing") /\ RecordsFree /\ ~Backed(p)
  /\ Goto(p, "unpend")
  /\ UNCHANGED <<disk, vbak, store, rec, session, exposed>>

Unpend(p) ==
  /\ In(p, "unpend")
  /\ DeleteOp(p)
  /\ Goto(p, "failed")
  /\ UNCHANGED <<disk, vbak, row, rec, session, exposed>>

\* record_failure_transition; its error ends the job.
RecordFailure(p) ==
  /\ In(p, "failed")
  /\ \/ NextPhase(p, At(p))
     \/ "record" \in Fault /\ Goto(p, "done")
  /\ UNCHANGED <<disk, vbak, store, rec, session, exposed>>
(***************************************************************************)
(* The process ends, killed at any point or normally; the next run begins    *)
(* with check_and_recover_under.                                             *)
(***************************************************************************)
Restart ==
  /\ run < MaxRun
  /\ run' = run + 1
  /\ rec' = [p \in PlanPath |-> NoPlan]
  /\ job' = [p \in PlanPath |-> IdleJob(p)]
  /\ rcv' = [pc |-> "scan", todo |-> {}, at |-> NoPlan]
  /\ found' = {}
  /\ UNCHANGED <<disk, vbak, store, conf, exposed>>

Orphans == {b \in DOMAIN vbak : \E o \in ops : o.path = b.path}

\* Recovery is over; discovery walks the library.
Discover ==
  /\ rcv' = [pc |-> "ended", todo |-> {}, at |-> NoPlan]
  /\ found' = {p \in PlanPath : disk[p] # Absent}

\* find_orphans_under: a directory that cannot be read is passed over.
FoundOrphans == IF "walk" \in Fault THEN SUBSET Orphans ELSE {Orphans}
Missed(s) == IF s = Orphans THEN {} ELSE {"not restored"}

\* No orphan was found: clean_stale_pending_ops.
CleanStale ==
  /\ rcv.pc = "scan" /\ {} \in FoundOrphans
  /\ \/ ops' = {}
     \/ "delete" \in Fault /\ UNCHANGED ops
  /\ Discover
  /\ Expose(Missed({}))
  /\ UNCHANGED <<disk, vbak, row, rec, job, run, conf>>

\* list_pending_ops fails and is taken for an empty list.
NoList ==
  /\ "list" \in Fault /\ rcv.pc = "scan"
  /\ Discover
  /\ Expose(IF ops = {} THEN {} ELSE {"not restored"})
  /\ UNCHANGED <<disk, vbak, store, rec, job, run, conf>>

\* Two of the orphans are backups of one path.
SeveralOrphans(s) == \E b, c \in s : b # c /\ b.path = c.path

FindOrphans ==
  /\ rcv.pc = "scan"
  /\ \E s \in FoundOrphans \ {{}} :
       /\ rcv' = [pc |-> "resolve", todo |-> s, at |-> NoPlan]
       /\ Expose(Missed(s) \cup (IF s \subseteq ops THEN {} ELSE {"older backup"})
                 \cup (IF SeveralOrphans(s) THEN {"pending twice"} ELSE {}))
  /\ UNCHANGED <<disk, vbak, store, rec, job, run, found, conf>>

\* recover: copy the backup back, remove it, delete the operations of the path.
RecoverBegins(b) ==
  /\ rcv.pc = "resolve" /\ ~conf.discard
  /\ disk' = [disk EXCEPT ![b.path] = Torn]
  /\ rcv' = [pc |-> "copying", todo |-> rcv.todo \ {b}, at |-> b]
  /\ UNCHANGED <<vbak, store, rec, job, run, found, conf, exposed>>

RecoverCopied ==
  /\ rcv.pc = "copying"
  /\ disk' = [disk EXCEPT ![rcv.at.path] = vbak[rcv.at]]
  /\ rcv' = [rcv EXCEPT !.pc = "remove"]
  /\ UNCHANGED <<vbak, store, rec, job, run, found, conf, exposed>>

\* "failed to resolve orphaned backup", in the copy or in the removal of the
\* backup that was copied: the operations stay.
RecoverFails ==
  /\ \/ "restore" \in Fault /\ rcv.pc = "copying" /\ Expose({"not restored"})
     \/ "unlink" \in Fault /\ rcv.pc = "remove" /\ UNCHANGED exposed
  /\ rcv' = [rcv EXCEPT !.pc = "resolve"]
  /\ UNCHANGED <<disk, vbak, store, rec, job, run, found, conf>>

RecoverRemoves ==
  /\ rcv.pc = "remove"
  /\ RemoveBackup(rcv.at)
  /\ rcv' = [rcv EXCEPT !.pc = "forget"]
  /\ UNCHANGED <<disk, store, rec, job, run, found, conf, exposed>>

\* discard: the backup goes, the file stays as it is; or the removal fails.
Discards(b) ==
  /\ rcv.pc = "resolve" /\ conf.discard
  /\ \/ /\ RemoveBackup(b)
        /\ rcv' = [pc |-> "forget", todo |-> rcv.todo \ {b}, at |-> b]
     \/ /\ "unlink" \in Fault /\ UNCHANGED vbak
        /\ rcv' = [rcv EXCEPT !.todo = @ \ {b}]
  /\ Expose({"discarded"})
  /\ UNCHANGED <<disk, store, rec, job, run, found, conf>>

ForgetOps ==
  /\ rcv.pc = "forget"
  /\ \/ ops' = {o \in ops : o.path # rcv.at.path}
     \/ "delete" \in Fault /\ UNCHANGED ops
  /\ rcv' = [rcv EXCEPT !.pc = "resolve"]
  /\ UNCHANGED <<disk, vbak, row, rec, job, run, found, conf, exposed>>

\* Operations without a backup are left when there was any orphan.
RecoverEnds ==
  /\ rcv.pc = "resolve" /\ rcv.todo = {}
  /\ Discover
  /\ UNCHANGED <<disk, vbak, store, rec, job, run, conf, exposed>>

Recovery ==
  \/ CleanStale \/ NoList \/ FindOrphans \/ RecoverCopied \/ RecoverFails \/ RecoverRemoves
  \/ ForgetOps \/ RecoverEnds
  \/ \E b \in rcv.todo : RecoverBegins(b) \/ Discards(b)

Job(p) ==
  \/ Start(p) \/ SkipPhase(p) \/ EndJob(p) \/ RefusePlan(p) \/ Begin(p)
  \/ BackupExists(p) \/ BackupRefused(p) \/ BackupCopies(p) \/ BackedUp(p) \/ BackupFails(p)
  \/ InsertOp(p)
  \/ ToolFails(p) \/ EditBegins(p) \/ EditEnds(p) \/ RenameOutput(p) \/ RemoveOriginal(p)
  \/ Safeguard(p)
  \/ ReleaseBackup(p) \/ Settle(p) \/ RecordTransition(p)
  \/ RestoreBegins(p) \/ RestoreEnds(p) \/ NothingToRestore(p) \/ Unpend(p) \/ RecordFailure(p)

PlanNext == Restart \/ Recovery \/ \E p \in PlanPath : Job(p)
PlanSpec == PlanInit /\ [][PlanNext]_planVars

-----------------------------------------------------------------------------
\* No content is ever lost: whatever fails and whenever the process dies, a
\* complete version of every file of the library is at a path or in a backup
\* (backup before mutation, restore before the backup is removed). It holds
\* where a backup could not be removed or a path is recovered twice, too.
NothingLost ==
  exposed \subseteq {"pending twice", "backup kept"} =>
    \A s \in PlanSource :
      \/ \E p \in PlanPath : disk[p] \in Whole /\ disk[p].of = s
      \/ \E b \in DOMAIN vbak : vbak[b] \in Whole /\ vbak[b].of = s

\* Once recovery is over, every file that no job is writing to is complete:
\* recovery has repaired each file a crash left half written, and every
\* failed plan its own (restore_file, recover). With keep_backups a refused
\* plan restores a retained backup with no operation pending, and so it does
\* with a backup that could not be removed; of two orphans of one path the
\* second is copied back when the operations of the path are gone.
FilesWhole ==
  exposed = {} /\ ~conf.keep =>
    \A p \in PlanPath : rcv.pc = "ended" /\ disk[p] = Torn =>
                      \E q \in PlanPath : At(q) = p /\ job[q].pc \in {"editing", "failing", "restoring"}

\* The file is unchanged on failure: when the failure of a plan is recorded,
\* the file is what it was before the plan (record_failure_transition relies
\* on it), unless an earlier phase's backup was kept and is restored instead.
UnchangedOnFailure ==
  exposed \subseteq {"pending twice"} /\ ~conf.keep =>
    \A p \in PlanPath : In(p, "failed") => disk[At(p)] = job[p].before

\* Between two phases of a job that knows its row and the content of its file
\* the store expects at the job's path what is on disk there
\* (record_post_execution moves the row with the file).
RowFollowsFile ==
  exposed \subseteq {"pending twice"} /\ ~conf.keep =>
    \A p \in PlanPath : In(p, "phase") /\ job[p].knows = "row" => row[At(p)] = disk[At(p)]

\* No destructive operation without a backup: while the executor's change is
\* in place and not yet settled, backup-manager holds a backup of the path
\* (PlanDispatcher::begin dispatches PlanExecuting first for this; a failed
\* required upload is to block the operation).
BackedUpBeforeMutation ==
  \A p \in PlanPath : job[p].pc \in {"editing", "unlink", "check"} => Backed(p)

\* Recovery restores the original file from the backup: when it is over, no
\* file of the library is left incomplete (RecoveryMode::AlwaysRecover).
RecoveredFilesWhole ==
  (rcv.pc = "ended" /\ \A p \in PlanPath : job[p].pc = "idle") => \A p \in PlanPath : disk[p] # Torn

\* However the phases of a file end, table and disk agree about it: a phase
\* that failed left the file as it was before it, and where the job knows its
\* file's row and could hash what it wrote, the row names the path and the
\* content the file has now (execute_single_plan, record_post_execution).
PhasesSettle ==
  /\ UnchangedOnFailure
  /\ RowFollowsFile
=============================================================================
