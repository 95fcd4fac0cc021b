------------------------------ MODULE Backups -------------------------------
(* Backups: remote and global ones, and those beside the files.             *)
EXTENDS FiniteSets, Integers, Sequences, FiniteSetsExt, SequencesExt

-----------------------------------------------------------------------------
(***************************************************************************)
(* Where backups live, and the commands that act on them.                  *)
(*                                                                         *)
(* Part one: remote copies.  Before a plan runs, the backup manager        *)
(* uploads the file to every destination and appends one line per copy to  *)
(* the inventory (backup.rs, destination.rs, inventory.rs).  `voom backup  *)
(* cleanup`, `restore --from` and `verify` read the inventory and act on   *)
(* the copies (commands/backup.rs).  Mutating commands hold the process    *)
(* lock, except under `voom serve`, whose runs take none (BkUnlocked).     *)
(*                                                                         *)
(* Part two: a global backup directory, whose file names carry the name    *)
(* but not the directory of the original, and the crash recovery that      *)
(* matches them to pending operations by that name (recovery.rs).          *)
(*                                                                         *)
(* Time is in half days, since the age of a copy is counted in whole days. *)
(***************************************************************************)

CONSTANTS
    BkDests,        \* sequence of configured destinations: [kind, min]
    BkPaths,        \* files of part one
    BkIds,          \* backup ids, 1 .. n in the order they are drawn
    BkMaxTime,      \* bound: clock, half days
    BkBlocks,       \* block_on_remote_failure
    BkHashes,       \* the remote can tell the hash of an object
    BkUnlocked,     \* the run that backs up was started by `voom serve`
    BkMaxCrashes,   \* bound: crashes of the run that backs up
    BkMaxDamage,    \* bound: damages to remote objects
    BgFiles,        \* files of part two: BgFiles[p] is the file name of path p
    BgMaxPlans      \* bound: plans of part two

Dests == DOMAIN BkDests
is_rclone_backed(d) == BkDests[d].kind # "local"
minimum_storage_days(d) == BkDests[d].min

(* An object as uploaded, of which nothing or only the size may be wrong. *)
Whole == "whole"    Short == "short"    Altered == "altered"    Absent == "absent"
Newline == <<>>
NoCommand == [pc |-> "idle", dest |-> 0, path |-> 0, listed |-> <<>>,
              todo |-> {}, deleted |-> {}, temp |-> Absent]
NoBackup == [pc |-> "idle", id |-> 0, path |-> 0, next |-> 1, copies |-> <<>>]

VARIABLES
    bkNow,          \* the clock
    bkObject,       \* the remote objects: bkObject[<<id, dest>>]
    bkMeta,         \* what a record of a copy says: [path, at] per <<id, dest>>
    bkInventory,    \* the inventory file: records <<id, dest>> and newlines
    bkRun,          \* the run that backs up
    bkCommand,      \* the `voom backup` command at work
    bkOutput,       \* what restore left at the output path
    bkForgotten,    \* ids whose upload was given up or cut short
    bkCrashes,
    bkDamage        \* damages so far

bkVars == <<bkNow, bkObject, bkMeta, bkInventory, bkRun, bkCommand, bkOutput,
            bkForgotten, bkCrashes, bkDamage>>

(***************************************************************************)
(* The inventory: one record per line, a line of anything else fails it.   *)
(***************************************************************************)
Lines(file) ==
    LET ends == {i \in 1 .. Len(file) : file[i] = Newline}
        starts == {1} \cup {i + 1 : i \in ends}
        endOf(s) == IF \E e \in ends : e >= s
                    THEN CHOOSE e \in ends : e >= s /\ \A x \in ends : x >= s => e <= x
                    ELSE Len(file) + 1
    IN  {<<s, endOf(s)>> : s \in {x \in starts : x <= Len(file)}}
Readable(file) == \A line \in Lines(file) : line[2] = line[1] + 1
list(file) == SelectSeq(file, LAMBDA r : r # Newline)
list_of(file, d) == SelectSeq(list(file), LAMBDA r : r[2] = d)

append_record(r) == Append(bkInventory, r)
end_line == Append(bkInventory, Newline)
replace_all(records) ==
    FlattenSeq([i \in 1 .. Len(records) |-> <<records[i], Newline>>])

LockFree == bkCommand.pc = "idle" /\ (BkUnlocked \/ bkRun.pc = "idle")

(***************************************************************************)
(* A backup before a plan.                                                 *)
(***************************************************************************)
BackupBegins(p) ==
    /\ bkRun.pc = "idle" /\ (BkUnlocked \/ LockFree)
    /\ \E id \in BkIds :
         /\ \A i \in BkIds : i < id => \E d \in Dests : bkMeta[<<i, d>>].path # 0
         /\ \A d \in Dests : bkMeta[<<id, d>>].path = 0
         /\ bkMeta' = [k \in DOMAIN bkMeta |->
                         IF k[1] = id THEN [path |-> p, at |-> bkNow] ELSE bkMeta[k]]
         /\ bkRun' = [NoBackup EXCEPT !.pc = "upload", !.id = id, !.path = p]
    /\ UNCHANGED <<bkNow, bkObject, bkInventory, bkCommand, bkOutput, bkForgotten, bkCrashes, bkDamage>>

(* A destination that is not rclone backed is passed over. *)
NotRemote ==
    /\ bkRun.pc = "upload" /\ bkRun.next \in Dests
    /\ ~is_rclone_backed(bkRun.next)
    /\ bkRun' = [bkRun EXCEPT !.next = @ + 1]
    /\ UNCHANGED <<bkNow, bkObject, bkMeta, bkInventory, bkCommand, bkOutput,
                   bkForgotten, bkCrashes, bkDamage>>

Uploaded ==
    /\ bkRun.pc = "upload" /\ bkRun.next \in Dests /\ is_rclone_backed(bkRun.next)
    /\ bkObject' = [bkObject EXCEPT ![<<bkRun.id, bkRun.next>>] = Whole]
    /\ bkRun' = [bkRun EXCEPT !.next = @ + 1,
                              !.copies = Append(@, <<bkRun.id, bkRun.next>>)]
    /\ UNCHANGED <<bkNow, bkMeta, bkInventory, bkCommand, bkOutput, bkForgotten, bkCrashes, bkDamage>>

(* rclone fails, or the size of the object is not the file's; a short      *)
(* object may be left.  The backup ends here when it must not go on.       *)
upload_fails ==
    /\ bkRun.pc = "upload" /\ bkRun.next \in Dests /\ is_rclone_backed(bkRun.next)
    /\ \E left \in {Absent, Short} :
         bkObject' = [bkObject EXCEPT ![<<bkRun.id, bkRun.next>>] = left]
    /\ IF BkBlocks
       THEN bkRun' = NoBackup /\ bkForgotten' = bkForgotten \cup {bkRun.id}
       ELSE bkRun' = [bkRun EXCEPT !.next = @ + 1] /\ UNCHANGED bkForgotten
    /\ UNCHANGED <<bkNow, bkMeta, bkInventory, bkCommand, bkOutput, bkCrashes, bkDamage>>

(* The records follow once every destination was tried, record and newline *)
(* in a write each; uploaded_at is the time of the record.                 *)
PersistRecord ==
    /\ bkRun.pc = "upload" /\ bkRun.next \notin Dests /\ bkRun.copies # <<>>
    /\ bkInventory' = append_record(Head(bkRun.copies))
    /\ bkMeta' = [bkMeta EXCEPT ![Head(bkRun.copies)].at = bkNow]
    /\ bkRun' = [bkRun EXCEPT !.pc = "newline"]
    /\ UNCHANGED <<bkNow, bkObject, bkCommand, bkOutput, bkForgotten, bkCrashes, bkDamage>>

PersistNewline ==
    /\ bkRun.pc = "newline"
    /\ bkInventory' = end_line
    /\ bkRun' = [bkRun EXCEPT !.pc = "upload", !.copies = Tail(@)]
    /\ UNCHANGED <<bkNow, bkObject, bkMeta, bkCommand, bkOutput, bkForgotten, bkCrashes, bkDamage>>

BackupEnds ==
    /\ bkRun.pc = "upload" /\ bkRun.next \notin Dests /\ bkRun.copies = <<>>
    /\ bkRun' = NoBackup
    /\ UNCHANGED <<bkNow, bkObject, bkMeta, bkInventory, bkCommand, bkOutput,
                   bkForgotten, bkCrashes, bkDamage>>

RunCrashes ==
    /\ bkRun.pc # "idle" /\ bkCrashes < BkMaxCrashes
    /\ bkCrashes' = bkCrashes + 1
    /\ bkRun' = NoBackup
    /\ bkForgotten' = bkForgotten \cup {bkRun.id}
    /\ UNCHANGED <<bkNow, bkObject, bkMeta, bkInventory, bkCommand, bkOutput, bkDamage>>

(***************************************************************************)
(* voom backup cleanup --destination d.                                    *)
(***************************************************************************)
num_days(since) == (bkNow - since) \div 2

plan_remote_cleanup(d, records) ==
    {r \in ToSet(records) : ~(num_days(bkMeta[r].at) < minimum_storage_days(d))}

(* The inventory is listed and the plan shown; nothing to delete, or no    *)
(* answer of yes, ends the command.                                        *)
CleanupAsks(d) ==
    /\ LockFree /\ Readable(bkInventory)
    /\ LET plan == plan_remote_cleanup(d, list_of(bkInventory, d)) IN
         /\ plan # {}
         /\ bkCommand' = [NoCommand EXCEPT !.pc = "cleanup", !.dest = d,
                                           !.listed = list(bkInventory), !.todo = plan]
    /\ UNCHANGED <<bkNow, bkObject, bkMeta, bkInventory, bkRun, bkOutput, bkForgotten, bkCrashes, bkDamage>>

(* delete_with_rclone; an object that is not there is an error too. *)
DeleteCopy(r) ==
    /\ bkCommand.pc = "cleanup" /\ r \in bkCommand.todo
    /\ \/ /\ bkObject[r] # Absent
          /\ bkObject' = [bkObject EXCEPT ![r] = Absent]
          /\ bkCommand' = [bkCommand EXCEPT !.todo = @ \ {r}, !.deleted = @ \cup {r[1]}]
       \/ /\ bkCommand' = [bkCommand EXCEPT !.todo = @ \ {r}]
          /\ UNCHANGED bkObject
   
    /\ UNCHANGED <<bkNow, bkMeta, bkInventory, bkRun, bkOutput, bkForgotten, bkCrashes, bkDamage>>

remaining ==
    SelectSeq(bkCommand.listed,
              LAMBDA r : r[2] # bkCommand.dest \/ r[1] \notin bkCommand.deleted)

cleanup_remote ==
    /\ bkCommand.pc = "cleanup" /\ bkCommand.todo = {}
    /\ bkInventory' = replace_all(remaining)
    /\ bkCommand' = NoCommand
    /\ UNCHANGED <<bkNow, bkObject, bkMeta, bkRun, bkOutput, bkForgotten, bkCrashes, bkDamage>>

(* The prompt is answered no, or the command dies: nothing more happens. *)
CommandStops ==
    /\ bkCommand.pc # "idle"
    /\ bkCommand' = NoCommand
    /\ UNCHANGED <<bkNow, bkObject, bkMeta, bkInventory, bkRun, bkOutput, bkForgotten, bkCrashes, bkDamage>>

(***************************************************************************)
(* voom backup restore p --from d.  Contents are <<id, state>>; the output *)
(* holds <<0, Absent>> before.                                             *)
(***************************************************************************)
Untouched == [id |-> 0, path |-> 0, data |-> Whole]

(* The only record of the path, or none. *)
select_remote_restore_record(records, p) ==
    LET matches == {i \in 1 .. Len(records) : bkMeta[records[i]].path = p}
    IN  IF Cardinality(matches) = 1 THEN {records[i] : i \in matches} ELSE {}

RestoreAsks(p, d) ==
    /\ LockFree /\ Readable(bkInventory)
    /\ \E r \in select_remote_restore_record(list_of(bkInventory, d), p) :
         bkCommand' = [NoCommand EXCEPT !.pc = "restore", !.dest = d, !.path = p,
                                        !.listed = <<r>>]
    /\ UNCHANGED <<bkNow, bkObject, bkMeta, bkInventory, bkRun, bkOutput, bkForgotten, bkCrashes, bkDamage>>

size_matches(data) == data \in {Whole, Altered}
verify_remote_size(r) == size_matches(bkObject[r])

(* rclone copies the object to a hidden file beside the output, in part    *)
(* when it is cut short.                                                   *)
Download ==
    LET r == bkCommand.listed[1] IN
    /\ bkCommand.pc = "restore"
    /\ IF verify_remote_size(r)
       THEN \E data \in {bkObject[r], Short} :
              bkCommand' = [bkCommand EXCEPT !.pc = "downloaded", !.temp = data]
       ELSE bkCommand' = NoCommand
    /\ UNCHANGED <<bkNow, bkObject, bkMeta, bkInventory, bkRun, bkOutput, bkForgotten, bkCrashes, bkDamage>>

restore_remote ==
    LET r == bkCommand.listed[1] IN
    /\ bkCommand.pc = "downloaded"
    /\ bkOutput' = IF size_matches(bkCommand.temp)
                   THEN [id |-> r[1], path |-> bkMeta[r].path, data |-> bkCommand.temp]
                   ELSE bkOutput
    /\ bkCommand' = NoCommand
    /\ UNCHANGED <<bkNow, bkObject, bkMeta, bkInventory, bkRun, bkForgotten, bkCrashes, bkDamage>>

(***************************************************************************)
(* voom backup verify --destination d: reads only, and takes no lock.      *)
(***************************************************************************)
remote_sha256(r) == IF BkHashes THEN {bkObject[r]} ELSE {}
verify_remote_hash(r) ==
    IF \E actual \in remote_sha256(r) : actual # Whole
    THEN "hash_mismatch" ELSE "verified"
verify_remote_record(r) ==
    CASE bkObject[r] = Absent -> "missing"
      [] bkObject[r] = Short -> "size_mismatch"
      [] OTHER -> verify_remote_hash(r)

verify_remote_records(d) ==
    [r \in ToSet(list_of(bkInventory, d)) |-> verify_remote_record(r)]

(***************************************************************************)
(* The world outside: time passes, and an object is lost or damaged.       *)
(***************************************************************************)
HalfDay ==
    /\ bkNow < BkMaxTime /\ bkNow' = bkNow + 1
    /\ UNCHANGED <<bkObject, bkMeta, bkInventory, bkRun, bkCommand, bkOutput,
                   bkForgotten, bkCrashes, bkDamage>>
Damage(r) ==
    /\ bkObject[r] = Whole /\ bkDamage < BkMaxDamage
    /\ bkDamage' = bkDamage + 1
    /\ \E data \in {Short, Altered} : bkObject' = [bkObject EXCEPT ![r] = data]
   
    /\ UNCHANGED <<bkNow, bkMeta, bkInventory, bkRun, bkCommand, bkOutput,
                   bkForgotten, bkCrashes>>

BkInit ==
    /\ bkNow = 0
    /\ bkObject = [k \in BkIds \X Dests |-> Absent]
    /\ bkMeta = [k \in BkIds \X Dests |-> [path |-> 0, at |-> 0]]
    /\ bkInventory = <<>>
    /\ bkRun = NoBackup /\ bkCommand = NoCommand
    /\ bkOutput = Untouched
    /\ bkForgotten = {} /\ bkCrashes = 0 /\ bkDamage = 0

BkNext ==
    \/ \E p \in BkPaths : BackupBegins(p)
    \/ NotRemote \/ Uploaded \/ upload_fails
    \/ PersistRecord \/ PersistNewline \/ BackupEnds \/ RunCrashes
    \/ \E d \in Dests : CleanupAsks(d)
    \/ \E r \in BkIds \X Dests : DeleteCopy(r) \/ Damage(r)
    \/ cleanup_remote \/ CommandStops
    \/ \E p \in BkPaths, d \in Dests : RestoreAsks(p, d)
    \/ Download \/ restore_remote
    \/ HalfDay

(***************************************************************************)
(* Part two: plans whose backups go to the global directory.  A backup is  *)
(* [id, path, data], its file name holds id and the name of path; a        *)
(* content is <<path, version>>.                                           *)
(***************************************************************************)
BgPaths == DOMAIN BgFiles
file_name(p) == BgFiles[p]

VARIABLES
    bgDisk,     \* content of each path
    bgDir,      \* the global directory: a set of backups
    bgRecord,   \* the manager's records: path to backup id, 0 is none
    bgOps,      \* pending operations: [plan, path]
    bgPc,       \* where the plan of a path is
    bgPlans,    \* plans so far
    bgStage,    \* "run", "stopped" or "recover"
    bgOrphans,  \* what recovery still has to resolve: [backup, path]
    bgGood,     \* contents of a path that recovery may leave
    bgOwed,     \* ids of backups whose operation was pending at a crash
    bgLeft      \* a crash met an older backup of the same file name

bgVars == <<bgDisk, bgDir, bgRecord, bgOps, bgPc, bgPlans, bgStage, bgOrphans,
            bgGood, bgOwed, bgLeft>>

BackupOf(id) == CHOOSE b \in bgDir : b.id = id

(* PlanExecuting at the backup manager: a path that has a record is not    *)
(* backed up again.                                                        *)
on_plan_executing(p) ==
    /\ bgStage = "run" /\ bgPc[p] = "idle" /\ bgPlans < BgMaxPlans
    /\ bgPlans' = bgPlans + 1
    /\ IF bgRecord[p] # 0
       THEN /\ bgGood' = [bgGood EXCEPT ![p] = {bgDisk[p], BackupOf(bgRecord[p]).data}]
            /\ UNCHANGED <<bgDir, bgRecord>>
       ELSE /\ bgDir' = bgDir \cup {[id |-> bgPlans', path |-> p, data |-> bgDisk[p]]}
            /\ bgRecord' = [bgRecord EXCEPT ![p] = bgPlans']
            /\ bgGood' = [bgGood EXCEPT ![p] = {bgDisk[p]}]
    /\ bgPc' = [bgPc EXCEPT ![p] = "backed"]
    /\ UNCHANGED <<bgDisk, bgOps, bgStage, bgOrphans, bgOwed, bgLeft>>

(* PlanExecuting at the store, which comes after. *)
insert_pending_op(p) ==
    /\ bgPc[p] = "backed"
    /\ bgOps' = bgOps \cup {[plan |-> bgPlans, path |-> p]}
    /\ bgPc' = [bgPc EXCEPT ![p] = "executing"]
    /\ UNCHANGED <<bgDisk, bgDir, bgRecord, bgPlans, bgStage, bgOrphans, bgGood,
                   bgOwed, bgLeft>>

MutateFile(p) ==
    /\ bgPc[p] = "executing"
    /\ bgDisk' = [bgDisk EXCEPT ![p] = <<p, bgPlans>>]
    /\ bgPc' = [bgPc EXCEPT ![p] = "mutated"]
    /\ UNCHANGED <<bgDir, bgRecord, bgOps, bgPlans, bgStage, bgOrphans, bgGood,
                   bgOwed, bgLeft>>

on_plan_completed(p, keep) ==
    /\ bgPc[p] = "mutated"
    /\ IF keep
       THEN /\ bgGood' = [bgGood EXCEPT ![p] = @ \cup {bgDisk[p]}]
            /\ UNCHANGED <<bgDir, bgRecord>>
       ELSE /\ bgDir' = {b \in bgDir : b.id # bgRecord[p]}
            /\ bgRecord' = [bgRecord EXCEPT ![p] = 0]
            /\ bgGood' = [bgGood EXCEPT ![p] = {bgDisk[p]}]
    /\ bgPc' = [bgPc EXCEPT ![p] = "closing"]
    /\ UNCHANGED <<bgDisk, bgOps, bgPlans, bgStage, bgOrphans, bgOwed, bgLeft>>

(* The file is restored; the backup stays in the directory. *)
on_plan_failed(p) ==
    /\ bgPc[p] \in {"executing", "mutated"}
    /\ bgDisk' = [bgDisk EXCEPT ![p] = BackupOf(bgRecord[p]).data]
    /\ bgGood' = [bgGood EXCEPT ![p] = {bgDisk'[p]}]
    /\ bgRecord' = [bgRecord EXCEPT ![p] = 0]
    /\ bgPc' = [bgPc EXCEPT ![p] = "closing"]
    /\ UNCHANGED <<bgDir, bgOps, bgPlans, bgStage, bgOrphans, bgOwed, bgLeft>>

(* The store forgets the operation, which also ends the plan. *)
delete_pending_op(p) ==
    /\ bgPc[p] = "closing"
    /\ bgOps' = {op \in bgOps : ~(op.path = p /\ op.plan = bgPlans)}
    /\ bgGood' = [bgGood EXCEPT ![p] = {bgDisk[p]}]
    /\ bgPc' = [bgPc EXCEPT ![p] = "idle"]
    /\ UNCHANGED <<bgDisk, bgDir, bgRecord, bgPlans, bgStage, bgOrphans, bgOwed, bgLeft>>

(* The run ends or dies, at any point. *)
Stopped ==
    /\ bgStage # "stopped"
    /\ bgStage' = "stopped"
    /\ bgPc' = [p \in BgPaths |-> "idle"]
    /\ bgOwed' = bgOwed \cup {bgRecord[p] : p \in {x \in BgPaths : bgPc[x] \in {"executing", "mutated"}}}
    /\ bgRecord' = [p \in BgPaths |-> 0]
    /\ bgOrphans' = {}
    /\ UNCHANGED <<bgDisk, bgDir, bgOps, bgPlans, bgGood, bgLeft>>

(***************************************************************************)
(* Recovery at the start of the next run.                                  *)
(***************************************************************************)
NamedLike(p) == {op \in bgOps : file_name(op.path) = file_name(p)}

(* A backup whose name one operation has; with more it is ambiguous. *)
collect_global_backups ==
    {[backup |-> b, path |-> (CHOOSE op \in NamedLike(b.path) : TRUE).path] :
        b \in {x \in bgDir : Cardinality(NamedLike(x.path)) = 1}}
ambiguous_paths ==
    UNION {{op.path : op \in NamedLike(b.path)} :
             b \in {x \in bgDir : Cardinality(NamedLike(x.path)) > 1}}

(* With no orphan at all, every operation but the ambiguous is stale. *)
clean_stale_pending_ops == {op \in bgOps : op.path \in ambiguous_paths}

check_and_recover_under ==
    /\ bgStage = "stopped"
    /\ LET leftovers == {b \in bgDir : b.id \notin bgOwed /\ NamedLike(b.path) # {}} IN
         /\ bgLeft' = (bgLeft \/ leftovers # {})
         /\ bgOrphans' = collect_global_backups
         /\ bgOps' = IF bgOrphans' = {} THEN clean_stale_pending_ops ELSE bgOps
    /\ bgStage' = "recover"
    /\ UNCHANGED <<bgDisk, bgDir, bgRecord, bgPc, bgPlans, bgGood, bgOwed>>

(* recover, then resolve_single_orphan forgets the operations of the path. *)
recover_orphan(o) ==
    /\ bgStage = "recover" /\ o \in bgOrphans
    /\ bgDisk' = [bgDisk EXCEPT ![o.path] = o.backup.data]
    /\ bgDir' = bgDir \ {o.backup}
    /\ bgOps' = {op \in bgOps : op.path # o.path}
    /\ bgOrphans' = bgOrphans \ {o}
    /\ UNCHANGED <<bgRecord, bgPc, bgPlans, bgStage, bgGood, bgOwed, bgLeft>>

RecoveryDone ==
    /\ bgStage = "recover" /\ bgOrphans = {}
    /\ bgStage' = "run"
    /\ UNCHANGED <<bgDisk, bgDir, bgRecord, bgOps, bgPc, bgPlans, bgOrphans, bgGood,
                   bgOwed, bgLeft>>

BgInit ==
    /\ bgDisk = [p \in BgPaths |-> <<p, 0>>]
    /\ bgDir = {} /\ bgRecord = [p \in BgPaths |-> 0] /\ bgOps = {}
    /\ bgPc = [p \in BgPaths |-> "idle"] /\ bgPlans = 0
    /\ bgStage = "run" /\ bgOrphans = {}
    /\ bgGood = [p \in BgPaths |-> {<<p, 0>>}] /\ bgOwed = {} /\ bgLeft = FALSE

BgNext ==
    \/ \E p \in BgPaths : \/ on_plan_executing(p) \/ insert_pending_op(p) \/ MutateFile(p)
                          \/ on_plan_failed(p) \/ delete_pending_op(p)
                          \/ \E keep \in BOOLEAN : on_plan_completed(p, keep)
    \/ Stopped \/ check_and_recover_under \/ RecoveryDone
    \/ \E o \in bgOrphans : recover_orphan(o)

(***************************************************************************)
(* A file no operation is pending for holds what it held before the plan   *)
(* that was cut short, or what a finished plan made of it: recovery finds  *)
(* the right backup by its file name alone, and never another file's, so   *)
(* long as no older backup of that name was in the directory               *)
(* (collect_global_backups, recover).                                      *)
(***************************************************************************)
RecoveredFromItsOwn ==
    bgStage = "run" /\ ~bgLeft =>
        \A p \in BgPaths :
            bgPc[p] = "idle" /\ (\A op \in bgOps : op.path # p) => bgDisk[p] \in bgGood[p]

(***************************************************************************)
(* A backup that could not be matched to one file keeps its pending        *)
(* operation, so a later recovery still knows of it                        *)
(* (ambiguous_paths, clean_stale_pending_ops).                             *)
(***************************************************************************)
OwedBackupsKeepTheirOp ==
    bgStage = "run" /\ ~bgLeft =>
        \A b \in bgDir :
            b.id \in bgOwed => \E op \in bgOps : op.path = b.path

(***************************************************************************)
(* Between runs and commands, every copy that was uploaded and not deleted *)
(* by a cleanup that ended is in the inventory, so it can be found again;  *)
(* copies of a backup that was given up or cut short are not.              *)
(* (inventory.rs append, replace_all; cleanup_remote.)                     *)
(***************************************************************************)
CopiesOnRecord ==
    bkRun.pc = "idle" /\ bkCommand.pc = "idle" =>
        \A r \in BkIds \X Dests :
            bkObject[r] = Whole /\ r[1] \notin bkForgotten => r \in ToSet(bkInventory)

(***************************************************************************)
(* After a remote restore the output is as it was, or the whole copy of    *)
(* the path that was asked for, however the download ends; only damage     *)
(* that keeps the size goes unseen (download_with_rclone checks no hash).  *)
(***************************************************************************)
RestoredIsWhole ==
    \/ bkOutput = Untouched
    \/ bkOutput.data = Whole
    \/ bkOutput.data = Altered /\ \E d \in Dests : bkObject[<<bkOutput.id, d>>] # Whole

(***************************************************************************)
(* A restored output is the only backup of its path on the destination,    *)
(* never one of several (select_remote_restore_record refuses those).      *)
(***************************************************************************)
RestoreIsUnambiguous ==
    bkCommand.pc \in {"restore", "downloaded"} =>
        Cardinality({i \in 1 .. Len(bkInventory) :
            bkInventory[i] # Newline
            /\ bkInventory[i][2] = bkCommand.dest
            /\ bkMeta[bkInventory[i]].path = bkCommand.path}) = 1

(***************************************************************************)
(* A record reported verified stands for an object of the right size, and  *)
(* of the right content where the remote tells hashes                      *)
(* (verify_remote_record, verify_remote_hash).                             *)
(***************************************************************************)
VerifiedIsThere ==
    Readable(bkInventory) =>
        \A d \in Dests : \A r \in DOMAIN verify_remote_records(d) :
            verify_remote_records(d)[r] = "verified" =>
                bkObject[r] = Whole \/ (bkObject[r] = Altered /\ ~BkHashes)

-----------------------------------------------------------------------------
(***************************************************************************)
(* Backups beside the files: the directory .voom-backup the backup manager *)
(* keeps in a media directory while several workers run plans there        *)
(* (backup-manager lib.rs, backup.rs), and the local side of `voom backup  *)
(* list | restore | cleanup` (commands/backup.rs).                         *)
(*                                                                         *)
(* Part "dir": the workers' backups, restores and removals, a crash, and   *)
(* the commands, which hold the process lock.  One media directory.        *)
(* Part "space": the free space checks made before a plan and a backup.    *)
(* Part "names": the path of a backup and the paths derived back from it.  *)
(* A file name is the sequence of its parts between dots.                  *)
(***************************************************************************)

CONSTANTS
    LbFiles,        \* files of the media directory
    LbWorkers,      \* workers of a run
    LbMaxPlans,     \* bound: plans started
    LbMaxTime,      \* bound: clock, seconds
    LbMaxCrashes,   \* bound: crashes
    LbSizes,        \* part "space": sizes of a file
    LbFrees,        \* part "space": free space at the start
    LbReserve,      \* min_free_space
    MINIMUM_RESERVE_BYTES,
    LbPaths,        \* part "names": original files, [dirs, name]
    LbRoots,        \* part "names": directories given to the commands
    LbStamps,       \* name parts of fourteen digits
    LbLinks         \* directory names that are symbolic links

ASSUME LbAssumption == LbReserve \in Nat /\ MINIMUM_RESERVE_BYTES \in Nat

VARIABLES
    lbPart,
    lbDir,          \* .voom-backup exists
    lbVbak,         \* backup files: [<<file, time>> -> content]
    lbForeign,      \* some other file lies in the directory
    lbFile,         \* content of each file; 0 is a damaged one
    lbRecords,      \* the manager's records: [file -> [at, retained, of]]
    lbWork,         \* the workers: [pc, file, at]
    lbNow,
    lbPlans,        \* plans started, also the content a plan writes
    lbCrashes,
    lbCommand,      \* the `voom backup` command: [pc, todo]
    lbSpace,        \* part "space": [pc, free, size, extra, subtitles]
    lbCase          \* part "names": [path, root, at]

dirVars == <<lbDir, lbVbak, lbForeign, lbFile, lbRecords, lbWork, lbNow, lbPlans,
             lbCrashes, lbCommand>>
lbVars == <<lbPart, dirVars, lbSpace, lbCase>>

NoWork == [pc |-> "idle", file |-> "none", at |-> 0]
NoLbCommand == [pc |-> "idle", todo |-> {}]
NoBackupRecord == [at |-> -1, retained |-> FALSE, of |-> -1]

(***************************************************************************)
(* Part "dir".                                                             *)
(***************************************************************************)
has_backup(f) == lbRecords[f] # NoBackupRecord
Running == \E w \in LbWorkers : lbWork[w].pc # "idle"
MediaBusy(f) == \E w \in LbWorkers : lbWork[w].file = f
VbakThere(f, t) == <<f, t>> \in DOMAIN lbVbak

Forget(backups) == [k \in DOMAIN lbVbak \ backups |-> lbVbak[k]]

(* PlanExecuting: a file that has a backup is not backed up again. *)
PlanBegins(w, f) ==
    /\ lbWork[w].pc = "idle" /\ ~MediaBusy(f) /\ lbCommand.pc = "idle"
    /\ lbPlans < LbMaxPlans
    /\ lbPlans' = lbPlans + 1
    /\ lbWork' = [lbWork EXCEPT ![w] = [pc |-> IF has_backup(f) THEN "run" ELSE "mkdir",
                                        file |-> f, at |-> lbNow]]
    /\ UNCHANGED <<lbDir, lbVbak, lbForeign, lbFile, lbRecords, lbNow, lbCrashes, lbCommand>>

MakeBackupDir(w) ==
    /\ lbWork[w].pc = "mkdir"
    /\ lbDir' = TRUE
    /\ lbWork' = [lbWork EXCEPT ![w].pc = "copy"]
    /\ UNCHANGED <<lbVbak, lbForeign, lbFile, lbRecords, lbNow, lbPlans, lbCrashes, lbCommand>>

(* The copy, and the record.  Without the directory the copy fails, the    *)
(* handler reports the error and the plan runs without a backup.           *)
CopyBackup(w) ==
    LET f == lbWork[w].file  t == lbWork[w].at IN
    /\ lbWork[w].pc = "copy"
    /\ IF lbDir
       THEN /\ lbVbak' = [k \in DOMAIN lbVbak \cup {<<f, t>>} |->
                            IF k = <<f, t>> THEN lbFile[f] ELSE lbVbak[k]]
            /\ lbRecords' = [lbRecords EXCEPT ![f] = [at |-> t, retained |-> FALSE,
                                                      of |-> lbFile[f]]]
       ELSE UNCHANGED <<lbVbak, lbRecords>>
    /\ lbWork' = [lbWork EXCEPT ![w].pc = "run"]
    /\ UNCHANGED <<lbDir, lbForeign, lbFile, lbNow, lbPlans, lbCrashes, lbCommand>>

(* External: the executor replaces the file, or fails and damages it. *)
PlanRuns(w) ==
    /\ lbWork[w].pc = "run"
    /\ \E out \in {"done", "failed"} :
         /\ lbFile' = [lbFile EXCEPT ![lbWork[w].file] =
                         IF out = "done" THEN lbPlans ELSE 0]
         /\ lbWork' = [lbWork EXCEPT ![w].pc = out]
    /\ UNCHANGED <<lbDir, lbVbak, lbForeign, lbRecords, lbNow, lbPlans, lbCrashes, lbCommand>>

(* PlanCompleted: the backup is retained, or removed and then its          *)
(* directory.                                                              *)
PlanCompletes(w) ==
    LET f == lbWork[w].file IN
    /\ lbWork[w].pc = "done"
    /\ \/ /\ lbRecords' = IF has_backup(f) THEN [lbRecords EXCEPT ![f].retained = TRUE]
                          ELSE lbRecords
          /\ lbWork' = [lbWork EXCEPT ![w] = NoWork]
          /\ UNCHANGED lbVbak
       \/ /\ lbVbak' = Forget({<<f, lbRecords[f].at>>})
          /\ lbRecords' = IF VbakThere(f, lbRecords[f].at)
                          THEN [lbRecords EXCEPT ![f] = NoBackupRecord] ELSE lbRecords
          /\ lbWork' = [lbWork EXCEPT ![w] =
                          IF VbakThere(f, lbRecords[f].at) THEN [@ EXCEPT !.pc = "rmdir"]
                          ELSE NoWork]
    /\ UNCHANGED <<lbDir, lbForeign, lbFile, lbNow, lbPlans, lbCrashes, lbCommand>>


(* remove_dir: fails, and is ignored, unless the directory is empty. *)
try_cleanup_parent_dir ==
    /\ lbDir' = (lbDir /\ (DOMAIN lbVbak # {} \/ lbForeign))
    /\ UNCHANGED <<lbVbak, lbForeign>>

RemoveBackupDir(w) ==
    /\ lbWork[w].pc = "rmdir"
    /\ try_cleanup_parent_dir
    /\ lbWork' = [lbWork EXCEPT ![w] = NoWork]
    /\ UNCHANGED <<lbFile, lbRecords, lbNow, lbPlans, lbCrashes, lbCommand>>

(* PlanFailed: the file is restored and the record dropped; the backup     *)
(* file stays.                                                             *)
PlanFails(w) ==
    LET f == lbWork[w].file
        restored == has_backup(f) /\ VbakThere(f, lbRecords[f].at)
    IN
    /\ lbWork[w].pc = "failed"
    /\ lbFile' = IF restored THEN [lbFile EXCEPT ![f] = lbVbak[<<f, lbRecords[f].at>>]]
                 ELSE lbFile
    /\ lbRecords' = IF restored THEN [lbRecords EXCEPT ![f] = NoBackupRecord] ELSE lbRecords
    /\ lbWork' = [lbWork EXCEPT ![w] = NoWork]
    /\ UNCHANGED <<lbDir, lbVbak, lbForeign, lbNow, lbPlans, lbCrashes, lbCommand>>

LbTick ==
    /\ lbNow < LbMaxTime
    /\ lbNow' = lbNow + 1
    /\ UNCHANGED <<lbDir, lbVbak, lbForeign, lbFile, lbRecords, lbWork, lbPlans, lbCrashes, lbCommand>>

(* The process ends, at a crash or between runs: the records are gone. *)
LbProcessEnds ==
    /\ \/ ~Running /\ UNCHANGED lbCrashes
       \/ Running /\ lbCrashes < LbMaxCrashes /\ lbCrashes' = lbCrashes + 1
    /\ lbWork' = [w \in LbWorkers |-> NoWork]
    /\ lbRecords' = [f \in LbFiles |-> NoBackupRecord]
    /\ UNCHANGED <<lbDir, lbVbak, lbForeign, lbFile, lbNow, lbPlans, lbCommand>>

(***************************************************************************)
(* The commands.  They hold the process lock, so no run is at work.        *)
(***************************************************************************)
LbIdle == ~Running /\ lbCommand.pc = "idle" /\ \A f \in LbFiles : ~has_backup(f)

(* `voom backup cleanup`: what the scan lists is removed, one at a time. *)
StartCleanup ==
    /\ LbIdle /\ DOMAIN lbVbak # {}
    /\ lbCommand' = [pc |-> "remove", todo |-> DOMAIN lbVbak]
    /\ UNCHANGED <<lbDir, lbVbak, lbForeign, lbFile, lbRecords, lbWork, lbNow, lbPlans, lbCrashes>>

remove_vbak_file(k) ==
    /\ lbVbak' = Forget({k})
    /\ lbDir' = (lbDir /\ (DOMAIN lbVbak # {k} \/ lbForeign))
    /\ UNCHANGED lbForeign

CleanupNext ==
    /\ lbCommand.pc = "remove"
    /\ IF lbCommand.todo = {}
       THEN lbCommand' = [lbCommand EXCEPT !.pc = "cleaned"] /\ UNCHANGED <<lbDir, lbVbak, lbForeign>>
       ELSE \E k \in lbCommand.todo :
              /\ remove_vbak_file(k)
              /\ lbCommand' = [lbCommand EXCEPT !.todo = @ \ {k}]
    /\ UNCHANGED <<lbFile, lbRecords, lbWork, lbNow, lbPlans, lbCrashes>>

CommandEnds ==
    /\ lbCommand.pc = "cleaned"
    /\ lbCommand' = NoLbCommand
    /\ UNCHANGED <<lbDir, lbVbak, lbForeign, lbFile, lbRecords, lbWork, lbNow, lbPlans, lbCrashes>>

(* `voom backup restore`: the backup is copied over the file and stays. *)
restore_from_paths(k) ==
    /\ LbIdle /\ k \in DOMAIN lbVbak
    /\ lbFile' = [lbFile EXCEPT ![k[1]] = lbVbak[k]]
    /\ UNCHANGED <<lbDir, lbVbak, lbForeign, lbRecords, lbWork, lbNow, lbPlans, lbCrashes, lbCommand>>

(* A plan that encodes or converts is counted twice its file. *)
estimate_required_space(extra, size, subtitles) ==
    (IF extra THEN 2 ELSE 1) * size + subtitles + MINIMUM_RESERVE_BYTES

check_disk_space ==
    /\ lbSpace.pc = "check"
    /\ lbSpace' = [lbSpace EXCEPT !.pc =
         IF lbSpace.free >= estimate_required_space(lbSpace.extra, lbSpace.size, lbSpace.subtitles)
         THEN "backup" ELSE "refused"]

(* Too little space for the backup: the plan runs without one. *)
validate_disk_space_for ==
    /\ lbSpace.pc = "backup"
    /\ lbSpace' = IF lbSpace.free < lbSpace.size + LbReserve
                  THEN [lbSpace EXCEPT !.pc = "write"]
                  ELSE [lbSpace EXCEPT !.pc = "write", !.free = @ - lbSpace.size]

(* External: the executor writes an output up to the size of its inputs. *)
WriteOutput ==
    /\ lbSpace.pc = "write"
    /\ \E out \in 1 .. lbSpace.size + lbSpace.subtitles :
         lbSpace' = IF out > lbSpace.free THEN [lbSpace EXCEPT !.pc = "full"]
                    ELSE [lbSpace EXCEPT !.pc = "written", !.free = @ - out]

(***************************************************************************)
(* Part "names".                                                           *)
(***************************************************************************)
(* A backslash is not kept in the name of a backup. *)
Sanitised(part) == IF part = "back\\slash" THEN "back_slash" ELSE part

backup_path_for(path, at) ==
    [dirs |-> Append(path.dirs, ".voom-backup"),
     name |-> [i \in DOMAIN path.name |-> Sanitised(path.name[i])] \o <<at, "vbak">>]

(* The name without ".vbak" and without its last part, fourteen digits;    *)
(* <<>> when there is none.                                                *)
derive_original_name(name) ==
    LET bare == Front(name) IN
    IF Last(name) # "vbak" \/ Len(bare) < 2 \/ Last(bare) \notin LbStamps THEN <<>>
    ELSE Front(bare)

derive_original_path(backup, name) ==
    [dirs |-> IF Last(backup.dirs) = ".voom-backup" THEN Front(backup.dirs) ELSE backup.dirs,
     name |-> name]

(* The recovery after a crash derives the path by itself. *)
infer_original_path(backup) ==
    [dirs |-> Front(backup.dirs), name |-> derive_original_name(backup.name)]

is_hidden(dir) == dir \in {".hidden", ".voom-backup"}

(* The scan of a root comes by a backup: it descends into directories that *)
(* are neither hidden nor links and collects from .voom-backup.            *)
scan_vbak_files(root, backup) ==
    /\ IsStrictPrefix(root, backup.dirs)
    /\ Last(backup.dirs) = ".voom-backup"
    /\ \A i \in Len(root) + 1 .. Len(backup.dirs) - 1 :
         ~is_hidden(backup.dirs[i]) /\ backup.dirs[i] \notin LbLinks
    /\ Len(backup.name) > 1 /\ Last(backup.name) = "vbak"
    /\ backup.name # <<"", "vbak">>

-----------------------------------------------------------------------------
NoSpace == [pc |-> "none", free |-> 0, size |-> 0, extra |-> FALSE, subtitles |-> 0]
NoCase == [path |-> [dirs |-> <<>>, name |-> <<>>], root |-> <<>>, at |-> "none"]

LbInit ==
    /\ lbPart \in {"dir", "space", "names"}
    /\ lbForeign \in (IF lbPart = "dir" THEN BOOLEAN ELSE {FALSE}) /\ lbDir = lbForeign
    /\ lbVbak = <<>> /\ lbFile = [f \in LbFiles |-> 100]
    /\ lbRecords = [f \in LbFiles |-> NoBackupRecord]
    /\ lbWork = [w \in LbWorkers |-> NoWork]
    /\ lbNow = 0 /\ lbPlans = 0 /\ lbCrashes = 0 /\ lbCommand = NoLbCommand
    /\ lbSpace \in IF lbPart = "space"
                   THEN [pc : {"check"}, free : LbFrees, size : LbSizes,
                         extra : BOOLEAN, subtitles : {0, 1}]
                   ELSE {NoSpace}
    /\ lbCase \in IF lbPart = "names"
                  THEN [path : LbPaths, root : LbRoots, at : LbStamps]
                  ELSE {NoCase}

DirNext ==
    \/ \E w \in LbWorkers :
         \/ \E f \in LbFiles : PlanBegins(w, f)
         \/ MakeBackupDir(w) \/ CopyBackup(w) \/ PlanRuns(w) \/ PlanCompletes(w)
         \/ RemoveBackupDir(w) \/ PlanFails(w)
    \/ LbTick \/ LbProcessEnds \/ StartCleanup \/ CleanupNext \/ CommandEnds
    \/ \E k \in DOMAIN lbVbak : restore_from_paths(k)
SpaceNext == check_disk_space \/ validate_disk_space_for \/ WriteOutput

LbNext ==
    /\ UNCHANGED <<lbPart, lbCase>>
    /\ \/ lbPart = "dir" /\ DirNext /\ UNCHANGED lbSpace
       \/ lbPart = "space" /\ SpaceNext /\ UNCHANGED dirVars
LbSpec == LbInit /\ [][LbNext]_lbVars

-----------------------------------------------------------------------------
(* A record of the backup manager stands for a backup file that is there   *)
(* and holds what the file held before its plan, whatever other workers do *)
(* in the same .voom-backup: remove_dir never takes it along.              *)
RecordedIsOnDisk ==
    \A f \in LbFiles : has_backup(f) =>
        VbakThere(f, lbRecords[f].at) /\ lbVbak[<<f, lbRecords[f].at>>] = lbRecords[f].of

(* `voom backup cleanup` leaves no backup, and no .voom-backup unless      *)
(* something else lies there, which it leaves alone.                       *)
CleanupIsComplete ==
    lbCommand.pc = "cleaned" => lbVbak = <<>> /\ lbDir = lbForeign

(* A plan that encodes or converts, and passed check_disk_space, has room  *)
(* for its backup and for an output no larger than what goes into it.      *)
EncodingFits == lbSpace.extra => lbSpace.pc # "full"

(* `voom backup restore` of a backup the manager made goes back to the     *)
(* file it was made of, and so does the recovery after a crash: the        *)
(* derived name drops the stamp and nothing of the name, dots and digits   *)
(* of its own included.  A name with a backslash is the exception.         *)
RestoreGoesHome ==
    LET path == lbCase.path
        backup == backup_path_for(path, lbCase.at)
    IN  lbPart = "names" /\ (\A i \in DOMAIN path.name : Sanitised(path.name[i]) = path.name[i]) =>
          /\ derive_original_path(backup, derive_original_name(backup.name)) = path
          /\ infer_original_path(backup) = path

(* Every backup of a file below a root is listed by `voom backup list` of  *)
(* that root, unless a hidden or linked directory lies between.            *)
BackupsAreListed ==
    LET path == lbCase.path IN
    /\ lbPart = "names" /\ IsPrefix(lbCase.root, path.dirs)
    /\ \A i \in Len(lbCase.root) + 1 .. Len(path.dirs) :
         ~is_hidden(path.dirs[i]) /\ path.dirs[i] \notin LbLinks
    => scan_vbak_files(lbCase.root, backup_path_for(path, lbCase.at))

=============================================================================
