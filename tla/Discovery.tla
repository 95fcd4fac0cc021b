----------------------------- MODULE Discovery ------------------------------
(***************************************************************************)
(* The discovery plugin's scan of a directory (discovery/scanner.rs,       *)
(* lib.rs): the walk that collects media files, the pool that hashes them  *)
(* under a limit of open files, and the reuse of a stored hash for a file  *)
(* whose size and mtime say it has not changed, against the fingerprint    *)
(* the store keeps (file_fingerprint_by_path).                             *)
(*                                                                         *)
(* Part one follows one file through scans of a changing disk.  A content  *)
(* is a sequence of chunks.  Part two follows one scan of a directory of   *)
(* entries and the threads of its pool.                                    *)
(***************************************************************************)
EXTENDS FiniteSets, Integers, Sequences

CONSTANTS
    DsContents,     \* contents of the file, sequences of chunks
    DsMaxTime,      \* bound: clock
    DsEntries,      \* the directory: DsEntries[e] is the kind of entry e
    DsThreads,      \* threads of the pool
    MAX_CONCURRENT_FDS

PARTIAL_HASH_THRESHOLD == 2
NoPrint == [hash |-> <<>>, size |-> 0, last_seen |-> 0]
NoScan == [pc |-> "idle", size |-> 0, hash |-> <<>>, since |-> 0]

VARIABLES
    dsNow,      \* the clock
    dsData,     \* the file's content
    dsMtime,    \* when it was last written
    dsRow,      \* its row: hash, size and introspected_at, or NoPrint
    dsLate,     \* the file was written between its hash and its introspection
    dsScan      \* the scan of the file: [pc, size, hash, since]

dsFileVars == <<dsNow, dsData, dsMtime, dsRow, dsLate, dsScan>>

hash_file(data) ==
    IF Len(data) <= PARTIAL_HASH_THRESHOLD THEN data
    ELSE <<Len(data), data[1], data[Len(data) \div 2 + 1], data[Len(data)]>>

file_fingerprint_by_path == dsRow
reuse_cached_hash ==
    /\ file_fingerprint_by_path # NoPrint
    /\ file_fingerprint_by_path.size = dsScan.size
    /\ dsMtime <= file_fingerprint_by_path.last_seen

(* Someone writes the file, at any time. *)
WriteFile(data) ==
    /\ dsNow < DsMaxTime /\ data # dsData
    /\ dsNow' = dsNow + 1
    /\ dsMtime' = dsNow + 1
    /\ dsData' = data
    /\ dsLate' = (dsLate \/ dsScan.pc = "ingested")
    /\ UNCHANGED <<dsRow, dsScan>>

ListFile ==
    /\ dsScan.pc = "idle" /\ dsNow < DsMaxTime
    /\ dsNow' = dsNow + 1
    /\ dsScan' = [NoScan EXCEPT !.pc = "walked", !.size = Len(dsData), !.since = dsNow + 1]
    /\ UNCHANGED <<dsData, dsMtime, dsRow, dsLate>>

build_event ==
    /\ dsScan.pc = "walked"
    /\ dsScan' = [dsScan EXCEPT !.pc = "built",
                     !.hash = IF reuse_cached_hash THEN file_fingerprint_by_path.hash ELSE hash_file(dsData)]
    /\ UNCHANGED <<dsNow, dsData, dsMtime, dsRow, dsLate>>

(* Ingest: an unchanged hash keeps introspected_at, another makes a new row *)
(* whose introspected_at is now, and the file is introspected.              *)
IngestFile ==
    /\ dsScan.pc = "built"
    /\ IF dsScan.hash = dsRow.hash
       THEN /\ dsRow' = [dsRow EXCEPT !.size = dsScan.size]
            /\ dsScan' = [dsScan EXCEPT !.pc = "done"]
            /\ UNCHANGED <<dsNow, dsLate>>
       ELSE /\ dsNow < DsMaxTime
            /\ dsNow' = dsNow + 1
            /\ dsRow' = [hash |-> dsScan.hash, size |-> dsScan.size, last_seen |-> dsNow + 1]
            /\ dsLate' = (dsMtime >= dsScan.since)
            /\ dsScan' = [dsScan EXCEPT !.pc = "ingested"]
    /\ UNCHANGED <<dsData, dsMtime>>

(* The introspected file is stored under the hash it was discovered with;   *)
(* or ffprobe fails and the row stays as ingested.                          *)
IntrospectFile ==
    /\ dsScan.pc = "ingested" /\ dsNow < DsMaxTime
    /\ dsNow' = dsNow + 1
    /\ dsRow' = [dsRow EXCEPT !.last_seen = dsNow + 1]
    /\ dsScan' = [dsScan EXCEPT !.pc = "done"]
    /\ UNCHANGED <<dsData, dsMtime, dsLate>>
IntrospectFails ==
    /\ dsScan.pc = "ingested"
    /\ dsScan' = [dsScan EXCEPT !.pc = "done"]
    /\ UNCHANGED <<dsNow, dsData, dsMtime, dsRow, dsLate>>
ScanEnds ==
    /\ dsScan.pc = "done"
    /\ dsScan' = NoScan
    /\ UNCHANGED <<dsNow, dsData, dsMtime, dsRow, dsLate>>

DsFileInit ==
    /\ dsNow = 1 /\ dsMtime = 1 /\ dsData \in DsContents
    /\ dsRow = NoPrint /\ dsLate = FALSE /\ dsScan = NoScan
DsFileNext ==
    \/ \E data \in DsContents : WriteFile(data)
    \/ ListFile \/ build_event \/ IngestFile \/ IntrospectFile \/ IntrospectFails \/ ScanEnds

-----------------------------------------------------------------------------
(***************************************************************************)
(* One scan: walk_media_files, then the pool.  An entry is a media file,   *)
(* one that cannot be read, a walk error, a symlink, a temporary file, a   *)
(* file VOOM wrote in this session, or no media at all.                    *)
(***************************************************************************)
VARIABLES
    dsStage,    \* "walk", "pool", "returned" or "failed"
    dsLeft,     \* entries the walk has not come to
    dsFound,    \* media files found and not taken by a thread
    dsThread,   \* dsThread[t]: [pc, file]
    dsCount,    \* the count of the FdSemaphore
    dsWaiting,  \* threads in its condition variable
    dsCancel,   \* the token is cancelled
    dsReports   \* what was reported: pairs <<entry, "event" | "error">>, a sequence

dsScanVars == <<dsStage, dsLeft, dsFound, dsThread, dsCount, dsWaiting, dsCancel, dsReports>>
DsIdle == [pc |-> "idle", file |-> "none"]
Counted(pc) == {t \in DsThreads : dsThread[t].pc = pc}

(* Mutant: symlinks are followed, so the target is reported under two names. *)
is_walked_Follows(kind) == kind \in {"media", "unreadable", "symlink"}
is_walked(kind) == kind \in {"media", "unreadable"}

(* A root that does not exist, or a snapshot that cannot be loaded. *)
ListingFails ==
    /\ dsStage = "walk" /\ dsLeft = DOMAIN DsEntries
    /\ dsStage' = "failed"
    /\ UNCHANGED <<dsLeft, dsFound, dsThread, dsCount, dsWaiting, dsCancel, dsReports>>

walk_media_files(e) ==
    /\ dsStage = "walk" /\ e \in dsLeft /\ ~dsCancel
    /\ dsLeft' = dsLeft \ {e}
    /\ dsFound' = IF is_walked(DsEntries[e]) THEN dsFound \union {e} ELSE dsFound
    /\ UNCHANGED <<dsStage, dsThread, dsCount, dsWaiting, dsCancel, dsReports>>

(* The walk is over, or broken off; its errors are reported. *)
report_walk_errors ==
    /\ dsStage = "walk" /\ (dsLeft = {} \/ dsCancel)
    /\ dsStage' = "pool"
    /\ LET errors == {e \in DOMAIN DsEntries \ dsLeft : DsEntries[e] = "walk_error"}
       IN dsReports' = IF errors = {} THEN <<>> ELSE <<[of |-> errors, as |-> "error"]>>
    /\ UNCHANGED <<dsLeft, dsFound, dsThread, dsCount, dsWaiting, dsCancel>>

Take(t, e) ==
    /\ dsStage = "pool" /\ dsThread[t] = DsIdle /\ e \in dsFound
    /\ dsFound' = dsFound \ {e}
    /\ dsThread' = [dsThread EXCEPT ![t] = IF dsCancel THEN DsIdle ELSE [pc |-> "acquire", file |-> e]]
    /\ UNCHANGED <<dsStage, dsLeft, dsCount, dsWaiting, dsCancel, dsReports>>

acquire(t) ==
    /\ dsThread[t].pc \in {"acquire", "woken"}
    /\ IF dsCount >= MAX_CONCURRENT_FDS
       THEN /\ dsThread' = [dsThread EXCEPT ![t].pc = "wait"]
            /\ dsWaiting' = dsWaiting \union {t}
            /\ UNCHANGED dsCount
       ELSE /\ dsThread' = [dsThread EXCEPT ![t].pc = "hash"]
            /\ dsCount' = dsCount + 1
            /\ UNCHANGED dsWaiting
    /\ UNCHANGED <<dsStage, dsLeft, dsFound, dsCancel, dsReports>>

(* The file is hashed and reported, or its error is; under the guard. *)
process_file(t) ==
    /\ dsThread[t].pc = "hash"
    /\ dsThread' = [dsThread EXCEPT ![t].pc = "release"]
    /\ dsReports' = Append(dsReports, [of |-> {dsThread[t].file},
                               as |-> IF DsEntries[dsThread[t].file] = "media" THEN "event" ELSE "error"])
    /\ UNCHANGED <<dsStage, dsLeft, dsFound, dsCount, dsWaiting, dsCancel>>

release(t) ==
    /\ dsThread[t].pc = "release"
    /\ dsCount' = dsCount - 1
    /\ IF dsWaiting = {}
       THEN dsThread' = [dsThread EXCEPT ![t] = DsIdle] /\ UNCHANGED dsWaiting
       ELSE \E w \in dsWaiting :
                /\ dsWaiting' = dsWaiting \ {w}
                /\ dsThread' = [dsThread EXCEPT ![t] = DsIdle, ![w].pc = "woken"]
    /\ UNCHANGED <<dsStage, dsLeft, dsFound, dsCancel, dsReports>>

ScanAnswers ==
    /\ dsStage = "pool" /\ dsFound = {} /\ \A t \in DsThreads : dsThread[t] = DsIdle
    /\ dsStage' = "returned"
    /\ UNCHANGED <<dsLeft, dsFound, dsThread, dsCount, dsWaiting, dsCancel, dsReports>>

CancelScan ==
    /\ dsStage \in {"walk", "pool"} /\ ~dsCancel
    /\ dsCancel' = TRUE
    /\ UNCHANGED <<dsStage, dsLeft, dsFound, dsThread, dsCount, dsWaiting, dsReports>>

DsScanInit ==
    /\ dsStage = "walk" /\ dsLeft = DOMAIN DsEntries /\ dsFound = {}
    /\ dsThread = [t \in DsThreads |-> DsIdle]
    /\ dsCount = 0 /\ dsWaiting = {} /\ dsCancel = FALSE /\ dsReports = <<>>
DsWalkStep == (\E e \in DOMAIN DsEntries : walk_media_files(e)) \/ report_walk_errors \/ ListingFails
DsThreadStep(t) == (\E e \in DOMAIN DsEntries : Take(t, e)) \/ acquire(t) \/ process_file(t) \/ release(t)
DsScanNext == DsWalkStep \/ (\E t \in DsThreads : DsThreadStep(t)) \/ ScanAnswers \/ CancelScan

-----------------------------------------------------------------------------
(***************************************************************************)
(* The hash a scan reports is the hash of what the file holds, reused or   *)
(* not, when the file was left alone during the scan; except for a row     *)
(* that was itself recorded while the file was being written (dsLate).     *)
(***************************************************************************)
HashOfContent ==
    dsScan.pc \in {"built", "ingested", "done"} /\ dsMtime < dsScan.since /\ ~dsLate
        => dsScan.hash = hash_file(dsData)

(***************************************************************************)
(* hash_file tells two contents apart by size, by their first chunk and by *)
(* their last, and wholly up to the threshold: a truncated, extended or    *)
(* re-headed file is never taken for the old one.                          *)
(***************************************************************************)
HashTellsEnds ==
    \A data \in DsContents :
        dsRow # NoPrint /\ hash_file(data) = dsRow.hash /\ hash_file(dsData) = dsRow.hash =>
            /\ Len(data) = Len(dsData)
            /\ data[1] = dsData[1] /\ data[Len(data)] = dsData[Len(dsData)]
            /\ Len(data) <= PARTIAL_HASH_THRESHOLD => data = dsData

(***************************************************************************)
(* Never more files are open for hashing than the limit, however the       *)
(* threads of the pool are woken and overtaken (FdSemaphore).              *)
(***************************************************************************)
OpenFilesBounded == Cardinality(Counted("hash")) <= MAX_CONCURRENT_FDS

(***************************************************************************)
(* A scan that returns without having been cancelled has reported every    *)
(* media file once and no other file: not a link, not a temporary file,    *)
(* not a file VOOM wrote in this session; and every entry it could not     *)
(* read is reported as an error.                                           *)
(***************************************************************************)
ReportsOf(e, as) == {i \in DOMAIN dsReports : e \in dsReports[i].of /\ dsReports[i].as = as}
EveryMediaFileOnce ==
    /\ \A e \in DOMAIN DsEntries :
           /\ Cardinality(ReportsOf(e, "event")) <= (IF DsEntries[e] = "media" THEN 1 ELSE 0)
           /\ Cardinality(ReportsOf(e, "error")) <= (IF DsEntries[e] \in {"unreadable", "walk_error"} THEN 1 ELSE 0)
    /\ dsStage = "returned" /\ ~dsCancel =>
           \A e \in DOMAIN DsEntries :
               /\ DsEntries[e] = "media" => ReportsOf(e, "event") # {}
               /\ DsEntries[e] \in {"unreadable", "walk_error"} => ReportsOf(e, "error") # {}

(***************************************************************************)
(* The scan returns: no thread waits for ever for a file descriptor while  *)
(* every thread is given its turn.                                         *)
(***************************************************************************)
ScanCompletes == dsStage = "pool" ~> dsStage = "returned"

\* A walk reports every media file below its root once, whatever its threads
\* do, with the hash of the content it read, and holds no more files open
\* than it may (scanner.rs).
WalkIsTrue ==
  /\ EveryMediaFileOnce
  /\ HashOfContent
  /\ HashTellsEnds
  /\ OpenFilesBounded
=============================================================================
