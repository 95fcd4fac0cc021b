----------------------------- MODULE TestStore ------------------------------
(***************************************************************************)
(* InMemoryStore (voom-domain/test_support.rs), the store most of the      *)
(* crates' own tests run against, beside the SQLite store of FileTable:    *)
(* every call goes to both, and their answers are compared.                *)
(*                                                                         *)
(* Part one is the scan session protocol.  The in-memory store keeps rows  *)
(* in a hash map, so `find` may return any match.  Scan sessions begin,    *)
(* are cancelled and grow stale alike in both and are kept once.           *)
(* Part two is verification records and the integrity summary.             *)
(***************************************************************************)
EXTENDS FileTable, Sequences

CONSTANTS
    TsFiles,        \* files of part two
    TsHashes,       \* content hashes of verification records
    TsMaxRecords,   \* bound: verification records
    TsCutoff        \* the time the summary calls older records stale

NoAnswer == [kind |-> "none", missing |-> 0, moved |-> 0]
Answer(kind) == [kind |-> kind, missing |-> 0, moved |-> 0]
NoRow == [status |-> "none", path |-> NoPath, hash |-> NoHash]

VARIABLES
    tsFiles,        \* rows of the in-memory store
    tsLastSeen,     \* last_seen: path to session, 0 is none
    tsNew,          \* new_in_session: <<session, id>>
    tsAffinity,     \* file_session_affinity: id to session, 0 is none
    tsReal,         \* the last answer of the SQLite store
    tsDouble,       \* the last answer of the in-memory store
    tsApart,        \* a change was ingested, or a row of an unfinished session
                    \* promoted
    tsRecords,      \* verification records, in both stores
    tsActive        \* active files of part two

doubleVars == <<tsFiles, tsLastSeen, tsNew, tsAffinity>>
tsVars == <<tables, doubleVars, tsReal, tsDouble, tsApart>>
summaryVars == <<tsRecords, tsActive>>

-----------------------------------------------------------------------------
(* Ingest.                                                                  *)

DoubleAt(p) == {f \in FileId : tsFiles[f].status # "none" /\ tsFiles[f].path = p}

(* Mutant: the row of an unfinished session is taken for an earlier scan's. *)
double_needs_recovery_Never(f) == FALSE
double_needs_recovery(f) ==
    tsAffinity[f] # 0 /\ sessions[tsAffinity[f]].status # "completed"

fresh_active_file(p, h) == [status |-> "active", path |-> p, hash |-> h]

(* A missing row of the hash under the roots moves here, else a new row. *)
ingest_handle_no_row(rows, affinity, s, p, h) ==
    LET matches == {f \in FileId : /\ rows[f].status = "missing"
                                   /\ rows[f].hash = h
                                   /\ rows[f].path \in sessions[s].roots}
    IN  \/ \E f \in matches :
             /\ tsFiles' = [rows EXCEPT ![f] = fresh_active_file(p, h)]
             /\ tsAffinity' = [affinity EXCEPT ![f] = s]
             /\ tsNew' = tsNew
             /\ tsDouble' = Answer("moved")
        \/ /\ matches = {}
           /\ \E g \in FileId :
                /\ tsFiles[g].status = "none" /\ tsAffinity[g] = 0
                /\ \A e \in FileId : e < g => tsFiles[e].status # "none" \/ tsAffinity[e] # 0
                /\ tsFiles' = [rows EXCEPT ![g] = fresh_active_file(p, h)]
                /\ tsAffinity' = [affinity EXCEPT ![g] = s]
                /\ tsNew' = tsNew \cup {<<s, g>>}
           /\ tsDouble' = Answer("new")

ingest_handle_existing_row(f, s, p, h) ==
    \/ /\ double_needs_recovery(f)
       /\ ingest_handle_no_row([tsFiles EXCEPT ![f] = NoRow], tsAffinity, s, p, h)
    \/ /\ ~double_needs_recovery(f) /\ tsFiles[f].hash = h
       /\ tsFiles' = [tsFiles EXCEPT ![f].status = "active"]
       /\ tsAffinity' = [tsAffinity EXCEPT ![f] = s]
       /\ tsNew' = tsNew
       /\ tsDouble' = Answer("unchanged")
    \/ /\ ~double_needs_recovery(f) /\ tsFiles[f].hash # h
       /\ \E g \in FileId :
            /\ tsFiles[g].status = "none" /\ tsAffinity[g] = 0
            /\ \A e \in FileId : e < g => tsFiles[e].status # "none" \/ tsAffinity[e] # 0
            /\ tsFiles' = [tsFiles EXCEPT ![f].status = "missing",
                                          ![g] = fresh_active_file(p, h)]
            /\ tsAffinity' = [tsAffinity EXCEPT ![g] = s]
       /\ tsNew' = tsNew
       /\ tsDouble' = Answer("changed")

DoubleIngests(s, p, h) ==
    \/ /\ tsLastSeen[p] = s
       /\ tsDouble' = Answer(IF DoubleAt(p) = {} THEN "error" ELSE "duplicate")
       /\ UNCHANGED doubleVars
    \/ /\ tsLastSeen[p] # s
       /\ \/ \E f \in DoubleAt(p) : ingest_handle_existing_row(f, s, p, h)
          \/ DoubleAt(p) = {} /\ ingest_handle_no_row(tsFiles, tsAffinity, s, p, h)
       /\ tsLastSeen' = [tsLastSeen EXCEPT ![p] = s]

(* The SQLite store draws ids in order, which only names them. *)
InOrder ==
    \A f \in FileId : files[f].status = "unused" /\ files'[f].status # "unused" =>
        \A e \in FileId : e < f => files[e].status # "unused"

RealIngests(s, p, h) ==
    /\ InProgress(s)
    /\ \/ IngestDuplicate(s, p) /\ tsReal' = Answer("duplicate")
       \/ ingest_unchanged(s, p, h) /\ tsReal' = Answer("unchanged")
       \/ ingest_externally_changed(s, p, h) /\ tsReal' = Answer("changed")
       \/ ingest_moved(s, p, h) /\ tsReal' = Answer("moved")
       \/ ingest_new(s, p, h) /\ tsReal' = Answer("new")
    /\ InOrder

IngestBoth(s, p, h) ==
    /\ p \in sessions[s].roots
    /\ RealIngests(s, p, h)
    /\ DoubleIngests(s, p, h)
    /\ tsApart' = (tsApart \/ tsReal'.kind = "changed")

-----------------------------------------------------------------------------
(* Finish.                                                                  *)

DoubleUnseen(rows, seen, s) ==
    {f \in FileId : /\ rows[f].status = "active"
                    /\ rows[f].path \in sessions[s].roots
                    /\ seen[rows[f].path] # s}

(* new_by_hash keeps one new row per hash, any of them. *)
NewByHash(s) ==
    LET new == {g \in FileId : <<s, g>> \in tsNew /\ tsFiles[g].status # "none"}
        hashes == {tsFiles[g].hash : g \in new}
    IN  {pick \in [hashes -> new] : \A h \in hashes : tsFiles[pick[h]].hash = h}

(* Pairs are applied in any order; a new row that is gone is passed over,  *)
(* so each new row takes the first candidate of its hash.                  *)
MovePairs(s, pick) ==
    LET candidates == {f \in DoubleUnseen(tsFiles, tsLastSeen, s) :
                         tsFiles[f].hash \in DOMAIN pick}
        hashes == {tsFiles[f].hash : f \in candidates}
    IN  {[h \in hashes |-> [from |-> first[h], to |-> pick[h]]] :
           first \in {c \in [hashes -> candidates] : \A h \in hashes : tsFiles[c[h]].hash = h}}

DoubleFinishes(s) ==
    \E pick \in NewByHash(s) : \E pairs \in MovePairs(s, pick) :
        LET moved == {pairs[h] : h \in DOMAIN pairs}
            promoted == [f \in FileId |->
                           IF \E m \in moved : m.to = f THEN NoRow
                           ELSE IF \E m \in moved : m.from = f
                           THEN [tsFiles[f] EXCEPT !.path =
                                   tsFiles[(CHOOSE m \in moved : m.from = f).to].path]
                           ELSE tsFiles[f]]
            seen == [p \in Path |-> IF \E m \in moved : tsFiles[m.to].path = p
                                    THEN s ELSE tsLastSeen[p]]
            missing == DoubleUnseen(promoted, seen, s)
        IN  /\ tsFiles' = [f \in FileId |->
                             IF f \in missing THEN [promoted[f] EXCEPT !.status = "missing"]
                             ELSE promoted[f]]
            /\ tsLastSeen' = seen
            /\ tsDouble' = [kind |-> "finished", missing |-> Cardinality(missing),
                            moved |-> Cardinality(moved)]
            /\ UNCHANGED <<tsNew, tsAffinity>>

RealFinishes(s) ==
    /\ finish_scan_session(s)
    /\ tsReal' = [kind |-> "finished",
         missing |-> Cardinality({f \in FileId : files[f].status = "active"
                                                 /\ files'[f].status = "missing"}),
         moved |-> Cardinality({f \in FileId : files[f].status = "active"
                                               /\ files'[f].status = "deleted"})]

(* A promoted row keeps its affinity in memory and is stamped in SQLite. *)
FinishBoth(s) ==
    /\ RealFinishes(s) /\ DoubleFinishes(s)
    /\ tsApart' = (tsApart \/ \E f \in FileId : /\ tsFiles[f].path # tsFiles'[f].path
                                               /\ tsFiles'[f].status # "none"
                                               /\ double_needs_recovery(f))

-----------------------------------------------------------------------------
(* The other calls.                                                         *)

BeginBoth(s, roots) ==
    /\ begin_scan_session(s, roots)
    /\ tsReal' = NoAnswer /\ tsDouble' = NoAnswer
    /\ UNCHANGED <<doubleVars, tsApart>>

CancelBoth(s) ==
    /\ InProgress(s) /\ cancel_scan_session(s)
    /\ tsReal' = NoAnswer /\ tsDouble' = NoAnswer
    /\ UNCHANGED <<doubleVars, tsApart>>

StaleBoth(s) ==
    /\ InProgress(s) /\ ~sessions[s].stale
    /\ sessions' = [sessions EXCEPT ![s] =
                      [status |-> "in_progress", roots |-> sessions[s].roots, stale |-> TRUE]]
    /\ UNCHANGED <<files, transitions, outcomes, mutations, doubleVars, tsReal, tsDouble, tsApart>>

TsInit ==
    /\ FileTableInit
    /\ tsFiles = [f \in FileId |-> NoRow]
    /\ tsLastSeen = [p \in Path |-> 0]
    /\ tsNew = {} /\ tsAffinity = [f \in FileId |-> 0]
    /\ tsReal = NoAnswer /\ tsDouble = NoAnswer /\ tsApart = FALSE

(* Followed until the stores are known to part ways; the in-memory finish  *)
(* does not ask for mutations, so none is recorded.                        *)
TsNext ==
    ~tsApart /\ \E s \in Session :
        \/ \E roots \in SUBSET Path \ {{}} : BeginBoth(s, roots)
        \/ CancelBoth(s) \/ StaleBoth(s) \/ FinishBoth(s)
        \/ \E p \in Path, h \in Hash : IngestBoth(s, p, h)

(***************************************************************************)
(* Until a content change is ingested or a row of an unfinished session is *)
(* promoted, and with no mutation recorded, both stores                    *)
(* decide every ingest alike and finish with the same counts and the same  *)
(* active files: what tests learn from one holds of the other              *)
(* (ingest_handle_existing_row, ingest_handle_no_row,                      *)
(* finish_collect_move_pairs, finish_mark_missing).                        *)
(***************************************************************************)
StoresAgree ==
    ~tsApart =>
        /\ tsReal = tsDouble
        /\ {<<files[f].path, files[f].expected_hash>> : f \in {x \in FileId : files[x].status = "active"}}
             = {<<tsFiles[f].path, tsFiles[f].hash>> : f \in {x \in FileId : tsFiles[x].status = "active"}}

-----------------------------------------------------------------------------
(* Verification records.  Ids are UUIDs, so ties of verified_at fall either *)
(* way; a hash record may carry no hash.                                    *)

TsRecordTimes == 0..TsCutoff

insert_verification(r) ==
    /\ Cardinality(tsRecords) < TsMaxRecords
    /\ \A o \in tsRecords : o.id # r.id
    /\ tsRecords' = tsRecords \cup {r}
    /\ UNCHANGED tsActive

DeactivateFile(f) == f \in tsActive /\ tsActive' = tsActive \ {f} /\ UNCHANGED tsRecords

TsSummaryInit == tsRecords = {} /\ tsActive = TsFiles

TsSummaryNext ==
    \/ \E f \in TsFiles : DeactivateFile(f)
    \/ \E r \in [file : TsFiles, id : 1..TsMaxRecords, at : TsRecordTimes,
               mode : {"hash", "thorough"}, outcome : {"ok", "warning", "error"},
               hash : TsHashes \cup {NoHash}] :
         (r.mode = "thorough" => r.hash = NoHash) /\ insert_verification(r)

RecordsOf(f) == {r \in tsRecords : r.file = f}
Later(a, b) == a.at > b.at \/ (a.at = b.at /\ a.id > b.id)
Newest(S) == CHOOSE r \in S : \A o \in S : o = r \/ Later(r, o)

latest_of(f) == Newest(RecordsOf(f))

hash_changed_for_latest(f, latest) ==
    /\ latest.mode = "hash"
    /\ LET earlier == {r \in RecordsOf(f) : r.mode = "hash" /\ r.at < latest.at}
       IN  \E r \in earlier : (\A o \in earlier : o.at <= r.at) /\ r.hash # latest.hash

list_files_due_for_verification(cutoff) ==
    {f \in tsActive : RecordsOf(f) = {} \/ latest_of(f).at < cutoff}

integrity_summary(since) ==
    LET verified == {f \in tsActive : RecordsOf(f) # {}}
    IN  [total |-> Cardinality(tsActive),
         never |-> Cardinality(tsActive \ verified),
         stale |-> Cardinality({f \in verified : latest_of(f).at < since}),
         errors |-> Cardinality({f \in verified : latest_of(f).outcome = "error"}),
         warnings |-> Cardinality({f \in verified : latest_of(f).outcome = "warning"})]

hash_mismatches ==
    Cardinality({f \in tsActive : RecordsOf(f) # {} /\ hash_changed_for_latest(f, latest_of(f))})

(* The SQL of the SQLite store: MAX(verified_at) per file, rn = 1 of       *)
(* (verified_at, id) descending, and LAG over the hash records, where a    *)
(* comparison with NULL holds of nothing.                                  *)
LastAt(f) == CHOOSE t \in TsRecordTimes : /\ \E r \in RecordsOf(f) : r.at = t
                                          /\ \A r \in RecordsOf(f) : r.at <= t
SqlDue(cutoff) == {f \in tsActive : RecordsOf(f) = {} \/ LastAt(f) < cutoff}

SqlSummary(since) ==
    LET RankedFirst(o) == {r \in tsRecords : /\ r.file \in tsActive /\ r.outcome = o
                                             /\ \A x \in RecordsOf(r.file) : x = r \/ Later(r, x)}
    IN  [total |-> Cardinality(tsActive),
         never |-> Cardinality({f \in tsActive : RecordsOf(f) = {}}),
         stale |-> Cardinality({f \in tsActive : RecordsOf(f) # {} /\ LastAt(f) < since}),
         errors |-> Cardinality(RankedFirst("error")),
         warnings |-> Cardinality(RankedFirst("warning"))]

SqlMismatches ==
    LET HashRecords(f) == {r \in RecordsOf(f) : r.mode = "hash"}
        Mismatch(f) ==
            \E a, b \in HashRecords(f) :
                /\ b.at < a.at
                /\ \A r \in HashRecords(f) \ {a} : r.at <= b.at
                /\ a.hash # NoHash /\ b.hash # NoHash /\ a.hash # b.hash
    IN  Cardinality({f \in TsFiles : Mismatch(f)})

(***************************************************************************)
(* Both stores count files never verified, stale, with errors and with     *)
(* warnings alike and list the same files as due, whatever the ties; and   *)
(* they count the same hash mismatches while every file is active, has     *)
(* only hash records of distinct times and every hash is known             *)
(* (integrity_summary, hash_changed_for_latest).                           *)
(***************************************************************************)
SummariesAgree ==
    /\ \A t \in TsRecordTimes : /\ integrity_summary(t) = SqlSummary(t)
                                 /\ list_files_due_for_verification(t) = SqlDue(t)
    /\ (/\ tsActive = TsFiles
        /\ \A r \in tsRecords : r.mode = "hash" /\ r.hash # NoHash
        /\ \A r, o \in tsRecords : r = o \/ r.file # o.file \/ r.at # o.at)
         => hash_mismatches = SqlMismatches

\* What a test learns from the in-memory store holds of SQLite's: the two
\* decide ingests alike, finish sessions with the same rows, and count what
\* verification found alike, within the limits StoresAgree and SummariesAgree
\* name.
DoubleAgrees ==
  /\ StoresAgree
  /\ SummariesAgree
=============================================================================
