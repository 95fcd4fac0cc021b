---------------------------- MODULE StoreDouble -----------------------------
(***************************************************************************)
(* The tables the job queue, the event log, the histories and the file     *)
(* list are kept in (sqlite-store), beside the same tables of the          *)
(* in-memory store (voom-domain/test_support.rs) that stands for them in   *)
(* the tests of the other crates.  Every call goes to both.                *)
(*                                                                         *)
(* SQLite keeps times as text and orders by the text; `LIKE` patterns are  *)
(* built from prefixes.  Both are modelled character by character, since   *)
(* the order and the escapes are what could go wrong: a time is            *)
(* <<second, milli, micro, nano>>, one digit standing for each group of    *)
(* digits `to_rfc3339` writes or leaves out.                               *)
(***************************************************************************)
EXTENDS FiniteSets, Naturals, Sequences, SequencesExt

CONSTANTS
    SdTimes,      \* times of creation
    SdJobs,       \* job ids
    SdUpdates,    \* the updates given to update_job
    SdTypes,      \* event types, sequences of characters
    SdPrefixes,   \* prefixes of event types to list
    SdMaxEvents,  \* bound: events inserted
    SdPaths,      \* paths of files, sequences of characters
    SdTracks,     \* the track lists of files: sets of [codec, lang]
    SdMaxPages    \* SqlQuery::paginate's largest limit

VARIABLES
    sdRows,     \* SQLite's jobs: id to row, NoStoredJob when there is none
    sdJobs,     \* the in-memory store's jobs
    sdClaims,   \* what the last claim answered in each
    sdLog,      \* SQLite's event_log, by rowid
    sdNext,     \* its AUTOINCREMENT counter
    sdMemLog,   \* the in-memory event log
    sdMoves,    \* SQLite's rows: file_transitions, pending_operations, snapshots
    sdMemMoves, \* the in-memory lists
    sdFiles,    \* SQLite's files and their tracks
    sdMemFiles, \* the in-memory files
    sdPart      \* the tables a behaviour looks at

jobVars == <<sdRows, sdJobs, sdClaims>>
logVars == <<sdLog, sdNext, sdMemLog>>
moveVars == <<sdMoves, sdMemMoves>>
sdFileVars == <<sdFiles, sdMemFiles>>

-----------------------------------------------------------------------------
(* Times as text.  "+" is 43, "." is 46, the digits begin at 48.            *)

Before(a, b) ==
    \/ Len(a) < Len(b) /\ SubSeq(b, 1, Len(a)) = a
    \/ \E i \in 1..Len(a) : /\ i <= Len(b) /\ a[i] < b[i]
                            /\ \A k \in 1..(i - 1) : a[k] = b[k]

Fraction(t) ==
    LET digits == IF t[4] # 0 THEN 3 ELSE IF t[3] # 0 THEN 2 ELSE IF t[2] # 0 THEN 1 ELSE 0
    IN  IF digits = 0 THEN <<>> ELSE <<46>> \o [i \in 1..digits |-> 48 + t[i + 1]]

format_datetime(t) == <<48 + t[1]>> \o Fraction(t) \o <<43>>

parse_datetime(text) ==
    LET digits == SelectSeq(text, LAMBDA c : c \in 48..57)
    IN  [i \in 1..4 |-> IF i <= Len(digits) THEN digits[i] - 48 ELSE 0]

\* ORDER BY a text column, and sort_by_key over times.
RowsInOrder(S, key(_)) == SetToSortSeq(S, LAMBDA a, b : Before(key(a), key(b)))

-----------------------------------------------------------------------------
(* jobs.  An optional value is a set of at most one; JSON null is a value.  *)

NoStoredJob == [there |-> FALSE]
JsonText == [nothing |-> "null", path |-> "{path}"]
serialize_json(v) == JsonText[v]
parse_optional_json(text) == {CHOOSE v \in DOMAIN JsonText : JsonText[v] = x : x \in text}

Job_new(i, priority, t) ==
    [there |-> TRUE, id |-> i, status |-> "pending", priority |-> priority, output |-> {},
     worker |-> {}, created |-> t, completed |-> {}]

ToRow(j) == [j EXCEPT !.output = {serialize_json(v) : v \in @},
                      !.created = format_datetime(@),
                      !.completed = {format_datetime(t) : t \in @}]
row_to_job(r) == [r EXCEPT !.output = parse_optional_json(@),
                           !.created = parse_datetime(@),
                           !.completed = {parse_datetime(t) : t \in @}]

create_job(i, priority, t) ==
    /\ sdRows[i] = NoStoredJob /\ \A k \in SdJobs : sdJobs[k] # NoStoredJob => sdJobs[k].created # t
    /\ sdRows' = [sdRows EXCEPT ![i] = ToRow(Job_new(i, priority, t))]
    /\ sdJobs' = [sdJobs EXCEPT ![i] = Job_new(i, priority, t)]
    /\ UNCHANGED sdClaims

\* A field of the update that is None keeps the column; Some(None) clears it.
Given(field, old) == IF field = {} THEN old ELSE CHOOSE v \in field : TRUE
sql_update_job(r, u) ==
    [r EXCEPT !.status = Given(u.status, @),
              !.output = Given({{serialize_json(v) : v \in o} : o \in u.output}, @),
              !.completed = Given({{format_datetime(t) : t \in c} : c \in u.completed}, @),
              !.worker = Given(u.worker, @)]
mem_update_job(j, u) ==
    [j EXCEPT !.status = Given(u.status, @), !.output = Given(u.output, @),
              !.completed = Given(u.completed, @), !.worker = Given(u.worker, @)]
update_job(i, u) ==
    /\ sdRows[i] # NoStoredJob /\ sdJobs[i] # NoStoredJob
    /\ sdRows' = [sdRows EXCEPT ![i] = sql_update_job(@, u)]
    /\ sdJobs' = [sdJobs EXCEPT ![i] = mem_update_job(@, u)]
    /\ UNCHANGED sdClaims

Pending(table) == {table[i] : i \in {i \in SdJobs : table[i] # NoStoredJob /\ table[i].status = "pending"}}
Claimed(j, w) == [j EXCEPT !.status = "running", !.worker = {w}]

\* ORDER BY priority ASC, created_at ASC LIMIT 1, and min_by_key.
sql_next == LET p == Pending(sdRows)
            IN  {r \in p : \A o \in p : o = r \/ Before(<<r.priority>> \o r.created,
                                                        <<o.priority>> \o o.created)}
mem_next == LET p == Pending(sdJobs)
            IN  {j \in p : \A o \in p : o = j \/ Before(<<j.priority>> \o j.created,
                                                        <<o.priority>> \o o.created)}

claim_next_job(w) ==
    /\ sdClaims' = <<{r.id : r \in sql_next}, {j.id : j \in mem_next}>>
    /\ sdRows' = [i \in SdJobs |-> IF i \in sdClaims'[1] THEN Claimed(sdRows[i], w) ELSE sdRows[i]]
    /\ sdJobs' = [i \in SdJobs |-> IF i \in sdClaims'[2] THEN Claimed(sdJobs[i], w) ELSE sdJobs[i]]

claim_job_by_id(i, w) ==
    /\ sdClaims' = <<{r.id : r \in {r \in Pending(sdRows) : r.id = i}},
                     {j.id : j \in {j \in Pending(sdJobs) : j.id = i}}>>
    /\ sdRows' = IF sdClaims'[1] = {} THEN sdRows ELSE [sdRows EXCEPT ![i] = Claimed(@, w)]
    /\ sdJobs' = IF sdClaims'[2] = {} THEN sdJobs ELSE [sdJobs EXCEPT ![i] = Claimed(@, w)]

Finals == {"completed", "failed", "cancelled"}
delete_jobs(statuses) ==
    LET doomed == IF statuses = {} THEN Finals ELSE statuses
        Kept(table) == [i \in SdJobs |-> IF table[i] # NoStoredJob /\ table[i].status \in doomed
                                         THEN NoStoredJob ELSE table[i]]
    IN  sdRows' = Kept(sdRows) /\ sdJobs' = Kept(sdJobs) /\ UNCHANGED sdClaims

\* LIMIT and OFFSET: an OFFSET with no LIMIT is not SQL, and is refused.
Cut(s, from, n) == SubSeq(s, from + 1, IF from + n < Len(s) THEN from + n ELSE Len(s))
RefusedPage == [ok |-> FALSE, found |-> <<>>]
paginate(s, limit, offset) ==
    IF limit = {} /\ offset # {} THEN RefusedPage
    ELSE LET from == IF offset = {} THEN 0 ELSE CHOOSE o \in offset : TRUE
             n == IF limit = {} THEN Len(s)
                  ELSE LET l == CHOOSE l \in limit : TRUE
                       IN  IF l < SdMaxPages THEN l ELSE SdMaxPages
         IN  [ok |-> TRUE, found |-> Cut(s, from, n)]
SkipTake(s, limit, offset) ==
    LET from == IF offset = {} THEN 0 ELSE CHOOSE o \in offset : TRUE
    IN  Cut(s, from, IF limit = {} THEN Len(s) ELSE CHOOSE l \in limit : TRUE)

Rowset(table, statuses) ==
    {table[i] : i \in {i \in SdJobs : table[i] # NoStoredJob
                                      /\ (statuses = {} \/ table[i].status \in statuses)}}
NewestInPriority(a, b) ==
    a.priority < b.priority \/ (a.priority = b.priority /\ Before(b.created, a.created))

sql_list_jobs(statuses, limit, offset) ==
    paginate(SetToSortSeq(Rowset(sdRows, statuses), NewestInPriority), limit, offset)
mem_list_jobs(statuses, limit, offset) ==
    SkipTake(SetToSortSeq(Rowset(sdJobs, statuses), NewestInPriority), limit, offset)

sql_count_jobs(s) == Cardinality({i \in SdJobs : sdRows[i] # NoStoredJob /\ sdRows[i].status = s})
mem_count_jobs(s) == Cardinality({i \in SdJobs : sdJobs[i] # NoStoredJob /\ sdJobs[i].status = s})

JobNext ==
    \/ \E i \in SdJobs, p \in {0, 1}, t \in SdTimes : create_job(i, p, t)
    \/ \E i \in SdJobs, u \in SdUpdates : update_job(i, u)
    \/ claim_next_job("w")
    \/ \E i \in SdJobs : claim_job_by_id(i, "w")
    \/ \E s \in {{}, {"pending"}, {"completed"}} : delete_jobs(s)

-----------------------------------------------------------------------------
escape_like(s) == [i \in 1..Len(s) |-> [c |-> s[i], literal |-> TRUE]]

\* SQLite's LIKE takes the letters of either case for one another.
Fold(c) == IF c = "M" THEN "m" ELSE c
LikePrefix(text, s) ==
    LET pattern == escape_like(s)
    IN  /\ Len(text) >= Len(s)
        /\ \A i \in 1..Len(s) : ~pattern[i].literal \/ Fold(text[i]) = Fold(pattern[i].c)
starts_with(text, s) == Len(text) >= Len(s) /\ SubSeq(text, 1, Len(s)) = s

insert_event_log(e, t) ==
    /\ sdNext <= SdMaxEvents
    /\ sdLog' = Append(sdLog, [rowid |-> sdNext, type |-> e, at |-> format_datetime(t)])
    /\ sdNext' = sdNext + 1
    /\ sdMemLog' = Append(sdMemLog, [rowid |-> Len(sdMemLog) + 1, type |-> e, at |-> t])

\* rowid <= MAX(rowid) - keep; the in-memory log is split off.
sql_prune_event_log(keep) ==
    SelectSeq(sdLog, LAMBDA r : r.rowid + keep > sdLog[Len(sdLog)].rowid)
mem_prune_event_log(keep) ==
    IF Len(sdMemLog) > keep THEN SubSeq(sdMemLog, Len(sdMemLog) - keep + 1, Len(sdMemLog))
    ELSE sdMemLog
prune_event_log(keep) ==
    /\ sdLog' = sql_prune_event_log(keep)
    /\ sdMemLog' = mem_prune_event_log(keep)
    /\ UNCHANGED sdNext

\* A filter is [type, star]: with a star the type is a prefix.
sql_list_event_log(f, since, limit) ==
    LET found == SelectSeq(sdLog, LAMBDA r :
            /\ f = {} \/ \E x \in f : IF x.star THEN LikePrefix(r.type, x.type) ELSE r.type = x.type
            /\ since = {} \/ \A n \in since : r.rowid > n)
    IN  paginate(found, limit, {}).found
mem_list_event_log(f, since, limit) ==
    LET found == SelectSeq(sdMemLog, LAMBDA r :
            /\ f = {} \/ \E x \in f : IF x.star THEN starts_with(r.type, x.type) ELSE r.type = x.type
            /\ since = {} \/ \A n \in since : r.rowid > n)
    IN  SkipTake(found, limit, {})
Types(s) == [i \in 1..Len(s) |-> s[i].type]

latest_event_of_type(e) ==
    LET of == SelectSeq(sdLog, LAMBDA r : r.type = e)
    IN  IF of = <<>> THEN {} ELSE {of[Len(of)].rowid}
sql_oldest_event_at == {parse_datetime(x) : x \in {y \in {sdLog[i].at : i \in 1..Len(sdLog)} :
                            \A i \in 1..Len(sdLog) : ~Before(sdLog[i].at, y)}}
mem_oldest_event_at == {x \in {sdMemLog[i].at : i \in 1..Len(sdMemLog)} :
                            \A i \in 1..Len(sdMemLog) : ~Before(sdMemLog[i].at, x)}

EventLogNext ==
    \/ \E e \in SdTypes, t \in SdTimes : insert_event_log(e, t)
    \/ \E keep \in {0, 1, 2} : sdLog # <<>> /\ prune_event_log(keep)

-----------------------------------------------------------------------------
(* file_transitions, pending_operations and library_snapshots.              *)

Times(rows) == {parse_datetime(r.at) : r \in rows}

insert_transition(f, p, from, t) ==
    /\ t \notin Times(sdMoves.moves)
    /\ sdMoves' = [sdMoves EXCEPT !.moves = @ \cup
                     {[file |-> f, path |-> p, from |-> from, at |-> format_datetime(t)]}]
    /\ sdMemMoves' = [sdMemMoves EXCEPT !.moves = Append(@,
                        [file |-> f, path |-> p, from |-> from, at |-> t])]

row_to_transition(r) == [r EXCEPT !.at = parse_datetime(@)]
RowsRead(s) == [i \in 1..Len(s) |-> row_to_transition(s[i])]
At(r) == r.at

sql_transitions_for_file(f) == RowsRead(RowsInOrder({r \in sdMoves.moves : r.file = f}, At))
sql_transitions_for_path(p) ==
    RowsRead(RowsInOrder({r \in sdMoves.moves : r.path = p \/ p \in r.from}, At))
mem_transitions_for_file(f) ==
    RowsInOrder({m \in ToSet(sdMemMoves.moves) : m.file = f}, At)
mem_transitions_for_path(p) ==
    RowsInOrder({m \in ToSet(sdMemMoves.moves) : m.path = p \/ p \in m.from}, At)

\* INSERT OR REPLACE, and retain followed by push.
sql_insert_pending_op(rows, i, t) ==
    {r \in rows : r.id # i} \cup {[id |-> i, at |-> format_datetime(t)]}
mem_insert_pending_op(ops, i, t) ==
    Append(SelectSeq(ops, LAMBDA o : o.id # i), [id |-> i, at |-> t])
PendingOp(i, t) ==
    /\ t \notin Times({r \in sdMoves.ops : r.id # i})
    /\ sdMoves' = [sdMoves EXCEPT !.ops = sql_insert_pending_op(@, i, t)]
    /\ sdMemMoves' = [sdMemMoves EXCEPT !.ops = mem_insert_pending_op(@, i, t)]
DropPendingOp(i) ==
    /\ sdMoves' = [sdMoves EXCEPT !.ops = {r \in @ : r.id # i}]
    /\ sdMemMoves' = [sdMemMoves EXCEPT !.ops = SelectSeq(@, LAMBDA o : o.id # i)]
sql_list_pending_ops == RowsRead(RowsInOrder(sdMoves.ops, At))
mem_list_pending_ops == RowsInOrder(ToSet(sdMemMoves.ops), At)

\* One process captures snapshots, so they are saved in the order of their times.
insert_snapshot(t) ==
    /\ \A x \in Times(sdMoves.shots) : Before(x, t)
    /\ sdMoves' = [sdMoves EXCEPT !.shots = @ \cup {[at |-> format_datetime(t)]}]
    /\ sdMemMoves' = [sdMemMoves EXCEPT !.shots = Append(@, [at |-> t])]
NewestShots(n) == SubSeq(Reverse(RowsInOrder(sdMoves.shots, At)), 1, n)
sql_latest_snapshot == IF sdMoves.shots = {} THEN {} ELSE {RowsRead(NewestShots(1))[1]}
mem_latest_snapshot ==
    IF sdMemMoves.shots = <<>> THEN {} ELSE {sdMemMoves.shots[Len(sdMemMoves.shots)]}
\* SQLite answers newest first, the in-memory store oldest first.
sql_list_snapshots(n) ==
    RowsRead(NewestShots(IF n < Cardinality(sdMoves.shots) THEN n ELSE Cardinality(sdMoves.shots)))
mem_list_snapshots(n) ==
    LET s == sdMemMoves.shots IN IF Len(s) > n THEN SubSeq(s, Len(s) - n + 1, Len(s)) ELSE s
prune_snapshots(n) ==
    /\ sdMoves' = [sdMoves EXCEPT !.shots =
                     IF Cardinality(@) > n THEN ToSet(NewestShots(n)) ELSE @]
    /\ sdMemMoves' = [sdMemMoves EXCEPT !.shots = mem_list_snapshots(n)]

TransitionNext ==
    \E f \in {1, 2}, p \in {"p", "q"}, from \in {{}, {"q"}}, t \in SdTimes :
        Len(sdMemMoves.moves) < 2 /\ insert_transition(f, p, from, t)
OpNext == \E i \in {1, 2, 3} : (\E t \in SdTimes : PendingOp(i, t)) \/ DropPendingOp(i)
ShotNext == (\E t \in SdTimes : insert_snapshot(t)) \/ \E n \in {0, 1, 2} : prune_snapshots(n)

-----------------------------------------------------------------------------
(* files and their tracks.                                                  *)

\* Both store the row; a path is one row's at a time (UNIQUE).
Changed(i, f) ==
    /\ sdFiles' = [sdFiles EXCEPT ![i] = f] /\ sdMemFiles' = [sdMemFiles EXCEPT ![i] = f]
Free(p) == \A k \in DOMAIN sdFiles : sdFiles[k].path # p

mark_missing(i) ==
    /\ sdFiles' = [sdFiles EXCEPT ![i].status = IF @ = "active" THEN "missing" ELSE @]
    /\ sdMemFiles' = [sdMemFiles EXCEPT ![i].status = "missing"]
reactivate_file(i, p) ==
    /\ Free(p) \/ sdFiles[i].path = p
    /\ Changed(i, [sdFiles[i] EXCEPT !.status = "active", !.path = p])
rename_file_path(i, p) == /\ Free(p)
                          /\ sdFiles' = [sdFiles EXCEPT ![i].path = p]
                          /\ sdMemFiles' = [sdMemFiles EXCEPT ![i].path = p]
set_file_status(i, status) ==
    /\ sdFiles' = [sdFiles EXCEPT ![i].status = status]
    /\ sdMemFiles' = [sdMemFiles EXCEPT ![i].status = status]
store_file(i, tracks) ==
    Changed(i, [sdFiles[i] EXCEPT !.tracks = tracks, !.status = "active"])

FileNext ==
    \E i \in DOMAIN sdFiles :
        \/ mark_missing(i)
        \/ \E p \in SdPaths : reactivate_file(i, p) \/ rename_file_path(i, p)
        \/ set_file_status(i, "quarantined")
        \/ \E tracks \in SdTracks : store_file(i, tracks)

Distinct(rows) == {<<r[1], 0>> : r \in rows}
JoinedRows(filter) ==
    LET on == filter.codec # {} \/ filter.lang # {}
    IN  UNION {LET f == sdFiles[i] IN
            {<<i, n>> : n \in
                {n \in (IF on THEN 1..Len(f.tracks) ELSE {0}) :
                    /\ filter.missing \/ f.status = "active"
                    /\ filter.prefix = {} \/ \A x \in filter.prefix : LikePrefix(f.path, x)
                    /\ on => /\ filter.codec = {} \/ f.tracks[n].codec \in filter.codec
                             /\ filter.lang = {} \/ f.tracks[n].lang \in filter.lang}} :
            i \in DOMAIN sdFiles}

Codes == [c \in {"/", "M", "_", "m", "x"} |->
            CASE c = "/" -> 1 [] c = "M" -> 2 [] c = "_" -> 3 [] c = "m" -> 4 [] c = "x" -> 5]
PathOrder(p) == [i \in 1..Len(p) |-> Codes[p[i]]]

sql_list_files(filter, limit, offset) ==
    LET rows == SetToSortSeq(Distinct(JoinedRows(filter)), LAMBDA a, b :
                    \/ Before(PathOrder(sdFiles[a[1]].path), PathOrder(sdFiles[b[1]].path))
                    \/ a[1] = b[1] /\ a[2] < b[2])
        page == paginate(rows, limit, offset)
    IN  [page EXCEPT !.found = [k \in 1..Len(@) |-> @[k][1]]]
sql_count_files(filter) == Cardinality({r[1] : r \in JoinedRows(filter)})

matches_filter(f, filter) ==
    /\ filter.missing \/ f.status = "active"
    /\ filter.prefix = {} \/ \A x \in filter.prefix : starts_with(f.path, x)
    /\ filter.codec = {} \/ \E n \in 1..Len(f.tracks) : f.tracks[n].codec \in filter.codec
    /\ filter.lang = {} \/ \E n \in 1..Len(f.tracks) : f.tracks[n].lang \in filter.lang
mem_list_files(filter, limit, offset) ==
    LET found == {i \in DOMAIN sdMemFiles : matches_filter(sdMemFiles[i], filter)}
    IN  SkipTake(SetToSortSeq(found, LAMBDA a, b : Before(PathOrder(sdMemFiles[a].path),
                                                          PathOrder(sdMemFiles[b].path))),
                 limit, offset)

hinted_offset(limit, offset) == offset + limit
Offsets(limit) ==
    LET o[k \in Nat] == IF k = 0 THEN 0 ELSE hinted_offset(limit, o[k - 1])
    IN  [k \in 1..(Cardinality(DOMAIN sdFiles) + 1) |-> o[k - 1]]

-----------------------------------------------------------------------------
(* Properties.                                                              *)

AllFiles == [codec |-> {}, lang |-> {}, prefix |-> {}, missing |-> TRUE]
Limits == {{}} \cup {{n} : n \in 1..2}

(* Every job reads back as it was written, and a claim, a list and the      *)
(* counts answer alike in both stores: ordering by the text of created_at   *)
(* is ordering by the time, however many digits the fraction was written    *)
(* with.  A list with an offset always has a limit (every caller gives      *)
(* one); SQLite refuses the query otherwise.                                *)
JobsAgree == sdPart = "jobs" =>
    /\ \A i \in SdJobs : IF sdRows[i] = NoStoredJob THEN sdJobs[i] = NoStoredJob
                         ELSE row_to_job(sdRows[i]) = sdJobs[i]
    /\ sdClaims[1] = sdClaims[2]
    /\ \A s \in {{}, {"pending"}, {"completed"}}, l \in Limits, o \in Limits :
          l # {} \/ o = {} =>
              LET page == sql_list_jobs(s, l, o) IN
              /\ page.ok
              /\ [k \in 1..Len(page.found) |-> row_to_job(page.found[k])] = mem_list_jobs(s, l, o)
    /\ \A s \in Finals \cup {"pending", "running"} : sql_count_jobs(s) = mem_count_jobs(s)

(* The event log lists the same events in the same order in both stores,    *)
(* by type, by prefix with its underscore taken literally, and after a      *)
(* prune; by rowid as long as nothing was pruned, since the in-memory store *)
(* then numbers anew.  SQLite never gives a rowid twice.                    *)
LogsAgree == sdPart = "log" =>
    /\ \A f \in {{}} \cup {{[type |-> e, star |-> FALSE]} : e \in SdTypes}
                     \cup {{[type |-> x, star |-> TRUE]} : x \in SdPrefixes}, l \in Limits :
          /\ Types(sql_list_event_log(f, {}, l)) = Types(mem_list_event_log(f, {}, l))
          /\ sdNext = Len(sdLog) + 1 => \A n \in 1..2 :
                Types(sql_list_event_log(f, {n}, l)) = Types(mem_list_event_log(f, {n}, l))
    /\ \A i, k \in 1..Len(sdLog) : i < k => sdLog[i].rowid < sdLog[k].rowid
    /\ \A i \in 1..Len(sdLog) : \E n \in latest_event_of_type(sdLog[i].type) : n >= sdLog[i].rowid
    /\ sql_oldest_event_at = mem_oldest_event_at

(* Transitions, pending operations and snapshots come back in the order of  *)
(* their times in both stores, whatever the order they were recorded in;    *)
(* an operation inserted again replaces the earlier one.                    *)
HistoriesAgree == sdPart \in {"transitions", "ops", "shots"} =>
    /\ \A f \in {1, 2} : sql_transitions_for_file(f) = mem_transitions_for_file(f)
    /\ \A p \in {"p", "q"} : sql_transitions_for_path(p) = mem_transitions_for_path(p)
    /\ sql_list_pending_ops = mem_list_pending_ops
    /\ sql_latest_snapshot = mem_latest_snapshot
    /\ \A n \in 1..2 : sql_list_snapshots(n) = Reverse(mem_list_snapshots(n))

(* A file is listed once however many of its tracks match, the count is the *)
(* length of the list, and both stores list the same files, for a codec or  *)
(* a language (SQLite asks for one track with both) and for a prefix that   *)
(* no path matches in another case only (SQLite's LIKE folds case).         *)
FiltersAgree == sdPart = "files" =>
    \A codec \in {{}, {"hevc"}}, lang \in {{}, {"eng"}}, prefix \in {{}} \cup {{x} : x \in SdPrefixes},
       missing \in BOOLEAN :
        LET filter == [codec |-> codec, lang |-> lang, prefix |-> prefix, missing |-> missing]
            all == sql_list_files(filter, {}, {}).found
        IN  /\ IsInjective(all) /\ Len(all) = sql_count_files(filter)
            /\ (codec = {} \/ lang = {}) /\
               (\A x \in prefix, i \in DOMAIN sdFiles :
                    LikePrefix(sdFiles[i].path, x) => starts_with(sdFiles[i].path, x)) =>
                  \A l \in Limits, o \in Limits : l # {} \/ o = {} =>
                      sql_list_files(filter, l, o).found = mem_list_files(filter, l, o)

(* Following the offset `voom files list` prints, page after page, shows    *)
(* every file exactly once, for any limit up to the largest the store       *)
(* grants.                                                                  *)
HintedPagesCover == sdPart = "files" =>
    \A n \in 1..SdMaxPages :
        FlattenSeq([k \in 1..Len(Offsets(n)) |->
                       sql_list_files(AllFiles, {n}, {Offsets(n)[k]}).found])
        = sql_list_files(AllFiles, {}, {}).found

=============================================================================
