----------------------------- MODULE WebServer ------------------------------
(* The web server: its event stream and its requests.                       *)
EXTENDS FiniteSets, Integers, Sequences, SequencesExt

-----------------------------------------------------------------------------
(***************************************************************************)
(* The live updates of the web server (plugins/web-server/src/sse.rs,      *)
(* plugins/web-sse-bridge): clients that connect and leave under a limit    *)
(* kept in an atomic counter, and the broadcast channel the bridge forwards *)
(* the events of the server's own bus to.                                  *)
(***************************************************************************)

CONSTANTS
  Client,        \* browsers
  MaxClients,    \* MAX_SSE_CLIENTS
  Capacity,      \* SSE_CHANNEL_CAPACITY
  MaxEvents      \* bound: events broadcast in a behaviour

ASSUME WebAssumption == MaxClients \in Nat /\ Capacity \in Nat \ {0} /\ MaxEvents \in Nat

VARIABLES
  counter,     \* sse_client_count
  conn,        \* conn[c]: "away", "counted", "refused" or "open"
  seenTotal,   \* the value fetch_add returned to c
  tail,        \* events broadcast so far
  cursor,      \* cursor[c]: next event of c's receiver
  from,        \* ghost: the event number at which c subscribed
  frames       \* ghost: what c was sent: [event] by its number, or [lagged] by how many

webVars == <<counter, conn, seenTotal, tail, cursor, from, frames>>

WebInit ==
  /\ counter = 0 /\ tail = 0
  /\ conn = [c \in Client |-> "away"] /\ seenTotal = [c \in Client |-> 0]
  /\ cursor = [c \in Client |-> 0] /\ from = [c \in Client |-> 0]
  /\ frames = [c \in Client |-> <<>>]

\* events_handler: fetch_add, and only then the comparison.
Connect(c) ==
  /\ conn[c] = "away"
  /\ seenTotal' = [seenTotal EXCEPT ![c] = counter] /\ counter' = counter + 1
  /\ conn' = [conn EXCEPT ![c] = "counted"]
  /\ UNCHANGED <<tail, cursor, from, frames>>

\* Over the limit the client is refused and uncounted; else the guard is made
\* and the client subscribes to what is broadcast from now on.
Admit(c) ==
  /\ conn[c] = "counted"
  /\ IF seenTotal[c] >= MaxClients
     THEN /\ conn' = [conn EXCEPT ![c] = "away"] /\ counter' = counter - 1
          /\ UNCHANGED <<cursor, from, frames>>
     ELSE /\ conn' = [conn EXCEPT ![c] = "open"] /\ cursor' = [cursor EXCEPT ![c] = tail]
          /\ from' = [from EXCEPT ![c] = tail]
          /\ frames' = [frames EXCEPT ![c] = <<>>]
          /\ UNCHANGED counter
  /\ seenTotal' = [seenTotal EXCEPT ![c] = 0]
  /\ UNCHANGED tail

\* The client goes away: the stream and with it the guard are dropped.
Disconnect(c) ==
  /\ conn[c] = "open"
  /\ conn' = [conn EXCEPT ![c] = "away"] /\ counter' = counter - 1
  /\ cursor' = [cursor EXCEPT ![c] = 0] /\ from' = [from EXCEPT ![c] = 0]
  /\ frames' = [frames EXCEPT ![c] = <<>>]
  /\ UNCHANGED <<seenTotal, tail>>

\* The bridge's on_event: a forwarded event is sent whether or not somebody
\* listens; the channel keeps the last Capacity of them.
Forward ==
  /\ tail < MaxEvents
  /\ tail' = tail + 1
  /\ UNCHANGED <<counter, conn, seenTotal, cursor, from, frames>>

\* The client's stream: the next event, or, when the channel has overwritten it,
\* a "lagged" notice with the number of events missed.
Deliver(c) ==
  /\ conn[c] = "open" /\ cursor[c] < tail
  /\ LET lost == tail - Capacity - cursor[c]
     IN IF lost > 0
        THEN /\ frames' = [frames EXCEPT ![c] = Append(@, [event |-> 0, lagged |-> lost])]
             /\ cursor' = [cursor EXCEPT ![c] = tail - Capacity]
        ELSE /\ frames' = [frames EXCEPT ![c] = Append(@, [event |-> cursor[c] + 1, lagged |-> 0])]
             /\ cursor' = [cursor EXCEPT ![c] = @ + 1]
  /\ UNCHANGED <<counter, conn, seenTotal, tail, from>>

WebNext ==
  \/ \E c \in Client : Connect(c) \/ Admit(c) \/ Disconnect(c) \/ Deliver(c)
  \/ Forward

-----------------------------------------------------------------------------
(* Properties.                                                             *)

\* The counter never loses a client and never invents one, although it is
\* incremented before the check: when nobody is between the two, it is the
\* number of open streams, so a place freed is a place that can be taken.
NoPlaceLeaks ==
  (\A c \in Client : conn[c] # "counted") =>
    /\ counter <= MaxClients
    /\ counter = Cardinality({c \in Client : conn[c] = "open"})

\* A client that counts what it is sent, a "lagged" notice as the number it
\* names, always knows which event of the stream it is being shown: its count
\* from when it subscribed names the event of every frame, although the channel
\* overwrote others while the client was slow (events_handler).
NoSilentGap ==
  \A c \in Client : \A i \in 1..Len(frames[c]) :
    LET before == FoldLeft(LAMBDA n, x : n + (IF x.event = 0 THEN x.lagged ELSE 1), from[c], SubSeq(frames[c], 1, i - 1))
    IN frames[c][i].event # 0 => frames[c][i].event = before + 1

-----------------------------------------------------------------------------
(* The HTTP side of `voom serve`: a request passes the rate limits, waits   *)
(* for a place, is authorised and handled; deleting a file takes the        *)
(* process lock that the command line also takes.  A second part has the    *)
(* pages and lists a client walks through.                                  *)

CONSTANTS
  WaRequests,   \* request slots
  WaFiles,      \* file ids
  WaPlaces,     \* ConcurrencyLimitLayer
  WaGeneral,    \* burst of the general limiter, replenished one per tick
  WaCpu,        \* burst of the cpu-intensive limiter
  WaMaxTicks,   \* ticks of the limiters' clock that are looked at
  WaCounts,     \* sizes of the libraries walked through
  WaPerPage,    \* entries of a library page
  WaLimits,     \* limits a client of the file list asks for
  WaMaxLimit,   \* MAX_LIMIT
  WaMaxOffset,  \* MAX_OFFSET
  WaWidth,      \* bits of a page number
  WaHistories,  \* verification histories: sequences of [file, error], oldest first
  WaKnown,      \* files of those histories that still have a row
  WaScan,       \* INTEGRITY_SCAN_LIMIT
  WaDisplay     \* INTEGRITY_DISPLAY_LIMIT

VARIABLES waPart, waReq, waTokens, waLock, waCli, waRows, waRuns, waTicks, waWalk

waVars == <<waPart, waReq, waTokens, waLock, waCli, waRows, waRuns, waTicks, waWalk>>

NoOne == 0
Cli == -1
----------------------------------------------------------------------------
(* Requests.  "kind" is the route, "ok" whether the header is right for    *)
(* the configured token, "op" the store call its handler waits for on a    *)
(* thread of its own, "hit" whether its write found the row.               *)

WaKinds == {"delete", "list", "run", "format"}
FreeSlot == [at |-> "free", kind |-> "none", ok |-> FALSE, file |-> 0, confirmed |-> FALSE,
             known |-> FALSE, listed |-> {}, op |-> "none", hit |-> FALSE, answer |-> 0]

Answer(r, status) == [waReq EXCEPT ![r].at = "answered", ![r].answer = status, ![r].op = "none"]
MoveTo(r, stage) == [waReq EXCEPT ![r].at = stage]
StartOp(r, op) == [waReq EXCEPT ![r].at = op, ![r].op = op]

Arrivals ==
  {[FreeSlot EXCEPT !.at = "limit", !.kind = kind, !.ok = ok, !.file = CHOOSE f \in WaFiles : TRUE,
                    !.confirmed = TRUE, !.known = TRUE] : kind \in WaKinds \ {"run", "delete"}, ok \in BOOLEAN}
  \cup {[FreeSlot EXCEPT !.at = "limit", !.kind = "delete", !.ok = ok, !.file = f,
                         !.confirmed = TRUE, !.known = TRUE] : f \in WaFiles, ok \in BOOLEAN}
  \cup {[FreeSlot EXCEPT !.at = "limit", !.kind = "run", !.ok = ok, !.file = CHOOSE f \in WaFiles : TRUE,
                         !.confirmed = confirmed, !.known = known] : ok, confirmed, known \in BOOLEAN}

Arrive(r) ==
  /\ waReq[r].at = "free"
  /\ \E q \in Arrivals : waReq' = [waReq EXCEPT ![r] = q]
  /\ UNCHANGED <<waPart, waTokens, waLock, waCli, waRows, waRuns, waTicks, waWalk>>

\* The cpu limiter is asked first and keeps its token when the general one
\* then refuses.
RateLimit(r) ==
  /\ waReq[r].at = "limit"
  /\ LET cpu == waReq[r].kind = "format"
         afterCpu == [waTokens EXCEPT !.cpu = @ - 1]
         paid == IF cpu THEN afterCpu ELSE waTokens
     IN IF cpu /\ waTokens.cpu = 0
        THEN waReq' = Answer(r, 429) /\ UNCHANGED waTokens
        ELSE IF waTokens.general = 0
        THEN waReq' = Answer(r, 429) /\ waTokens' = paid
        ELSE waReq' = MoveTo(r, "queue") /\ waTokens' = [paid EXCEPT !.general = @ - 1]
  /\ UNCHANGED <<waPart, waLock, waCli, waRows, waRuns, waTicks, waWalk>>

Replenish ==
  /\ waPart = "serve" /\ waTicks < WaMaxTicks
  /\ waTicks' = waTicks + 1
  /\ waTokens' = [waTokens EXCEPT !.general = IF @ < WaGeneral THEN @ + 1 ELSE @,
                                  !.cpu = IF @ < WaCpu THEN @ + 1 ELSE @]
  /\ UNCHANGED <<waPart, waReq, waLock, waCli, waRows, waRuns, waWalk>>

InPlace == {"auth", "lock", "check", "mark", "list", "count", "estimate", "launch", "format"}

TakePlace(r) ==
  /\ waReq[r].at = "queue"
  /\ Cardinality({q \in WaRequests : waReq[q].at \in InPlace}) < WaPlaces
  /\ waReq' = MoveTo(r, "auth")
  /\ UNCHANGED <<waPart, waTokens, waLock, waCli, waRows, waRuns, waTicks, waWalk>>

FirstStep(kind) == CASE kind = "delete" -> "lock" [] kind = "list" -> "list"
                     [] kind = "run" -> "estimate" [] OTHER -> "format"

auth_middleware(r) ==
  /\ waReq[r].at = "auth"
  /\ waReq' = IF waReq[r].ok THEN MoveTo(r, FirstStep(waReq[r].kind)) ELSE Answer(r, 401)
  /\ UNCHANGED <<waPart, waTokens, waLock, waCli, waRows, waRuns, waTicks, waWalk>>

(* Mutant: the handler waits for the lock. *)
acquire_process_lock_Waits(r) ==
  /\ waReq[r].at = "lock" /\ waLock = NoOne
  /\ waReq' = StartOp(r, "check") /\ waLock' = r
  /\ UNCHANGED <<waPart, waTokens, waCli, waRows, waRuns, waTicks, waWalk>>

\* try_lock_exclusive: a lock held by a command or another request refuses, and
\* so does a lock file that cannot be made.
acquire_process_lock(r) ==
  /\ waReq[r].at = "lock"
  /\ \/ waLock = NoOne /\ waReq' = StartOp(r, "check") /\ waLock' = r
     \/ waReq' = Answer(r, 500) /\ UNCHANGED waLock
  /\ UNCHANGED <<waPart, waTokens, waCli, waRows, waRuns, waTicks, waWalk>>

\* A handler that answers lets go of its lock.
AnswerDelete(r, status) == waReq' = Answer(r, status) /\ waLock' = NoOne

\* The call ends after the handler was dropped: nobody reads its result.
OpUnread(r) == waReq[r].at = "dropped" /\ waReq' = [waReq EXCEPT ![r].op = "none"] /\ UNCHANGED waLock

(* Mutant: the lock is dropped when the row has been looked up. *)
CheckRow_Unlocks(r) ==
  /\ waReq[r].op = "check"
  /\ \/ OpUnread(r)
     \/ /\ waReq[r].at = "check" /\ waLock' = NoOne
        /\ waReq' = IF waRows[waReq[r].file] = "none" THEN Answer(r, 404) ELSE StartOp(r, "mark")
  /\ UNCHANGED <<waPart, waTokens, waCli, waRows, waRuns, waTicks, waWalk>>

CheckRow(r) ==
  /\ waReq[r].op = "check"
  /\ \/ OpUnread(r)
     \/ waReq[r].at = "check" /\ waRows[waReq[r].file] = "none" /\ AnswerDelete(r, 404)
     \/ /\ waReq[r].at = "check" /\ waRows[waReq[r].file] # "none"
        /\ waReq' = StartOp(r, "mark") /\ UNCHANGED waLock
     \/ waReq[r].at = "check" /\ AnswerDelete(r, 500)
  /\ UNCHANGED <<waPart, waTokens, waCli, waRows, waRuns, waTicks, waWalk>>

\* mark_missing says nothing of a row that is no longer there.
MarkRow(r) ==
  /\ waReq[r].op = "mark"
  /\ LET f == waReq[r].file
     IN \/ /\ waRows' = [waRows EXCEPT ![f] = IF @ = "none" THEN @ ELSE "missing"]
           /\ \/ OpUnread(r)
              \/ /\ waReq[r].at = "mark" /\ waLock' = NoOne
                 /\ waReq' = [Answer(r, 200) EXCEPT ![r].hit = waRows[f] # "none"]
        \/ /\ UNCHANGED waRows
           /\ OpUnread(r) \/ (waReq[r].at = "mark" /\ AnswerDelete(r, 500))
  /\ UNCHANGED <<waPart, waTokens, waCli, waRuns, waTicks, waWalk>>

\* The client goes away: the handler and what it holds are dropped where they
\* wait, but a store call that was started goes on by itself.
ClientLeaves(r) ==
  /\ waReq[r].at \in {"queue"} \cup InPlace
  /\ waReq' = MoveTo(r, "dropped")
  /\ waLock' = IF waLock = r THEN NoOne ELSE waLock
  /\ UNCHANGED <<waPart, waTokens, waCli, waRows, waRuns, waTicks, waWalk>>

\* The two store calls of list_files are two operations of their own.
ListRows(r) ==
  /\ waReq[r].at = "list"
  /\ waReq' = [waReq EXCEPT ![r].at = "count",
                            ![r].listed = {f \in WaFiles : waRows[f] = "active"}]
  /\ UNCHANGED <<waPart, waTokens, waLock, waCli, waRows, waRuns, waTicks, waWalk>>

CountRows(r) ==
  /\ waReq[r].at = "count" /\ waReq' = Answer(r, 200)
  /\ UNCHANGED <<waPart, waTokens, waLock, waCli, waRows, waRuns, waTicks, waWalk>>

\* A request that names no path, or a policy and a map, is refused; so is an
\* estimate that is not stored or cannot be read.
ReadEstimate(r) ==
  /\ waReq[r].at = "estimate"
  /\ waReq' \in {Answer(r, 400), Answer(r, 500), IF waReq[r].known THEN MoveTo(r, "launch") ELSE Answer(r, 404)}
  /\ UNCHANGED <<waPart, waTokens, waLock, waCli, waRows, waRuns, waTicks, waWalk>>

\* Without a runner, or when the launch fails, nothing is started.
create_process_run(r) ==
  /\ waReq[r].at = "launch"
  /\ \/ waRuns' = (IF waReq[r].confirmed THEN waRuns \cup {r} ELSE waRuns) /\ waReq' = Answer(r, 200)
     \/ waReq[r].confirmed /\ UNCHANGED waRuns /\ waReq' = Answer(r, 500)
  /\ UNCHANGED <<waPart, waTokens, waLock, waCli, waRows, waTicks, waWalk>>

format_policy(r) ==
  /\ waReq[r].at = "format" /\ waReq' = Answer(r, 200)
  /\ UNCHANGED <<waPart, waTokens, waLock, waCli, waRows, waRuns, waTicks, waWalk>>
----------------------------------------------------------------------------
(* A command that needs the lock: it reads the rows it works on, changes   *)
(* one and lets go of the lock when it ends.                               *)

CliStarts ==
  /\ waPart = "serve" /\ waCli = "idle" /\ waLock = NoOne
  /\ waCli' = "running" /\ waLock' = Cli
  /\ UNCHANGED <<waPart, waReq, waTokens, waRows, waRuns, waTicks, waWalk>>

CliDeletes ==
  /\ waCli = "running"
  /\ \E f \in WaFiles : waRows[f] = "active" /\ waRows' = [waRows EXCEPT ![f] = "none"]
  /\ UNCHANGED <<waPart, waReq, waTokens, waLock, waCli, waRuns, waTicks, waWalk>>

CliEnds ==
  /\ waCli = "running" /\ waCli' = "done" /\ waLock' = NoOne
  /\ UNCHANGED <<waPart, waReq, waTokens, waRows, waRuns, waTicks, waWalk>>
----------------------------------------------------------------------------
(* Lists and pages.  The files of a library of n rows are 1..n.            *)

ListOf(n, limit, offset) ==
  SubSeq([i \in 1..n |-> i], offset + 1, IF offset + limit < n THEN offset + limit ELSE n)

Least(a, b) == IF a < b THEN a ELSE b

\* GET /api/files: limit and offset are capped.
list_files_page(n, limit, offset) == ListOf(n, Least(limit, WaMaxLimit), Least(offset, WaMaxOffset))

\* GET /library: (page - 1) * per_page in the width of a page number, which
\* wraps in a release build.
library_page(n, page) == ListOf(n, WaPerPage, ((page - 1) * WaPerPage) % (2 ^ WaWidth))

WalkPages ==
  /\ waPart = "pages" /\ ~ waWalk.done
  /\ LET page == library_page(waWalk.n, waWalk.page)
     IN waWalk' = [waWalk EXCEPT !.page = @ + 1, !.seen = @ \o page, !.done = page = <<>>]
  /\ UNCHANGED <<waPart, waReq, waTokens, waLock, waCli, waRows, waRuns, waTicks>>

\* A client that moves on by what it got.
WalkList ==
  /\ waPart = "list" /\ ~ waWalk.done
  /\ LET page == list_files_page(waWalk.n, waWalk.limit, waWalk.page)
     IN waWalk' = [waWalk EXCEPT !.page = @ + Len(page), !.seen = @ \o page, !.done = page = <<>>]
  /\ UNCHANGED <<waPart, waReq, waTokens, waLock, waCli, waRows, waRuns, waTicks>>

\* list_verifications, newest first, up to the scan limit.
Newest(h) == LET back == Reverse(h) IN SubSeq(back, 1, Least(Len(back), WaScan))

latest_error_files(records) ==
  FoldLeft(LAMBDA acc, r :
             IF r.file \in acc.seen \/ Len(acc.rows) >= WaDisplay THEN acc
             ELSE [seen |-> acc.seen \cup {r.file},
                   rows |-> IF r.error /\ r.file \in WaKnown THEN Append(acc.rows, r.file) ELSE acc.rows],
           [seen |-> {}, rows |-> <<>>], records).rows

IntegrityPage ==
  /\ waPart = "integrity" /\ ~ waWalk.done
  /\ waWalk' = [waWalk EXCEPT !.done = TRUE, !.seen = latest_error_files(Newest(waWalk.history))]
  /\ UNCHANGED <<waPart, waReq, waTokens, waLock, waCli, waRows, waRuns, waTicks>>
----------------------------------------------------------------------------
NoWalk == [n |-> 0, limit |-> 0, page |-> 0, seen |-> <<>>, done |-> TRUE, history |-> <<>>]

WaStart ==
  /\ waTokens = [general |-> WaGeneral, cpu |-> WaCpu]
  /\ waLock = NoOne /\ waCli = "idle" /\ waRuns = {} /\ waTicks = 0
  /\ waRows = [f \in WaFiles |-> "active"]

WaInit ==
  /\ waReq = [r \in WaRequests |-> FreeSlot] /\ WaStart
  /\ \/ waPart = "serve" /\ waWalk = NoWalk
     \/ waPart = "pages" /\ \E n \in WaCounts : waWalk = [NoWalk EXCEPT !.n = n, !.page = 1, !.done = FALSE]
     \/ /\ waPart = "list"
        /\ \E n \in WaCounts, l \in WaLimits : waWalk = [NoWalk EXCEPT !.n = n, !.limit = l, !.done = FALSE]
     \/ /\ waPart = "integrity"
        /\ \E h \in WaHistories : waWalk = [NoWalk EXCEPT !.history = h, !.done = FALSE]

WaServer(r) ==
  \/ RateLimit(r) \/ TakePlace(r) \/ auth_middleware(r)
  \/ acquire_process_lock(r) \/ CheckRow(r) \/ MarkRow(r)
  \/ ListRows(r) \/ CountRows(r) \/ ReadEstimate(r) \/ create_process_run(r) \/ format_policy(r)

WaNext ==
  \/ \E r \in WaRequests : waPart = "serve" /\ Arrive(r)
  \/ \E r \in WaRequests : WaServer(r) \/ ClientLeaves(r)
  \/ Replenish \/ CliStarts \/ CliDeletes \/ CliEnds
  \/ WalkPages \/ WalkList \/ IntegrityPage

WaSpec == WaInit /\ [][WaNext]_waVars /\ \A r \in WaRequests : WF_waVars(WaServer(r))
----------------------------------------------------------------------------
(* A delete has the process lock to itself from its lookup to its write:   *)
(* no command that takes the lock, and no other delete, comes in between,  *)
(* so what it answers as deleted was there (delete_file keeps the lock     *)
(* over both awaits).  The exception is a client that goes away: the lock  *)
(* goes with the handler, and the one store call it had started still runs *)
(* beside whoever takes the lock next (errors.rs:105-114).                 *)
DeleteExcludesCommands ==
  \A r \in WaRequests :
    /\ waReq[r].op # "none" /\ waReq[r].at # "dropped" => waLock = r /\ waCli # "running"
    /\ waReq[r].kind = "delete" /\ waReq[r].answer = 200 => waReq[r].hit

(* Policies are formatted or validated at most as often as the limit for   *)
(* cpu-intensive paths allows, whatever else the client asks for           *)
(* (RateLimitService::call).                                               *)
CpuWorkIsLimited ==
  Cardinality({r \in WaRequests : waReq[r].kind = "format" /\ (waReq[r].at \in {"queue"} \cup InPlace
                                                         \/ waReq[r].answer \in {200, 401})})
    <= WaCpu + waTicks

(* Walking the pages of the library from the first to an empty one shows   *)
(* every file once, in order, as long as the offset of the last page fits  *)
(* its integer (library).                                                  *)
LibraryPagesCover ==
  waPart = "pages" =>
    /\ IsPrefix(waWalk.seen, [i \in 1..waWalk.n |-> i])
    /\ waWalk.done => Len(waWalk.seen) = waWalk.n

(* A client that moves on by the number of files it was given sees every   *)
(* file once whatever limit it asks for, up to the largest offset          *)
(* (list_files and its caps).                                              *)
ListPagesCover ==
  waPart = "list" =>
    /\ IsPrefix(waWalk.seen, [i \in 1..waWalk.n |-> i])
    /\ waWalk.done => Len(waWalk.seen) = waWalk.n

(* The integrity page shows a file exactly when its latest verification is *)
(* an error and its row still exists, as long as the history and the rows  *)
(* stay within the page's limits (latest_error_files).                     *)
IntegrityShowsLatest ==
  waPart = "integrity" /\ waWalk.done =>
    LET h == waWalk.history
        last(f) == CHOOSE i \in 1..Len(h) : h[i].file = f /\ \A j \in (i + 1)..Len(h) : h[j].file # f
        failing == {f \in {h[i].file : i \in 1..Len(h)} : h[last(f)].error /\ f \in WaKnown}
    IN /\ Cardinality(Range(waWalk.seen)) = Len(waWalk.seen)
       /\ Range(waWalk.seen) \subseteq failing
       /\ Len(h) <= WaScan /\ Cardinality(failing) <= WaDisplay => Range(waWalk.seen) = failing

\* The web server answers truthfully under load: places for event streams and
\* requests come back, a client knows of every event it missed, a delete
\* excludes the commands, pages walked to the end show everything once, and
\* the integrity page shows the latest verdicts.
RequestsServed ==
  /\ NoPlaceLeaks
  /\ NoSilentGap
  /\ DeleteExcludesCommands
  /\ CpuWorkIsLimited
  /\ LibraryPagesCover
  /\ ListPagesCover
  /\ IntegrityShowsLatest
=============================================================================
