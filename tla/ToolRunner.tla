----------------------------- MODULE ToolRunner -----------------------------
(***************************************************************************)
(* Running an external tool (crates/voom-process/src/lib.rs): the caller   *)
(* that waits with a timeout, the child, its two pipes of limited size, the *)
(* readers that keep them empty and capture a bounded prefix, and a process *)
(* the tool may have left behind that still holds the pipes.  `blocking'   *)
(* is run_with_timeout_env_config, `async' run_cancellable_env_config.     *)
(***************************************************************************)
EXTENDS Integers

CONSTANTS
  PipeSize,     \* chunks the operating system buffers per pipe
  MaxCapture,   \* chunks kept per stream (CaptureConfig)
  MaxOutput     \* bound: chunks a tool writes per stream

ASSUME ToolAssumption == PipeSize \in Nat \ {0} /\ MaxCapture \in Nat /\ MaxOutput \in Nat

Stream == {"stdout", "stderr"}

VARIABLES
  mode,       \* "blocking" or "async"
  child,      \* "none", "running", "exited", "dead" (killed)
  heir,       \* a process started by the tool holds both pipes
  written,    \* chunks written per stream
  inPipe,     \* chunks in the pipe
  captured,   \* BoundedCapture::output
  truncated,  \* BoundedCapture::truncated_bytes
  reader,     \* "reading" or "eof" per stream
  runner,     \* the caller: "ready", "waiting", "killing", "joining", "returned"
  answer      \* "none", "output", "timeout", "cancelled" or "not spawned"

toolVars == <<mode, child, heir, written, inPipe, captured, truncated, reader, runner, answer>>

ToolInit ==
  /\ mode \in {"blocking", "async"} /\ child = "none" /\ heir = FALSE
  /\ written = [s \in Stream |-> 0] /\ inPipe = [s \in Stream |-> 0]
  /\ captured = [s \in Stream |-> 0] /\ truncated = [s \in Stream |-> 0]
  /\ reader = [s \in Stream |-> "reading"] /\ runner = "ready" /\ answer = "none"

\* The child is spawned with both pipes and their readers, or cannot be.
Spawn ==
  /\ runner = "ready"
  /\ \/ child' = "running" /\ runner' = "waiting" /\ UNCHANGED answer
     \/ answer' = "not spawned" /\ runner' = "returned" /\ UNCHANGED child
  /\ UNCHANGED <<mode, heir, written, inPipe, captured, truncated, reader>>

\* External: the tool writes while its pipe has room, starts a process of its
\* own, or exits; it may also hang.
ChildWrites(s) ==
  /\ child = "running" /\ written[s] < MaxOutput /\ inPipe[s] < PipeSize
  /\ written' = [written EXCEPT ![s] = @ + 1] /\ inPipe' = [inPipe EXCEPT ![s] = @ + 1]
  /\ UNCHANGED <<mode, child, heir, captured, truncated, reader, runner, answer>>

ChildForks ==
  /\ child = "running" /\ ~heir /\ heir' = TRUE
  /\ UNCHANGED <<mode, child, written, inPipe, captured, truncated, reader, runner, answer>>

ChildExits ==
  /\ child = "running" /\ child' = "exited"
  /\ UNCHANGED <<mode, heir, written, inPipe, captured, truncated, reader, runner, answer>>

HeirExits ==
  /\ heir /\ heir' = FALSE
  /\ UNCHANGED <<mode, child, written, inPipe, captured, truncated, reader, runner, answer>>

\* BoundedCapture::push of n chunks.
Capture(s, n) ==
  LET room == MaxCapture - captured[s]
      kept == IF n <= room THEN n ELSE room
  IN  /\ captured' = [captured EXCEPT ![s] = @ + kept]
      /\ truncated' = [truncated EXCEPT ![s] = @ + n - kept]

\* A read of read_bounded or read_child_pipe; the async readers are part of the
\* selected future and stop with it.
ReadPipe(s) ==
  /\ reader[s] = "reading" /\ (mode = "async" => runner = "waiting")
  /\ inPipe[s] > 0
  /\ Capture(s, inPipe[s]) /\ inPipe' = [inPipe EXCEPT ![s] = 0]
  /\ UNCHANGED <<mode, child, heir, written, reader, runner, answer>>

\* The end of a stream: nobody holds its writing end any more.
ReadEof(s) ==
  /\ reader[s] = "reading" /\ (mode = "async" => runner = "waiting")
  /\ inPipe[s] = 0 /\ child \in {"exited", "dead"} /\ ~heir
  /\ reader' = [reader EXCEPT ![s] = "eof"]
  /\ UNCHANGED <<mode, child, heir, written, inPipe, captured, truncated, runner, answer>>

\* Mutant: the output is what the readers have by the time the child exits.
WaitEnds_NoJoin ==
  /\ runner = "waiting" /\ child = "exited"
  /\ runner' = "returned" /\ answer' = "output"
  /\ UNCHANGED <<mode, child, heir, written, inPipe, captured, truncated, reader>>

\* blocking: wait_timeout sees the exit, and the readers are joined.  async: all
\* three futures of the join are done.
WaitEnds ==
  /\ runner = "waiting" /\ child = "exited"
  /\ \/ mode = "blocking" /\ runner' = "joining"
     \/ mode = "async" /\ (\A s \in Stream : reader[s] = "eof") /\ runner' = "returned"
  /\ answer' = "output"
  /\ UNCHANGED <<mode, child, heir, written, inPipe, captured, truncated, reader>>

\* The timeout, or for async the token, wins: the child is killed.  A child that
\* has exited while its pipes are still open is timed out by async as well.
TimesOut(why) ==
  /\ runner = "waiting" /\ (mode = "blocking" => why = "timeout" /\ child = "running")
  /\ runner' = "killing" /\ answer' = why
  /\ UNCHANGED <<mode, child, heir, written, inPipe, captured, truncated, reader>>

\* kill and wait; the async readers are dropped with their future.  The errors
\* of both are ignored: the child that cannot be killed is the one that exited.
Kill ==
  /\ runner = "killing"
  /\ child' = IF child = "running" THEN "dead" ELSE child
  /\ runner' = IF mode = "blocking" THEN "joining" ELSE "returned"
  /\ UNCHANGED <<mode, heir, written, inPipe, captured, truncated, reader, answer>>

\* Mutant: only an answer with output ends the join.
JoinReaders_Never ==
  /\ runner = "joining" /\ answer = "output" /\ \A s \in Stream : reader[s] = "eof"
  /\ runner' = "returned"
  /\ UNCHANGED <<mode, child, heir, written, inPipe, captured, truncated, reader, answer>>

\* join_pipe_readers: both threads have read to the end.
JoinReaders ==
  /\ runner = "joining" /\ \A s \in Stream : reader[s] = "eof"
  /\ runner' = "returned"
  /\ UNCHANGED <<mode, child, heir, written, inPipe, captured, truncated, reader, answer>>

ReaderStep == \E s \in Stream : ReadPipe(s) \/ ReadEof(s)
RunnerStep == Spawn \/ WaitEnds \/ TimesOut("timeout") \/ Kill \/ JoinReaders

ToolNext ==
  \/ ReaderStep \/ RunnerStep \/ TimesOut("cancelled")
  \/ (\E s \in Stream : ChildWrites(s)) \/ ChildForks \/ ChildExits \/ HeirExits

ToolSpec == ToolInit /\ [][ToolNext]_toolVars

-----------------------------------------------------------------------------
(* Properties.                                                             *)

\* A successful answer has the whole output: every chunk the tool wrote is
\* captured or counted in the truncation marker, on both streams, although the
\* exit of the child and the reads of its pipes happen in any order.
OutputComplete ==
  runner = "returned" /\ answer = "output" =>
    \A s \in Stream : captured[s] + truncated[s] = written[s]

\* A tool never outlives the call that ran it: when the caller has its answer,
\* also after a timeout or a cancellation, the child is gone.
ChildNeverOutlivesCall == runner = "returned" => child # "running"

\* The memory of a capture is bounded however much a tool prints.
CaptureBounded == \A s \in Stream : captured[s] <= MaxCapture

\* A call of an external tool that succeeds returns all its output up to the
\* limit, never keeps more than the limit, and leaves no child behind, however
\* the child, its pipes and the timeout race (voom-process lib.rs).
ToolCallSound == OutputComplete /\ ChildNeverOutlivesCall /\ CaptureBounded

\* A call returns whatever the tool does: the async one always, the blocking one
\* unless a process the tool started keeps a pipe open (the readers are joined
\* after the kill, and no timeout covers the join).
ToolCallReturns ==
  /\ (mode = "async" /\ runner = "waiting") ~> (runner = "returned")
  /\ (mode = "blocking" /\ runner = "waiting") ~> (runner = "returned" \/ heir)
=============================================================================
