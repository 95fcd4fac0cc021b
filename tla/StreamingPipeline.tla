------------------------- MODULE StreamingPipeline --------------------------
(***************************************************************************)
(* run_streaming_pipeline of `voom process`: a blocking discovery task, an   *)
(* ingest task, the root-walk dispatcher (with --execute-during-discovery)   *)
(* and the worker pool, joined by bounded channels and two cancellation      *)
(* tokens, and the command that finishes or cancels the scan session.        *)
(*                                                                           *)
(* The pool is the part of WorkerStream its neighbours see: an enqueuer that *)
(* takes items until it is cancelled or every sender is gone, and workers    *)
(* that run once the execution gate has woken them.                          *)
(***************************************************************************)
EXTENDS FiniteSets, Integers, Sequences

CONSTANTS File,
          NoFile,      \* no file in hand
          Roots,       \* sequence of the roots, in the order they are walked
          Walks,       \* Walks[r]: the files a walk of root r comes across
          RootOf,      \* root_for_path: the innermost root of each file
          NoRoot,      \* a path that resolves to a place outside every root
          Worker,      \* the pool's workers
          Bad,         \* files known to be bad, registered but not enqueued
          Depth        \* capacity of the discovery and item channels

Root == {Roots[i] : i \in 1..Len(Roots)}

ASSUME WalksAssumption == Walks \in [Root -> SUBSET File]
ASSUME RootOfAssumption ==
  /\ NoRoot \notin Root /\ RootOf \in [File -> Root \cup {NoRoot}]
  /\ \A f \in File : RootOf[f] # NoRoot => f \in Walks[RootOf[f]]
ASSUME NoFileAssumption == NoFile \notin File
ASSUME BoundAssumption == Depth \in Nat \ {0} /\ Bad \subseteq File

VARIABLES
  run_token,       \* the run's token, which the pool shares
  pcancel,     \* pipeline_cancel, a child of the token
  disc,        \* discovery: pc, with_gate, index of the root, files of it still
               \* to emit and files being sent
  errors,      \* discovery_errors > 0
  discq,       \* the channel of discovered files
  rootq,       \* the channel of RootWalkCompleted events
  ing,         \* ingest: pc, the file in hand, its result
  seen, registered,
  open,        \* RootGate: the roots whose gate is open
  holding,     \* HoldingBuffer, all roots together
  dsp,         \* dispatcher: pc, the files it has drained and not yet sent
  items,       \* the channel of work items
  sent,        \* sent[f]: how often f was put on it
  fired,       \* execution_gate.notify_waiters() has been called
  workers,        \* pool: pc of its enqueuer, jobs queued, items the store
                  \* refused, jobs run, jobs popped whose claim failed, at[w]
  session,     \* status of the scan session
  awaited         \* which handle run_streaming_pipeline awaits

discovery == <<disc, errors>>
ingest == <<ing, seen, registered>>
gates == <<open, holding, dsp>>
tokens == <<run_token, pcancel>>
\* --execute-during-discovery
GateMode == disc.with_gate

pipelineVars == <<tokens, discovery, discq, rootq, ingest, gates, items, sent, fired, workers, session, awaited>>

PipelineInit ==
  /\ run_token = FALSE /\ pcancel = FALSE
  /\ \E gate \in BOOLEAN :
       disc = [pc |-> "next", with_gate |-> gate, root |-> 1, todo |-> {}, sending |-> {}]
  /\ errors = FALSE
  /\ discq = <<>> /\ rootq = <<>>
  /\ ing = [pc |-> "recv", file |-> NoFile, err |-> FALSE]
  /\ seen = {} /\ registered = {}
  /\ open = {} /\ holding = {}
  /\ dsp = [pc |-> IF GateMode THEN "recv" ELSE "ended", root |-> Roots[1], batch |-> {}]
  /\ items = <<>> /\ sent = [f \in File |-> 0]
  /\ fired = FALSE
  /\ workers = [pc |-> "taking", queued |-> {}, refused |-> {}, run |-> {}, unclaimed |-> {},
                at |-> [w \in Worker |-> "gate"]]
  /\ session = "in_progress"
  /\ awaited = "discovery"

PipelineTypeOK ==
  /\ run_token \in BOOLEAN /\ pcancel \in BOOLEAN /\ errors \in BOOLEAN /\ fired \in BOOLEAN
  /\ disc \in [pc : {"next", "walking", "failing", "dropping", "closing", "ok", "err"},
               with_gate : BOOLEAN, root : 1..(Len(Roots) + 1),
               todo : SUBSET File, sending : SUBSET File]
  /\ discq \in Seq(File) /\ Len(discq) <= Depth
  /\ rootq \in Seq(Root) /\ Len(rootq) <= Len(Roots)
  /\ ing \in [pc : {"recv", "ingest", "check", "hold", "send", "join", "fire", "notify", "ended"},
              file : File \cup {NoFile}, err : BOOLEAN]
  /\ seen \subseteq File /\ registered \subseteq File /\ holding \subseteq File
  /\ open \subseteq Root
  /\ dsp \in [pc : {"recv", "drain", "send", "ended"}, root : Root, batch : SUBSET File]
  /\ items \in Seq(File) /\ Len(items) <= Depth
  /\ sent \in [File -> Nat]
  /\ workers \in [pc : {"taking", "closed", "ended"}, queued : SUBSET File,
                  refused : SUBSET File, run : SUBSET File, unclaimed : SUBSET File,
                  at : [Worker -> {"gate", "woken", "gone"}]]
  /\ session \in {"in_progress", "cancelled", "completed"}
  /\ awaited \in {"discovery", "ingest", "pool", "finalise", "done"}

Walked(r) == \E i \in 1..(disc.root - 1) : Roots[i] = r
DiscoveryEnded == disc.pc \in {"ok", "err"}

-----------------------------------------------------------------------------
(* Discovery, one root after the other.                                      *)

\* The loop over the paths stops when cancelled.
NextRoot ==
  /\ disc.pc = "next"
  /\ IF pcancel \/ disc.root > Len(Roots)
     THEN disc' = [disc EXCEPT !.pc = "closing"]
     ELSE disc' = [disc EXCEPT !.pc = "walking", !.todo = Walks[Roots[disc.root]]]
  /\ UNCHANGED <<tokens, errors, discq, rootq, ingest, gates, items, sent, fired, workers, session, awaited>>

\* The root is gone or the mutation snapshot cannot be loaded.
RootFails ==
  /\ disc.pc = "next" /\ ~pcancel /\ disc.root <= Len(Roots)
  /\ disc' = [disc EXCEPT !.pc = "failing"]
  /\ UNCHANGED <<tokens, errors, discq, rootq, ingest, gates, items, sent, fired, workers, session, awaited>>

\* on_event, called by several threads: nothing is sent once cancelled ...
StartEmit(f) ==
  /\ disc.pc = "walking" /\ f \in disc.todo
  /\ disc' = [disc EXCEPT !.todo = disc.todo \ {f},
                          !.sending = IF pcancel THEN disc.sending ELSE disc.sending \cup {f}]
  /\ UNCHANGED <<tokens, errors, discq, rootq, ingest, gates, items, sent, fired, workers, session, awaited>>

\* ... but a blocking_send that has begun waits for room in the channel or for
\* ingest to drop its receiver, cancelled or not.
FinishEmit(f) ==
  /\ f \in disc.sending
  /\ IF ing.pc = "ended" THEN discq' = discq
     ELSE Len(discq) < Depth /\ discq' = Append(discq, f)
  /\ disc' = [disc EXCEPT !.sending = disc.sending \ {f}]
  /\ UNCHANGED <<tokens, errors, rootq, ingest, gates, items, sent, fired, workers, session, awaited>>

\* on_error: the file could not be read.
FileFails(f) ==
  /\ disc.pc = "walking" /\ f \in disc.todo
  /\ disc' = [disc EXCEPT !.todo = disc.todo \ {f}]
  /\ errors' = TRUE
  /\ UNCHANGED <<tokens, discq, rootq, ingest, gates, items, sent, fired, workers, session, awaited>>

RootDone ==
  /\ disc.pc = "walking" /\ disc.todo = {} /\ disc.sending = {}
  /\ rootq' = IF GateMode /\ ~pcancel THEN Append(rootq, Roots[disc.root]) ELSE rootq
  /\ disc' = [disc EXCEPT !.pc = "next", !.root = disc.root + 1]
  /\ UNCHANGED <<tokens, errors, discq, ingest, gates, items, sent, fired, workers, session, awaited>>

\* A failed walk cancels the pipeline before it drops its senders.
CancelSiblings ==
  /\ disc.pc = "failing"
  /\ pcancel' = TRUE
  /\ disc' = [disc EXCEPT !.pc = "dropping"]
  /\ UNCHANGED <<run_token, errors, discq, rootq, ingest, gates, items, sent, fired, workers, session, awaited>>

CloseDiscovery ==
  /\ disc.pc \in {"closing", "dropping"}
  /\ disc' = [disc EXCEPT !.pc = IF disc.pc = "closing" THEN "ok" ELSE "err"]
  /\ UNCHANGED <<tokens, errors, discq, rootq, ingest, gates, items, sent, fired, workers, session, awaited>>

-----------------------------------------------------------------------------
(* Ingest.                                                                   *)

\* select! is biased: a cancelled token is seen before the channel.
Receive ==
  /\ ing.pc = "recv"
  /\ \/ /\ ~pcancel /\ discq # <<>>
        /\ discq' = Tail(discq)
        /\ IF Head(discq) \in seen THEN UNCHANGED <<ing, seen>>
           ELSE /\ seen' = seen \cup {Head(discq)}
                /\ ing' = [ing EXCEPT !.pc = "ingest", !.file = Head(discq)]
     \/ /\ pcancel \/ (discq = <<>> /\ DiscoveryEnded)
        /\ ing' = [ing EXCEPT !.pc = "join"]
        /\ UNCHANGED <<discq, seen>>
  /\ UNCHANGED <<tokens, discovery, rootq, registered, gates, items, sent, fired, workers, session, awaited>>

\* ingest_discovered_file succeeds; the bad-file filter comes after it.
Register ==
  /\ ing.pc = "ingest"
  /\ registered' = registered \cup {ing.file}
  /\ ing' = IF ing.file \in Bad THEN [ing EXCEPT !.pc = "recv", !.file = NoFile]
            ELSE [ing EXCEPT !.pc = IF GateMode THEN "check" ELSE "send"]
  /\ UNCHANGED <<tokens, discovery, discq, rootq, seen, gates, items, sent, fired, workers, session, awaited>>

\* It fails: cancel the pipeline and the session, return the error.
RegisterFails ==
  /\ ing.pc = "ingest"
  /\ pcancel' = TRUE
  /\ session' = "cancelled"
  /\ ing' = [pc |-> "ended", file |-> NoFile, err |-> TRUE]
  /\ UNCHANGED <<run_token, discovery, discq, rootq, seen, registered, gates, items, sent, fired, workers, awaited>>

\* The gate is looked up here and acted on in the next step; a file of no root
\* passes.
CheckGate ==
  /\ ing.pc = "check"
  /\ ing' = [ing EXCEPT !.pc = IF RootOf[ing.file] \in open \cup {NoRoot} THEN "send" ELSE "hold"]
  /\ UNCHANGED <<tokens, discovery, discq, rootq, seen, registered, gates, items, sent, fired, workers, session, awaited>>

Hold ==
  /\ ing.pc = "hold"
  /\ holding' = holding \cup {ing.file}
  /\ ing' = [ing EXCEPT !.pc = "recv", !.file = NoFile]
  /\ UNCHANGED <<tokens, discovery, discq, rootq, seen, registered, open, dsp, items, sent, fired, workers, session, awaited>>

Put(f) ==
  /\ Len(items) < Depth
  /\ items' = Append(items, f)
  /\ sent' = [sent EXCEPT ![f] = sent[f] + 1]

Send ==
  /\ ing.pc = "send"
  /\ \/ /\ workers.pc = "taking" /\ Put(ing.file)
        /\ ing' = [ing EXCEPT !.pc = "recv", !.file = NoFile]
     \/ /\ workers.pc # "taking"
        /\ ing' = [ing EXCEPT !.pc = "join", !.file = NoFile]
        /\ UNCHANGED <<items, sent>>
  /\ UNCHANGED <<tokens, discovery, discq, rootq, seen, registered, gates, fired, workers, session, awaited>>

\* Wait for the dispatcher, then fail if anything is still held.
JoinDispatcher ==
  /\ ing.pc = "join" /\ dsp.pc = "ended"
  /\ IF GateMode /\ ~pcancel /\ holding # {}
     THEN pcancel' = TRUE /\ ing' = [pc |-> "ended", file |-> NoFile, err |-> TRUE]
     ELSE pcancel' = pcancel /\ ing' = [ing EXCEPT !.pc = "fire", !.file = NoFile]
  /\ holding' = {}
  /\ UNCHANGED <<run_token, discovery, discq, rootq, seen, registered, open, dsp, items, sent, fired, workers, session, awaited>>

\* tx_items has been dropped; unless cancelled, the reporter is seeded ...
OpenGate ==
  /\ ing.pc = "fire"
  /\ ing' = [ing EXCEPT !.pc = IF pcancel THEN "ended" ELSE "notify"]
  /\ UNCHANGED <<tokens, discovery, discq, rootq, seen, registered, gates, items, sent, fired, workers, session, awaited>>

\* ... and, 10 ms later, notify_waiters wakes the workers that wait by then; it
\* leaves nothing for one still on its way to the gate.
NotifyWaiters ==
  /\ ing.pc = "notify"
  /\ fired' = TRUE
  /\ \E waiting \in SUBSET Worker :
        workers' = [workers EXCEPT !.at = [w \in Worker |-> IF w \in waiting THEN "woken" ELSE "gate"]]
  /\ ing' = [ing EXCEPT !.pc = "ended"]
  /\ UNCHANGED <<tokens, discovery, discq, rootq, seen, registered, gates, items, sent, session, awaited>>

-----------------------------------------------------------------------------
(* The root-walk dispatcher of --execute-during-discovery.                   *)

\* Open the gate of a root first ...
OpenRoot ==
  /\ dsp.pc = "recv"
  /\ \/ /\ ~pcancel /\ rootq # <<>>
        /\ rootq' = Tail(rootq)
        /\ open' = open \cup {Head(rootq)}
        /\ dsp' = [dsp EXCEPT !.pc = "drain", !.root = Head(rootq)]
     \/ /\ pcancel \/ (rootq = <<>> /\ DiscoveryEnded)
        /\ dsp' = [dsp EXCEPT !.pc = "ended"]
        /\ UNCHANGED <<rootq, open>>
  /\ UNCHANGED <<tokens, discovery, discq, ingest, holding, items, sent, fired, workers, session, awaited>>

\* Mutant: what is drained stays in the buffer.
DrainRoot_Keeps ==
  /\ dsp.pc = "drain"
  /\ dsp' = [dsp EXCEPT !.pc = "send", !.batch = {f \in holding : RootOf[f] = dsp.root}]
  /\ UNCHANGED <<tokens, discovery, discq, rootq, ingest, open, holding, items, sent, fired, workers, session, awaited>>

\* ... then take what was held for it ...
DrainRoot ==
  /\ dsp.pc = "drain"
  /\ dsp' = [dsp EXCEPT !.pc = "send", !.batch = {f \in holding : RootOf[f] = dsp.root}]
  /\ holding' = {f \in holding : RootOf[f] # dsp.root}
  /\ UNCHANGED <<tokens, discovery, discq, rootq, ingest, open, items, sent, fired, workers, session, awaited>>

\* ... and send it item by item.
SendHeld ==
  /\ dsp.pc = "send"
  /\ \/ /\ dsp.batch = {}
        /\ dsp' = [dsp EXCEPT !.pc = "recv"]
        /\ UNCHANGED <<items, sent>>
     \/ /\ workers.pc = "taking"
        /\ \E f \in dsp.batch :
              Put(f) /\ dsp' = [dsp EXCEPT !.batch = dsp.batch \ {f}]
     \/ /\ workers.pc # "taking" /\ dsp.batch # {}
        /\ dsp' = [dsp EXCEPT !.pc = "ended"]
        /\ UNCHANGED <<items, sent>>
  /\ UNCHANGED <<tokens, discovery, discq, rootq, ingest, open, holding, fired, workers, session, awaited>>

-----------------------------------------------------------------------------
(* The worker pool as the pipeline sees it.                                  *)

SendersGone == ing.pc \in {"fire", "notify", "ended"} /\ dsp.pc = "ended"

\* The item becomes a job, or its payload does not serialise or the store
\* refuses it: it is reported as failed and the enqueuer goes on.
TakeItem ==
  /\ workers.pc = "taking" /\ ~run_token /\ items # <<>>
  /\ \/ workers' = [workers EXCEPT !.queued = @ \cup {Head(items)}]
     \/ workers' = [workers EXCEPT !.refused = @ \cup {Head(items)}]
  /\ items' = Tail(items)
  /\ UNCHANGED <<tokens, discovery, discq, rootq, ingest, gates, sent, fired, session, awaited>>

\* The enqueuer ends and drops the receiver.
StopTaking ==
  /\ workers.pc = "taking"
  /\ run_token \/ (items = <<>> /\ SendersGone)
  /\ workers' = [workers EXCEPT !.pc = "closed"]
  /\ UNCHANGED <<tokens, discovery, discq, rootq, ingest, gates, items, sent, fired, session, awaited>>

Popped == workers.run \cup workers.unclaimed

\* A worker runs a job; with --on-error fail a failure cancels the run.
RunJob(w, f) ==
  /\ workers.at[w] = "woken" /\ ~run_token
  /\ f \in workers.queued \ Popped
  /\ workers' = [workers EXCEPT !.run = @ \cup {f}]
  /\ \/ UNCHANGED tokens
     \/ run_token' = TRUE /\ pcancel' = TRUE
  /\ UNCHANGED <<discovery, discq, rootq, ingest, gates, items, sent, fired, session, awaited>>

\* The claim of a popped job fails: the worker logs it and takes the next one.
LoseClaim(w, f) ==
  /\ workers.at[w] = "woken" /\ ~run_token
  /\ f \in workers.queued \ Popped
  /\ workers' = [workers EXCEPT !.unclaimed = @ \cup {f}]
  /\ UNCHANGED <<tokens, discovery, discq, rootq, ingest, gates, items, sent, fired, session, awaited>>

\* The processor panics and takes its worker with it.
WorkerDies(w, f) ==
  /\ workers.at[w] = "woken" /\ ~run_token
  /\ f \in workers.queued \ Popped
  /\ workers' = [workers EXCEPT !.run = @ \cup {f}, !.at[w] = "gone"]
  /\ UNCHANGED <<tokens, discovery, discq, rootq, ingest, gates, items, sent, fired, session, awaited>>

\* A worker leaves when it is cancelled or has been woken and finds no job.
Leaves(w) ==
  \/ run_token \/ workers.at[w] = "gone"
  \/ workers.at[w] = "woken" /\ workers.queued = Popped

PoolReturns ==
  /\ workers.pc = "closed" /\ \A w \in Worker : Leaves(w)
  /\ workers' = [workers EXCEPT !.pc = "ended"]
  /\ UNCHANGED <<tokens, discovery, discq, rootq, ingest, gates, items, sent, fired, session, awaited>>

-----------------------------------------------------------------------------
(* run_streaming_pipeline awaits the stages in order; the command then       *)
(* settles the session.                                                      *)

\* Every stage is awaited whatever the earlier ones returned; a failed one
\* makes the command cancel the pipeline and the pool.
Await(stage, ended, failed, next) ==
  /\ awaited = stage /\ ended
  /\ awaited' = next
  /\ run_token' = (run_token \/ failed) /\ pcancel' = (pcancel \/ failed)
  /\ UNCHANGED <<discovery, discq, rootq, ingest, gates, items, sent, fired, workers, session>>

\* Mutant: only the child token is cancelled, which the pool does not see.
AwaitIngest_ChildOnly ==
  /\ awaited = "ingest" /\ ing.pc = "ended"
  /\ awaited' = "pool"
  /\ pcancel' = (pcancel \/ ing.err)
  /\ UNCHANGED <<run_token, discovery, discq, rootq, ingest, gates, items, sent, fired, workers, session>>

AwaitDiscovery == Await("discovery", DiscoveryEnded, disc.pc = "err", "ingest")
AwaitIngest == Await("ingest", ing.pc = "ended", ing.err, "pool")
AwaitPool == Await("pool", workers.pc = "ended", FALSE, "finalise")

\* Settle the session: an error, a cancellation or a discovery error cancels
\* it, and so does a finish_scan_session that fails.
Settle(cancelled) ==
  /\ awaited = "finalise"
  /\ awaited' = "done"
  /\ \/ session' = "cancelled"
     \/ ~cancelled /\ session' = "completed"
  /\ UNCHANGED <<tokens, discovery, discq, rootq, ingest, gates, items, sent, fired, workers>>

\* Mutant: discovery errors are not looked at.
Finalise_IgnoresErrors == Settle(disc.pc = "err" \/ ing.err \/ run_token)

Finalise == Settle(disc.pc = "err" \/ ing.err \/ run_token \/ errors)

\* Ctrl-C. The child token follows its parent.
CtrlC ==
  /\ ~run_token /\ awaited # "done"
  /\ run_token' = TRUE /\ pcancel' = TRUE
  /\ UNCHANGED <<discovery, discq, rootq, ingest, gates, items, sent, fired, workers, session, awaited>>

-----------------------------------------------------------------------------
Walk == NextRoot \/ RootFails \/ (\E f \in File : StartEmit(f) \/ FinishEmit(f) \/ FileFails(f))
          \/ RootDone \/ CancelSiblings \/ CloseDiscovery
Ingest == Receive \/ Register \/ RegisterFails \/ CheckGate \/ Hold \/ Send
            \/ JoinDispatcher \/ OpenGate \/ NotifyWaiters
Dispatch == OpenRoot \/ DrainRoot \/ SendHeld
Pool == TakeItem \/ StopTaking \/ PoolReturns
          \/ \E w \in Worker : \E f \in File : RunJob(w, f) \/ LoseClaim(w, f) \/ WorkerDies(w, f)
Command == AwaitDiscovery \/ AwaitIngest \/ AwaitPool \/ Finalise

\* A command that has returned is the end of the run.
Returned == awaited = "done" /\ UNCHANGED pipelineVars

PipelineNext == Walk \/ Ingest \/ Dispatch \/ Pool \/ Command \/ CtrlC \/ Returned

PipelineSpec == PipelineInit /\ [][PipelineNext]_pipelineVars

\* Each task keeps running while it can: the tokio and blocking schedulers.
Scheduled == WF_pipelineVars(Ingest) /\ WF_pipelineVars(Dispatch) /\ WF_pipelineVars(Pool) /\ WF_pipelineVars(Command)
FairPipeline == PipelineSpec /\ Scheduled /\ WF_pipelineVars(Walk)

-----------------------------------------------------------------------------
OnChannel == {items[i] : i \in 1..Len(items)}
InHand == IF ing.pc \in {"check", "hold", "send"} THEN {ing.file} ELSE {}

\* Every registered file that is not bad is in exactly one place - in hand of
\* ingest, held, drained, on the channel or in the pool - and is enqueued at
\* most once, although the dispatcher and ingest both route items and nested
\* roots make discovery emit a file twice. (A cancelled run may drop items.)
RoutedOnce ==
  /\ \A f \in File : sent[f] <= 1
  /\ ~pcancel =>
       /\ registered \ Bad = UNION {InHand, holding, dsp.batch, OnChannel, workers.queued, workers.refused}
       /\ workers.queued \cap workers.refused = {}
       /\ \A f \in InHand \cup holding \cup dsp.batch : sent[f] = 0

\* With --execute-during-discovery no item reaches the pool before the walk of
\* its own (innermost) root is complete, also when an outer root's walk
\* discovered it first.
UnlockedByOwnRoot ==
  GateMode => \A f \in File : sent[f] > 0 /\ RootOf[f] # NoRoot => Walked(RootOf[f])

\* No job runs while any root is still being walked or any file is still to be
\* registered, so no job changes a tree that is being scanned; and none runs
\* after a walk or ingest has failed, although ingest may see the channel close
\* before anyone has looked at the result of the walk.
NoJobDuringDiscovery ==
  workers.run # {} => disc.pc = "ok" /\ ing.pc = "ended" /\ ~ing.err

\* A session is finished, and files it did not see are marked missing, only if
\* every root was walked to its end and every file was registered; and then
\* every file not known to be bad was run, but for those the store refused to
\* enqueue, those whose claim failed and those left when every worker had
\* panicked: no other failure, no cancellation and no order in which the stages
\* notice one loses a file of a completed session.
CompletedIsComplete ==
  session = "completed" =>
    /\ registered = UNION {Walks[r] : r \in Root}
    /\ registered \ Bad = workers.queued \cup workers.refused
    /\ workers.queued = Popped \/ \A w \in Worker : workers.at[w] = "gone"

\* A worker was not yet at the gate when notify_waiters was called, and waits.
MissedTheGate == fired /\ \E w \in Worker : workers.at[w] = "gate"

\* The command always returns, whichever stage fails or is cancelled while the
\* others wait on full channels, on the dispatcher or on the gate, unless a
\* worker took longer to reach the gate than the 10 ms ingest gives it.
Terminates == <>(awaited = "done" \/ MissedTheGate)

\* Ingest fails over held items only if discovery withheld the completion of
\* some root.
HeldOnlyForMissingRoot ==
  (ing.err /\ session = "in_progress") => open # Root

\* A file is sent to one queue once, and a file held back is let go by the
\* end of its own root's walk, so that no job starts while its root is still
\* being walked (pipeline_streaming.rs).
ItemsRouted ==
  /\ RoutedOnce
  /\ UnlockedByOwnRoot
  /\ NoJobDuringDiscovery
=============================================================================
