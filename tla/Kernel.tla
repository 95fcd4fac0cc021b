------------------------------- MODULE Kernel -------------------------------
(* The kernel: the event bus with its plugins, and how `voom` brings it up. *)
EXTENDS FiniteSets, Integers, Sequences, SequencesExt

-----------------------------------------------------------------------------
(***************************************************************************)
(* The kernel of voom: the plugin registry with its capability collisions, *)
(* the priority-ordered synchronous event bus, unary capability calls and  *)
(* the shutdown of the plugins (crates/voom-kernel/src/bus.rs, lib.rs and  *)
(* registry.rs).  What a plugin's handler does is left open: it may ignore *)
(* an event, answer it, claim it, produce further events, fail or panic.   *)
(*                                                                         *)
(* Registration takes `&mut Kernel' and so never overlaps a dispatch,      *)
(* except for the init events a registration dispatches itself.  Dispatches *)
(* of several threads share nothing but the subscriber list they only read, *)
(* and the shutdown of a kernel comes with its last owner, so one dispatch  *)
(* at a time is explored; its publish_recursive frames are an explicit     *)
(* stack.                                                                   *)
(***************************************************************************)

CONSTANTS
  Plugin,       \* the plugin values a caller may hand to the kernel
  Info,         \* [Plugin -> [name, priority, handles, caps, init]]
  EventType,    \* the event types handlers can produce or callers publish
  PluginError,  \* Event::PLUGIN_ERROR
  MaxDepth      \* MAX_CASCADE_DEPTH

ASSUME BusAssumption == PluginError \in EventType /\ MaxDepth \in Nat

VARIABLES
  subs,       \* EventBus::subscribers, in dispatch order
  joined,     \* ghost: the registered plugins in the order they registered
  stack,      \* the active publish_recursive frames, innermost last
  initTodo,   \* init events of the last registration, not yet dispatched
  owed,       \* ghost: failures below the depth limit not yet published
  down,       \* the shutdown state: "up", "stopping", "down" or "unwound"
  toStop,     \* the snapshot of subscribers shutdown has left to stop
  stopped     \* ghost: the plugins shut down so far, in order

busVars == <<subs, joined, stack, initTodo, owed, down, toStop, stopped>>

-----------------------------------------------------------------------------
(* Capabilities (voom-domain/src/capabilities.rs).  A capability is a      *)
(* record of its kind and of the keys it shards by.                        *)

ExclusiveKinds == {"evaluate_policy", "store", "manage_jobs", "serve_http",
                   "orchestrate_phases"}

ShardedKinds == {"discover", "enrich_metadata"}

Resolution(cap) == IF cap.kind \in ExclusiveKinds THEN "exclusive"
                   ELSE IF cap.kind \in ShardedKinds THEN "sharded"
                   ELSE "competing"

\* sharded_collision_key: a key both capabilities claim.
SharedKey(a, b) == a.keys \cap b.keys # {}

MatchesQuery(cap, query) ==
  /\ cap.kind = query.kind
  /\ Resolution(cap) = query.resolution
  /\ query.resolution = "sharded" => query.key \in cap.keys

Names == {Info[joined[i]].name : i \in DOMAIN joined}

\* check_capability_collisions: an exclusive kind has one claimant, a sharded
\* kind one per key, and a competing kind any number.
Collides(p) ==
  \E q \in Range(joined) :
    /\ Info[q].name # Info[p].name
    /\ \E new \in Info[p].caps, old \in Info[q].caps :
         /\ new.kind = old.kind
         /\ \/ Resolution(new) = "exclusive"
            \/ Resolution(new) = "sharded" /\ SharedKey(new, old)

-----------------------------------------------------------------------------
(* Registration and subscription.                                          *)

Lower(s, p) == {i \in DOMAIN s : Info[s[i]].priority < Info[p].priority}
Equal(s, p) == {i \in DOMAIN s : Info[s[i]].priority = Info[p].priority}

\* Mutant: the search's own position, without the walk past equal priorities.
Position_First(s, p) == Cardinality(Lower(s, p)) + 1

\* subscribe_plugin: after every subscriber of a lower or the same priority.
Position(s, p) == Cardinality(Lower(s, p)) + Cardinality(Equal(s, p)) + 1

Subscribed(p) == InsertAt(subs, Position(subs, p), p)

\* register refuses a name twice; the invariants are verified before that.
Refused(p) == Collides(p) \/ Info[p].name \in Names

Quiet == stack = <<>> /\ initTodo = <<>>

\* register_plugin, also used for WASM plugins, which have no init.
RegisterPlugin(p) ==
  /\ Quiet /\ down = "up" /\ ~Refused(p)
  /\ subs' = Subscribed(p) /\ joined' = Append(joined, p)
  /\ UNCHANGED <<stack, initTodo, owed, down, toStop, stopped>>

\* init_and_register, init_and_register_shared: the checks come before init, a
\* failing init registers nothing, and the init events are dispatched once the
\* plugin is subscribed, so that it sees its own.
InitAndRegister(p) ==
  /\ Quiet /\ down = "up" /\ ~Refused(p)
  /\ subs' = Subscribed(p) /\ joined' = Append(joined, p)
  /\ initTodo' = Info[p].init
  /\ UNCHANGED <<stack, owed, down, toStop, stopped>>

-----------------------------------------------------------------------------
(* publish_recursive.                                                      *)

Event(type, by) == [type |-> type, by |-> by]

Handlers(type) == SelectSeq(subs, LAMBDA p : type \in Info[p].handles)

\* A frame: the snapshot of the handlers left to call, the ones called, and
\* the events its results produced.
Frame(event, depth) ==
  [event |-> event, depth |-> depth, todo |-> Handlers(event.type), called |-> <<>>,
   claimed |-> FALSE, produced |-> <<>>, cascading |-> FALSE]

Push(event, depth) == Append(stack, Frame(event, depth))
Inner == stack[Len(stack)]
SetInner(f) == [stack EXCEPT ![Len(stack)] = f]

Dispatch(type) ==
  /\ Quiet /\ down = "up"
  /\ stack' = Push(Event(type, "caller"), 0)
  /\ UNCHANGED <<subs, joined, initTodo, owed, down, toStop, stopped>>

DispatchInitEvent ==
  /\ stack = <<>> /\ initTodo # <<>>
  /\ stack' = Push(Event(Head(initTodo), "init"), 0)
  /\ initTodo' = Tail(initTodo)
  /\ UNCHANGED <<subs, joined, owed, down, toStop, stopped>>

Calling == stack # <<>> /\ ~Inner.cascading /\ Inner.todo # <<>>

\* The call of the next handler, with a stat record whatever its outcome.
Called(f, events, claimed) ==
  [f EXCEPT !.todo = IF claimed THEN <<>> ELSE Tail(@),
            !.called = Append(@, Head(f.todo)),
            !.claimed = claimed,
            !.produced = @ \o events]

HandlerIgnores ==
  /\ Calling
  /\ stack' = SetInner(Called(Inner, <<>>, FALSE))
  /\ UNCHANGED <<subs, joined, initTodo, owed, down, toStop, stopped>>

HandlerAnswers(claimed) ==
  /\ Calling
  /\ \E events \in {<<>>} \cup {<<Event(t, "plugin")>> : t \in EventType} :
       stack' = SetInner(Called(Inner, events, claimed))
  /\ UNCHANGED <<subs, joined, initTodo, owed, down, toStop, stopped>>

\* Err or a caught panic: make_error_result, and the next handler is called.
HandlerFails ==
  /\ Calling
  /\ stack' = SetInner(Called(Inner, <<Event(PluginError, "bus")>>, FALSE))
  /\ owed' = owed + (IF Inner.depth < MaxDepth THEN 1 ELSE 0)
  /\ UNCHANGED <<subs, joined, initTodo, down, toStop, stopped>>

Exhausted == stack # <<>> /\ ~Inner.cascading /\ Inner.todo = <<>>

\* Below the limit everything the results produced is published in turn; at the
\* limit it is dropped with a warning.
BeginCascade ==
  /\ Exhausted
  /\ stack' = SetInner([Inner EXCEPT !.cascading = TRUE,
                        !.produced = IF Inner.depth < MaxDepth THEN @ ELSE <<>>])
  /\ UNCHANGED <<subs, joined, initTodo, owed, down, toStop, stopped>>

Cascading == stack # <<>> /\ Inner.cascading

CascadeNext ==
  /\ Cascading /\ Inner.produced # <<>>
  /\ stack' = Append(SetInner([Inner EXCEPT !.produced = Tail(@)]),
                     Frame(Head(Inner.produced), Inner.depth + 1))
  /\ owed' = owed - (IF Head(Inner.produced).by = "bus" THEN 1 ELSE 0)
  /\ UNCHANGED <<subs, joined, initTodo, down, toStop, stopped>>

Return ==
  /\ Cascading /\ Inner.produced = <<>>
  /\ stack' = Front(stack)
  /\ UNCHANGED <<subs, joined, initTodo, owed, down, toStop, stopped>>

-----------------------------------------------------------------------------
(* Unary calls and shutdown.                                               *)

\* The queries of a caller; a sharded one asks for the key the caller needs.
Query == {[kind |-> k, resolution |-> "exclusive", key |-> ""] : k \in ExclusiveKinds}
         \cup {[kind |-> k, resolution |-> "sharded", key |-> "file"] : k \in ShardedKinds}
         \cup {[kind |-> "execute", resolution |-> "competing", key |-> ""]}

\* resolve_capability: the first subscriber in dispatch order that matches.
Resolved(query) ==
  LET match == {i \in DOMAIN subs :
                  \E cap \in Info[subs[i]].caps : MatchesQuery(cap, query)}
  IN  {subs[i] : i \in {j \in match : \A k \in match : j <= k}}

\* Kernel::shutdown and Drop: only the first caller passes the exchange, and
\* takes a snapshot of the subscribers in reverse dispatch order.
ShutdownBegin ==
  /\ Quiet /\ down = "up"
  /\ down' = "stopping" /\ toStop' = Reverse(subs)
  /\ UNCHANGED <<subs, joined, stack, initTodo, owed, stopped>>

\* The next plugin is stopped; an error of its shutdown is logged and ignored,
\* and a panic, which nothing catches, leaves the loop.
ShutdownPlugin(panics) ==
  /\ down = "stopping" /\ toStop # <<>>
  /\ stopped' = Append(stopped, Head(toStop))
  /\ IF panics THEN down' = "unwound" /\ toStop' = <<>>
     ELSE toStop' = Tail(toStop) /\ UNCHANGED down
  /\ UNCHANGED <<subs, joined, stack, initTodo, owed>>

ShutdownEnd ==
  /\ down = "stopping" /\ toStop = <<>>
  /\ down' = "down"
  /\ UNCHANGED <<subs, joined, stack, initTodo, owed, toStop, stopped>>

-----------------------------------------------------------------------------
BusInit ==
  /\ subs = <<>> /\ joined = <<>> /\ stack = <<>> /\ initTodo = <<>>
  /\ owed = 0 /\ down = "up" /\ toStop = <<>> /\ stopped = <<>>

DispatchStep ==
  \/ HandlerIgnores \/ HandlerFails
  \/ \E claimed \in BOOLEAN : HandlerAnswers(claimed)
  \/ BeginCascade \/ CascadeNext \/ Return

BusNext ==
  \/ \E p \in Plugin : RegisterPlugin(p) \/ InitAndRegister(p)
  \/ \E t \in EventType : Dispatch(t)
  \/ DispatchInitEvent \/ DispatchStep
  \/ ShutdownBegin \/ ShutdownEnd
  \/ \E panics \in BOOLEAN : ShutdownPlugin(panics)

BusSpec == BusInit /\ [][BusNext]_busVars /\ WF_busVars(DispatchStep)

-----------------------------------------------------------------------------
\* Registered p is to see an event before q: lower priority value first, and
\* within one priority in the order of registration.
Precedes(p, q) ==
  \/ Info[p].priority < Info[q].priority
  \/ /\ Info[p].priority = Info[q].priority
     /\ \E i, j \in DOMAIN joined : i < j /\ joined[i] = p /\ joined[j] = q

\* An event that no handler claims reaches every registered plugin that handles
\* it, whether earlier handlers failed, panicked or answered, and at any depth
\* of the cascade handlers are called in priority order, ties in the order of
\* registration (EventBus::publish_recursive over subscribe_plugin's order).
DeliveredInOrder ==
  \A i \in DOMAIN stack : LET f == stack[i] IN
    /\ \A j, k \in DOMAIN f.called : j < k => Precedes(f.called[j], f.called[k])
    /\ f.cascading /\ ~f.claimed =>
         Range(f.called) = {p \in Range(joined) : f.event.type \in Info[p].handles}

\* Whatever was registered, in whatever order: an exclusive capability has one
\* owner and a sharded one has one owner per key, so that resolve_capability
\* finds at most one plugin for an exclusive or sharded query and its answer
\* does not depend on the priorities.
OneOwner ==
  \A query \in Query : query.resolution # "competing" =>
    Cardinality({p \in Range(joined) :
                   \E cap \in Info[p].caps : MatchesQuery(cap, query)}) <= 1

\* When a dispatch has returned, every handler failure below the cascade limit
\* has been published as a PluginError, also when a later handler claimed the
\* event or the failing handler was itself reacting to an error.
FailuresReported == stack = <<>> => owed = 0

\* A dispatch returns, even if every handler of every event, PluginError
\* included, fails or answers with further events: MAX_CASCADE_DEPTH cuts it.
DispatchReturns == (stack # <<>>) ~> (stack = <<>>)

\* Plugins are stopped at most once each, in reverse dispatch order, whoever
\* calls shutdown and however often (shutdown_called's exchange).
StoppedOnceInReverse == IsPrefix(stopped, Reverse(subs))

-----------------------------------------------------------------------------
(***************************************************************************)
(* bootstrap_kernel_with_store (crates/voom-cli/src/app.rs): the order in  *)
(* which the plugins are initialised, registered on the bus and their init *)
(* events dispatched; what disables or aborts; and the WASM plugins of the *)
(* plugin directory (load_dir_with_config_skip in loader.rs).              *)
(***************************************************************************)

CONSTANTS
  Disablable,   \* bound: the plugins that a configuration may disable
  WasmFile      \* the *.wasm files: records [name, usable, collides]

VARIABLES
  disabled,    \* plugins.disabled_plugins
  step,        \* next step of Order
  registered,  \* plugins on the bus, in order of registration
  announced,   \* executors whose init announced capabilities
  collected,   \* executors in the capability collector's map
  recorded,    \* plugins on the bus while the statistics sink was set
  wasmTodo,    \* files load_dir_with_config_skip has yet to look at
  compiled,    \* plugins whose component was compiled
  outcome,     \* "starting", "ready" or "aborted"
  cause        \* ghost: why bootstrap aborted

bootVars == <<disabled, step, registered, announced, collected, recorded, wasmTodo,
              compiled, outcome, cause>>

\* The steps of bootstrap_kernel_with_store, in order.
Order ==
  <<"sqlite-store", "bus-tracer", "health-checker", "data-dir-probe", "tool-detector",
    "discovery", "ffprobe-introspector", "capability-collector", "policy-evaluator",
    "phase-orchestrator", "mkvtoolnix-executor", "ffmpeg-executor", "backup-manager",
    "job-manager", "verifier", "wasm", "report">>

NativePlugins == ToSet(Order) \ {"data-dir-probe", "wasm"}

\* The plugins whose init returns ExecutorCapabilities, when their tool is there.
Executors == {"mkvtoolnix-executor", "ffmpeg-executor"}

\* set_stats_sink, in the branch of an enabled sqlite-store before it registers.
SinkSet == "sqlite-store" \notin disabled /\ step > 1

BootInit ==
  /\ disabled \in SUBSET Disablable
  /\ step = 1 /\ registered = <<>> /\ announced = {} /\ collected = {}
  /\ recorded = {} /\ wasmTodo = WasmFile /\ compiled = {}
  /\ outcome = "starting" /\ cause = "none"

Current == Order[step]
Starting == outcome = "starting" /\ step <= Len(Order)

Abort(why) ==
  /\ outcome' = "aborted" /\ cause' = why
  /\ UNCHANGED <<disabled, step, registered, announced, collected, recorded, wasmTodo, compiled>>

\* register_if_enabled of a disabled plugin.  A disabled store still opens the
\* database, and a disabled collector is made without being registered.
SkipDisabled ==
  /\ Starting /\ Current \in disabled
  /\ step' = step + 1
  /\ UNCHANGED <<disabled, registered, announced, collected, recorded, wasmTodo,
                 compiled, outcome, cause>>

\* init succeeds, the plugin is registered, and its init events are dispatched:
\* the collector, if it is on the bus by then, stores an announcement.
InitAndRegisterNative ==
  /\ Starting /\ Current \in NativePlugins \ disabled
  /\ registered' = Append(registered, Current)
  /\ recorded' = IF SinkSet \/ Current = "sqlite-store" THEN recorded \cup {Current} ELSE recorded
  /\ \E tool \in BOOLEAN :
       LET says == tool /\ Current \in Executors
       IN  /\ announced' = IF says THEN announced \cup {Current} ELSE announced
           /\ collected' = IF says /\ "capability-collector" \in ToSet(registered)
                           THEN collected \cup {Current} ELSE collected
  /\ step' = step + 1
  /\ UNCHANGED <<disabled, wasmTodo, compiled, outcome, cause>>

\* Every error of init or registration of a native plugin ends the bootstrap.
InitFails ==
  /\ Starting /\ Current \in NativePlugins \ disabled
  /\ Abort("native plugin")

\* The data directory is probed only when the health checker is enabled.
ProbeDataDir ==
  /\ Starting /\ Current = "data-dir-probe"
  /\ \/ /\ step' = step + 1
        /\ UNCHANGED <<disabled, registered, announced, collected, recorded, wasmTodo,
                       compiled, outcome, cause>>
     \/ "health-checker" \notin disabled /\ Abort("data directory")

\* One file of the directory: skipped when its name is disabled, compiled, and
\* registered when it is usable.  A file that cannot be loaded is only reported;
\* one that the kernel refuses (name or capability taken) ends the bootstrap.
LoadWasmFile(f) ==
  /\ Starting /\ Current = "wasm" /\ f \in wasmTodo
  /\ IF f.name \notin disabled /\ f.usable /\ f.collides
     THEN Abort("wasm registration")
     ELSE /\ wasmTodo' = wasmTodo \ {f}
          /\ compiled' = IF f.name \in disabled THEN compiled ELSE compiled \cup {f.name}
          /\ registered' = IF f.name \notin disabled /\ f.usable
                           THEN Append(registered, f.name) ELSE registered
          /\ UNCHANGED <<disabled, step, announced, collected, recorded, outcome, cause>>

\* Every file was looked at, or those left were never listed: there is no
\* directory, no loader could be created, the directory or an entry of it
\* could not be read.  None of these is an error.
WasmLoaded ==
  /\ Starting /\ Current = "wasm"
  /\ step' = step + 1
  /\ UNCHANGED <<disabled, registered, announced, collected, recorded, wasmTodo,
                 compiled, outcome, cause>>

Ready ==
  /\ outcome = "starting" /\ step > Len(Order)
  /\ outcome' = "ready"
  /\ UNCHANGED <<disabled, step, registered, announced, collected, recorded, wasmTodo,
                 compiled, cause>>

BootNext ==
  \/ SkipDisabled \/ InitAndRegisterNative \/ InitFails \/ ProbeDataDir
  \/ (\E f \in WasmFile : LoadWasmFile(f)) \/ WasmLoaded \/ Ready

-----------------------------------------------------------------------------
(* Properties.                                                             *)

\* The capability map is complete: what an executor announced while it was
\* initialised is known to an enabled collector, whatever else is disabled, so
\* the evaluator never plans for a machine with less than it has.
CollectorComplete ==
  "capability-collector" \notin disabled => collected = announced

\* A bootstrap that succeeds has every enabled native plugin and, of the WASM
\* files it could list, every usable enabled one on the bus, once; nothing
\* fails half-way in silence (a plugin directory that cannot be read does).
ReadyMeansComplete ==
  outcome = "ready" =>
    /\ cause = "none"
    /\ ToSet(registered) = (NativePlugins \ disabled) \cup
         {f.name : f \in {g \in WasmFile \ wasmTodo : g.usable /\ g.name \notin disabled}}
    /\ Len(registered) = Cardinality(ToSet(registered))

\* With the store enabled every plugin's handler calls are recorded from its
\* registration on: the statistics sink is set before anything is on the bus.
AllPluginsRecorded ==
  "sqlite-store" \notin disabled => (ToSet(registered) \cap NativePlugins) \subseteq recorded

\* The kernel serves its plugins whatever they do: every event reaches those
\* that handle it in order of priority, an exclusive capability has one
\* owner, a failure is reported and stops nobody else, shutdown runs once and
\* in reverse; and a kernel that is ready has collected what every plugin
\* that was to be loaded announced.
PluginsServed ==
  /\ DeliveredInOrder
  /\ OneOwner
  /\ FailuresReported
  /\ StoppedOnceInReverse
  /\ CollectorComplete
  /\ ReadyMeansComplete
  /\ AllPluginsRecorded
=============================================================================
