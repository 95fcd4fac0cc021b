----------------------------- MODULE WasmPlugin -----------------------------
(* WASM plugins: calls into them, and what crosses their boundary.          *)
EXTENDS FiniteSets, Integers, Sequences

-----------------------------------------------------------------------------
(***************************************************************************)
(* One WASM plugin of the kernel (crates/voom-kernel/src/loader.rs and     *)
(* host/): the threads that call into it, the lock around its engine store, *)
(* the streaming context a library scan installs for the length of its     *)
(* call, the plugin's key-value data, and the epoch ticker that is meant to *)
(* interrupt a guest that does not return.  The engine itself (wasmtime)   *)
(* is external: a guest call returns, fails, traps, panics in a host        *)
(* function, or spins.                                                     *)
(***************************************************************************)

CONSTANTS
  Thread,          \* threads of the host that call the plugin
  NoThread,
  DataKey,         \* keys of the plugin's data; "config" is one of them
  DataValue,
  NoValue,
  DeadlineTicks    \* epoch_deadline_ticks (200 in the code)

ASSUME WasmAssumption ==
  NoThread \notin Thread /\ NoValue \notin DataValue /\ "config" \in DataKey
    /\ DeadlineTicks \in Nat \ {0}

VARIABLES
  ticker,     \* the epoch thread of the loader is alive
  epoch,      \* engine epoch, capped at the deadline
  lock,       \* holder of WasmPlugin::inner
  pc,         \* where each calling thread is
  kind,       \* "event" (on_event), "scan" (Call::ScanLibrary) or "call" (others)
  context,    \* streaming_call: the thread whose call installed it
  instance,   \* the component is instantiated
  reached,    \* ghost: the sinks each running call has put an item into
  disk,       \* plugin data in the store
  memory,     \* HostState::plugin_data
  latest      \* ghost: what the last successful write of each key wrote

wasmVars == <<ticker, epoch, lock, pc, kind, context, instance, reached, disk,
              memory, latest>>

\* with_initial_config: a non-empty configuration table is the value of the key
\* "config" in memory; whatever an earlier process stored is on disk.
InitialData(config) == [k \in DataKey |-> IF k = "config" THEN config ELSE NoValue]

\* get_plugin_data: the store first, then memory.
GetPluginData(k) == IF disk[k] # NoValue THEN disk[k] ELSE memory[k]

WasmInit ==
  /\ ticker = TRUE /\ epoch = 0 /\ lock = NoThread
  /\ pc = [t \in Thread |-> "idle"] /\ kind = [t \in Thread |-> "event"]
  /\ context = NoThread /\ instance = FALSE /\ reached = [t \in Thread |-> {}]
  /\ disk = [k \in DataKey |-> NoValue]
  /\ \E c \in DataValue \cup {NoValue} : memory = InitialData(c)
  /\ latest = memory

\* WasmPluginLoader::new: the thread that increments the epoch every 10 ms.
Tick ==
  /\ ticker /\ epoch < DeadlineTicks
  /\ epoch' = epoch + 1
  /\ UNCHANGED <<ticker, lock, pc, kind, context, instance, reached, disk, memory, latest>>

\* load_wasm_plugins returns: the loader is dropped, and Drop stops the ticker.
\* No guest has been called before that: registering a plugin does not run it.
LoaderDropped ==
  /\ ticker
  /\ ticker' = FALSE
  /\ UNCHANGED <<epoch, lock, pc, kind, context, instance, reached, disk, memory, latest>>

\* on_event, or dispatch_to_capability's invoke_wasm_on_call: the payload is
\* within MAX_WASM_EVENT_PAYLOAD, else the call ends before the lock.
Call(t, k) ==
  /\ ~ticker /\ pc[t] = "idle"
  /\ pc' = [pc EXCEPT ![t] = "waiting"] /\ kind' = [kind EXCEPT ![t] = k]
  /\ reached' = [reached EXCEPT ![t] = {}]
  /\ UNCHANGED <<ticker, epoch, lock, context, instance, disk, memory, latest>>

\* The lock is taken; a scan finds no other context and installs its own (a
\* context found installed is an error that ends the call).
Enter(t) ==
  /\ pc[t] = "waiting" /\ lock = NoThread
  /\ IF kind[t] = "scan" /\ context # NoThread
     THEN /\ pc' = [pc EXCEPT ![t] = "idle"]
          /\ UNCHANGED <<lock, context>>
     ELSE /\ lock' = t /\ pc' = [pc EXCEPT ![t] = "entering"]
          /\ context' = IF kind[t] = "scan" THEN t ELSE context
  /\ UNCHANGED <<ticker, epoch, kind, instance, reached, disk, memory, latest>>

\* The component is instantiated on first use; instantiation may fail, and the
\* export may be missing.
Invoke(t) ==
  /\ pc[t] = "entering"
  /\ \/ /\ epoch < DeadlineTicks
        /\ instance' = TRUE /\ pc' = [pc EXCEPT ![t] = "guest"]
     \/ \* no such export
        /\ instance' = TRUE /\ pc' = [pc EXCEPT ![t] = "leaving"]
     \/ \* instantiation fails; it is tried again by the next call
        /\ ~instance /\ UNCHANGED instance /\ pc' = [pc EXCEPT ![t] = "leaving"]
  /\ UNCHANGED <<ticker, epoch, lock, kind, context, reached, disk, memory, latest>>

\* emit-call-item and emit-root-walk-completed: without a context the guest gets
\* an error, with one the item goes to the sink the context holds.
EmitItem(t) ==
  /\ pc[t] = "guest" /\ context # NoThread
  /\ reached' = [reached EXCEPT ![t] = @ \cup {context}]
  /\ UNCHANGED <<ticker, epoch, lock, pc, kind, context, instance, disk, memory, latest>>

\* set_plugin_data with a store; a failing store is reported to the guest and
\* leaves the old value.
SetPluginData(t, k, v) ==
  /\ pc[t] = "guest"
  /\ disk' = [disk EXCEPT ![k] = v] /\ latest' = [latest EXCEPT ![k] = v]
  /\ UNCHANGED <<ticker, epoch, lock, pc, kind, context, instance, reached, memory>>

\* The guest returns a result or an error, traps, or a host function it called
\* panics: on_event leaves by dropping the guard, a call catches the panic.
GuestReturns(t) ==
  /\ pc[t] = "guest"
  /\ \E how \in {"leaving", "panicking"} : pc' = [pc EXCEPT ![t] = how]
  /\ UNCHANGED <<ticker, epoch, lock, kind, context, instance, reached, disk, memory, latest>>

\* Engine: once the deadline of the store has passed, a guest is interrupted
\* with a trap, and so is every later one as it starts: the deadline is set once,
\* when the plugin is loaded.
Interrupt(t) ==
  /\ pc[t] \in {"entering", "guest"} /\ epoch >= DeadlineTicks
  /\ pc' = [pc EXCEPT ![t] = "leaving"]
  /\ UNCHANGED <<ticker, epoch, lock, kind, context, instance, reached, disk, memory, latest>>

\* Mutant: a panic passes with_streaming_call before the context is cleared.
Leave_Unwinding(t) ==
  /\ pc[t] \in {"leaving", "panicking"}
  /\ context' = IF kind[t] = "scan" /\ pc[t] = "leaving" THEN NoThread ELSE context
  /\ lock' = NoThread /\ pc' = [pc EXCEPT ![t] = "idle"]
  /\ UNCHANGED <<ticker, epoch, kind, instance, reached, disk, memory, latest>>

\* with_streaming_call clears the context it installed on every path, then the
\* guard is dropped (parking_lot does not poison) and a panic goes on.
Leave(t) ==
  /\ pc[t] \in {"leaving", "panicking"}
  /\ context' = IF kind[t] = "scan" THEN NoThread ELSE context
  /\ lock' = NoThread /\ pc' = [pc EXCEPT ![t] = "idle"]
  /\ UNCHANGED <<ticker, epoch, kind, instance, reached, disk, memory, latest>>

HostStep(t) == Enter(t) \/ Invoke(t) \/ Interrupt(t) \/ Leave(t)

WasmNext ==
  \/ Tick \/ LoaderDropped
  \/ \E t \in Thread :
       \/ HostStep(t) \/ EmitItem(t) \/ GuestReturns(t)
       \/ \E k \in {"event", "scan", "call"} : Call(t, k)
       \/ \E k \in DataKey, v \in DataValue : SetPluginData(t, k, v)

\* The ticker's thread and the host's own steps are scheduled; a guest may spin.
WasmFairness == WF_wasmVars(Tick) /\ \A t \in Thread : WF_wasmVars(HostStep(t))

WasmSpec == WasmInit /\ [][WasmNext]_wasmVars /\ WasmFairness

-----------------------------------------------------------------------------
(* Properties.                                                             *)

\* Items and root completions of a library scan reach the sink of that scan and
\* no other caller's, and an event handler that runs between two scans can emit
\* into neither: with_streaming_call's install, clear and lock taken together,
\* over every way a guest call can end.
ItemsStayInTheirCall ==
  \A t \in Thread : reached[t] \subseteq (IF kind[t] = "scan" THEN {t} ELSE {})

\* Plugin data reads what was last written to the key, whichever of the store
\* and the configured initial value get_plugin_data falls back to.
ReadsLastWrite == \A k \in DataKey : GetPluginData(k) = latest[k]

-----------------------------------------------------------------------------
(***************************************************************************)
(* What crosses the boundary between the kernel and a WASM plugin.         *)
(*                                                                         *)
(*  - capabilities as the text of the WIT interface                        *)
(*    (crates/voom-wit/src/convert.rs);                                    *)
(*  - a guest's answer to an event or a call, from the dynamically typed   *)
(*    values of the component model to an EventResult or to what the       *)
(*    caller asked for (loader.rs, convert.rs, lib.rs, kernel_invoke.rs);  *)
(*  - the manifest and the configuration a plugin is loaded with, and the  *)
(*    host functions that go by what they grant (loader.rs, manifest.rs,   *)
(*    host/functions.rs).                                                  *)
(*                                                                         *)
(* A text is a sequence of atoms and separators.  The contents of a        *)
(* payload are the event, document or rubbish it decodes to.               *)
(***************************************************************************)

CONSTANTS
  PxCaps,        \* capabilities a plugin may declare
  PxAnswers,     \* what a guest may return from on-event
  PxReplies,     \* what a guest may return from on-call
  PxMaxPayload,  \* MAX_WASM_EVENT_PAYLOAD
  PxManifests,   \* manifests found beside a plugin
  PxConfigs,     \* [plugin.<name>] tables of the configuration
  PxPaths        \* paths a plugin asks for: [dir, exists]

VARIABLES
  pxPart,      \* which exchange this behaviour looks at
  pxGiven,     \* what enters: a capability, an answer, a reply, a manifest
  pxStage,     \* "given", "crossed"
  pxGot        \* what comes out on the other side

pxVars == <<pxPart, pxGiven, pxStage, pxGot>>

Failed == [ok |-> FALSE]

---------------------------------------------------------------------------
(* Texts.                                                                  *)

SepsOf(text, sep) == {i \in 1 .. Len(text) : text[i] = sep}

\* str::split: the pieces between the separators, empty ones included.
SplitAt(text, sep) ==
  LET seps == SepsOf(text, sep)
      nth(n) == CHOOSE i \in seps : Cardinality({j \in seps : j <= i}) = n
      from(n) == IF n = 1 THEN 1 ELSE nth(n - 1) + 1
      to(n) == IF n = Cardinality(seps) + 1 THEN Len(text) ELSE nth(n) - 1
  IN [n \in 1 .. Cardinality(seps) + 1 |-> SubSeq(text, from(n), to(n))]

\* str::split_once, or the whole text and nothing.
SplitOnce(text, sep) ==
  IF SepsOf(text, sep) = {} THEN <<text, <<>>>>
  ELSE LET i == CHOOSE i \in SepsOf(text, sep) :
                  \A j \in SepsOf(text, sep) : i <= j
       IN <<SubSeq(text, 1, i - 1), SubSeq(text, i + 1, Len(text))>>

\* str::trim.
Trimmed(text) ==
  LET solid == {i \in 1 .. Len(text) : text[i] # " "}
  IN IF solid = {} THEN <<>>
     ELSE SubSeq(text, CHOOSE i \in solid : \A j \in solid : i <= j,
                       CHOOSE i \in solid : \A j \in solid : i >= j)

\* slice::join.
JoinWith[s \in Seq(Seq(STRING)), sep \in STRING] ==
  IF s = <<>> THEN <<>>
  ELSE IF Len(s) = 1 THEN s[1]
  ELSE s[1] \o <<sep>> \o JoinWith[Tail(s), sep]

---------------------------------------------------------------------------
(* Capabilities.  One record shape: list1 holds schemes, formats or the    *)
(* name of a backend or source, list2 operations or verification modes.    *)

ListKinds == {"discover", "introspect"}
NameKinds == {"store", "enrich_metadata"}
OperationNames == {"transcode_video", "set_default"}
ModeNames == {"quick", "thorough", "hash"}

\* split_comma_list.
split_comma_list(text) ==
  IF text = <<>> THEN <<>>
  ELSE [n \in DOMAIN SplitAt(text, ",") |-> Trimmed(SplitAt(text, ",")[n])]

\* parse_execute_operations and parse_verify_modes: every piece must be known.
parse_names(text, sep, known) ==
  LET pieces == SplitAt(text, sep)
      names == [n \in DOMAIN pieces |-> Trimmed(pieces[n])]
  IN IF text = <<>> THEN [ok |-> TRUE, names |-> <<>>]
     ELSE IF \A n \in DOMAIN names : Len(names[n]) = 1 /\ names[n][1] \in known
     THEN [ok |-> TRUE, names |-> names]
     ELSE [ok |-> FALSE, names |-> <<>>]

\* capability_from_wit: an unknown kind is ignored, an unknown operation or mode
\* is an error.
capability_from_wit(text) ==
  LET named == SplitOnce(text, ":")[1]
      params == SplitOnce(text, ":")[2]
      cap(k, l1, l2) == [ok |-> TRUE, kind |-> k, list1 |-> l1, list2 |-> l2]
      ops == parse_names(SplitOnce(params, ":")[1], "+", OperationNames)
      modes == parse_names(params, ",", ModeNames)
  IN CASE Len(named) # 1 -> Failed
       [] named[1] \in ListKinds -> cap(named[1], split_comma_list(params), <<>>)
       [] named[1] \in {"enrich_metadata", "enrich-metadata"} ->
            cap("enrich_metadata", <<params>>, <<>>)
       [] named[1] = "store" -> cap("store", <<params>>, <<>>)
       [] named[1] = "execute" ->
            IF ops.ok
            THEN cap("execute", split_comma_list(SplitOnce(params, ":")[2]), ops.names)
            ELSE Failed
       [] named[1] = "verify" ->
            IF modes.ok THEN cap("verify", <<>>, modes.names) ELSE Failed
       [] OTHER -> cap(named[1], <<>>, <<>>)

\* capability_to_wit.
capability_to_wit(c) ==
  IF c.kind = "execute"
  THEN LET ops == JoinWith[c.list2, "+"]
           fmts == JoinWith[c.list1, ","]
       IN IF ops = <<>> /\ fmts = <<>> THEN <<"execute">>
          ELSE IF fmts = <<>> THEN <<"execute", ":">> \o ops
          ELSE <<"execute", ":">> \o ops \o <<":">> \o fmts
  ELSE <<c.kind>>
         \o (IF c.kind \in ListKinds /\ c.list1 # <<>>
             THEN <<":">> \o JoinWith[c.list1, ","] ELSE <<>>)
         \o (IF c.kind \in NameKinds THEN <<":">> \o c.list1[1] ELSE <<>>)
         \o (IF c.kind = "verify" /\ c.list2 # <<>>
             THEN <<":">> \o JoinWith[c.list2, ","] ELSE <<>>)

CrossCapability ==
  /\ pxPart = "capability" /\ pxStage = "given"
  /\ pxGot' = capability_from_wit(capability_to_wit(pxGiven))
  /\ pxStage' = "crossed"
  /\ UNCHANGED <<pxPart, pxGiven>>

---------------------------------------------------------------------------
(* Answers to events.  A component value is [v |-> its kind, ...]; a list  *)
(* of bytes says in "pure" whether all its elements are bytes and in "is"  *)
(* what they decode to; an option wraps the value it holds, if any.        *)

\* Event::event_type: the name of a variant, for the variants the answers use.
event_type(variant) ==
  CASE variant = "FileDiscovered" -> "file.discovered"
    [] variant = "MetadataEnriched" -> "metadata.enriched"
    [] variant = "PlanFailed" -> "plan.failed"
    [] variant = "JobProgress" -> "job.progress"

Variants == {"FileDiscovered", "MetadataEnriched", "PlanFailed", "JobProgress"}

expect_string(val) == val.v = "string"
expect_bytes(val) == val.v = "list" /\ val.pure
expect_optional_string(val) ==
  val.v = "option" /\ (val.some => val.of = "string")
expect_optional_bytes(val) ==
  val.v = "option" /\ (val.some => val.of = "list" /\ val.pure)

\* parse_event_data: a record; a field that is missing stays empty.
parse_event_data(val) == val.v = "record" /\ expect_string(val.type) /\ expect_bytes(val.payload)

\* expect_event_data_list.
expect_event_data_list(val) ==
  val.v = "list" /\ \A n \in DOMAIN val.items : parse_event_data(val.items[n])

\* parse_event_result: one value of the wrong kind refuses the whole answer; a
\* field an older guest does not have keeps its default.
parse_event_result(answer) ==
  /\ answer.v = "record"
  /\ expect_string(answer.name)
  /\ expect_event_data_list(answer.produced)
  /\ expect_optional_bytes(answer.data)
  /\ answer.claimed.v \in {"bool", "absent"}
  /\ answer.error.v = "absent" \/ expect_optional_string(answer.error)
  /\ answer.detail.v = "absent" \/ expect_optional_bytes(answer.detail)

\* event_from_wasm: decodable, and of the type the guest declared.
event_from_wasm(item) ==
  item.payload.is \in Variants /\ event_type(item.payload.is) = item.type.is

SizeOfItems(items) ==
  LET total[n \in 0 .. Len(items)] ==
        IF n = 0 THEN 0 ELSE total[n - 1] + items[n].payload.size
  IN total[Len(items)]
OptionSize(val) == IF val.v = "option" /\ val.some THEN val.size ELSE 0

\* on_event: the answer together is not larger than one payload may be.
AnswerSize(answer) ==
  SizeOfItems(answer.produced.items) + OptionSize(answer.data)
    + OptionSize(answer.error) + OptionSize(answer.detail)

IsJson(val) == val.v = "option" /\ val.some => val.is = "json"

\* event_result_from_wasm: all the events, or an error.
event_result_from_wasm(answer) ==
  LET items == answer.produced.items
  IN IF /\ \A n \in DOMAIN items : event_from_wasm(items[n])
        /\ IsJson(answer.data) /\ IsJson(answer.detail)
     THEN [ok |-> TRUE, some |-> TRUE,
           events |-> [n \in DOMAIN items |-> items[n].payload.is],
           claimed |-> answer.claimed.v = "bool" /\ answer.claimed.is,
           error |-> answer.error.v = "option" /\ answer.error.some]
     ELSE Failed

\* WasmPlugin::on_event after the guest has returned.
CrossAnswer ==
  /\ pxPart = "answer" /\ pxStage = "given"
  /\ pxGot' = IF pxGiven.v = "none"
              THEN [ok |-> TRUE, some |-> FALSE, events |-> <<>>, claimed |-> FALSE,
                    error |-> FALSE]
              ELSE IF ~parse_event_result(pxGiven) \/ AnswerSize(pxGiven) > PxMaxPayload
              THEN Failed
              ELSE event_result_from_wasm(pxGiven)
  /\ pxStage' = "crossed"
  /\ UNCHANGED <<pxPart, pxGiven>>

---------------------------------------------------------------------------
(* Answers to calls.  A reply is a guest's return value from on-call, with *)
(* the call that was made and the size of the request.                     *)

\* WasmCall::from_call: the call without its channels.
CallsMade == {"EvaluatePolicy", "Orchestrate", "ScanLibrary"}

check_call_payload_size(size) == size <= PxMaxPayload

\* invoke_on_call_locked: only Ok(list<u8>) is an answer.
OnCallBytes(reply) == reply.result /\ reply.good /\ reply.v = "list" /\ reply.pure

\* invoke_wasm_on_call: request and response are within the payload limit, and the
\* bytes decode to a CallResponse, of whatever variant.
invoke_wasm_on_call(reply) ==
  IF /\ check_call_payload_size(reply.request)
     /\ OnCallBytes(reply)
     /\ check_call_payload_size(reply.size)
     /\ reply.is \in CallsMade
  THEN [ok |-> TRUE, response |-> reply.is]
  ELSE Failed

\* evaluate, orchestrate and handle_dispatch_result: the caller wants the variant
\* of its own call.
CallerTakes(call, response) ==
  IF response.ok /\ response.response = call THEN response ELSE Failed

CrossReply ==
  /\ pxPart = "reply" /\ pxStage = "given"
  /\ pxGot' = CallerTakes(pxGiven.call, invoke_wasm_on_call(pxGiven))
  /\ pxStage' = "crossed"
  /\ UNCHANGED <<pxPart, pxGiven>>

---------------------------------------------------------------------------
(* Loading.  A manifest is [found, open, readable, parses, named, version, *)
(* declares, protocol, paths]; paths, like a configuration table, is       *)
(* [given, dirs].  A directory link "l" leads to "b".                      *)

RealDir(dir) == IF dir = "l" THEN "b" ELSE dir

\* PluginManifest::validate.
manifest_validate(m) == m.named /\ m.version = "semver" /\ m.declares

\* load_manifest: none is fine; a world-writable, unreadable, unparsable or invalid
\* one is an error.
load_manifest(m) == m.found => ~m.open /\ m.readable /\ m.parses /\ manifest_validate(m)

\* load_with_manifest: a protocol version, when there is one, is the current one.
ProtocolFits(m) == m.found => m.protocol \in {0, 1}

\* host_state_from_config.
host_state_from_config(config) == IF config.given THEN config.dirs ELSE {}

\* apply_manifest_permissions: a list in the manifest replaces the configured one,
\* also when it is empty.
apply_manifest_permissions(dirs, m) ==
  IF m.found /\ m.paths.given THEN m.paths.dirs ELSE dirs

\* allowed_filesystem_path, for read-file-metadata and list-files: the path is
\* resolved, and must exist.
allowed_filesystem_path(dirs, p) == dirs # {} /\ p.exists /\ RealDir(p.dir) \in dirs

\* write_file: the parent is resolved; the file need not exist.
write_file_allowed(dirs, p) == dirs # {} /\ RealDir(p.dir) \in dirs

\* get_path_transitions: a path that cannot be resolved is taken as it is written.
path_transitions_allowed(dirs, p) ==
  dirs # {} /\ (IF p.exists THEN RealDir(p.dir) ELSE p.dir) \in dirs

CrossLoad ==
  /\ pxPart = "load" /\ pxStage = "given"
  /\ LET m == pxGiven.manifest
         dirs == apply_manifest_permissions(host_state_from_config(pxGiven.config), m)
     IN pxGot' = IF load_manifest(m) /\ ProtocolFits(m)
                 THEN [ok |-> TRUE,
                       reads |-> {p \in PxPaths : allowed_filesystem_path(dirs, p)},
                       writes |-> {p \in PxPaths : write_file_allowed(dirs, p)},
                       history |-> {p \in PxPaths : path_transitions_allowed(dirs, p)}]
                 ELSE Failed
  /\ pxStage' = "crossed"
  /\ UNCHANGED <<pxPart, pxGiven>>

---------------------------------------------------------------------------

PxInit ==
  /\ pxStage = "given" /\ pxGot = Failed
  /\ \/ pxPart = "capability" /\ pxGiven \in PxCaps
     \/ pxPart = "answer" /\ pxGiven \in PxAnswers
     \/ pxPart = "reply" /\ pxGiven \in PxReplies
     \/ pxPart = "load" /\ pxGiven \in [manifest : PxManifests, config : PxConfigs]

PxNext == CrossCapability \/ CrossAnswer \/ CrossReply \/ CrossLoad

PxSpec == PxInit /\ [][PxNext]_pxVars

---------------------------------------------------------------------------
(* Properties.                                                             *)

\* A capability written as WIT text (capability_to_wit) and read back
\* (capability_from_wit) is the same capability: an executor's operations do not
\* become formats, and names that contain a colon are not cut.
CapabilitySurvives ==
  pxPart = "capability" /\ pxStage = "crossed" =>
    /\ pxGot.ok
    /\ pxGot.kind = pxGiven.kind /\ pxGot.list1 = pxGiven.list1
    /\ pxGot.list2 = pxGiven.list2

\* An answer that reaches the kernel (on_event, event_result_from_wasm) carries every
\* event the guest produced, in order, and each is of the type the guest declared for
\* it, which is what subscribers are selected by; otherwise none is delivered.
AnswerWholeOrRefused ==
  pxPart = "answer" /\ pxStage = "crossed" /\ pxGot.ok /\ pxGot.some =>
    /\ Len(pxGot.events) = Len(pxGiven.produced.items)
    /\ \A n \in DOMAIN pxGot.events :
         event_type(pxGot.events[n]) = pxGiven.produced.items[n].type.is
    /\ AnswerSize(pxGiven) <= PxMaxPayload

\* A caller of a plugin (evaluate, orchestrate, handle_dispatch_result) gets the
\* answer to the call it made or an error, never the answer to another call.
RepliesFitCalls ==
  pxPart = "reply" /\ pxStage = "crossed" /\ pxGot.ok => pxGot.response = pxGiven.call

\* What the manifest says about paths is what the host functions go by: an omitted
\* list inherits the configured paths, an empty one denies everything, and a file in a
\* listed directory, reached over a link or not, can be read and written.
GrantIsTheManifests ==
  pxPart = "load" /\ pxStage = "crossed" /\ pxGot.ok =>
    LET m == pxGiven.manifest
        granted == IF m.found /\ m.paths.given THEN m.paths.dirs
                   ELSE IF pxGiven.config.given THEN pxGiven.config.dirs ELSE {}
    IN /\ pxGot.reads = {p \in PxPaths : p.exists /\ RealDir(p.dir) \in granted}
       /\ pxGot.reads \subseteq pxGot.writes
       /\ pxGot.reads \subseteq pxGot.history
       /\ granted = {} => pxGot.writes = {} /\ pxGot.history = {}

\* What crosses a plugin's boundary arrives whole, in the call it belongs to:
\* items never reach another call, a plugin reads what it last wrote, an
\* answer too large is refused and not cut, and what a plugin may do is what
\* its manifest grants (loader.rs, host/functions.rs, convert.rs).
PluginsKeptApart ==
  /\ ItemsStayInTheirCall
  /\ ReadsLastWrite
  /\ CapabilitySurvives
  /\ AnswerWholeOrRefused
  /\ RepliesFitCalls
  /\ GrantIsTheManifests
=============================================================================
