------------------------- MODULE PolicyComposition --------------------------
(***************************************************************************)
(* From a policy source to a compiled policy (crates/voom-dsl): the chain  *)
(* of `extends` clauses is resolved by composition.rs, the merged AST is   *)
(* validated by validator.rs and its phases are ordered by compiler.rs.    *)
(* One behaviour compiles one root policy of a library of sources.  A      *)
(* phase's operations are the names of the operations, its skip condition  *)
(* and error strategy are opaque values.                                   *)
(***************************************************************************)
EXTENDS FiniteSets, Naturals, Sequences, SequencesExt

CONSTANTS Library,    \* the libraries of policy sources a behaviour may start from
          NoSource,   \* the policy extends nothing
          Unset,      \* a phase control that is not written
          NameOrder   \* the phase names in the order of their text
ASSUME NameOrder \in Seq(STRING)
VARIABLES
  library,   \* [source -> [kind, extends, phases, stated]]: the files, the bundled policies and
             \* the policy in memory; stated holds the config block and the metadata fields
  allow,     \* AllowFiles: "Yes" for compile_policy_file, "No" for a policy in memory
  stack,     \* the sources being resolved, the root first
  resolved,  \* the ResolvedPolicyAst built so far, from the base of the chain upwards
  step,      \* "descend", "merge", "validate", "compile", "done"
  verdict,   \* the Result of compile_policy_file / compile_policy_with_bundled
  order      \* phase_order of the CompiledPolicy

compVars == <<library, allow, stack, resolved, step, verdict, order>>

Names(phases) == {phases[i].name : i \in DOMAIN phases}
PhaseNamed(phases, n) == phases[CHOOSE i \in DOMAIN phases : phases[i].name = n]
Deps(phase) == IF phase.depends_on = Unset THEN <<>> ELSE phase.depends_on

CompInit ==
  /\ library \in Library /\ allow \in {"Yes", "No"} /\ stack = <<>>
  /\ resolved = [phases |-> <<>>, sources |-> <<>>, stated |-> <<>>, chain |-> <<>>]
  /\ step = "start" /\ verdict = "none" /\ order = <<>>

Stop(v) == /\ verdict' = v /\ step' = "done" /\ UNCHANGED <<library, allow, stack, resolved, order>>

\* resolve_policy_file, resolve_policy_with_bundled: the root is the first
\* source of the stack.  (An inline policy is not pushed, and no source can
\* name it.)
Begin(root) ==
  /\ step = "start"
  /\ library[root].kind = IF allow = "Yes" THEN "file" ELSE "inline"
  /\ stack' = <<root>> /\ step' = "descend"
  /\ UNCHANGED <<library, allow, resolved, verdict, order>>

push_source(s) == IF \E i \in DOMAIN stack : stack[i] = s THEN Stop("cyclic") ELSE
  stack' = Append(stack, s) /\ UNCHANGED <<library, allow, resolved, step, verdict, order>>

\* resolve_ast with an extends clause: files are refused for a policy in
\* memory, an unknown source cannot be read.
ResolveParent ==
  /\ step = "descend"
  /\ LET s == library[Last(stack)].extends IN
       /\ s # NoSource
       /\ IF s \notin DOMAIN library THEN Stop("unknown")
          ELSE IF library[s].kind = "file" /\ allow = "No" THEN Stop("file refused")
          ELSE push_source(s)

\* resolve_ast without one: reject_unresolved_phase_extends, then the base
\* of the chain.
ResolveBase ==
  /\ step = "descend"
  /\ LET base == library[Last(stack)] IN
       /\ base.extends = NoSource
       /\ IF \E i \in DOMAIN base.phases : base.phases[i].extend THEN Stop("unresolved extend")
          ELSE /\ resolved' = [phases |-> base.phases, sources |-> <<>>, stated |-> base.stated, chain |-> <<>>]
               /\ step' = "merge"
               /\ UNCHANGED <<library, allow, stack, verdict, order>>

Control(child, parent) == IF child # Unset THEN child ELSE parent

extend_phase(parent, child) == [parent EXCEPT
  !.extend = FALSE, !.skip_when = Control(child.skip_when, @), !.depends_on = Control(child.depends_on, @),
  !.run_if = Control(child.run_if, @), !.on_error = Control(child.on_error, @), !.ops = @ \o child.ops]

clear_extend(phase) == [phase EXCEPT !.extend = FALSE]

\* source_label and phase_source_label: where the parent has the phase from.
SourceOf(r, parentSource, n) ==
  IF n \in DOMAIN r.sources /\ r.sources[n].kind # "Local" THEN r.sources[n].source ELSE parentSource

\* merge_metadata and `config: child.config.or(parent.config)`.
NearestStated(child, parent) == [f \in DOMAIN parent |-> Control(child[f], parent[f])]

\* consumed_child_phases: a parent phase takes the first child phase of its
\* name that no earlier parent phase has taken.
Occurrence(ps, i) == Cardinality({k \in 1..i : ps[k].name = ps[i].name})
TakenBy(parents, i, child) ==
  {k \in DOMAIN child : child[k].name = parents[i].name /\ Occurrence(child, k) = Occurrence(parents, i)}
Left(parents, child) ==
  LET Taken(k) == \E i \in DOMAIN parents : k \in TakenBy(parents, i, child)
      free == {k \in DOMAIN child : ~Taken(k)}
  IN [j \in 1..Cardinality(free) |-> child[CHOOSE k \in free : Cardinality({m \in free : m <= k}) = j]]

\* Mutant: a child phase replaces the parent's even when it says extend.
MergedPhase_Overrides(p, mine) == IF mine = {} THEN clear_extend(p) ELSE clear_extend(CHOOSE c \in mine : TRUE)

MergedPhase(p, mine) ==
  IF mine = {} THEN clear_extend(p)
  ELSE LET c == CHOOSE c \in mine : TRUE IN IF c.extend THEN extend_phase(p, c) ELSE clear_extend(c)

Composition(r, parentSource, childSource, n, mine) ==
  IF mine = {} THEN [kind |-> "Inherited", source |-> SourceOf(r, parentSource, n)]
  ELSE IF (CHOOSE c \in mine : TRUE).extend THEN [kind |-> "Extended", source |-> SourceOf(r, parentSource, n)]
  ELSE [kind |-> "Overridden", source |-> childSource]

\* merge_policy: the parent's phases in the parent's order, each inherited,
\* extended or replaced, then the phases of the child that are left.
merge_policy(r, parentSource, childSource, child) ==
  LET Mine(i) == {child.phases[k] : k \in TakenBy(r.phases, i, child.phases)}
      left == Left(r.phases, child.phases)
      LastOf(n) == CHOOSE i \in DOMAIN r.phases : r.phases[i].name = n
                     /\ \A j \in DOMAIN r.phases : r.phases[j].name = n => j <= i
  IN [phases |-> [i \in DOMAIN r.phases |-> MergedPhase(r.phases[i], Mine(i))]
                 \o [j \in DOMAIN left |-> clear_extend(left[j])],
      sources |-> [n \in Names(r.phases) \cup Names(left) |->
                     IF n \in Names(left) THEN [kind |-> "Local", source |-> childSource]
                     ELSE Composition(r, parentSource, childSource, n, Mine(LastOf(n)))],
      stated |-> NearestStated(child.stated, r.stated),
      chain |-> Append(r.chain, parentSource)]

\* The recursion of resolve_ast returns: each child is merged over what it
\* extends.  A phase that says extend and has no parent phase is refused.
MergeChild ==
  /\ step = "merge" /\ Len(stack) > 1
  /\ LET parent == Last(stack)  child == stack[Len(stack) - 1] IN
       IF LET left == Left(resolved.phases, library[child].phases) IN \E j \in DOMAIN left : left[j].extend
       THEN Stop("no parent phase")
       ELSE /\ resolved' = merge_policy(resolved, parent, child, library[child])
            /\ stack' = Front(stack)
            /\ UNCHANGED <<library, allow, step, verdict, order>>

Merged == /\ step = "merge" /\ Len(stack) = 1 /\ step' = "validate"
          /\ UNCHANGED <<library, allow, stack, resolved, verdict, order>>

-----------------------------------------------------------------------------
(* validator.rs: the checks on the phase graph.                            *)

DuplicateName(ps) == \E i, j \in DOMAIN ps : i # j /\ ps[i].name = ps[j].name

BadReference(ps) == \E i \in DOMAIN ps :
  \/ \E j \in DOMAIN Deps(ps[i]) : Deps(ps[i])[j] \notin Names(ps) \/ Deps(ps[i])[j] = ps[i].name
  \/ ps[i].run_if # Unset /\ ps[i].run_if \notin Names(ps)

\* detect_cycle: a depth-first search; a visited name that is still on the
\* path closes a cycle.  The adjacency is a map, so a later duplicate of a
\* phase replaces the earlier one's dependencies.
Adj(ps, n) == LET at == {i \in DOMAIN ps : ps[i].name = n} IN
  IF at = {} THEN <<>> ELSE Deps(ps[CHOOSE i \in at : \A j \in at : j <= i])

RECURSIVE detect_cycle(_, _, _), TryDeps(_, _, _, _)
OffPath(r, n) == IF r.found THEN r ELSE [r EXCEPT !.path = @ \ {n}]
detect_cycle(ps, n, s) ==
  LET r == TryDeps(ps, Adj(ps, n), [visited |-> s.visited \cup {n}, path |-> s.path \cup {n}, found |-> FALSE], 1)
  IN OffPath(r, n)
TryDeps(ps, deps, s, i) ==
  IF i > Len(deps) THEN s
  ELSE IF deps[i] \notin s.visited
       THEN LET r == detect_cycle(ps, deps[i], s) IN IF r.found THEN r ELSE TryDeps(ps, deps, r, i + 1)
       ELSE IF deps[i] \in s.path THEN [s EXCEPT !.found = TRUE] ELSE TryDeps(ps, deps, s, i + 1)

\* validate_cycle_detection: the search is started from every phase not yet
\* visited, and the path is cleared after a cycle.
HasCycle(ps) ==
  LET Search(s, p) == IF p.name \in s.visited THEN s
                      ELSE LET r == detect_cycle(ps, p.name, [visited |-> s.visited, path |-> {}, found |-> FALSE])
                           IN [visited |-> r.visited, path |-> {}, found |-> s.found \/ r.found]
  IN FoldLeft(Search, [visited |-> {}, path |-> {}, found |-> FALSE], ps).found

\* validate_reachability: the least set closed under "all my dependencies
\* are reachable", where an undeclared dependency does not count.
RECURSIVE ReachFrom(_, _)
ReachFrom(ps, r) ==
  LET next == r \cup {ps[i].name : i \in {k \in DOMAIN ps : \A j \in DOMAIN Deps(ps[k]) :
                        Deps(ps[k])[j] \notin Names(ps) \/ Deps(ps[k])[j] \in r}}
  IN IF next = r THEN r ELSE ReachFrom(ps, next)
Reachable(ps) == ReachFrom(ps, {})

\* validate: the graph checks of validate_collecting_warnings.
Validate ==
  /\ step = "validate"
  /\ LET ps == resolved.phases IN
       IF DuplicateName(ps) \/ BadReference(ps) \/ HasCycle(ps) \/ Reachable(ps) # Names(ps)
       THEN Stop("invalid")
       ELSE step' = "compile" /\ UNCHANGED <<library, allow, stack, resolved, verdict, order>>

-----------------------------------------------------------------------------
(* compiler.rs: the order of the phases.                                   *)

PhaseRank(n) == CHOOSE i \in DOMAIN NameOrder : NameOrder[i] = n

\* partition_point(|x| x > neighbor): the bisection of the standard library,
\* which assumes names sorted downwards.  The queue starts sorted upwards.
RECURSIVE Bisect(_, _, _, _)
Bisect(q, n, lo, hi) == IF lo = hi THEN lo
  ELSE LET mid == (lo + hi) \div 2 IN
       IF PhaseRank(q[mid + 1]) > PhaseRank(n) THEN Bisect(q, n, mid + 1, hi) ELSE Bisect(q, n, lo, mid)

\* The in-degree of the neighbour has just reached zero.
Ready(q, degree, n) == degree[n] = 0

\* One dependency edge from the popped phase: decrement, insert when ready.
Relax(s, n) ==
  LET degree == [s.degree EXCEPT ![n] = @ - 1] IN
  [s EXCEPT !.degree = degree,
            !.queue = IF Ready(s.queue, degree, n) THEN InsertAt(@, Bisect(@, n, 0, Len(@)) + 1, n) ELSE @]

Neighbours(ps, n) == FoldLeft(LAMBDA acc, p : acc \o [j \in DOMAIN SelectSeq(Deps(p), LAMBDA d : d = n) |-> p.name], <<>>, ps)

RECURSIVE Kahn(_, _)
Kahn(ps, s) == IF s.queue = <<>> THEN s.result
  ELSE LET n == Last(s.queue)
           after == FoldLeft(Relax, [s EXCEPT !.queue = Front(@)], Neighbours(ps, n))
       IN Kahn(ps, [after EXCEPT !.result = Append(@, n)])

topological_sort(ps) ==
  LET degree == [n \in Names(ps) |-> FoldLeft(LAMBDA d, p : IF p.name = n THEN d + Len(Deps(p)) ELSE d, 0, ps)]
  IN Kahn(ps, [degree |-> degree, queue |-> SelectSeq(NameOrder, LAMBDA n : n \in Names(ps) /\ degree[n] = 0),
               result |-> <<>>])

\* compile_resolved_ast: a sort that does not place every phase is an error.
Compile ==
  /\ step = "compile"
  /\ LET sorted == topological_sort(resolved.phases) IN
       IF Len(sorted) # Len(resolved.phases) THEN Stop("compile error")
       ELSE /\ order' = sorted /\ verdict' = "ok" /\ step' = "done"
            /\ UNCHANGED <<library, allow, stack, resolved>>

Resolve == ResolveParent \/ ResolveBase

CompNext ==
  \/ \E root \in DOMAIN library : Begin(root)
  \/ Resolve \/ MergeChild \/ Merged \/ Validate \/ Compile

CompSpec == CompInit /\ [][CompNext]_compVars /\ WF_compVars(Resolve)

-----------------------------------------------------------------------------
(* Properties.                                                             *)

\* The sources of a finished chain, the base first.
Chain == Append(resolved.chain, stack[1])

\* The last source of the chain that states phase n in full; what comes
\* before it is replaced, what comes after it extends.
FullAt(n) == LET full == {k \in DOMAIN Chain : \E i \in DOMAIN library[Chain[k]].phases :
                            /\ library[Chain[k]].phases[i].name = n
                            /\ ~library[Chain[k]].phases[i].extend}
             IN CHOOSE k \in full : \A j \in full : j <= k

OpsFrom(n, k) == LET mine == SelectSeq(library[Chain[k]].phases, LAMBDA p : p.name = n)
                 IN IF mine = <<>> THEN <<>> ELSE mine[1].ops

\* The operations a compiled phase runs are those of the last source that
\* states the phase in full, followed by what each later source of the
\* extends chain adds to it, in the order of the chain: no source's
\* operations are lost, repeated or moved (merge_policy, extend_phase).
OperationsOfTheChain ==
  verdict = "ok" => \A i \in DOMAIN resolved.phases :
    LET n == resolved.phases[i].name IN
    resolved.phases[i].ops =
      FoldLeft(LAMBDA acc, k : acc \o OpsFrom(n, k), <<>>, [j \in 1..(Len(Chain) - FullAt(n) + 1) |-> FullAt(n) + j - 1])

\* The config block and every metadata field are those of the source nearest
\* to the root that states them (merge_policy, merge_metadata).
NearestSourceWins ==
  verdict = "ok" => \A f \in DOMAIN resolved.stated :
    LET who == {k \in DOMAIN Chain : library[Chain[k]].stated[f] # Unset} IN
    resolved.stated[f] = IF who = {} THEN Unset
                         ELSE library[Chain[CHOOSE k \in who : \A j \in who : j <= k]].stated[f]

\* The source a phase is reported to come from is the one that states it in
\* full (phase_sources, shown by `policy show`).
ProvenanceTrue ==
  verdict = "ok" => \A n \in DOMAIN resolved.sources : resolved.sources[n].source = Chain[FullAt(n)]

\* A policy the validator accepts is one the compiler can order, although
\* one searches depth first and the other counts dependencies; and in the
\* order every phase stands once and after all it depends on
\* (validate_cycle_detection and validate_reachability against
\* topological_sort).
AcceptedIsOrdered ==
  /\ verdict # "compile error"
  /\ verdict = "ok" =>
       /\ ToSet(order) = Names(resolved.phases) /\ Len(order) = Len(resolved.phases)
       /\ \A i \in DOMAIN order : \A d \in ToSet(Deps(PhaseNamed(resolved.phases, order[i]))) :
            \E j \in 1..(i - 1) : order[j] = d

\* The depth-first search reports a cycle exactly when some phase cannot be
\* reached from phases without dependencies, so neither check of the
\* validator has a blind spot the other would hide
\* (validate_cycle_detection, validate_reachability).
CycleChecksAgree ==
  step = "validate" /\ ~DuplicateName(resolved.phases) /\ ~BadReference(resolved.phases) =>
    (HasCycle(resolved.phases) <=> Reachable(resolved.phases) # Names(resolved.phases))

\* A policy that extends others resolves to what its chain says: operations
\* in the order of the chain, settings of the nearest source, true
\* provenance; and the validator accepts exactly the phase graphs the
\* compiler can order (composition.rs, validator.rs, compiler.rs).
ChainResolved ==
  /\ OperationsOfTheChain
  /\ NearestSourceWins
  /\ ProvenanceTrue
  /\ AcceptedIsOrdered
  /\ CycleChecksAgree
=============================================================================
