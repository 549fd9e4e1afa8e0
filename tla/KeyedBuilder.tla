---------------------------- MODULE KeyedBuilder ----------------------------
(***************************************************************************)
(* keyed_graph_builder: a graph_builder fed by resolving keys on demand.   *)
(* Resolving a key runs the client's resolver, which resolves the keys it  *)
(* needs before it returns; the calls it makes are its node's edges, in    *)
(* call order.  resolve_with_discovery() makes that resolver out of a      *)
(* discover function, called until it names no unresolved key, and a build *)
(* function.                                                               *)
(*                                                                         *)
(* The calls in progress are a stack of frames.  The client's functions    *)
(* are nondeterministic within a recipe: a plain resolver asks for any     *)
(* keys and may fail or go on after a failure.                             *)
(*                                                                         *)
(* A definition whose name ends in an underscore and a word is a plausible *)
(* mistake in the definition that follows it; none is part of the model.   *)
(***************************************************************************)
EXTENDS GraphBuilder    \* builder_

CONSTANTS Recipe,      \* the clients to try: see RecipeType
          MaxAsks      \* bound: calls of one plain resolver

Key == 1 .. MaxNodes

(* Plain resolvers, or discovery with the keys each key needs; "eager"     *)
(* discovery names them all, otherwise the first one not resolved yet.     *)
RecipeType == [way : {"resolver", "discovery"}, needs : [Key -> Seq(Key)], eager : BOOLEAN]

ASSUME KeyedAssumption ==
  /\ MaxAsks \in Nat
  /\ \A r \in Recipe : r.way \in {"resolver", "discovery"} /\ r.needs \in [Key -> Seq(Key)]

VARIABLES
  recipe,           \* the client
  resolved,         \* resolved_: the node of each resolved key
  stack,            \* the calls in progress, innermost last
  asked             \* ghost: the keys each resolved key's resolver called resolve() for

keyed == <<recipe, resolved, stack, asked>>
keyed_vars == <<builder_vars, keyed>>

is_resolved(k) == k \in DOMAIN resolved
in_progress == {f.key : f \in ToSet(stack)}
AtRest == stack = <<>> /\ phase = "idle"

\* frame_stack_'s entry is "deps"; "todo" is newly_needed; "failed" is a status
\* the synthesized resolver is about to return.
Frame(k) == [key |-> k, deps |-> <<>>, asked |-> <<>>, todo |-> <<>>, calls |-> 0,
             failed |-> FALSE]
Top == Last(stack)
WithTop(s, f) == Append(Front(s), f)

\* A resolved key is recorded in the frame of the caller, when there is one.
record_in_caller_frame(s, id) ==
  IF s = <<>> THEN s
  ELSE WithTop(s, [Last(s) EXCEPT !.deps = Append(@, id)])

\* A failure ends a discovery that waits for the key; a plain resolver goes on.
Failed(s) ==
  IF s = <<>> \/ recipe.way = "resolver" THEN s ELSE WithTop(s, [Last(s) EXCEPT !.failed = TRUE])

\* resolve(k), called with the frames s: answered at once, or a frame of its own.
resolve_forgets(s, k) ==
  IF is_resolved(k) THEN s
  ELSE IF k \in in_progress THEN Failed(s) ELSE Append(s, Frame(k))

resolve(s, k) ==
  IF is_resolved(k) THEN record_in_caller_frame(s, resolved[k])
  ELSE IF k \in in_progress THEN Failed(s) ELSE Append(s, Frame(k))

KeyedInit ==
  /\ BuilderInit
  /\ recipe \in Recipe /\ resolved = <<>> /\ stack = <<>> /\ asked = <<>>

\* The ghost: the caller has been told the node of k.
Noted(s, k) == IF s = <<>> THEN s ELSE WithTop(s, [Last(s) EXCEPT !.asked = Append(@, k)])

\* A resolver's call.
Resolve(s, k) == resolve(IF is_resolved(k) THEN Noted(s, k) ELSE s, k)

Quiet == UNCHANGED <<recipe, resolved, asked, builder_vars>>

\* The client resolves a key.
Call(k) == AtRest /\ stack' = resolve(stack, k) /\ Quiet

\* A plain resolver asks for a key.
Ask(k) ==
  /\ stack # <<>> /\ recipe.way = "resolver" /\ Top.calls < MaxAsks
  /\ stack' = Resolve(WithTop(stack, [Top EXCEPT !.calls = @ + 1]), k)
  /\ Quiet

discover(k) ==
  LET new == SelectSeq(recipe.needs[k], LAMBDA n : ~is_resolved(n))
  IN  IF recipe.eager \/ new = <<>> THEN recipe.needs[k] ELSE <<Head(new)>>
newly_needed(k) == SelectSeq(discover(k), LAMBDA n : ~is_resolved(n))

\* A discovery pass, and the resolution of each key it has named.
Discover ==
  /\ stack # <<>> /\ recipe.way = "discovery" /\ ~Top.failed /\ Top.todo = <<>>
  /\ newly_needed(Top.key) # <<>>
  /\ stack' = WithTop(stack, [Top EXCEPT !.todo = newly_needed(Top.key)])
  /\ Quiet

ResolveNext ==
  /\ stack # <<>> /\ ~Top.failed /\ Top.todo # <<>>
  /\ stack' = Resolve(WithTop(stack, [Top EXCEPT !.todo = Tail(@)]), Head(Top.todo))
  /\ Quiet

\* The resolver is ready to return success: a plain one at any time.
MayReturn ==
  stack # <<>> /\ ~Top.failed /\ Top.todo = <<>>
  /\ (recipe.way = "discovery" => newly_needed(Top.key) = <<>>)

\* resolved_.emplace(key, value)
emplaced(f, key, value) ==
  [k \in DOMAIN f \cup {key} |-> IF k \in DOMAIN f THEN f[k] ELSE value]

\* resolve() returns success: the node, its edges, the memo, the caller's frame.
ReturnOk ==
  /\ MayReturn
  /\ count' = count + 1
  /\ stamps' = Append(stamps, 0)
  /\ edges' = edges \o [i \in DOMAIN Top.deps |-> [node |-> count, dependency |-> Top.deps[i]]]
  /\ Forget
  /\ resolved' = emplaced(resolved, Top.key, count)
  /\ asked' = emplaced(asked, Top.key, Top.asked)
  /\ stack' = Noted(record_in_caller_frame(Front(stack), count), Top.key)
  /\ UNCHANGED <<recipe, phase, checked, in_degree, ready, order, pos, priority, left>>

\* resolve() returns a failure: nothing is added, what was resolved below stays.
ReturnFailure ==
  /\ MayReturn \/ (stack # <<>> /\ Top.failed)
  /\ stack' = Failed(Front(stack))
  /\ Quiet

with_key_version(k, v) ==
  /\ AtRest /\ is_resolved(k)
  /\ with_node_version(resolved[k], v)
  /\ UNCHANGED keyed

KeyedBuild ==
  /\ stack = <<>>
  /\ Build \/ BuildStep
  /\ UNCHANGED keyed

KeyedNext ==
  \/ \E k \in Key : Call(k) \/ Ask(k)
  \/ Discover \/ ResolveNext \/ ReturnOk \/ ReturnFailure
  \/ \E k \in Key, v \in Version : with_key_version(k, v)
  \/ KeyedBuild

KeyedSpec == KeyedInit /\ [][KeyedNext]_keyed_vars

---------------------------------------------------------------------------
(* Correctness                                                             *)

(* A node's inputs are the keys its resolver called resolve() for, in call *)
(* order, a memoized key included, however calls nested, failed or were    *)
(* retried: the edges into it, in the order of edges_, lead from their     *)
(* nodes.  Of the keys a discover function names, the resolver made by     *)
(* resolve_with_discovery() calls resolve() only for those not resolved    *)
(* yet: the others are no inputs (see DiscoveredNeedsAreInputs).           *)
EdgesInCallOrder ==
  \A k \in DOMAIN resolved :
    \E at \in [DOMAIN asked[k] -> DOMAIN edges] :
      /\ \A i, j \in DOMAIN at : i < j => at[i] < at[j]
      /\ {at[i] : i \in DOMAIN at} = {j \in DOMAIN edges : edges[j].node = resolved[k]}
      /\ \A i \in DOMAIN at : edges[at[i]].dependency = resolved[asked[k][i]]

(* The stack holds no key twice, and a key on it is not resolved: a        *)
(* resolution cycle is cut before it recurses.  And build() cannot refuse  *)
(* the graph, as the comment on it says.                                   *)
CyclesCutEarly ==
  /\ Len(stack) = Cardinality(in_progress) /\ in_progress \cap DOMAIN resolved = {}
  /\ resolved # <<>> => /\ verdict \in {"none", "ok"}
                        /\ \A e \in ToSet(edges) : e.dependency < e.node

(* What the header says a resolver must do, the one that                   *)
(* resolve_with_discovery() makes does too: every key the work of a        *)
(* resolved key depends on is an input of its node.  It does not hold: a   *)
(* key that was resolved before it was discovered gets no edge.            *)
DiscoveredNeedsAreInputs ==
  recipe.way = "discovery" =>
    \A k \in DOMAIN resolved : \A n \in ToSet(recipe.needs[k]) :
      \E e \in ToSet(edges) : e.node = resolved[k] /\ e.dependency = resolved[n]

KeyedGraphRight == EdgesInCallOrder /\ CyclesCutEarly

=============================================================================
