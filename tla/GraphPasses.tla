----------------------------- MODULE GraphPasses -----------------------------
(***************************************************************************)
(* graph_passes: prune_to_sinks() marks the ancestors of the requested     *)
(* sinks, gives them dense new ids, and declares what is left of a built   *)
(* graph to a new graph_builder, whose build() then runs.  The walk and    *)
(* the declaration of edges take one action for each node.                 *)
(*                                                                         *)
(* The variables of the builder are those of the new one once "pass" has   *)
(* left "none".                                                            *)
(*                                                                         *)
(* A definition whose name ends in an underscore and a word is a plausible *)
(* mistake in the definition that follows it; none is part of the model.   *)
(***************************************************************************)
EXTENDS GraphBuilder

VARIABLES
  pass,         \* where prune_to_sinks() is: "none", "walk", "declare", "build"
  old,          \* the graph being pruned
  wanted,       \* the sinks
  keep,         \* the ids marked
  work,         \* those on the stack of ancestor_set(), to be expanded
  old_to_new,   \* the new ids
  next_id       \* the next id whose edges are declared

passes == <<pass, old, wanted, keep, work, old_to_new, next_id>>
passes_vars == <<builder_vars, passes>>

npos == -1

\* The i-th smallest of a set of numbers.
Nth(S, i) == CHOOSE x \in S : Cardinality({y \in S : y <= x}) = i

\* The edges into a node, and what they lead from, in input order.
Into(es, id) == {k \in DOMAIN es : es[k].node = id}
dependency_range(g, id) ==
  [i \in 1 .. Cardinality(Into(g.edges, id)) |-> g.edges[Nth(Into(g.edges, id), i)].dependency]

\* Consumers of each node's result in a run of the scheduled nodes: one per edge.
count_consumers(g, scheduled) ==
  [id \in g.nodes |->
     IF id \notin scheduled THEN 0
     ELSE Cardinality({k \in DOMAIN g.edges : g.edges[k].dependency = id
                                              /\ g.edges[k].node \in scheduled})]

PassesInit ==
  /\ BuilderInit
  /\ pass = "none" /\ old = NoGraph /\ wanted = {}
  /\ keep = {} /\ work = {} /\ old_to_new = <<>> /\ next_id = 0

\* The sinks are marked; one out of range is refused.  The new builder is empty.
prune_to_sinks(sinks) ==
  /\ pass = "none" /\ phase = "idle" /\ verdict = "ok" /\ sinks \subseteq graph.nodes
  /\ pass' = "walk" /\ old' = graph /\ wanted' = sinks
  /\ keep' = sinks /\ work' = sinks
  /\ count' = 0 /\ edges' = <<>> /\ stamps' = <<>> /\ Forget
  /\ UNCHANGED <<old_to_new, next_id, phase, local>>

\* An id taken off the stack: its dependencies are marked, the new ones pushed.
Dependencies(id) == {old.edges[k].dependency : k \in Into(old.edges, id)}

Expand_shallow(id) ==
  /\ pass = "walk" /\ id \in work
  /\ keep' = keep \cup Dependencies(id)
  /\ work' = work \ {id}
  /\ UNCHANGED <<builder_vars, pass, old, wanted, old_to_new, next_id>>

Expand(id) ==
  /\ pass = "walk" /\ id \in work
  /\ keep' = keep \cup Dependencies(id)
  /\ work' = (work \ {id}) \cup (Dependencies(id) \ keep)
  /\ UNCHANGED <<builder_vars, pass, old, wanted, old_to_new, next_id>>

\* The marked ids, lowest first, are the nodes of the new builder, stamps and all.
AddNodes ==
  /\ pass = "walk" /\ work = {}
  /\ pass' = "declare" /\ next_id' = 0
  /\ old_to_new' = [id \in old.nodes |->
                      IF id \in keep THEN Cardinality({k \in keep : k < id}) ELSE npos]
  /\ count' = Cardinality(keep)
  /\ stamps' = [i \in 1 .. Cardinality(keep) |-> old.version[Nth(keep, i)]]
  /\ Forget
  /\ UNCHANGED <<edges, phase, local, old, wanted, keep, work>>

\* The dependencies of the next id, if it is kept.
NewEdges(id) ==
  [i \in 1 .. Len(dependency_range(old, id)) |->
     [node |-> old_to_new[id], dependency |-> old_to_new[dependency_range(old, id)[i]]]]

AddEdges ==
  /\ pass = "declare" /\ next_id \in old.nodes
  /\ edges' = IF next_id \in keep THEN edges \o NewEdges(next_id) ELSE edges
  /\ next_id' = next_id + 1
  /\ Forget
  /\ UNCHANGED <<count, stamps, phase, local, pass, old, wanted, keep, work, old_to_new>>

\* All are declared: build(), which never refuses them.
BuildPruned ==
  /\ pass = "declare" /\ next_id \notin old.nodes
  /\ pass' = "build"
  /\ Build
  /\ UNCHANGED <<old, wanted, keep, work, old_to_new, next_id>>

PassesNext ==
  \/ pass = "none" /\ BuilderNext /\ UNCHANGED passes
  \/ \E sinks \in SUBSET graph.nodes : prune_to_sinks(sinks)
  \/ \E id \in work : Expand(id)
  \/ AddNodes \/ AddEdges \/ BuildPruned
  \/ pass = "build" /\ BuildStep /\ UNCHANGED passes

PassesSpec == PassesInit /\ [][PassesNext]_passes_vars

---------------------------------------------------------------------------
(* Correctness                                                             *)

Needed(S) ==   \* by definition: the least closed set that holds the sinks
  {n \in old.nodes :
     \A T \in SUBSET old.nodes :
       (S \subseteq T /\ \A k \in DOMAIN old.edges :
                           old.edges[k].node \in T => old.edges[k].dependency \in T)
         => n \in T}

(* Pruning always builds; the new graph is the old one cut to what the     *)
(* sinks need: same nodes under their new names, each with the same inputs *)
(* in the same order and its stamp; and the consumers counted for a run    *)
(* of the kept nodes are, edge for edge, those of the pruned graph.        *)
PrunedFaithfully ==
  pass = "build" =>
    LET kept == Needed(wanted)
        new == old_to_new
    IN  /\ {id \in old.nodes : new[id] # npos} = kept
        /\ phase = "idle" => verdict = "ok"
        /\ verdict = "ok" =>
             /\ graph.nodes = {new[id] : id \in kept}
             /\ \A id \in kept :
                  /\ dependency_range(graph, new[id]) =
                       [i \in DOMAIN dependency_range(old, id) |-> new[dependency_range(old, id)[i]]]
                  /\ graph.version[new[id]] = old.version[id]
                  /\ count_consumers(old, kept)[id] =
                       Cardinality({k \in DOMAIN graph.edges : graph.edges[k].dependency = new[id]})

=============================================================================
