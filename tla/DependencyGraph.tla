--------------------------- MODULE DependencyGraph ---------------------------
(***************************************************************************)
(* The immutable graph every part of src/Library/Graph works on            *)
(* (graph::dependency_graph).  It is a multigraph: graph_builder keeps one *)
(* entry per depends_on() call, so two nodes may be joined by several      *)
(* edges, and every counter of the executor counts edges, not neighbours.  *)
(***************************************************************************)
EXTENDS Integers, FiniteSets

CONSTANTS Node,      \* node ids
          Edge,      \* one element for each depends_on() entry
          From,      \* From[e] is the dependency (the producer)
          To,        \* To[e] is the dependent (the consumer)
          Priority   \* bottom-level priority stamped by graph_builder::build

ASSUME GraphAssumption ==
  /\ IsFiniteSet(Node)
  /\ IsFiniteSet(Edge)
  /\ From \in [Edge -> Node]
  /\ To \in [Edge -> Node]
  /\ Priority \in [Node -> Nat]

(* Every nonempty set of nodes has one that depends on no other of the set:  *)
(* graph_builder::build refuses a graph with a cycle.                        *)
ASSUME AcyclicAssumption ==
  \A S \in (SUBSET Node) \ {{}} :
    \E n \in S : \A e \in Edge : To[e] = n => From[e] \notin S

-----------------------------------------------------------------------------
In(n)  == {e \in Edge : To[e] = n}      \* dependency_range(n)
Out(n) == {e \in Edge : From[e] = n}    \* successor_range(n)

ClosedUpward(S)   == \A e \in Edge : To[e] \in S => From[e] \in S
ClosedDownward(S) == \A e \in Edge : From[e] \in S => To[e] \in S

(* graph_passes::ancestor_set: the sinks and all they transitively need.    *)
Ancestors(sinks) ==
  {n \in Node : \A S \in SUBSET Node : sinks \subseteq S /\ ClosedUpward(S) => n \in S}

(* The propagation loop of run_incremental: a node is dirty when it is a    *)
(* seed or has a dirty dependency, visited in topological order.            *)
Descendants(seeds) ==
  {n \in Node : \A S \in SUBSET Node : seeds \subseteq S /\ ClosedDownward(S) => n \in S}
=============================================================================
