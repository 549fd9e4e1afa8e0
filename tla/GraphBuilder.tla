---------------------------- MODULE GraphBuilder ----------------------------
(***************************************************************************)
(* graph_builder: nodes, edges and stamps are declared in any order (an    *)
(* edge may name a node that is added later, or never), and build() checks *)
(* them, sorts the nodes with Kahn's algorithm, ranks them by their        *)
(* longest chain to a sink, and freezes the graph the executor runs.       *)
(*                                                                         *)
(* build() is const: it works on its own copies and may be called again    *)
(* after more declarations.  Its loops take one action for each round.     *)
(* Names and work functions are left out; they are copied through.         *)
(*                                                                         *)
(* A definition whose name ends in an underscore and a word is a plausible *)
(* mistake in the definition that follows it; none is part of the model.   *)
(***************************************************************************)
EXTENDS Integers, Sequences, FiniteSets, FiniteSetsExt, SequencesExt

CONSTANTS MaxNodes,   \* bound: nodes added
          MaxEdges,   \* bound: depends_on() calls
          Version       \* version stamps; 0 is "unstamped"

ASSUME BuilderAssumption ==
  MaxNodes \in Nat /\ MaxEdges \in Nat /\ Version \subseteq Nat /\ 0 \in Version

NodeId == 0 .. MaxNodes      \* ids a client may name; MaxNodes is never one of a node

VARIABLES
  count,      \* nodes_.size()
  edges,      \* edges_: pairs of the dependent "node" and its "dependency"
  stamps,     \* version_ of each pending node
  phase,      \* "idle", or where build() is: "check", "sort", "expand", "rank"
  checked,    \* edges entered in the adjacency lists so far
  in_degree,  \* dependencies of each node not expanded yet
  ready,      \* the queue of nodes with none
  order,      \* topological_order
  pos,        \* the next node to queue, or the next edge to look at in expanding a node
  priority,   \* bottom-level priorities
  left,       \* nodes not ranked yet
  verdict,    \* of the last build(): "none", "ok", "cycle", "unknown"
  graph       \* the graph it has built

pending == <<count, edges, stamps>>
last == <<verdict, graph>>
local == <<checked, in_degree, ready, order, pos, priority, left>>
builder_vars == <<pending, phase, local, last>>

Nodes == 0 .. count - 1
EdgeType == [node : NodeId, dependency : NodeId]

\* The list of "id" holds the dependents of these edges, in edge order.
Successors(id) == {k \in 1 .. Len(edges) : edges[k].dependency = id}

NoGraph == [nodes |-> {}, edges |-> <<>>, order |-> <<>>, priority |-> <<>>, version |-> <<>>]

BuilderInit ==
  /\ count = 0 /\ edges = <<>> /\ stamps = <<>>
  /\ phase = "idle"
  /\ checked = 0 /\ in_degree = <<>> /\ ready = <<>> /\ order = <<>>
  /\ pos = 1 /\ priority = <<>> /\ left = <<>>
  /\ verdict = "none" /\ graph = NoGraph

---------------------------------------------------------------------------
(* Declarations.  The client lets go of the graph of an earlier build()    *)
(* when it declares more.                                                  *)

Forget == verdict' = "none" /\ graph' = NoGraph

add_node ==
  /\ phase = "idle" /\ count < MaxNodes
  /\ count' = count + 1
  /\ stamps' = Append(stamps, 0)
  /\ Forget
  /\ UNCHANGED <<edges, phase, local>>

depends_on(node, dependency) ==
  /\ phase = "idle" /\ Len(edges) < MaxEdges
  /\ edges' = Append(edges, [node |-> node, dependency |-> dependency])
  /\ Forget
  /\ UNCHANGED <<count, stamps, phase, local>>

\* A node out of range is refused; nothing changes.
with_node_version(node, v) ==
  /\ phase = "idle" /\ node \in Nodes
  /\ stamps' = [stamps EXCEPT ![node + 1] = v]
  /\ Forget
  /\ UNCHANGED <<count, edges, phase, local>>

---------------------------------------------------------------------------
(* build *)

Build ==
  /\ phase = "idle"
  /\ phase' = "check"
  /\ checked' = 0
  /\ in_degree' = [n \in Nodes |-> 0]
  /\ ready' = <<>> /\ order' = <<>> /\ pos' = 1
  /\ priority' = [n \in Nodes |-> 1] /\ left' = <<>>
  /\ Forget
  /\ UNCHANGED pending

(* build() returns; its local variables are gone. *)
Finish(result) ==
  /\ phase' = "idle" /\ verdict' = result
  /\ checked' = 0 /\ in_degree' = <<>> /\ ready' = <<>> /\ order' = <<>>
  /\ pos' = 1 /\ priority' = <<>> /\ left' = <<>>

KnownEnds_NodeOnly(e) == e.node < count
KnownEnds(e) == e.node < count /\ e.dependency < count

(* One edge is entered, or refused if it names no node. *)
CheckEdge ==
  /\ phase = "check" /\ checked < Len(edges)
  /\ LET e == edges[checked + 1] IN
     IF KnownEnds(e)
     THEN /\ in_degree' = [in_degree EXCEPT ![e.node] = @ + 1]
          /\ checked' = checked + 1
          /\ UNCHANGED <<phase, verdict, ready, order, pos, priority, left>>
     ELSE Finish("unknown")
  /\ UNCHANGED <<pending, graph>>

(* All edges are in: the nodes without dependencies are queued, lowest id  *)
(* first.                                                                  *)
QueueSource ==
  /\ phase = "check" /\ checked = Len(edges) /\ pos <= count
  /\ ready' = IF in_degree[pos - 1] = 0 THEN Append(ready, pos - 1) ELSE ready
  /\ pos' = pos + 1
  /\ UNCHANGED <<pending, phase, checked, in_degree, order, priority, left, last>>

QueueDone ==
  /\ phase = "check" /\ checked = Len(edges) /\ pos > count
  /\ phase' = "sort"
  /\ UNCHANGED <<pending, local, last>>

(* The front of the queue goes into the order and is expanded. *)
TakeReady ==
  /\ phase = "sort" /\ ready # <<>>
  /\ phase' = "expand"
  /\ order' = Append(order, Head(ready))
  /\ ready' = Tail(ready)
  /\ pos' = 1
  /\ UNCHANGED <<pending, checked, in_degree, priority, left, last>>

(* One successor entry: the successor is queued with its last dependency.  *)
Unblocked(n) == in_degree[n] = 1
ToExpand == {k \in Successors(Last(order)) : k >= pos}

ExpandEdge ==
  /\ phase = "expand"
  /\ \E k \in ToExpand :
       /\ \A j \in ToExpand : k <= j
       /\ LET n == edges[k].node IN
            /\ in_degree' = [in_degree EXCEPT ![n] = @ - 1]
            /\ ready' = IF Unblocked(n) THEN Append(ready, n) ELSE ready
       /\ pos' = k + 1
  /\ UNCHANGED <<pending, phase, checked, order, priority, left, last>>

ExpandDone ==
  /\ phase = "expand" /\ ToExpand = {}
  /\ phase' = "sort"
  /\ UNCHANGED <<pending, local, last>>

(* The queue is empty: nodes left over mean a cycle. *)
AllSorted_Any == order # <<>> \/ count = 0
AllSorted == Len(order) = count

SortDone ==
  /\ phase = "sort" /\ ready = <<>>
  /\ IF AllSorted
     THEN /\ phase' = "rank"
          /\ left' = order
          /\ UNCHANGED <<checked, in_degree, ready, order, pos, priority, verdict>>
     ELSE Finish("cycle")
  /\ UNCHANGED <<pending, graph>>

(* Nodes are ranked last to first, above their highest successor. *)
NextToRank_Forward == Head(left)
NextToRank == Last(left)

RankNode ==
  /\ phase = "rank" /\ left # <<>>
  /\ LET n == NextToRank IN
       /\ priority' = [priority EXCEPT ![n] =
            Max({1} \cup {priority[edges[k].node] + 1 : k \in Successors(n)})]
  /\ left' = Front(left)
  /\ UNCHANGED <<pending, phase, checked, in_degree, ready, order, pos, last>>

Freeze ==
  /\ phase = "rank" /\ left = <<>>
  /\ Finish("ok")
  /\ graph' = [nodes |-> Nodes, edges |-> edges, order |-> order, priority |-> priority,
               version |-> [n \in Nodes |-> stamps[n + 1]]]
  /\ UNCHANGED pending

BuildStep == CheckEdge \/ QueueSource \/ QueueDone \/ TakeReady \/ ExpandEdge \/ ExpandDone \/ SortDone
             \/ RankNode \/ Freeze

BuilderNext ==
  \/ add_node
  \/ \E n, d \in NodeId : depends_on(n, d)
  \/ \E n \in NodeId, v \in Version : with_node_version(n, v)
  \/ Build
  \/ BuildStep

BuilderSpec == BuilderInit /\ [][BuilderNext]_builder_vars

---------------------------------------------------------------------------
(* Properties *)

(* Types; no in-degree is decremented below zero. *)
BuilderTypeOK ==
  /\ count \in 0 .. MaxNodes
  /\ edges \in Seq(EdgeType) /\ Len(edges) <= MaxEdges
  /\ stamps \in Seq(Version) /\ Len(stamps) = count
  /\ phase \in {"idle", "check", "sort", "expand", "rank"}
  /\ \A n \in DOMAIN in_degree : in_degree[n] \in Nat
  /\ Range(ready) \cup Range(order) \cup Range(left) \subseteq NodeId
  /\ verdict \in {"none", "ok", "cycle", "unknown"}

(* The chains of a declaration, by definition and not by sorting: a set of *)
(* edges has a cycle when some nonempty set of nodes all depend on a node  *)
(* of the set.                                                             *)
Depends(n, S) == \E e \in Range(edges) : e.node = n /\ e.dependency \in S
Cyclic == \E S \in SUBSET Nodes : S # {} /\ \A n \in S : Depends(n, S)
Dangling == \E e \in Range(edges) : e.node \notin Nodes \/ e.dependency \notin Nodes

(* build() gives the right answer on every declaration: an unknown node   *)
(* is reported before a cycle, a cycle is found if and only if there is    *)
(* one, repeated edges and self-dependencies included.                     *)
VerdictRight ==
  [][phase # "idle" /\ phase' = "idle" =>
       verdict' = IF Dangling THEN "unknown" ELSE IF Cyclic THEN "cycle" ELSE "ok"]_builder_vars

(* The order is one the executor can rely on: every node once, every       *)
(* dependency before its dependents.                                       *)
Before(s, a, b) == \E i, j \in 1 .. Len(s) : i < j /\ s[i] = a /\ s[j] = b

GraphSorted ==
  /\ Range(graph.order) = graph.nodes /\ Len(graph.order) = Cardinality(graph.nodes)
  /\ \A e \in Range(graph.edges) : Before(graph.order, e.dependency, e.node)

(* The priority of a node is the length, in nodes, of its longest chain to *)
(* a sink, found here by trying every sequence of distinct nodes.          *)
IsChain(s) == \A i \in 1 .. Len(s) - 1 :
                [node |-> s[i + 1], dependency |-> s[i]] \in Range(graph.edges)
ChainsFrom(n) == {s \in SeqOf(graph.nodes, Cardinality(graph.nodes)) :
                    Len(s) > 0 /\ s[1] = n /\ IsChain(s)}
PriorityIsLongestChain ==
  \A n \in graph.nodes : graph.priority[n] = Max({Len(s) : s \in ChainsFrom(n)})

(* A frozen graph is what DependencyGraph assumes of the graph it is given *)
(* (GraphAssumption and AcyclicAssumption), stamps included.               *)
GraphFitsExecutor ==
  /\ \A e \in Range(graph.edges) : e.node \in graph.nodes /\ e.dependency \in graph.nodes
  /\ \A n \in graph.nodes : graph.priority[n] \in Nat /\ graph.version[n] \in Version
  /\ GraphSorted
  /\ \A S \in (SUBSET graph.nodes) \ {{}} :
       \E n \in S : \A e \in Range(graph.edges) : e.node = n => e.dependency \notin S
=============================================================================
