--------------------------- MODULE MCGraphExecutor ---------------------------
(***************************************************************************)
(* Small graphs for GraphExecutor.  Nodes are numbered in the order of     *)
(* add_node() and an edge is <<dependency, dependent, occurrence>>.        *)
(***************************************************************************)
EXTENDS GraphExecutorInv, TLC

CONSTANT Shape

Edges ==
  CASE Shape = "diamond"  -> {<<1,2,1>>, <<1,3,1>>, <<2,4,1>>, <<3,4,1>>, <<3,4,2>>}
    [] Shape = "doubled"  -> {<<1,2,1>>, <<1,2,2>>, <<1,3,1>>, <<2,3,1>>}
    [] Shape = "pair"     -> {<<1,2,1>>}

MCNode == {e[i] : e \in Edges, i \in 1..2}
MCEdge == Edges
MCFrom == [e \in Edges |-> e[1]]
MCTo   == [e \in Edges |-> e[2]]

\* Bottom-level priorities as graph_builder::build stamps them: a sink has 1,
\* any other node one more than its best successor.
MCPriority ==
  LET Above(rank, m) == {rank[e[2]] + 1 : e \in {x \in Edges : x[1] = m}} \cup {1} IN
  CHOOSE rank \in [MCNode -> 1..Cardinality(MCNode)] :
    \A m \in MCNode : /\ rank[m] \in Above(rank, m)
                      /\ \A r \in Above(rank, m) : r <= rank[m]

WorkerSymmetry == Permutations(Worker)
=============================================================================
