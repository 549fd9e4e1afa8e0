-------------------------- MODULE GraphBuilderProofs --------------------------
(***************************************************************************)
(* BInv is an invariant of the builder, for every number of nodes, edges   *)
(* and stamps, whatever is declared in whatever order; and build() gives   *)
(* the right answer, a sorted graph, and priorities that are the longest  *)
(* chains.  Arguments by induction take a least counterexample.            *)
(***************************************************************************)
EXTENDS GraphBuilder, FiniteSetTheorems, SequenceTheorems, WellFoundedInduction, TLAPS

-----------------------------------------------------------------------------
(* The inductive invariant.  An edge is consumed once the node it leads    *)
(* from has been expanded past it; the heart of the invariant is that      *)
(* in_degree counts the edges into a node that are not consumed, repeated  *)
(* edges and self-dependencies each for themselves.                        *)

\* Edges that the bounds on declarations do not limit.
Ends == [node : Nat, dependency : Nat]

PendingInv ==
  /\ count \in Nat
  /\ edges \in Seq(Ends)
  /\ stamps \in Seq(Version) /\ Len(stamps) = count

Known(k) == edges[k].node \in Nodes /\ edges[k].dependency \in Nodes
AllKnown == \A k \in 1 .. Len(edges) : Known(k)

EnteredInto(n) == {k \in 1 .. checked : edges[k].node = n}

CheckInv ==
  /\ checked \in 0 .. Len(edges) /\ pos \in 1 .. count + 1
  /\ pos > 1 => checked = Len(edges)
  /\ \A k \in 1 .. checked : Known(k)
  /\ in_degree \in [Nodes -> Nat]
  /\ \A n \in Nodes : in_degree[n] = Cardinality(EnteredInto(n))
  /\ ready \in Seq(Nodes) /\ IsInjective(ready)
  /\ Range(ready) = {n \in 0 .. pos - 2 : in_degree[n] = 0}
  /\ order = <<>>

Consumed(k) ==
  /\ edges[k].dependency \in Range(order)
  /\ phase = "expand" /\ edges[k].dependency = Last(order) => k < pos

LeftInto(n) == {k \in 1 .. Len(edges) : edges[k].node = n /\ ~Consumed(k)}

\* Every node comes after its dependencies.
OrderSorted ==
  \A i \in 1 .. Len(order), k \in 1 .. Len(edges) :
    edges[k].node = order[i] => \E j \in 1 .. i - 1 : order[j] = edges[k].dependency

SortInv ==
  /\ AllKnown
  /\ in_degree \in [Nodes -> Nat]
  /\ \A n \in Nodes : in_degree[n] = Cardinality(LeftInto(n))
  /\ ready \in Seq(Nodes) /\ IsInjective(ready)
  /\ order \in Seq(Nodes) /\ IsInjective(order)
  /\ Range(ready) \cap Range(order) = {}
  /\ \A n \in Nodes : in_degree[n] = 0 <=> n \in Range(ready) \cup Range(order)
  /\ OrderSorted
  /\ phase = "expand" => order # <<>> /\ pos \in Nat \ {0}

\* p ranks n above the nodes of S, and no higher than they make it.
RankedAbove(p, n, S) ==
  /\ p[n] \in Nat \ {0}
  /\ \A m \in S : p[m] < p[n]
  /\ p[n] = 1 \/ \E m \in S : p[n] = p[m] + 1

Dependents(n) == {edges[k].node : k \in Successors(n)}

RankInv ==
  /\ AllKnown
  /\ order \in Seq(Nodes) /\ IsInjective(order) /\ Range(order) = Nodes
  /\ OrderSorted
  /\ left \in Seq(Nodes) /\ Len(left) <= Len(order)
  /\ \A i \in 1 .. Len(left) : left[i] = order[i]
  /\ priority \in [Nodes -> Nat]
  /\ \A i \in Len(left) + 1 .. Len(order) :
       /\ RankedAbove(priority, order[i], Dependents(order[i]))
       /\ priority[order[i]] <= Len(order) - i + 1

\* A chain that ends in the order where it must is no longer than the rest
\* of the order.
GraphRanked ==
  /\ IsFiniteSet(graph.nodes) /\ graph.order \in Seq(graph.nodes)
  /\ Range(graph.edges) \subseteq [node : graph.nodes, dependency : graph.nodes]
  /\ \A i \in 1 .. Len(graph.order) : graph.priority[graph.order[i]] <= Len(graph.order) - i + 1
  /\ \A n \in graph.nodes :
       RankedAbove(graph.priority, n, {e.node : e \in {d \in Range(graph.edges) : d.dependency = n}})

GraphInv == graph # NoGraph => GraphFitsExecutor /\ GraphRanked

BInv ==
  /\ PendingInv
  /\ phase \in {"idle", "check", "sort", "expand", "rank"}
  /\ phase \in {"check", "sort", "expand"} => priority = [n \in Nodes |-> 1]
  /\ phase = "check" => CheckInv
  /\ phase \in {"sort", "expand"} => SortInv
  /\ phase = "rank" => RankInv
  /\ GraphInv

-----------------------------------------------------------------------------
(* Least numbers, greatest numbers, sequences without repetition. *)

LEMMA LeastNat ==
  ASSUME NEW S, S \subseteq Nat, S # {}
  PROVE  \E x \in S : \A y \in S : x <= y
<1>1. PICK n \in S : TRUE
  OBVIOUS
<1> DEFINE I == 0 .. n
           T == {0 .. x : x \in {y \in S : y <= n}}
<1>2. IsFiniteSet(I)
  BY FS_Interval
<1>3. IsWellFoundedOn(StrictSubsetOrdering(I), FiniteSubsetsOf(I))
  BY <1>2, FS_StrictSubsetOrderingWellFounded
<1>4. T \subseteq FiniteSubsetsOf(I) /\ T # {}
  <2>1. \A x \in S : x <= n => 0 .. x \subseteq I
    OBVIOUS
  <2>2. n \in {y \in S : y <= n}
    BY <1>1
  <2> QED
    BY <1>2, <2>1, <2>2, FS_Subset DEF FiniteSubsetsOf
<1>5. PICK t \in T : \A u \in T : ~ (<<u, t>> \in StrictSubsetOrdering(I))
  <2> HIDE DEF T, I
  <2> QED
    BY <1>3, <1>4, WFMin
<1>6. PICK x \in S : x <= n /\ t = 0 .. x
  OBVIOUS
<1>7. ASSUME NEW y \in S, y < x PROVE FALSE
  <2>1. x \in Nat /\ y \in Nat /\ n \in Nat
    OBVIOUS
  <2>2. 0 .. y \in T /\ 0 .. y \subseteq I
    BY <1>6, <1>7, <2>1
  <2>3. 0 .. y \subseteq t /\ x \in t /\ x \notin 0 .. y /\ t \subseteq I
    BY <1>6, <1>7, <2>1
  <2>4. 0 .. y # t
    BY <2>3
  <2>5. <<0 .. y, t>> \in StrictSubsetOrdering(I)
    BY <2>2, <2>3, <2>4 DEF StrictSubsetOrdering
  <2> QED
    BY <1>5, <2>2, <2>5
<1>8. \A y \in S : x <= y
  BY <1>7
<1> QED
  BY <1>8

\* A bounded set of numbers has a greatest one, and Max finds it.
LEMMA MaxIsGreatest ==
  ASSUME NEW S, S \subseteq Nat, S # {}, NEW b \in Nat, \A x \in S : x <= b
  PROVE  Max(S) \in S /\ \A x \in S : x <= Max(S)
<1> DEFINE U == {u \in Nat : \A x \in S : x <= u}
<1>1. b \in U
  OBVIOUS
<1>2. PICK u \in U : \A v \in U : u <= v
  <2>1. U \subseteq Nat /\ U # {}
    BY <1>1
  <2> HIDE DEF U
  <2> QED
    BY <2>1, LeastNat
<1>3. u \in S
  <2> SUFFICES ASSUME u \notin S PROVE FALSE
    OBVIOUS
  <2>1. \A x \in S : x \in Nat /\ x <= u /\ x # u
    BY <1>2
  <2>2. \A x \in S : x <= u - 1
    BY <1>2, <2>1
  <2>3. u - 1 \in Nat
    <3>1. PICK x \in S : TRUE
      OBVIOUS
    <3> QED
      BY <1>2, <2>2, <3>1
  <2>4. u - 1 \in U
    BY <2>2, <2>3
  <2> QED
    BY <1>2, <2>4
<1>4. \E x \in S : \A y \in S : x >= y
  BY <1>2, <1>3
<1> QED
  BY <1>4 DEF Max

LEMMA OneElement ==
  ASSUME NEW S, NEW x \in S
  PROVE  <<x>> \in Seq(S) /\ Len(<<x>>) = 1 /\ <<x>>[1] = x
OBVIOUS

LEMMA AppendNew ==
  ASSUME NEW S, NEW s \in Seq(S), IsInjective(s), NEW x \in S, x \notin Range(s)
  PROVE  /\ Append(s, x) \in Seq(S) /\ IsInjective(Append(s, x))
         /\ Range(Append(s, x)) = Range(s) \cup {x}
<1> DEFINE a == Append(s, x)
<1>1. a \in Seq(S) /\ Len(a) = Len(s) + 1 /\ Len(s) \in Nat
      /\ (\A i \in 1 .. Len(s) : a[i] = s[i]) /\ a[Len(s) + 1] = x
  OBVIOUS
<1>2. DOMAIN a = 1 .. Len(s) + 1 /\ DOMAIN s = 1 .. Len(s)
  BY <1>1
<1> HIDE DEF a
<1>3. IsInjective(a)
  <2> SUFFICES ASSUME NEW i \in DOMAIN a, NEW j \in DOMAIN a, a[i] = a[j] PROVE i = j
    BY DEF IsInjective
  <2>1. \A k \in 1 .. Len(s) : a[k] # x
    BY <1>1, <1>2 DEF Range
  <2> QED
    BY <1>1, <1>2, <2>1 DEF IsInjective
<1>4. Range(a) = Range(s) \cup {x}
  BY <1>1, <1>2 DEF Range
<1> QED
  BY <1>1, <1>3, <1>4 DEF a

LEMMA TailRest ==
  ASSUME NEW S, NEW s \in Seq(S), IsInjective(s), s # <<>>
  PROVE  /\ Head(s) \in S /\ Head(s) \in Range(s)
         /\ Tail(s) \in Seq(S) /\ IsInjective(Tail(s))
         /\ Range(Tail(s)) = Range(s) \ {Head(s)}
<1>1. /\ Head(s) \in S /\ Head(s) = s[1] /\ Len(s) \in Nat \ {0}
      /\ Tail(s) \in Seq(S) /\ Len(Tail(s)) = Len(s) - 1
      /\ \A i \in 1 .. Len(s) - 1 : Tail(s)[i] = s[i + 1]
  BY HeadTailProperties
<1>2. DOMAIN s = 1 .. Len(s) /\ DOMAIN Tail(s) = 1 .. Len(s) - 1
  BY <1>1
<1> DEFINE u == Tail(s)
           h == Head(s)
<1> HIDE DEF u, h
<1>3. IsInjective(u)
  BY <1>1, <1>2 DEF IsInjective, u
<1>4. Range(u) = Range(s) \ {h}
  <2>1. ASSUME NEW y \in Range(u) PROVE y \in Range(s) \ {h}
    <3>1. PICK i \in 1 .. Len(s) - 1 : y = u[i]
      BY <1>2, <2>1 DEF Range, u
    <3>2. y = s[i + 1] /\ i + 1 \in 1 .. Len(s) /\ 1 \in 1 .. Len(s) /\ i + 1 # 1
      BY <1>1, <3>1 DEF u
    <3> QED
      BY <1>1, <1>2, <3>2 DEF Range, IsInjective, h
  <2>2. ASSUME NEW y \in Range(s), y # h PROVE y \in Range(u)
    <3>1. PICK i \in 1 .. Len(s) : y = s[i]
      BY <1>2 DEF Range
    <3>2. i # 1
      BY <1>1, <2>2, <3>1 DEF h
    <3>3. i - 1 \in 1 .. Len(s) - 1 /\ u[i - 1] = y
      <4>1. i - 1 \in 1 .. Len(s) - 1 /\ (i - 1) + 1 = i
        BY <1>1, <3>2
      <4> QED
        BY <1>1, <3>1, <4>1 DEF u
    <3> QED
      BY <1>2, <3>3 DEF Range, u
  <2> QED
    BY <2>1, <2>2
<1>5. Head(s) \in Range(s)
  BY <1>1, <1>2 DEF Range
<1> QED
  BY <1>1, <1>3, <1>4, <1>5 DEF u, h

\* A sequence without repetition holds every node when it is long enough.
LEMMA FullWhenLong ==
  ASSUME count \in Nat, NEW s \in Seq(Nodes), IsInjective(s)
  PROVE  Len(s) = count <=> Range(s) = Nodes
<1>1. DOMAIN s = 1 .. Len(s) /\ Len(s) \in Nat
  OBVIOUS
<1>2. IsFiniteSet(1 .. Len(s)) /\ Cardinality(1 .. Len(s)) = Len(s)
      /\ IsFiniteSet(0 .. count - 1) /\ Cardinality(0 .. count - 1) = count
  <2> SUFFICES ASSUME NEW n \in Nat
               PROVE  /\ IsFiniteSet(1 .. n) /\ Cardinality(1 .. n) = n
                      /\ IsFiniteSet(0 .. n - 1) /\ Cardinality(0 .. n - 1) = n
    BY <1>1
  <2>1. 1 \in Int /\ 0 \in Int /\ n \in Int /\ n - 1 \in Int
    OBVIOUS
  <2>2. IsFiniteSet(1 .. n) /\ Cardinality(1 .. n) = IF 1 > n THEN 0 ELSE n - 1 + 1
    BY <2>1, FS_Interval
  <2>3. IsFiniteSet(0 .. n - 1) /\ Cardinality(0 .. n - 1) = IF 0 > n - 1 THEN 0 ELSE n - 1 - 0 + 1
    BY <2>1, FS_Interval
  <2> QED
    BY <2>2, <2>3
<1>3. s \in [1 .. Len(s) -> Nodes]
  OBVIOUS
<1>4. s \in Injection(1 .. Len(s), Nodes)
  BY <1>1, <1>3 DEF Injection, IsInjective
<1>5. Len(s) = count <=> s \in Surjection(1 .. Len(s), Nodes)
  BY <1>2, <1>4, FS_Injection DEF Nodes
<1>6. s \in Surjection(1 .. Len(s), Nodes) <=> Range(s) = Nodes
  BY <1>1, <1>3 DEF Surjection, Range
<1> QED
  BY <1>5, <1>6

-----------------------------------------------------------------------------
(* What a step leaves alone. *)

LEMMA EdgesAre ==
  ASSUME PendingInv, NEW k \in 1 .. Len(edges)
  PROVE  /\ edges[k] \in Ends
         /\ edges[k].node \in Nat /\ edges[k].dependency \in Nat
<1>1. edges[k] \in Ends
  BY DEF PendingInv
<1> QED
  BY <1>1 DEF Ends

LEMMA GraphKept ==
  ASSUME GraphInv, graph' \in {graph, NoGraph}
  PROVE  GraphInv'
<1>1. CASE graph' = graph
  BY <1>1 DEF GraphInv, GraphFitsExecutor, GraphRanked, GraphSorted
<1>2. CASE graph' = NoGraph
  BY <1>2 DEF GraphInv, NoGraph
<1> QED
  BY <1>1, <1>2

LEMMA PendingKept ==
  ASSUME UNCHANGED pending
  PROVE  /\ Nodes' = Nodes /\ edges' = edges /\ count' = count
         /\ PendingInv' <=> PendingInv
         /\ AllKnown' <=> AllKnown
         /\ \A k : Known(k)' <=> Known(k)
         /\ \A n : Dependents(n)' = Dependents(n)
BY DEF pending, Nodes, PendingInv, AllKnown, Known, Dependents, Successors

\* Declaring more, and coming back from build().
LEMMA IdleStep ==
  ASSUME BInv, PendingInv', phase' = "idle", graph' \in {graph, NoGraph}
  PROVE  BInv'
BY GraphKept DEF BInv

LEMMA DeclareStep ==
  ASSUME BInv, \/ add_node
               \/ \E n, d \in NodeId : depends_on(n, d)
               \/ \E n \in NodeId, v \in Version : with_node_version(n, v)
  PROVE  BInv'
<1>1. phase' = "idle" /\ graph' = NoGraph
  BY DEF add_node, depends_on, with_node_version, Forget
<1>2. PendingInv'
  <2>1. PendingInv
    BY DEF BInv
  <2>2. CASE add_node
    BY <2>1, <2>2, BuilderAssumption DEF PendingInv, add_node
  <2>3. ASSUME NEW n \in NodeId, NEW d \in NodeId, depends_on(n, d) PROVE PendingInv'
    <3>1. [node |-> n, dependency |-> d] \in Ends
      BY BuilderAssumption DEF NodeId, Ends
    <3> QED
      BY <2>1, <2>3, <3>1 DEF PendingInv, depends_on
  <2>4. ASSUME NEW n \in NodeId, NEW v \in Version, with_node_version(n, v) PROVE PendingInv'
    <3>1. n + 1 \in 1 .. Len(stamps) /\ stamps' = [stamps EXCEPT ![n + 1] = v]
      BY <2>1, <2>4 DEF PendingInv, with_node_version, Nodes
    <3>2. stamps' \in Seq(Version) /\ Len(stamps') = Len(stamps)
      BY <2>1, <3>1 DEF PendingInv
    <3> QED
      BY <2>1, <2>4, <3>2 DEF PendingInv, with_node_version
  <2> QED
    BY <2>2, <2>3, <2>4
<1> QED
  BY <1>1, <1>2, IdleStep

-----------------------------------------------------------------------------
(* The edges are checked, the sources queued. *)

LEMMA BuildStarts ==
  ASSUME BInv, Build
  PROVE  BInv'
<1>1. UNCHANGED pending /\ phase' = "check" /\ graph' = NoGraph
  BY DEF Build, Forget
<1>2. PendingInv /\ PendingInv' /\ GraphInv'
  BY <1>1, PendingKept, GraphKept DEF BInv
<1>3. Nodes' = Nodes /\ count' = count /\ edges' = edges
  BY <1>1, PendingKept
<1>4. CheckInv'
  <2>1. \A n : EnteredInto(n)' = {}
    BY DEF Build, EnteredInto
  <2>2. \A n \in Nodes : in_degree'[n] = 0 /\ in_degree' \in [Nodes -> Nat]
    BY DEF Build
  <2>3. checked' = 0 /\ pos' = 1 /\ ready' = <<>> /\ order' = <<>> /\ count \in Nat
    BY <1>2 DEF Build, PendingInv
  <2>4. ready' \in Seq(Nodes) /\ IsInjective(ready') /\ Range(ready') = {}
    BY <2>3 DEF IsInjective, Range
  <2>5. {n \in 0 .. pos' - 2 : in_degree'[n] = 0} = {}
    BY <2>3
  <2>6. in_degree' \in [Nodes -> Nat]
    BY DEF Build
  <2>7. \A n \in Nodes : in_degree'[n] = Cardinality(EnteredInto(n)')
    BY <2>1, <2>2, FS_EmptySet
  <2>8. Len(edges) \in Nat
    BY <1>2 DEF PendingInv
  <2> QED
    BY <1>3, <2>3, <2>4, <2>5, <2>6, <2>7, <2>8 DEF CheckInv, IsInjective, Range
<1>5. priority' = [n \in Nodes' |-> 1]
  BY <1>3 DEF Build
<1> QED
  BY <1>1, <1>2, <1>4, <1>5 DEF BInv

LEMMA EdgeEntered ==
  ASSUME BInv, CheckEdge, KnownEnds(edges[checked + 1])
  PROVE  BInv'
<1> DEFINE k == checked + 1
           m == edges[k].node
<1>1. /\ phase = "check" /\ phase' = "check" /\ checked < Len(edges) /\ checked' = k
      /\ in_degree' = [in_degree EXCEPT ![m] = @ + 1]
      /\ UNCHANGED <<pending, ready, order, pos, priority, graph>>
  BY DEF CheckEdge, BInv
<1>2. CheckInv /\ PendingInv /\ PendingInv' /\ GraphInv' /\ Nodes' = Nodes
      /\ count' = count /\ edges' = edges /\ priority' = [n \in Nodes |-> 1]
  BY <1>1, PendingKept, GraphKept DEF BInv
<1>3. checked \in Nat /\ Len(edges) \in Nat /\ k \in 1 .. Len(edges) /\ pos = 1
  BY <1>1, <1>2 DEF CheckInv, PendingInv
<1>4. Known(k) /\ m \in Nodes
  BY <1>2, <1>3, EdgesAre DEF KnownEnds, Known, Nodes, PendingInv
<1>5. \A n \in Nodes : EnteredInto(n)' = IF n = m THEN EnteredInto(n) \cup {k} ELSE EnteredInto(n)
  BY <1>1, <1>2, <1>3 DEF EnteredInto
<1>6. \A n \in Nodes : in_degree'[n] = Cardinality(EnteredInto(n)')
  <2> SUFFICES ASSUME NEW n \in Nodes PROVE in_degree'[n] = Cardinality(EnteredInto(n)')
    OBVIOUS
  <2>1. IsFiniteSet(EnteredInto(n)) /\ k \notin EnteredInto(n)
    <3>1. 1 \in Int /\ checked \in Int
      BY <1>3
    <3>2. IsFiniteSet(1 .. checked)
      BY <3>1, FS_Interval
    <3>3. EnteredInto(n) \subseteq 1 .. checked
      BY DEF EnteredInto
    <3> QED
      BY <1>3, <3>2, <3>3, FS_Subset
  <2>2. in_degree[n] = Cardinality(EnteredInto(n)) /\ in_degree \in [Nodes -> Nat]
    BY <1>2 DEF CheckInv
  <2>3. Cardinality(EnteredInto(n) \cup {k}) = Cardinality(EnteredInto(n)) + 1
    BY <2>1, FS_AddElement
  <2> QED
    BY <1>1, <1>5, <2>2, <2>3
<1>7. Range(ready) = {} /\ {n \in 0 .. pos - 2 : in_degree'[n] = 0} = {}
  BY <1>2, <1>3 DEF CheckInv
<1>8. CheckInv'
  <2>1. in_degree' \in [Nodes -> Nat]
    BY <1>1, <1>2, <1>4 DEF CheckInv
  <2>2. \A j \in 1 .. k : Known(j)'
    BY <1>1, <1>2, <1>3, <1>4, PendingKept DEF CheckInv
  <2>3. ready' \in Seq(Nodes) /\ IsInjective(ready') /\ order' = <<>> /\ pos' = 1 /\ ready' = ready
    BY <1>1, <1>2, <1>3 DEF CheckInv
  <2>4. count \in Nat
    BY <1>2 DEF PendingInv
  <2> QED
    BY <1>1, <1>2, <1>3, <1>6, <1>7, <2>1, <2>2, <2>3, <2>4 DEF CheckInv, IsInjective, Range
<1> QED
  BY <1>1, <1>2, <1>8 DEF BInv

LEMMA CheckEdgeStep ==
  ASSUME BInv, CheckEdge
  PROVE  BInv'
<1>1. CASE KnownEnds(edges[checked + 1])
  BY <1>1, EdgeEntered
<1>2. CASE ~KnownEnds(edges[checked + 1])
  <2>1. phase' = "idle" /\ UNCHANGED <<pending, graph>>
    BY <1>2 DEF CheckEdge, Finish
  <2> QED
    BY <2>1, IdleStep, PendingKept DEF BInv
<1> QED
  BY <1>1, <1>2

LEMMA QueueSourceStep ==
  ASSUME BInv, QueueSource
  PROVE  BInv'
<1> DEFINE n == pos - 1
<1>1. /\ phase = "check" /\ phase' = "check" /\ checked = Len(edges) /\ pos <= count
      /\ ready' = IF in_degree[n] = 0 THEN Append(ready, n) ELSE ready
      /\ pos' = pos + 1
      /\ UNCHANGED <<pending, checked, in_degree, order, priority, graph>>
  BY DEF QueueSource, last
<1>2. CheckInv /\ PendingInv /\ PendingInv' /\ GraphInv' /\ Nodes' = Nodes
      /\ count' = count /\ edges' = edges /\ priority' = [m \in Nodes |-> 1]
  BY <1>1, PendingKept, GraphKept DEF BInv
<1>3. count \in Nat /\ pos \in 1 .. count /\ n \in Nodes /\ n \notin 0 .. pos - 2
  BY <1>1, <1>2 DEF PendingInv, CheckInv, Nodes
<1>4. ready \in Seq(Nodes) /\ IsInjective(ready)
      /\ Range(ready) = {m \in 0 .. pos - 2 : in_degree[m] = 0}
  BY <1>2 DEF CheckInv
<1>5. ready' \in Seq(Nodes) /\ IsInjective(ready')
      /\ Range(ready') = Range(ready) \cup (IF in_degree[n] = 0 THEN {n} ELSE {})
  <2>1. n \notin Range(ready)
    BY <1>3, <1>4
  <2>2. CASE in_degree[n] = 0
    <3>1. ready' = Append(ready, n)
      BY <1>1, <2>2
    <3>2. /\ Append(ready, n) \in Seq(Nodes) /\ IsInjective(Append(ready, n))
          /\ Range(Append(ready, n)) = Range(ready) \cup {n}
      BY <1>3, <1>4, <2>1, AppendNew
    <3> QED
      BY <2>2, <3>1, <3>2
  <2>3. CASE in_degree[n] # 0
    BY <1>1, <1>4, <2>3
  <2> QED
    BY <2>2, <2>3
<1>6. 0 .. pos' - 2 = (0 .. pos - 2) \cup {n}
  BY <1>1, <1>3
<1>7. Range(ready') = {m \in 0 .. pos' - 2 : in_degree'[m] = 0}
  BY <1>1, <1>4, <1>5, <1>6
<1>8. CheckInv'
  <2>1. \A m \in Nodes : EnteredInto(m)' = EnteredInto(m)
    BY <1>1, <1>2 DEF EnteredInto
  <2>2. \A k \in 1 .. checked' : Known(k)'
    BY <1>1, <1>2, PendingKept DEF CheckInv
  <2>3. pos' \in 1 .. count' + 1 /\ checked' \in 0 .. Len(edges') /\ checked' = Len(edges')
        /\ order' = <<>>
    BY <1>1, <1>2, <1>3 DEF CheckInv
  <2>4. in_degree' \in [Nodes' -> Nat] /\ \A m \in Nodes' : in_degree'[m] = Cardinality(EnteredInto(m)')
    BY <1>1, <1>2, <2>1 DEF CheckInv
  <2> QED
    BY <1>2, <1>5, <1>7, <2>2, <2>3, <2>4 DEF CheckInv
<1> QED
  BY <1>1, <1>2, <1>8 DEF BInv

LEMMA QueueDoneStep ==
  ASSUME BInv, QueueDone
  PROVE  BInv'
<1>1. /\ phase = "check" /\ phase' = "sort" /\ checked = Len(edges) /\ pos > count
      /\ UNCHANGED <<pending, ready, in_degree, order, priority, graph>>
  BY DEF QueueDone, last, local
<1>2. CheckInv /\ PendingInv /\ PendingInv' /\ GraphInv' /\ Nodes' = Nodes
      /\ count' = count /\ edges' = edges /\ priority' = [m \in Nodes |-> 1]
  BY <1>1, PendingKept, GraphKept DEF BInv
<1>3. count \in Nat /\ pos = count + 1 /\ order' = <<>> /\ order = <<>>
  BY <1>1, <1>2 DEF PendingInv, CheckInv
<1>4. AllKnown'
  BY <1>1, <1>2, PendingKept DEF CheckInv, AllKnown
<1>5. \A n \in Nodes : in_degree'[n] = Cardinality(LeftInto(n)')
  <2>1. Range(order') = {}
    BY <1>3 DEF Range
  <2>2. \A n : LeftInto(n)' = EnteredInto(n)
    BY <1>1, <1>2, <2>1 DEF LeftInto, Consumed, EnteredInto
  <2> QED
    BY <1>1, <1>2, <2>2 DEF CheckInv
<1>6. \A n \in Nodes : in_degree'[n] = 0 <=> n \in Range(ready') \cup Range(order')
  <2>1. Range(ready) = {n \in 0 .. pos - 2 : in_degree[n] = 0}
    BY <1>2 DEF CheckInv
  <2>2. 0 .. pos - 2 = Nodes
    BY <1>3 DEF Nodes
  <2>3. Range(order') = {}
    BY <1>3 DEF Range
  <2> QED
    BY <1>1, <2>1, <2>2, <2>3
<1>7. SortInv'
  <2>1. order' \in Seq(Nodes) /\ IsInjective(order') /\ Range(order') = {} /\ Len(order') = 0
    BY <1>3 DEF IsInjective, Range
  <2>2. ready' \in Seq(Nodes) /\ IsInjective(ready') /\ in_degree' \in [Nodes -> Nat]
    BY <1>1, <1>2 DEF CheckInv
  <2>3. OrderSorted'
    BY <2>1 DEF OrderSorted
  <2> QED
    BY <1>1, <1>2, <1>4, <1>5, <1>6, <2>1, <2>2, <2>3 DEF SortInv
<1> QED
  BY <1>1, <1>2, <1>7 DEF BInv

-----------------------------------------------------------------------------
(* The sort. *)

LEMMA LeftFinite ==
  ASSUME PendingInv, NEW n
  PROVE  IsFiniteSet(LeftInto(n))
<1>1. 1 \in Int /\ Len(edges) \in Int
  BY DEF PendingInv
<1>2. IsFiniteSet(1 .. Len(edges))
  BY <1>1, FS_Interval
<1>3. LeftInto(n) \subseteq 1 .. Len(edges)
  BY DEF LeftInto
<1> QED
  BY <1>2, <1>3, FS_Subset

\* A node that is queued or sorted waits for nothing.
LEMMA NothingLeft ==
  ASSUME PendingInv, SortInv, NEW n \in Nodes
  PROVE  in_degree[n] = 0 <=> \A k \in 1 .. Len(edges) : edges[k].node = n => Consumed(k)
<1>1. IsFiniteSet(LeftInto(n))
  BY LeftFinite
<1>2. in_degree[n] = Cardinality(LeftInto(n))
  BY DEF SortInv
<1>3. in_degree[n] = 0 <=> LeftInto(n) = {}
  BY <1>1, <1>2, FS_EmptySet
<1> QED
  BY <1>3 DEF LeftInto

LEMMA PopReadyStep ==
  ASSUME BInv, TakeReady
  PROVE  BInv'
<1> DEFINE h == Head(ready)
<1>1. /\ phase = "sort" /\ phase' = "expand" /\ ready # <<>>
      /\ order' = Append(order, h) /\ ready' = Tail(ready) /\ pos' = 1
      /\ UNCHANGED <<pending, in_degree, priority, graph>>
  BY DEF TakeReady, last
<1>2. SortInv /\ PendingInv /\ PendingInv' /\ GraphInv' /\ Nodes' = Nodes
      /\ count' = count /\ edges' = edges /\ priority' = [m \in Nodes |-> 1]
  BY <1>1, PendingKept, GraphKept DEF BInv
<1>3. /\ ready \in Seq(Nodes) /\ IsInjective(ready) /\ order \in Seq(Nodes) /\ IsInjective(order)
      /\ Range(ready) \cap Range(order) = {}
  BY <1>2 DEF SortInv
<1>4. /\ h \in Nodes /\ h \in Range(ready) /\ ready' \in Seq(Nodes) /\ IsInjective(ready')
      /\ Range(ready') = Range(ready) \ {h}
  BY <1>1, <1>3, TailRest
<1>5. h \notin Range(order)
  BY <1>3, <1>4
<1>6. order' \in Seq(Nodes) /\ IsInjective(order') /\ Range(order') = Range(order) \cup {h}
  BY <1>1, <1>3, <1>4, <1>5, AppendNew
<1>7. /\ order' # <<>> /\ Last(order') = h /\ Len(order') = Len(order) + 1 /\ Len(order) \in Nat
      /\ order'[Len(order')] = h /\ \A i \in 1 .. Len(order) : order'[i] = order[i]
  BY <1>1, <1>3, <1>4 DEF Last
<1>8. \A k \in 1 .. Len(edges) : Consumed(k)' <=> Consumed(k)
  BY <1>1, <1>2, <1>5, <1>6, <1>7 DEF Consumed
<1>9. \A n : LeftInto(n)' = LeftInto(n)
  BY <1>2, <1>8 DEF LeftInto
<1>10. OrderSorted'
  <2> SUFFICES ASSUME NEW i \in 1 .. Len(order'), NEW k \in 1 .. Len(edges),
                      edges[k].node = order'[i]
               PROVE  \E j \in 1 .. i - 1 : order'[j] = edges[k].dependency
    BY <1>2 DEF OrderSorted
  <2>1. CASE i = Len(order')
    <3>1. in_degree[h] = 0
      BY <1>2, <1>4 DEF SortInv
    <3>2. Consumed(k)
      BY <1>2, <1>4, <1>7, <2>1, <3>1, NothingLeft
    <3>3. PICK j \in DOMAIN order : order[j] = edges[k].dependency
      BY <3>2 DEF Consumed, Range
    <3>4. j \in 1 .. Len(order)
      BY <1>3, <3>3
    <3> QED
      BY <1>7, <2>1, <3>3, <3>4
  <2>2. CASE i # Len(order')
    <3>1. i \in 1 .. Len(order) /\ order'[i] = order[i]
      BY <1>7, <2>2
    <3>2. PICK j \in 1 .. i - 1 : order[j] = edges[k].dependency
      BY <1>2, <3>1 DEF SortInv, OrderSorted
    <3>3. j \in 1 .. Len(order)
      BY <1>7, <3>1
    <3> QED
      BY <1>7, <3>2, <3>3
  <2> QED
    BY <2>1, <2>2
<1>11. \A n \in Nodes : in_degree'[n] = 0 <=> n \in Range(ready') \cup Range(order')
  <2>1. Range(ready') \cup Range(order') = Range(ready) \cup Range(order)
    BY <1>4, <1>6
  <2> QED
    BY <1>1, <1>2, <2>1 DEF SortInv
<1>12. SortInv'
  <2>1. AllKnown' /\ in_degree' \in [Nodes -> Nat]
    BY <1>1, <1>2, PendingKept DEF SortInv
  <2>2. \A n \in Nodes : in_degree'[n] = Cardinality(LeftInto(n)')
    BY <1>1, <1>2, <1>9 DEF SortInv
  <2>3. Range(ready') \cap Range(order') = {}
    BY <1>3, <1>4, <1>6
  <2> QED
    BY <1>1, <1>2, <1>4, <1>6, <1>7, <1>10, <1>11, <2>1, <2>2, <2>3 DEF SortInv
<1> QED
  BY <1>1, <1>2, <1>12 DEF BInv

\* The next entry of the node being expanded is consumed.
LEMMA EntryConsumed ==
  ASSUME BInv, phase = "expand", phase' = "expand",
         NEW k \in ToExpand, \A j \in ToExpand : k <= j,
         pos' = k + 1, UNCHANGED <<pending, order>>
  PROVE  /\ k \in 1 .. Len(edges) /\ k \in LeftInto(edges[k].node)
         /\ \A n : LeftInto(n)' = IF n = edges[k].node THEN LeftInto(n) \ {k} ELSE LeftInto(n)
<1>1. SortInv /\ PendingInv /\ edges' = edges
  BY PendingKept DEF BInv
<1>2. order \in Seq(Nodes) /\ order # <<>> /\ pos \in Nat
  BY <1>1 DEF SortInv
<1>3. Last(order) \in Range(order)
  <2>1. Len(order) \in 1 .. Len(order) /\ DOMAIN order = 1 .. Len(order)
    BY <1>2
  <2> QED
    BY <2>1 DEF Last, Range
<1>4. k \in 1 .. Len(edges) /\ edges[k].dependency = Last(order) /\ k >= pos
  BY DEF ToExpand, Successors
<1>5. ~Consumed(k)
  BY <1>2, <1>4 DEF Consumed
<1>6. ASSUME NEW j \in 1 .. Len(edges) PROVE Consumed(j)' <=> (Consumed(j) \/ j = k)
  <2>1. CASE edges[j].dependency = Last(order)
    <3>1. Consumed(j)' <=> j < k + 1
      BY <1>1, <1>3, <2>1 DEF Consumed
    <3>2. Consumed(j) <=> j < pos
      BY <1>1, <1>3, <2>1 DEF Consumed
    <3>3. j >= pos => j \in ToExpand
      BY <2>1 DEF ToExpand, Successors
    <3>4. j >= pos => k <= j
      BY <3>3
    <3>5. j \in Nat /\ k \in Nat
      BY <1>4
    <3> QED
      BY <1>2, <1>4, <3>1, <3>2, <3>4, <3>5
  <2>2. CASE edges[j].dependency # Last(order)
    BY <1>1, <1>4, <2>2 DEF Consumed
  <2> QED
    BY <2>1, <2>2
<1> QED
  BY <1>1, <1>4, <1>5, <1>6 DEF LeftInto

LEMMA ExpandEdgeStep ==
  ASSUME BInv, ExpandEdge
  PROVE  BInv'
<1>1. PICK k \in ToExpand :
        /\ \A j \in ToExpand : k <= j
        /\ in_degree' = [in_degree EXCEPT ![edges[k].node] = @ - 1]
        /\ ready' = IF Unblocked(edges[k].node) THEN Append(ready, edges[k].node) ELSE ready
        /\ pos' = k + 1
  BY DEF ExpandEdge
<1> DEFINE m == edges[k].node
<1>2. phase = "expand" /\ phase' = "expand" /\ UNCHANGED <<pending, order, priority, graph>>
  BY DEF ExpandEdge, last
<1>3. SortInv /\ PendingInv /\ PendingInv' /\ GraphInv' /\ Nodes' = Nodes
      /\ count' = count /\ edges' = edges /\ priority' = [n \in Nodes |-> 1]
  BY <1>2, PendingKept, GraphKept DEF BInv
<1>4. /\ k \in 1 .. Len(edges) /\ k \in LeftInto(m)
      /\ \A n : LeftInto(n)' = IF n = m THEN LeftInto(n) \ {k} ELSE LeftInto(n)
  BY <1>1, <1>2, EntryConsumed
<1>5. m \in Nodes
  BY <1>3, <1>4 DEF SortInv, AllKnown, Known
<1>6. /\ in_degree[m] \in Nat \ {0} /\ in_degree'[m] = in_degree[m] - 1
      /\ \A n \in Nodes : n # m => in_degree'[n] = in_degree[n]
      /\ in_degree' \in [Nodes -> Nat]
      /\ \A n \in Nodes : in_degree'[n] = Cardinality(LeftInto(n)')
  <2>1. in_degree \in [Nodes -> Nat] /\ \A n \in Nodes : in_degree[n] = Cardinality(LeftInto(n))
    BY <1>3 DEF SortInv
  <2>2. IsFiniteSet(LeftInto(m))
    BY <1>3, LeftFinite
  <2>3. Cardinality(LeftInto(m) \ {k}) = in_degree[m] - 1
    BY <1>4, <1>5, <2>1, <2>2, FS_RemoveElement
  <2>4. in_degree[m] # 0
    BY <1>4, <1>5, <2>1, <2>2, FS_EmptySet
  <2>5. in_degree[m] - 1 \in Nat
    BY <1>5, <2>1, <2>4
  <2>6. /\ in_degree'[m] = in_degree[m] - 1 /\ in_degree' \in [Nodes -> Nat]
        /\ \A n \in Nodes : n # m => in_degree'[n] = in_degree[n]
    BY <1>1, <1>5, <2>1, <2>5
  <2>7. ASSUME NEW n \in Nodes PROVE in_degree'[n] = Cardinality(LeftInto(n)')
    <3>1. CASE n = m
      BY <1>4, <2>3, <2>6, <3>1
    <3>2. CASE n # m
      BY <1>4, <2>1, <2>6, <3>2
    <3> QED
      BY <3>1, <3>2
  <2> QED
    BY <1>5, <2>1, <2>4, <2>6, <2>7
<1>7. /\ ready \in Seq(Nodes) /\ IsInjective(ready) /\ order \in Seq(Nodes) /\ IsInjective(order)
      /\ Range(ready) \cap Range(order) = {}
      /\ \A n \in Nodes : in_degree[n] = 0 <=> n \in Range(ready) \cup Range(order)
  BY <1>3 DEF SortInv
<1>8. m \notin Range(ready) /\ m \notin Range(order)
  BY <1>5, <1>6, <1>7
<1>9. ready' \in Seq(Nodes) /\ IsInjective(ready')
      /\ Range(ready') = Range(ready) \cup (IF in_degree'[m] = 0 THEN {m} ELSE {})
  <2>1. Unblocked(m) <=> in_degree'[m] = 0
    BY <1>6 DEF Unblocked
  <2>2. CASE Unblocked(m)
    <3>1. ready' = Append(ready, m)
      BY <1>1, <2>2
    <3>2. /\ Append(ready, m) \in Seq(Nodes) /\ IsInjective(Append(ready, m))
          /\ Range(Append(ready, m)) = Range(ready) \cup {m}
      BY <1>5, <1>7, <1>8, AppendNew
    <3> QED
      BY <2>1, <2>2, <3>1, <3>2
  <2>3. CASE ~Unblocked(m)
    BY <1>1, <1>7, <2>1, <2>3
  <2> QED
    BY <2>2, <2>3
<1>10. \A n \in Nodes : in_degree'[n] = 0 <=> n \in Range(ready') \cup Range(order')
  <2> SUFFICES ASSUME NEW n \in Nodes
               PROVE  in_degree'[n] = 0 <=> n \in Range(ready') \cup Range(order)
    BY <1>2
  <2>1. CASE n = m
    BY <1>8, <1>9, <2>1
  <2>2. CASE n # m
    BY <1>6, <1>7, <1>9, <2>2
  <2> QED
    BY <2>1, <2>2
<1>11. SortInv'
  <2>1. AllKnown' /\ OrderSorted'
    BY <1>2, <1>3, PendingKept DEF SortInv, OrderSorted
  <2>2. Range(ready') \cap Range(order') = {}
    BY <1>2, <1>7, <1>8, <1>9
  <2>3. order' = order /\ order # <<>> /\ pos' \in Nat \ {0}
    BY <1>1, <1>2, <1>3, <1>4 DEF SortInv
  <2> QED
    BY <1>2, <1>3, <1>6, <1>7, <1>9, <1>10, <2>1, <2>2, <2>3 DEF SortInv
<1> QED
  BY <1>2, <1>3, <1>11 DEF BInv

LEMMA ExpandDoneStep ==
  ASSUME BInv, ExpandDone
  PROVE  BInv'
<1>1. /\ phase = "expand" /\ phase' = "sort" /\ ToExpand = {}
      /\ UNCHANGED <<pending, in_degree, ready, order, priority, graph>>
  BY DEF ExpandDone, last, local
<1>2. SortInv /\ PendingInv /\ PendingInv' /\ GraphInv' /\ Nodes' = Nodes
      /\ count' = count /\ edges' = edges /\ priority' = [n \in Nodes |-> 1]
  BY <1>1, PendingKept, GraphKept DEF BInv
<1>3. ASSUME NEW j \in 1 .. Len(edges) PROVE Consumed(j)' <=> Consumed(j)
  <2>1. edges[j].dependency = Last(order) => j < pos
    <3>1. ~(edges[j].dependency = Last(order) /\ j >= pos)
      BY <1>1 DEF ToExpand, Successors
    <3>2. pos \in Nat /\ j \in Nat
      BY <1>1, <1>2 DEF SortInv
    <3> QED
      BY <3>1, <3>2
  <2> QED
    BY <1>1, <1>2, <2>1 DEF Consumed
<1>4. \A n : LeftInto(n)' = LeftInto(n)
  BY <1>2, <1>3 DEF LeftInto
<1>5. SortInv'
  <2>1. AllKnown' /\ OrderSorted'
    BY <1>1, <1>2, PendingKept DEF SortInv, OrderSorted
  <2>2. \A n \in Nodes : in_degree'[n] = Cardinality(LeftInto(n)')
    BY <1>1, <1>2, <1>4 DEF SortInv
  <2> QED
    BY <1>1, <1>2, <2>1, <2>2 DEF SortInv
<1> QED
  BY <1>1, <1>2, <1>5 DEF BInv

-----------------------------------------------------------------------------
(* What the sort finds out. *)

LEMMA NotDangling ==
  ASSUME PendingInv, AllKnown
  PROVE  ~Dangling
BY DEF PendingInv, AllKnown, Known, Dangling, Range

\* The first node of a set in the order depends on none of the set.
LEMMA SortedHasSource ==
  ASSUME PendingInv, OrderSorted, order \in Seq(Nodes), Range(order) = Nodes,
         NEW S \in SUBSET Nodes, S # {}
  PROVE  \E n \in S : \A k \in 1 .. Len(edges) : edges[k].node = n => edges[k].dependency \notin S
<1> DEFINE P == {i \in 1 .. Len(order) : order[i] \in S}
<1>1. P \subseteq Nat /\ P # {}
  BY DEF Range
<1>2. PICK i \in P : \A j \in P : i <= j
  <2> HIDE DEF P
  <2> QED
    BY <1>1, LeastNat
<1>3. ASSUME NEW k \in 1 .. Len(edges), edges[k].node = order[i], edges[k].dependency \in S
      PROVE  FALSE
  <2>1. PICK j \in 1 .. i - 1 : order[j] = edges[k].dependency
    BY <1>3 DEF OrderSorted
  <2>2. j \in P
    BY <1>3, <2>1
  <2> QED
    BY <1>2, <2>1, <2>2
<1> QED
  BY <1>3

LEMMA NotCyclic ==
  ASSUME PendingInv, OrderSorted, order \in Seq(Nodes), Range(order) = Nodes
  PROVE  ~Cyclic
<1> SUFFICES ASSUME NEW S \in SUBSET Nodes, S # {}, \A n \in S : Depends(n, S) PROVE FALSE
  BY DEF Cyclic
<1>1. PICK n \in S : \A k \in 1 .. Len(edges) : edges[k].node = n => edges[k].dependency \notin S
  BY SortedHasSource
<1>2. PICK e \in Range(edges) : e.node = n /\ e.dependency \in S
  BY DEF Depends
<1>3. PICK k \in 1 .. Len(edges) : e = edges[k]
  BY DEF Range, PendingInv
<1> QED
  BY <1>1, <1>2, <1>3

\* With nothing queued, the nodes left over all wait for each other.
LEMMA LeftOverIsCyclic ==
  ASSUME PendingInv, SortInv, phase = "sort", ready = <<>>, Len(order) # count
  PROVE  Cyclic
<1> DEFINE S == Nodes \ Range(order)
<1>1. S # {}
  <2>1. Range(order) \subseteq Nodes
    BY DEF SortInv, Range
  <2>2. Range(order) # Nodes
    BY FullWhenLong DEF SortInv, PendingInv
  <2> QED
    BY <2>1, <2>2
<1>2. ASSUME NEW n \in S PROVE Depends(n, S)
  <2>1. Range(ready) = {}
    BY DEF Range
  <2>2. in_degree[n] # 0
    BY <2>1 DEF SortInv
  <2>3. PICK k \in 1 .. Len(edges) : edges[k].node = n /\ ~Consumed(k)
    BY <2>2, NothingLeft
  <2>4. edges[k].dependency \in S
    BY <2>3 DEF Consumed, SortInv, AllKnown, Known
  <2>5. edges[k] \in Range(edges)
    BY DEF Range, PendingInv
  <2> QED
    BY <2>3, <2>4, <2>5 DEF Depends
<1> QED
  BY <1>1, <1>2 DEF Cyclic

LEMMA SortDoneStep ==
  ASSUME BInv, SortDone
  PROVE  BInv'
<1>1. phase = "sort" /\ ready = <<>> /\ UNCHANGED <<pending, graph>>
  BY DEF SortDone
<1>2. SortInv /\ PendingInv /\ PendingInv' /\ GraphInv' /\ Nodes' = Nodes
      /\ count' = count /\ edges' = edges
  BY <1>1, PendingKept, GraphKept DEF BInv
<1>3. CASE AllSorted
  <2>1. phase' = "rank" /\ left' = order /\ UNCHANGED <<order, priority>>
    BY <1>3 DEF SortDone
  <2>2. order \in Seq(Nodes) /\ IsInjective(order) /\ priority = [n \in Nodes |-> 1]
    BY <1>1, <1>2 DEF SortInv, BInv
  <2>3. Range(order) = Nodes /\ Len(order) \in Nat
    BY <1>2, <1>3, <2>2, FullWhenLong DEF AllSorted, PendingInv
  <2>4. AllKnown' /\ OrderSorted'
    BY <1>1, <1>2, <2>1, PendingKept DEF SortInv, OrderSorted
  <2>5. priority' \in [Nodes -> Nat]
    BY <2>1, <2>2
  <2>6. RankInv'
    BY <1>2, <2>1, <2>2, <2>3, <2>4, <2>5 DEF RankInv
  <2> QED
    BY <1>2, <2>1, <2>6 DEF BInv
<1>4. CASE ~AllSorted
  <2>1. phase' = "idle"
    BY <1>4 DEF SortDone, Finish
  <2> QED
    BY <1>1, <1>2, <2>1, IdleStep
<1> QED
  BY <1>3, <1>4

-----------------------------------------------------------------------------
(* The ranking. *)

LEMMA DependentsComeLater ==
  ASSUME PendingInv, RankInv, NEW i \in 1 .. Len(order), NEW m \in Dependents(order[i])
  PROVE  m \in Nodes /\ \E p \in i + 1 .. Len(order) : order[p] = m
<1>0. /\ DOMAIN order = 1 .. Len(order) /\ Len(order) \in Nat
      /\ IsInjective(order) /\ Range(order) = Nodes /\ OrderSorted
  BY DEF RankInv
<1>1. PICK k \in 1 .. Len(edges) : edges[k].dependency = order[i] /\ m = edges[k].node
  BY DEF Dependents, Successors
<1>2. m \in Nodes
  BY <1>1 DEF RankInv, AllKnown, Known
<1>3. PICK p \in 1 .. Len(order) : order[p] = m
  BY <1>0, <1>2 DEF Range
<1>4. PICK j \in 1 .. p - 1 : order[j] = order[i]
  BY <1>0, <1>1, <1>3 DEF OrderSorted
<1>5. j = i
  <2>1. j \in 1 .. Len(order)
    BY <1>0, <1>3, <1>4
  <2> QED
    BY <1>0, <1>4, <2>1 DEF IsInjective
<1> QED
  BY <1>0, <1>2, <1>3, <1>4, <1>5

LEMMA RankNodeStep ==
  ASSUME BInv, RankNode
  PROVE  BInv'
<1> DEFINE n == NextToRank
           L == Len(left)
           R == {1} \cup {priority[edges[k].node] + 1 : k \in Successors(n)}
<1>1. /\ phase = "rank" /\ phase' = "rank" /\ left # <<>>
      /\ priority' = [priority EXCEPT ![n] = Max(R)]
      /\ left' = Front(left)
      /\ UNCHANGED <<pending, order, graph>>
  BY DEF RankNode, last, BInv
<1>2. RankInv /\ PendingInv /\ PendingInv' /\ GraphInv' /\ Nodes' = Nodes
      /\ count' = count /\ edges' = edges
  BY <1>1, PendingKept, GraphKept DEF BInv
<1>3. /\ left \in Seq(Nodes) /\ order \in Seq(Nodes) /\ priority \in [Nodes -> Nat]
      /\ L \in Nat \ {0} /\ Len(order) \in Nat /\ L <= Len(order)
      /\ \A i \in 1 .. L : left[i] = order[i]
      /\ DOMAIN order = 1 .. Len(order) /\ IsInjective(order) /\ Range(order) = Nodes
  <2>1. /\ left \in Seq(Nodes) /\ order \in Seq(Nodes) /\ priority \in [Nodes -> Nat]
        /\ Len(left) <= Len(order)
        /\ \A i \in 1 .. Len(left) : left[i] = order[i]
        /\ IsInjective(order) /\ Range(order) = Nodes
    BY ONLY <1>1, <1>2 DEF RankInv
  <2>2. Len(left) \in Nat \ {0}
    BY ONLY <1>1, <2>1
  <2>3. Len(order) \in Nat /\ DOMAIN order = 1 .. Len(order)
    BY ONLY <2>1
  <2> QED
    BY ONLY <2>1, <2>2, <2>3
<1>4. n = order[L] /\ L \in 1 .. Len(order) /\ n \in Nodes
  BY <1>3 DEF NextToRank, Last
<1>5. left' \in Seq(Nodes) /\ Len(left') = L - 1 /\ \A i \in 1 .. L - 1 : left'[i] = order[i]
  <2>1. \A i \in 1 .. L - 1 : left[i] \in Nodes
    BY <1>3
  <2>2. /\ SubSeq(left, 1, L - 1) \in Seq(Nodes)
        /\ Len(SubSeq(left, 1, L - 1)) = (IF 1 <= L - 1 THEN L - 1 - 1 + 1 ELSE 0)
        /\ \A i \in 1 .. L - 1 - 1 + 1 : SubSeq(left, 1, L - 1)[i] = left[1 + i - 1]
    <3>1. 1 \in Int /\ L - 1 \in Int
      BY <1>3
    <3> QED
      BY <2>1, <3>1, SubSeqProperties
  <2>3. \A i \in 1 .. L - 1 : i \in 1 .. L - 1 - 1 + 1 /\ 1 + i - 1 = i /\ i \in 1 .. L
    BY <1>3
  <2>4. left' = SubSeq(left, 1, L - 1)
    BY <1>1 DEF Front
  <2>5. Len(left') = L - 1
    <3>1. L \in Nat \ {0}
      BY <1>3
    <3> HIDE DEF L
    <3> QED
      BY <2>2, <2>4, <3>1
  <2>6. \A i \in 1 .. L - 1 : left'[i] = order[i]
    BY <1>3, <2>2, <2>3, <2>4
  <2> QED
    BY <2>2, <2>4, <2>5, <2>6
<1>6. ASSUME NEW i \in L .. Len(order), NEW m \in Dependents(order[i])
      PROVE  /\ m \in Nodes /\ m # n
             /\ priority[m] \in Nat \ {0} /\ priority[m] <= Len(order) - i
  <2>1. i \in 1 .. Len(order)
    BY <1>3
  <2>2. PICK p \in i + 1 .. Len(order) : order[p] = m
    BY <1>2, <2>1, DependentsComeLater
  <2>3. p \in L + 1 .. Len(order) /\ p \in 1 .. Len(order) /\ p # L /\ DOMAIN order = 1 .. Len(order)
    BY <1>3, <2>1, <2>2
  <2>4. m \in Nodes /\ m # n
    <3>1. order[p] # order[L]
      BY <1>3, <1>4, <2>3 DEF IsInjective
    <3>2. m \in Range(order)
      BY <2>2, <2>3 DEF Range
    <3> QED
      BY <1>3, <1>4, <2>2, <3>1, <3>2
  <2>5. priority[m] \in Nat \ {0} /\ priority[m] <= Len(order) - p + 1
    BY <1>2, <2>2, <2>3 DEF RankInv, RankedAbove
  <2> QED
    BY <1>3, <2>2, <2>4, <2>5
<1>7. R = {1} \cup {priority[m] + 1 : m \in Dependents(n)}
  BY DEF Dependents
<1>8. /\ Max(R) \in Nat \ {0} /\ Max(R) <= Len(order) - L + 1
      /\ \A m \in Dependents(n) : priority[m] < Max(R)
      /\ Max(R) = 1 \/ \E m \in Dependents(n) : Max(R) = priority[m] + 1
  <2>1. \A m \in Dependents(n) : priority[m] \in Nat \ {0} /\ priority[m] <= Len(order) - L
    BY <1>3, <1>4, <1>6
  <2>2. L \in Nat /\ Len(order) \in Nat /\ L <= Len(order)
    BY <1>3
  <2> HIDE DEF R, n, L
  <2>3. /\ R \subseteq Nat \ {0} /\ R \subseteq Nat /\ R # {}
        /\ Len(order) - L + 1 \in Nat /\ \A r \in R : r <= Len(order) - L + 1
    BY <1>7, <2>1, <2>2
  <2>4. Max(R) \in R /\ \A r \in R : r <= Max(R)
    BY <2>3, MaxIsGreatest
  <2>5. \A m \in Dependents(n) : priority[m] + 1 <= Max(R)
    BY <1>7, <2>4
  <2>6. Max(R) \in Nat \ {0}
    BY <2>3, <2>4
  <2>7. \A m \in Dependents(n) : priority[m] < Max(R)
    BY <2>1, <2>5, <2>6
  <2> QED
    BY <1>7, <2>3, <2>4, <2>6, <2>7
<1>9. /\ priority' \in [Nodes -> Nat] /\ priority'[n] = Max(R)
      /\ \A m \in Nodes : m # n => priority'[m] = priority[m]
  <2> HIDE DEF R, n
  <2> QED
    BY <1>1, <1>3, <1>4, <1>8
<1>10. ASSUME NEW i \in L .. Len(order)
       PROVE  /\ RankedAbove(priority', order[i], Dependents(order[i]))
              /\ priority'[order[i]] <= Len(order) - i + 1
  <2>1. \A m \in Dependents(order[i]) : priority'[m] = priority[m]
    BY <1>6, <1>9
  <2>2. CASE i = L
    <3>1. order[i] = n
      BY <1>4, <2>2
    <3> HIDE DEF R, n, L
    <3> QED
      BY <1>8, <1>9, <2>1, <2>2, <3>1 DEF RankedAbove
  <2>3. CASE i # L
    <3>1. i \in L + 1 .. Len(order) /\ i \in 1 .. Len(order) /\ DOMAIN order = 1 .. Len(order)
      BY <1>3, <2>3
    <3>2. order[i] # n /\ order[i] \in Nodes
      <4>1. i \in DOMAIN order /\ L \in DOMAIN order
        BY <1>3, <1>4, <3>1
      <4>2. order[i] # order[L]
        BY <1>3, <2>3, <4>1 DEF IsInjective
      <4> QED
        BY <1>3, <1>4, <3>1, <4>2
    <3>3. /\ RankedAbove(priority, order[i], Dependents(order[i]))
          /\ priority[order[i]] <= Len(order) - i + 1
      BY <1>2, <3>1 DEF RankInv
    <3> HIDE DEF R, n, L
    <3> QED
      BY <1>9, <2>1, <3>2, <3>3 DEF RankedAbove
  <2> QED
    BY <2>2, <2>3
<1>11. RankInv'
  <2>1. AllKnown' /\ OrderSorted' /\ \A m : Dependents(m)' = Dependents(m)
    BY <1>1, <1>2, PendingKept DEF RankInv, OrderSorted
  <2>2. order' = order /\ IsInjective(order') /\ Range(order') = Nodes
    BY <1>1, <1>2 DEF RankInv
  <2>3. Len(left') <= Len(order) /\ (Len(left') + 1) .. Len(order) = L .. Len(order)
        /\ \A i \in 1 .. Len(left') : left'[i] = order[i]
    BY <1>3, <1>5
  <2> HIDE DEF R, n, L
  <2>4. ASSUME NEW i \in Len(left') + 1 .. Len(order')
        PROVE  /\ RankedAbove(priority, order[i], Dependents(order[i]))'
               /\ priority'[order'[i]] <= Len(order') - i + 1
    <3>1. i \in L .. Len(order)
      BY <2>2, <2>3
    <3>2. Dependents(order[i])' = Dependents(order[i])
      BY <2>2, <1>2 DEF Dependents, Successors
    <3> QED
      BY <1>10, <2>2, <3>1, <3>2 DEF RankedAbove
  <2> QED
    BY <1>2, <1>3, <1>5, <1>9, <2>1, <2>2, <2>3, <2>4 DEF RankInv
<1> QED
  BY <1>1, <1>2, <1>11 DEF BInv

LEMMA FreezeStep ==
  ASSUME BInv, Freeze
  PROVE  BInv'
<1>1. /\ phase = "rank" /\ phase' = "idle" /\ left = <<>> /\ UNCHANGED pending
      /\ graph'.nodes = Nodes /\ graph'.edges = edges /\ graph'.order = order
      /\ graph'.priority = priority /\ graph'.version = [n \in Nodes |-> stamps[n + 1]]
  BY DEF Freeze, Finish
<1>2. RankInv /\ PendingInv /\ PendingInv'
  BY <1>1, PendingKept DEF BInv
<1>3. /\ DOMAIN order = 1 .. Len(order) /\ order \in Seq(Nodes) /\ Len(order) \in Nat
      /\ IsInjective(order) /\ Range(order) = Nodes
      /\ OrderSorted /\ AllKnown /\ count \in Nat /\ edges \in Seq(Ends)
  BY <1>2 DEF RankInv, PendingInv
<1>4. Range(edges) = {edges[k] : k \in 1 .. Len(edges)}
  BY <1>3 DEF Range
<1>5. \A i \in 1 .. Len(order) : /\ RankedAbove(priority, order[i], Dependents(order[i]))
                                 /\ priority[order[i]] <= Len(order) - i + 1
  <2>1. Len(left) + 1 .. Len(order) = 1 .. Len(order)
    BY <1>1, <1>3
  <2> QED
    BY <1>2, <2>1 DEF RankInv
<1>6. \A n \in Nodes : RankedAbove(priority, n, Dependents(n))
  BY <1>3, <1>5 DEF Range
<1>7. IsFiniteSet(Nodes) /\ Len(order) = Cardinality(Nodes)
  <2>1. 0 \in Int /\ count - 1 \in Int
    BY <1>3
  <2>2. IsFiniteSet(0 .. count - 1)
        /\ Cardinality(0 .. count - 1) = IF 0 > count - 1 THEN 0 ELSE count - 1 - 0 + 1
    BY <2>1, FS_Interval
  <2>3. Len(order) = count
    BY <1>3, FullWhenLong
  <2> QED
    BY <1>3, <2>2, <2>3 DEF Nodes
<1>8. GraphSorted'
  <2>1. ASSUME NEW e \in Range(edges) PROVE Before(order, e.dependency, e.node)
    <3>1. PICK k \in 1 .. Len(edges) : e = edges[k]
      BY <1>4
    <3>2. e.node \in Nodes
      BY <1>3, <3>1 DEF AllKnown, Known
    <3>3. PICK i \in 1 .. Len(order) : order[i] = e.node
      BY <1>3, <3>2 DEF Range
    <3>4. PICK j \in 1 .. i - 1 : order[j] = e.dependency
      BY <1>3, <3>1, <3>3 DEF OrderSorted
    <3>5. j \in 1 .. Len(order) /\ j < i
      BY <1>3, <3>3, <3>4
    <3> QED
      BY <3>3, <3>4, <3>5 DEF Before
  <2> QED
    BY <1>1, <1>3, <1>7, <2>1 DEF GraphSorted
<1>9. GraphFitsExecutor'
  <2>1. \A e \in Range(edges) : e.node \in Nodes /\ e.dependency \in Nodes
    BY <1>3, <1>4 DEF AllKnown, Known
  <2>2. \A n \in Nodes : priority[n] \in Nat /\ stamps[n + 1] \in Version
    <3>1. \A n \in Nodes : n + 1 \in 1 .. Len(stamps)
      BY <1>2, <1>3 DEF PendingInv, Nodes
    <3> QED
      BY <1>2, <1>6, <3>1 DEF PendingInv, RankedAbove
  <2>3. ASSUME NEW S \in (SUBSET Nodes) \ {{}}
        PROVE  \E n \in S : \A e \in Range(edges) : e.node = n => e.dependency \notin S
    <3>1. PICK n \in S : \A k \in 1 .. Len(edges) : edges[k].node = n => edges[k].dependency \notin S
      BY <1>2, <1>3, <2>3, SortedHasSource
    <3> QED
      BY <1>4, <3>1
  <2> QED
    BY <1>1, <1>8, <2>1, <2>2, <2>3 DEF GraphFitsExecutor
<1>10. GraphRanked'
  <2>1. \A n : {e.node : e \in {d \in Range(edges) : d.dependency = n}} = Dependents(n)
    BY <1>4 DEF Dependents, Successors
  <2> QED
    <3>1. Range(edges) \subseteq [node : Nodes, dependency : Nodes]
      <4>1. ASSUME NEW k \in 1 .. Len(edges) PROVE edges[k] \in [node : Nodes, dependency : Nodes]
        <5>1. edges[k] \in [node : Nat, dependency : Nat]
          BY <1>2, EdgesAre DEF Ends
        <5>2. edges[k].node \in Nodes /\ edges[k].dependency \in Nodes
          BY <1>3 DEF AllKnown, Known
        <5> QED
          BY <5>1, <5>2
      <4> QED
        BY <1>4, <4>1
    <3> QED
      BY <1>1, <1>3, <1>5, <1>6, <1>7, <2>1, <3>1 DEF GraphRanked, RankedAbove
<1> QED
  BY <1>1, <1>2, <1>9, <1>10 DEF BInv, GraphInv

-----------------------------------------------------------------------------
(* Every step. *)

LEMMA BuildStepKeeps ==
  ASSUME BInv, Build \/ BuildStep
  PROVE  BInv'
BY BuildStarts, CheckEdgeStep, QueueSourceStep, QueueDoneStep, PopReadyStep, ExpandEdgeStep,
   ExpandDoneStep, SortDoneStep, RankNodeStep, FreezeStep
   DEF BuildStep

LEMMA StutterKeeps ==
  ASSUME BInv, UNCHANGED builder_vars
  PROVE  BInv'
<1>1. UNCHANGED <<pending, phase, checked, in_degree, ready, order, pos, priority, left, graph>>
  BY DEF builder_vars, local, last
<1>2. PendingInv' /\ GraphInv'
  BY <1>1, PendingKept, GraphKept DEF BInv
<1>3. Nodes' = Nodes /\ count' = count /\ edges' = edges
  BY <1>1, PendingKept
<1>4. phase = "check" => CheckInv'
  BY <1>1, <1>3, PendingKept DEF BInv, CheckInv, Known, EnteredInto
<1>5. phase \in {"sort", "expand"} => SortInv'
  BY <1>1, <1>3, PendingKept DEF BInv, SortInv, LeftInto, Consumed, OrderSorted
<1>6. phase = "rank" => RankInv'
  BY <1>1, <1>3, PendingKept DEF BInv, RankInv, OrderSorted
<1> QED
  BY <1>1, <1>2, <1>3, <1>4, <1>5, <1>6 DEF BInv

LEMMA InitBInv ==
  ASSUME BuilderInit
  PROVE  BInv
BY BuilderAssumption DEF BuilderInit, BInv, PendingInv, GraphInv

LEMMA NextBInv ==
  ASSUME BInv, [BuilderNext]_builder_vars
  PROVE  BInv'
BY DeclareStep, BuildStepKeeps, StutterKeeps DEF BuilderNext

(* However a graph is declared and however often build() runs, BInv holds:  *)
(* in particular in_degree counts the edges into a node still to be         *)
(* expanded, for graph_builder's declarations and build() together.         *)
THEOREM BuilderInvariance == BuilderSpec => []BInv
<1>1. BuilderInit => BInv
  BY InitBInv
<1>2. BInv /\ [BuilderNext]_builder_vars => BInv'
  BY NextBInv
<1> QED
  BY <1>1, <1>2, PTL DEF BuilderSpec

LEMMA BInvFits ==
  ASSUME BInv
  PROVE  GraphFitsExecutor
<1>1. CASE graph = NoGraph
  <2>1. Range(<<>>) = {} /\ Cardinality({}) = 0
    BY FS_EmptySet DEF Range
  <2> QED
    BY <1>1, <2>1 DEF NoGraph, GraphFitsExecutor, GraphSorted
<1>2. CASE graph # NoGraph
  BY <1>2 DEF BInv, GraphInv
<1> QED
  BY <1>1, <1>2

(* A graph build() returns is one the executor can run: known ids, sorted,  *)
(* acyclic, every node stamped and ranked (GraphFitsExecutor).              *)
THEOREM GraphsFit == BuilderSpec => []GraphFitsExecutor
<1>1. BInv => GraphFitsExecutor
  BY BInvFits
<1> QED
  BY <1>1, BuilderInvariance, PTL

\* What build() reports when it returns.
LEMMA OutcomeRight ==
  ASSUME BInv, Build \/ BuildStep, phase # "idle", phase' = "idle"
  PROVE  verdict' = IF Dangling THEN "unknown" ELSE IF Cyclic THEN "cycle" ELSE "ok"
<1>1. CheckEdge \/ SortDone \/ Freeze
  BY DEF Build, BuildStep, QueueSource, QueueDone, TakeReady, ExpandEdge, ExpandDone, RankNode
<1>2. PendingInv
  BY DEF BInv
<1>3. CASE CheckEdge
  <2>1. phase = "check" /\ checked < Len(edges) /\ ~KnownEnds(edges[checked + 1])
        /\ verdict' = "unknown"
    BY <1>3 DEF CheckEdge, Finish
  <2>2. checked \in Nat
    BY <2>1 DEF BInv, CheckInv
  <2>3. checked + 1 \in 1 .. Len(edges) /\ edges[checked + 1] \in Range(edges)
    BY <1>2, <2>1, <2>2 DEF PendingInv, Range
  <2>4. edges[checked + 1].node \notin Nodes \/ edges[checked + 1].dependency \notin Nodes
    BY <1>2, <2>1, <2>3 DEF KnownEnds, Nodes, PendingInv
  <2>5. Dangling
    BY <2>3, <2>4 DEF Dangling
  <2> QED
    BY <2>1, <2>5
<1>4. CASE SortDone
  <2>1. phase = "sort" /\ ready = <<>> /\ ~AllSorted /\ verdict' = "cycle"
    BY <1>4 DEF SortDone, Finish
  <2>2. SortInv /\ AllKnown
    BY <2>1 DEF BInv, SortInv
  <2> QED
    BY <1>2, <2>1, <2>2, NotDangling, LeftOverIsCyclic DEF AllSorted
<1>5. CASE Freeze
  <2>1. phase = "rank" /\ verdict' = "ok"
    BY <1>5 DEF Freeze, Finish
  <2>2. AllKnown /\ OrderSorted /\ order \in Seq(Nodes) /\ Range(order) = Nodes
    BY <2>1 DEF BInv, RankInv
  <2> QED
    BY <1>2, <2>1, <2>2, NotDangling, NotCyclic
<1> QED
  BY <1>1, <1>3, <1>4, <1>5

(* build() reports an unknown id before a cycle, and a cycle if and only if *)
(* there is one, self-dependencies and repeated edges included              *)
(* (VerdictRight).                                                          *)
THEOREM VerdictIsRight == BuilderSpec => VerdictRight
<1> DEFINE Right == phase # "idle" /\ phase' = "idle" =>
                      verdict' = IF Dangling THEN "unknown" ELSE IF Cyclic THEN "cycle" ELSE "ok"
<1>1. BInv /\ [BuilderNext]_builder_vars => [Right]_builder_vars
  <2> SUFFICES ASSUME BInv, BuilderNext, phase # "idle", phase' = "idle"
               PROVE  verdict' = IF Dangling THEN "unknown" ELSE IF Cyclic THEN "cycle" ELSE "ok"
    OBVIOUS
  <2>1. BuildStep
    BY DEF BuilderNext, add_node, depends_on, with_node_version, Build
  <2> QED
    BY <2>1, OutcomeRight
<1> QED
  BY <1>1, BuilderInvariance, PTL DEF BuilderSpec, VerdictRight

-----------------------------------------------------------------------------
(* Priorities and chains. *)

LEMMA ChainIs ==
  ASSUME GraphRanked, NEW n, NEW s
  PROVE  s \in ChainsFrom(n) <=>
           /\ s \in Seq(graph.nodes) /\ Len(s) \in 1 .. Cardinality(graph.nodes)
           /\ s[1] = n /\ IsChain(s)
<1> DEFINE N == graph.nodes
           C == Cardinality(N)
<1>1. C \in Nat
  BY FS_CardinalityType DEF GraphRanked
<1>2. s \in SeqOf(N, C) <=> s \in Seq(N) /\ Len(s) \in 0 .. C
  <2> HIDE DEF N, C
  <2>1. ASSUME s \in SeqOf(N, C) PROVE s \in Seq(N) /\ Len(s) \in 0 .. C
    <3>1. PICK m \in 0 .. C : s \in [1 .. m -> N]
      BY <2>1 DEF SeqOf
    <3>2. m \in Nat
      BY <1>1, <3>1
    <3>3. s \in Seq(N)
      BY <3>1, <3>2, SeqDef
    <3>4. DOMAIN s = 1 .. m /\ DOMAIN s = 1 .. Len(s) /\ Len(s) \in Nat
      BY <3>1, <3>3, LenProperties
    <3>5. Len(s) = m
      BY <3>2, <3>4
    <3> QED
      BY <3>1, <3>3, <3>5
  <2>2. ASSUME s \in Seq(N), Len(s) \in 0 .. C PROVE s \in SeqOf(N, C)
    <3>1. s \in [1 .. Len(s) -> N]
      BY <2>2, LenProperties
    <3> QED
      BY <2>2, <3>1 DEF SeqOf
  <2> QED
    BY <2>1, <2>2
<1>3. s \in ChainsFrom(n) <=> s \in SeqOf(N, C) /\ Len(s) > 0 /\ s[1] = n /\ IsChain(s)
  BY DEF ChainsFrom
<1> HIDE DEF N, C
<1>4. Len(s) \in 0 .. C /\ Len(s) > 0 <=> Len(s) \in 1 .. C
  BY <1>1
<1>5. s \in ChainsFrom(n) <=> s \in Seq(N) /\ Len(s) \in 1 .. C /\ s[1] = n /\ IsChain(s)
  BY <1>2, <1>3, <1>4
<1> QED
  BY <1>5 DEF N, C

\* The edges of the graph go down in priority.
LEMMA EdgesGoDown ==
  ASSUME GraphFitsExecutor, GraphRanked, NEW n \in graph.nodes, NEW m,
         [node |-> m, dependency |-> n] \in Range(graph.edges)
  PROVE  /\ m \in graph.nodes /\ graph.priority[m] \in Nat \ {0}
         /\ graph.priority[n] \in Nat \ {0} /\ graph.priority[m] < graph.priority[n]
<1> DEFINE e == [node |-> m, dependency |-> n]
           D == {d \in Range(graph.edges) : d.dependency = n}
<1>1. e \in D /\ e.node = m
  OBVIOUS
<1>2. m \in graph.nodes
  BY <1>1 DEF GraphFitsExecutor
<1>3. m \in {d.node : d \in D}
  BY <1>1
<1>4. RankedAbove(graph.priority, n, {d.node : d \in D})
  BY DEF GraphRanked
<1>5. graph.priority[m] \in Nat \ {0}
  BY <1>2 DEF GraphRanked, RankedAbove
<1> QED
  BY <1>2, <1>3, <1>4, <1>5 DEF RankedAbove

\* No chain is longer than the priority of the node it starts from.
LEMMA ChainsAreShort ==
  ASSUME GraphFitsExecutor, GraphRanked, NEW n \in graph.nodes, NEW s \in ChainsFrom(n)
  PROVE  Len(s) <= graph.priority[n]
<1> DEFINE N == graph.nodes
           Long(m, c) == c \in ChainsFrom(m) /\ ~(Len(c) <= graph.priority[m])
           B == {k \in Nat : \E m \in N : \E c \in ChainsFrom(m) : Len(c) = k /\ Long(m, c)}
<1>1. \A m \in N : graph.priority[m] \in Nat \ {0}
  BY DEF GraphRanked, RankedAbove
<1>2. Cardinality(N) \in Nat
  BY FS_CardinalityType DEF GraphRanked
<1> SUFFICES ASSUME B # {} PROVE FALSE
  <2>1. Len(s) \in Nat
    BY <1>2, ChainIs
  <2> QED
    BY <2>1
<1>3. PICK k \in B : \A j \in B : k <= j
  <2>1. B \subseteq Nat
    OBVIOUS
  <2> HIDE DEF B
  <2> QED
    BY <2>1, LeastNat
<1>4. PICK m \in N : \E c \in ChainsFrom(m) : Len(c) = k /\ Long(m, c)
  BY <1>3
<1>5. PICK c \in ChainsFrom(m) : Len(c) = k /\ ~(Len(c) <= graph.priority[m])
  BY <1>4
<1>6. c \in Seq(N) /\ k \in 1 .. Cardinality(N) /\ c[1] = m /\ IsChain(c)
  BY <1>5, ChainIs
<1>7. k \in Nat /\ k > 1
  BY <1>1, <1>2, <1>5, <1>6
<1> DEFINE t == Tail(c)
<1>8. t \in Seq(N) /\ Len(t) = k - 1 /\ \A i \in 1 .. k - 1 : t[i] = c[i + 1]
  BY <1>5, <1>6, <1>7
<1>9. IsChain(t)
  <2> SUFFICES ASSUME NEW i \in 1 .. Len(t) - 1
               PROVE  [node |-> t[i + 1], dependency |-> t[i]] \in Range(graph.edges)
    BY DEF IsChain
  <2>1. i + 1 \in 1 .. Len(c) - 1 /\ i \in 1 .. k - 1 /\ i + 1 \in 1 .. k - 1
    BY <1>5, <1>7, <1>8
  <2>2. [node |-> c[i + 1 + 1], dependency |-> c[i + 1]] \in Range(graph.edges)
    BY <1>6, <2>1 DEF IsChain
  <2>3. t[i + 1] = c[i + 1 + 1] /\ t[i] = c[i + 1]
    BY <1>8, <2>1
  <2> QED
    BY <2>2, <2>3
<1> HIDE DEF t
<1>10. t[1] = c[2] /\ t[1] \in N /\ 1 \in 1 .. Len(c) - 1
  BY <1>5, <1>6, <1>7, <1>8
<1>11. [node |-> c[1 + 1], dependency |-> c[1]] \in Range(graph.edges)
  BY <1>6, <1>10 DEF IsChain
<1>12. [node |-> t[1], dependency |-> m] \in Range(graph.edges)
  BY <1>6, <1>10, <1>11
<1>13. graph.priority[t[1]] < graph.priority[m]
  BY <1>12, EdgesGoDown
<1>14. t \in ChainsFrom(t[1])
  <2>1. Len(t) \in 1 .. Cardinality(N)
    BY <1>2, <1>6, <1>7, <1>8
  <2> QED
    BY <1>8, <1>9, <2>1, ChainIs
<1>15. ~(Len(t) <= graph.priority[t[1]])
  BY <1>1, <1>5, <1>7, <1>8, <1>10, <1>13
<1>16. k - 1 \in B
  BY <1>7, <1>8, <1>10, <1>14, <1>15
<1> QED
  BY <1>3, <1>7, <1>16

\* A chain as long as the priority exists.
LEMMA LongChainExists ==
  ASSUME GraphFitsExecutor, GraphRanked, NEW n \in graph.nodes
  PROVE  \E s \in ChainsFrom(n) : Len(s) = graph.priority[n]
<1> DEFINE N == graph.nodes
           P(m) == graph.priority[m]
           Has(m) == \E s \in ChainsFrom(m) : Len(s) = P(m)
           B == {k \in Nat : \E m \in N : P(m) = k /\ ~Has(m)}
<1>1. \A m \in N : P(m) \in Nat \ {0}
  BY DEF GraphRanked, RankedAbove
<1>2. Cardinality(N) \in Nat
  BY FS_CardinalityType DEF GraphRanked
<1> SUFFICES ASSUME B # {} PROVE FALSE
  BY <1>1
<1>3. PICK k \in B : \A j \in B : k <= j
  <2>1. B \subseteq Nat
    OBVIOUS
  <2> HIDE DEF B
  <2> QED
    BY <2>1, LeastNat
<1>4. PICK m \in N : P(m) = k /\ ~Has(m)
  BY <1>3
<1>5. k \in 1 .. Cardinality(N)
  <2>1. /\ Range(graph.order) = N /\ Len(graph.order) = Cardinality(N) /\ graph.order \in Seq(N)
    BY DEF GraphFitsExecutor, GraphSorted, GraphRanked
  <2>2. PICK i \in 1 .. Len(graph.order) : graph.order[i] = m
    BY <2>1 DEF Range
  <2>3. P(m) <= Len(graph.order) - i + 1
    BY <2>2 DEF GraphRanked
  <2> QED
    <3>1. k \in Nat \ {0} /\ k <= Len(graph.order) - i + 1
      BY <1>1, <1>4, <2>3
    <3>2. i \in 1 .. Len(graph.order) /\ Len(graph.order) = Cardinality(N)
      BY <2>1, <2>2
    <3> HIDE DEF N, B, P, Has
    <3> QED
      BY <1>2, <3>1, <3>2
<1>6. CASE k = 1
  <2>1. <<m>> \in Seq(N) /\ Len(<<m>>) = 1 /\ <<m>>[1] = m
    BY OneElement
  <2>2. IsChain(<<m>>)
    BY <2>1 DEF IsChain
  <2>3. <<m>> \in ChainsFrom(m)
    BY <1>5, <1>6, <2>1, <2>2, ChainIs
  <2> QED
    BY <1>4, <1>6, <2>1, <2>3
<1>7. CASE k # 1
  <2>1. PICK e \in Range(graph.edges) : e.dependency = m /\ P(m) = P(e.node) + 1
    BY <1>4, <1>7 DEF GraphRanked, RankedAbove
  <2> DEFINE d == e.node
  <2>2. d \in N
    BY <2>1 DEF GraphFitsExecutor
  <2>3. P(d) \in Nat /\ P(d) = k - 1 /\ k \in Nat
    BY <1>1, <1>2, <1>4, <1>5, <2>1, <2>2
  <2>4. Has(d)
    <3>1. P(d) \notin B
      BY <1>3, <2>3
    <3> QED
      BY <2>2, <2>3, <3>1
  <2>5. PICK t \in ChainsFrom(d) : Len(t) = P(d)
    BY <2>4
  <2>6. t \in Seq(N) /\ Len(t) = k - 1 /\ t[1] = d /\ IsChain(t) /\ k - 1 >= 1
    BY <2>3, <2>5, <1>2, ChainIs
  <2> DEFINE s == <<m>> \o t
  <2>7. /\ s \in Seq(N) /\ Len(s) = k /\ s[1] = m
        /\ \A i \in 2 .. k : s[i] = t[i - 1]
    <3>1. <<m>> \in Seq(N) /\ Len(<<m>>) = 1 /\ <<m>>[1] = m
      BY OneElement
    <3>2. /\ s \in Seq(N) /\ Len(s) = 1 + (k - 1)
          /\ \A i \in 1 .. 1 + (k - 1) : s[i] = IF i <= 1 THEN <<m>>[i] ELSE t[i - 1]
      BY <2>6, <3>1, ConcatProperties
    <3> HIDE DEF s
    <3>3. 1 \in 1 .. 1 + (k - 1) /\ 1 + (k - 1) = k
      BY <2>3, <2>6
    <3>4. \A i \in 2 .. k : i \in 1 .. 1 + (k - 1) /\ ~(i <= 1)
      BY <2>3
    <3> QED
      BY <3>1, <3>2, <3>3, <3>4
  <2> HIDE DEF s
  <2>8. [node |-> d, dependency |-> m] \in Range(graph.edges)
    <3>1. e = [node |-> d, dependency |-> m]
      <4>1. e \in [node : N, dependency : N]
        BY DEF GraphRanked
      <4> QED
        BY <2>1, <4>1
    <3> QED
      BY <3>1
  <2>9. IsChain(s)
    <3> SUFFICES ASSUME NEW i \in 1 .. Len(s) - 1
                 PROVE  [node |-> s[i + 1], dependency |-> s[i]] \in Range(graph.edges)
      BY DEF IsChain
    <3>1. CASE i = 1
      <4>1. s[i + 1] = t[1] /\ s[i] = m
        <5>1. i + 1 = 2 /\ 2 \in 2 .. k /\ 2 - 1 = 1
          BY <2>3, <2>6, <3>1
        <5> QED
          BY <2>7, <3>1, <5>1
      <4> QED
        BY <2>6, <2>8, <4>1
    <3>2. CASE i # 1
      <4>1. i \in 2 .. k /\ i + 1 \in 2 .. k /\ i - 1 \in 1 .. Len(t) - 1 /\ i + 1 - 1 = i - 1 + 1
        BY <2>3, <2>6, <2>7, <3>2
      <4>2. s[i + 1] = t[i - 1 + 1] /\ s[i] = t[i - 1]
        BY <2>7, <4>1
      <4>3. [node |-> t[i - 1 + 1], dependency |-> t[i - 1]] \in Range(graph.edges)
        BY <2>6, <4>1 DEF IsChain
      <4> QED
        BY <4>2, <4>3
    <3> QED
      BY <3>1, <3>2
  <2>10. s \in ChainsFrom(m)
    BY <1>5, <2>7, <2>9, ChainIs
  <2> QED
    BY <1>4, <2>7, <2>10
<1> QED
  BY <1>6, <1>7

(* The priority build() computes from the order is the length of the        *)
(* longest chain below the node, among all chains (PriorityIsLongestChain). *)
THEOREM PrioritiesAreLongestChains == BuilderSpec => []PriorityIsLongestChain
<1>1. ASSUME BInv PROVE PriorityIsLongestChain
  <2>1. CASE graph = NoGraph
    BY <2>1 DEF NoGraph, PriorityIsLongestChain
  <2>2. CASE graph # NoGraph
    <3> SUFFICES ASSUME NEW n \in graph.nodes
                 PROVE  graph.priority[n] = Max({Len(s) : s \in ChainsFrom(n)})
      BY DEF PriorityIsLongestChain
    <3> DEFINE C == {Len(s) : s \in ChainsFrom(n)}
               p == graph.priority[n]
    <3>1. GraphFitsExecutor /\ GraphRanked
      BY <1>1, <2>2 DEF BInv, GraphInv
    <3>2. p \in C
      <4>1. PICK s \in ChainsFrom(n) : Len(s) = p
        BY <3>1, LongChainExists
      <4> QED
        BY <4>1
    <3>3. C \subseteq Nat /\ \A x \in C : x <= p
      <4> SUFFICES ASSUME NEW s \in ChainsFrom(n) PROVE Len(s) \in Nat /\ Len(s) <= p
        OBVIOUS
      <4>1. Cardinality(graph.nodes) \in Nat
        BY <3>1, FS_CardinalityType DEF GraphRanked
      <4>2. Len(s) \in Nat
        BY <3>1, <4>1, ChainIs
      <4> QED
        BY <3>1, <4>2, ChainsAreShort
    <3> HIDE DEF C, p
    <3>4. Max(C) \in C /\ \A x \in C : x <= Max(C)
      <4>1. C # {} /\ p \in Nat
        BY <3>2, <3>3
      <4> QED
        BY <3>3, <4>1, MaxIsGreatest
    <3>5. Max(C) = p
      <4>1. Max(C) \in Nat /\ p \in Nat /\ Max(C) <= p /\ p <= Max(C)
        BY <3>2, <3>3, <3>4
      <4> QED
        BY <4>1
    <3> QED
      BY <3>5 DEF C, p
  <2> QED
    BY <2>1, <2>2
<1> QED
  BY <1>1, BuilderInvariance, PTL
=============================================================================
