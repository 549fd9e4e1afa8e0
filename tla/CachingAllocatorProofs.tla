------------------------ MODULE CachingAllocatorProofs ------------------------
(***************************************************************************)
(* AInv of CachingAllocatorInv is an invariant of the caching allocator,   *)
(* for any number of threads, streams, segments and sizes, whatever driver *)
(* call fails but cudaEventSynchronize.  First, what the operations on     *)
(* chains of blocks do to a heap: splitting, merging, adding and releasing *)
(* keep it tiled, keep every block in its one place and account for every  *)
(* byte.  The invariant is then proved in the form PInv, in which the      *)
(* state of the heap is one predicate, Sound, that those lemmas are about. *)
(***************************************************************************)
EXTENDS CachingAllocatorInv, FiniteSetTheorems, WellFoundedInduction, SequenceTheorems, TLAPS

-----------------------------------------------------------------------------
(* The sum of a function over a finite set, as the community module        *)
(* Functions folds it.  The arguments by induction take a smallest         *)
(* counterexample.                                                         *)

Pick(s) == CHOOSE x \in s : TRUE

\* F adds up fun over every subset of S.
Adds(F, fun, S) ==
  F = [s \in SUBSET S |-> IF s = {} THEN 0 ELSE fun[Pick(s)] + F[s \ {Pick(s)}]]

LEMMA SumIsChoice ==
  ASSUME NEW fun, NEW S
  PROVE  SumFunctionOnSet(fun, S) = (CHOOSE F : Adds(F, fun, S))[S]
BY DEF SumFunctionOnSet, FoldFunctionOnSet, MapThenFoldSet, Adds, Pick

\* A set of finite sets has a member none of whose proper subsets is in it.
LEMMA SmallestSet ==
  ASSUME NEW S, IsFiniteSet(S), NEW T, T \subseteq SUBSET S, T # {}
  PROVE  \E x \in T : \A y \in T : y \subseteq x => y = x
<1>1. IsWellFoundedOn(StrictSubsetOrdering(S), FiniteSubsetsOf(S))
  BY FS_StrictSubsetOrderingWellFounded
<1>2. T \subseteq FiniteSubsetsOf(S)
  BY FS_Subset DEF FiniteSubsetsOf
<1>3. PICK x \in T : \A y \in T : ~ (<<y, x>> \in StrictSubsetOrdering(S))
  BY <1>1, <1>2, WFMin
<1>4. \A y \in T : y \subseteq x => y = x
  BY <1>3 DEF StrictSubsetOrdering
<1> QED
  BY <1>3, <1>4

LEMMA PickIn ==
  ASSUME NEW s, s # {}
  PROVE  Pick(s) \in s
BY DEF Pick

\* The running sums agree wherever two of them are defined.
LEMMA AddsAgree ==
  ASSUME NEW fun, NEW S, IsFiniteSet(S), NEW F, Adds(F, fun, S),
         NEW T, NEW G, Adds(G, fun, T)
  PROVE  \A s \in SUBSET S : s \in SUBSET T => F[s] = G[s]
<1> DEFINE Bad == {s \in SUBSET S : s \in SUBSET T /\ F[s] # G[s]}
<1> SUFFICES ASSUME Bad # {} PROVE FALSE
  OBVIOUS
<1>0. Bad \subseteq SUBSET S
  OBVIOUS
<1>1. PICK x \in Bad : \A y \in Bad : y \subseteq x => y = x
  <2> HIDE DEF Bad
  <2> QED
    BY <1>0, SmallestSet
<1>2. F[x] = IF x = {} THEN 0 ELSE fun[Pick(x)] + F[x \ {Pick(x)}]
  BY <1>1 DEF Adds
<1>3. G[x] = IF x = {} THEN 0 ELSE fun[Pick(x)] + G[x \ {Pick(x)}]
  BY <1>1 DEF Adds
<1>4. CASE x = {}
  BY <1>1, <1>2, <1>3, <1>4
<1>5. CASE x # {}
  <2>1. x \ {Pick(x)} \in SUBSET S /\ x \ {Pick(x)} \in SUBSET T
        /\ x \ {Pick(x)} \subseteq x /\ x \ {Pick(x)} # x
    BY <1>1, <1>5, PickIn
  <2>2. F[x \ {Pick(x)}] = G[x \ {Pick(x)}]
    BY <2>1, <1>1
  <2> QED
    BY <1>1, <1>2, <1>3, <1>5, <2>2
<1> QED
  BY <1>4, <1>5

Total(fun, S) == (CHOOSE F : Adds(F, fun, S))[S]

\* One more element is taken off where a running sum is known.
LEMMA TotalUnfolds ==
  ASSUME NEW fun, NEW S, IsFiniteSet(S), NEW F, Adds(F, fun, S),
         \A s \in SUBSET S : \E G : Adds(G, fun, s)
  PROVE  \A s \in SUBSET S :
           Total(fun, s) = IF s = {} THEN 0 ELSE fun[Pick(s)] + Total(fun, s \ {Pick(s)})
<1> SUFFICES ASSUME NEW s \in SUBSET S
             PROVE  Total(fun, s) = IF s = {} THEN 0
                                    ELSE fun[Pick(s)] + Total(fun, s \ {Pick(s)})
  OBVIOUS
<1>1. \A u \in SUBSET S : Total(fun, u) = F[u]
  <2> SUFFICES ASSUME NEW u \in SUBSET S PROVE Total(fun, u) = F[u]
    OBVIOUS
  <2> DEFINE C == CHOOSE G : Adds(G, fun, u)
  <2>1. Adds(C, fun, u)
    OBVIOUS
  <2>2. IsFiniteSet(u)
    BY FS_Subset
  <2> HIDE DEF C
  <2>3. C[u] = F[u]
    BY <2>1, <2>2, AddsAgree
  <2> QED
    BY <2>3 DEF C, Total
<1>2. F[s] = IF s = {} THEN 0 ELSE fun[Pick(s)] + F[s \ {Pick(s)}]
  BY DEF Adds
<1>3. s \ {Pick(s)} \in SUBSET S
  OBVIOUS
<1>4. Total(fun, s) = F[s] /\ Total(fun, s \ {Pick(s)}) = F[s \ {Pick(s)}]
  BY <1>1, <1>3
<1> QED
  BY <1>2, <1>4

LEMMA AddsExists ==
  ASSUME NEW fun, NEW S, IsFiniteSet(S)
  PROVE  \A s \in SUBSET S : \E F : Adds(F, fun, s)
<1> DEFINE Bad == {s \in SUBSET S : ~ \E F : Adds(F, fun, s)}
<1> SUFFICES ASSUME Bad # {} PROVE FALSE
  OBVIOUS
<1>0. Bad \subseteq SUBSET S
  OBVIOUS
<1>1. PICK x \in Bad : \A y \in Bad : y \subseteq x => y = x
  <2> HIDE DEF Bad
  <2> QED
    BY <1>0, SmallestSet
<1> DEFINE H == [s \in SUBSET x |-> IF s = {} THEN 0
                                    ELSE fun[Pick(s)] + Total(fun, s \ {Pick(s)})]
<1>2. ASSUME NEW u \in SUBSET x, u # x
      PROVE  Total(fun, u) = H[u]
  <2>1. \A v \in SUBSET u : v \in SUBSET S /\ v # x
    BY <1>1, <1>2
  <2>2. \A v \in SUBSET u : \E F : Adds(F, fun, v)
    BY <1>1, <2>1
  <2>3. IsFiniteSet(u)
    BY <2>1, FS_Subset
  <2>4. PICK F : Adds(F, fun, u)
    BY <2>2
  <2>5. Total(fun, u) = IF u = {} THEN 0 ELSE fun[Pick(u)] + Total(fun, u \ {Pick(u)})
    BY <2>2, <2>3, <2>4, TotalUnfolds
  <2> QED
    BY <2>5, <1>2
<1>3. \A s \in SUBSET x : s # {} => Total(fun, s \ {Pick(s)}) = H[s \ {Pick(s)}]
  <2> SUFFICES ASSUME NEW s \in SUBSET x, s # {}
               PROVE  Total(fun, s \ {Pick(s)}) = H[s \ {Pick(s)}]
    OBVIOUS
  <2>1. s \ {Pick(s)} \in SUBSET x /\ s \ {Pick(s)} # x
    BY PickIn
  <2> QED
    BY <1>2, <2>1
<1>4. Adds(H, fun, x)
  <2>1. H = [s \in SUBSET x |-> IF s = {} THEN 0 ELSE fun[Pick(s)] + H[s \ {Pick(s)}]]
    <3> HIDE DEF H
    <3>1. \A s \in SUBSET x : (IF s = {} THEN 0 ELSE fun[Pick(s)] + Total(fun, s \ {Pick(s)}))
                            = (IF s = {} THEN 0 ELSE fun[Pick(s)] + H[s \ {Pick(s)}])
      BY <1>3
    <3> QED
      BY <3>1 DEF H
  <2> QED
    BY <2>1 DEF Adds
<1> QED
  BY <1>1, <1>4

\* The recursion equation of the sum.
LEMMA SumUnfolds ==
  ASSUME NEW fun, NEW S, IsFiniteSet(S)
  PROVE  SumFunctionOnSet(fun, S) =
           IF S = {} THEN 0
           ELSE fun[Pick(S)] + SumFunctionOnSet(fun, S \ {Pick(S)})
<1>1. PICK F : Adds(F, fun, S)
  BY AddsExists
<1>2. \A s \in SUBSET S : \E G : Adds(G, fun, s)
  BY AddsExists
<1>3. Total(fun, S) = IF S = {} THEN 0 ELSE fun[Pick(S)] + Total(fun, S \ {Pick(S)})
  BY <1>1, <1>2, TotalUnfolds
<1>4. \A T : SumFunctionOnSet(fun, T) = Total(fun, T)
  BY SumIsChoice DEF Total
<1> QED
  BY <1>3, <1>4

\* A sum of naturals is a natural.
LEMMA SumIsNat ==
  ASSUME NEW fun, NEW S, IsFiniteSet(S), \A x \in S : fun[x] \in Nat
  PROVE  SumFunctionOnSet(fun, S) \in Nat
<1> DEFINE Bad == {s \in SUBSET S : SumFunctionOnSet(fun, s) \notin Nat}
<1> SUFFICES ASSUME Bad # {} PROVE FALSE
  OBVIOUS
<1>0. Bad \subseteq SUBSET S
  OBVIOUS
<1>1. PICK x \in Bad : \A y \in Bad : y \subseteq x => y = x
  <2> HIDE DEF Bad
  <2> QED
    BY <1>0, SmallestSet
<1>2. IsFiniteSet(x)
  BY <1>0, FS_Subset
<1>3. SumFunctionOnSet(fun, x) =
        IF x = {} THEN 0 ELSE fun[Pick(x)] + SumFunctionOnSet(fun, x \ {Pick(x)})
  BY <1>2, SumUnfolds
<1>4. x # {}
  BY <1>1, <1>3
<1>5. Pick(x) \in x
  BY <1>4, PickIn
<1>6. x \ {Pick(x)} \in SUBSET S /\ x \ {Pick(x)} \subseteq x /\ x \ {Pick(x)} # x
  BY <1>1, <1>5
<1>7. SumFunctionOnSet(fun, x \ {Pick(x)}) \in Nat
  BY <1>1, <1>6
<1>8. fun[Pick(x)] \in Nat
  BY <1>1, <1>5
<1> QED
  BY <1>1, <1>3, <1>4, <1>7, <1>8

\* The sum does not depend on the order: any element may be taken off first.
LEMMA SumTakes ==
  ASSUME NEW fun, NEW S, IsFiniteSet(S), \A x \in S : fun[x] \in Nat, NEW a \in S
  PROVE  /\ SumFunctionOnSet(fun, S) = fun[a] + SumFunctionOnSet(fun, S \ {a})
         /\ SumFunctionOnSet(fun, S) \in Nat
         /\ SumFunctionOnSet(fun, S \ {a}) \in Nat
<1> DEFINE Sum(s) == SumFunctionOnSet(fun, s)
           Bad == {s \in SUBSET S : \E b \in s : Sum(s) # fun[b] + Sum(s \ {b})}
<1>nat. \A s \in SUBSET S : IsFiniteSet(s) /\ Sum(s) \in Nat
  <2> SUFFICES ASSUME NEW s \in SUBSET S PROVE IsFiniteSet(s) /\ Sum(s) \in Nat
    OBVIOUS
  <2>1. IsFiniteSet(s)
    BY FS_Subset
  <2>2. \A x \in s : fun[x] \in Nat
    OBVIOUS
  <2> QED
    BY <2>1, <2>2, SumIsNat
<1>step. \A s \in SUBSET S : s # {} => Sum(s) = fun[Pick(s)] + Sum(s \ {Pick(s)})
  BY <1>nat, SumUnfolds
<1>0. Bad = {}
  <2> HIDE DEF Sum
  <2> SUFFICES ASSUME Bad # {} PROVE FALSE
    OBVIOUS
  <2>0. Bad \subseteq SUBSET S
    OBVIOUS
  <2>1. PICK x \in Bad : \A y \in Bad : y \subseteq x => y = x
    <3> HIDE DEF Bad
    <3> QED
      BY <2>0, SmallestSet
  <2>2. PICK b \in x : Sum(x) # fun[b] + Sum(x \ {b})
    BY <2>1
  <2> DEFINE p == Pick(x)
             u == x \ {p}
             v == x \ {b}
  <2>3. x \in SUBSET S /\ p \in x /\ p # b
    <3>1. x \in SUBSET S /\ p \in x
      BY <2>1, <2>2, PickIn
    <3> QED
      BY <3>1, <2>2, <1>step
  <2> HIDE DEF p
  <2>4. Sum(x) = fun[p] + Sum(u)
    BY <2>3, <1>step DEF p
  <2>5. Sum(u) = fun[b] + Sum(u \ {b})
    <3>1. u \in SUBSET S /\ u \subseteq x /\ u # x /\ b \in u
      BY <2>3, <2>2
    <3> QED
      BY <3>1, <2>1
  <2>6. Sum(v) = fun[p] + Sum(v \ {p})
    <3>1. v \in SUBSET S /\ v \subseteq x /\ v # x /\ p \in v
      BY <2>3, <2>2
    <3> QED
      BY <3>1, <2>1
  <2>7. u \ {b} = v \ {p}
    OBVIOUS
  <2>8. Sum(v \ {p}) \in Nat /\ fun[p] \in Nat /\ fun[b] \in Nat
    BY <1>nat, <2>3, <2>2
  <2> HIDE DEF u, v
  <2>9. Sum(x) = fun[b] + Sum(v)
    BY <2>4, <2>5, <2>6, <2>7, <2>8
  <2> QED
    BY <2>9, <2>2 DEF v
<1>1. S \in SUBSET S /\ S \ {a} \in SUBSET S
  OBVIOUS
<1>2. Sum(S) = fun[a] + Sum(S \ {a})
  BY <1>0, <1>1
<1> QED
  BY <1>1, <1>2, <1>nat

\* Two functions equal on the set have the same sum.
LEMMA SumCongruence ==
  ASSUME NEW f, NEW g, NEW S, IsFiniteSet(S), \A x \in S : f[x] = g[x]
  PROVE  SumFunctionOnSet(f, S) = SumFunctionOnSet(g, S)
<1> DEFINE Bad == {s \in SUBSET S : SumFunctionOnSet(f, s) # SumFunctionOnSet(g, s)}
<1> SUFFICES ASSUME Bad # {} PROVE FALSE
  OBVIOUS
<1>0. Bad \subseteq SUBSET S
  OBVIOUS
<1>1. PICK x \in Bad : \A y \in Bad : y \subseteq x => y = x
  <2> HIDE DEF Bad
  <2> QED
    BY <1>0, SmallestSet
<1>2. IsFiniteSet(x)
  BY <1>0, FS_Subset
<1>3. SumFunctionOnSet(f, x) =
        IF x = {} THEN 0 ELSE f[Pick(x)] + SumFunctionOnSet(f, x \ {Pick(x)})
  BY <1>2, SumUnfolds
<1>4. SumFunctionOnSet(g, x) =
        IF x = {} THEN 0 ELSE g[Pick(x)] + SumFunctionOnSet(g, x \ {Pick(x)})
  BY <1>2, SumUnfolds
<1>5. x # {}
  BY <1>1, <1>3, <1>4
<1>6. Pick(x) \in x
  BY <1>5, PickIn
<1>7. x \ {Pick(x)} \in SUBSET S /\ x \ {Pick(x)} \subseteq x /\ x \ {Pick(x)} # x
  BY <1>1, <1>6
<1>8. SumFunctionOnSet(f, x \ {Pick(x)}) = SumFunctionOnSet(g, x \ {Pick(x)})
  BY <1>1, <1>7
<1>9. f[Pick(x)] = g[Pick(x)]
  BY <1>1, <1>6
<1> QED
  BY <1>1, <1>3, <1>4, <1>5, <1>8, <1>9

LEMMA SumOfNone ==
  ASSUME NEW fun
  PROVE  SumFunctionOnSet(fun, {}) = 0
BY SumUnfolds, FS_EmptySet

\* The forms in which the sums are used: an element joins, an element leaves,
\* one value changes.
LEMMA SumWith ==
  ASSUME NEW f, NEW g, NEW S, IsFiniteSet(S), NEW a, a \notin S,
         \A x \in S \cup {a} : g[x] \in Nat, \A x \in S : f[x] = g[x]
  PROVE  SumFunctionOnSet(g, S \cup {a}) = SumFunctionOnSet(f, S) + g[a]
<1>1. IsFiniteSet(S \cup {a})
  BY FS_AddElement
<1>2. (S \cup {a}) \ {a} = S
  OBVIOUS
<1>3. /\ SumFunctionOnSet(g, S \cup {a}) = g[a] + SumFunctionOnSet(g, S)
      /\ SumFunctionOnSet(g, S) \in Nat
  <2> DEFINE T == S \cup {a}
  <2>1. a \in T /\ IsFiniteSet(T) /\ \A x \in T : g[x] \in Nat
    BY <1>1
  <2> HIDE DEF T
  <2>2. /\ SumFunctionOnSet(g, T) = g[a] + SumFunctionOnSet(g, T \ {a})
        /\ SumFunctionOnSet(g, T \ {a}) \in Nat
    BY <2>1, SumTakes
  <2> QED
    BY <1>2, <2>2 DEF T
<1>4. SumFunctionOnSet(f, S) = SumFunctionOnSet(g, S)
  BY SumCongruence
<1>5. g[a] \in Nat
  OBVIOUS
<1> QED
  BY <1>3, <1>4, <1>5

LEMMA SumWithout ==
  ASSUME NEW f, NEW g, NEW S, IsFiniteSet(S), NEW a \in S,
         \A x \in S : f[x] \in Nat, \A x \in S \ {a} : g[x] = f[x]
  PROVE  /\ SumFunctionOnSet(g, S \ {a}) = SumFunctionOnSet(f, S) - f[a]
         /\ SumFunctionOnSet(g, S \ {a}) \in Nat
<1>1. /\ SumFunctionOnSet(f, S) = f[a] + SumFunctionOnSet(f, S \ {a})
      /\ SumFunctionOnSet(f, S \ {a}) \in Nat
  <2>1. a \in S /\ IsFiniteSet(S) /\ \A x \in S : f[x] \in Nat
    OBVIOUS
  <2> QED
    BY ONLY <2>1, SumTakes
<1>2. IsFiniteSet(S \ {a})
  BY FS_RemoveElement
<1>3. SumFunctionOnSet(g, S \ {a}) = SumFunctionOnSet(f, S \ {a})
  BY <1>2, SumCongruence
<1>4. f[a] \in Nat
  OBVIOUS
<1> QED
  BY <1>1, <1>3, <1>4

-----------------------------------------------------------------------------
(* Heaps: blocks blk tiling segments seg. *)

\* What Tiled says of one block.
InTile(blk, seg, a) ==
  LET b == blk[a]
      end == a + b.size
      base == b.segment_base
  IN /\ base \in DOMAIN seg /\ base <= a /\ end <= base + seg[base]
     /\ b.prev = null <=> a = base
     /\ b.next = null <=> end = base + seg[base]
     /\ b.next # null =>
          /\ b.next = end /\ end \in DOMAIN blk
          /\ blk[end].prev = a /\ blk[end].segment_base = base
          /\ blk[end].stream = b.stream /\ blk[end].is_small = b.is_small

Segments(seg) ==
  /\ \A b \in DOMAIN seg : b \in Nat /\ seg[b] \in Nat \ {0} /\ b + seg[b] <= AddrLimit
  /\ \A b, c \in DOMAIN seg : b < c => b + seg[b] <= c

Blocks(blk) == DOMAIN blk \subseteq Addr /\ \A a \in DOMAIN blk : blk[a] \in Block

Heap(blk, seg) ==
  /\ Blocks(blk)
  /\ Segments(seg)
  /\ DOMAIN seg \subseteq DOMAIN blk
  /\ \A a \in DOMAIN blk : InTile(blk, seg, a)
  /\ \A a \in DOMAIN blk :
       blk[a].prev # null => blk[a].prev \in DOMAIN blk /\ blk[blk[a].prev].next = a
  /\ \A a, c \in DOMAIN blk : a < c => a + blk[a].size <= c

\* The fields that make the shape of a heap, and those that say where a block is.
SameShape(b, c) ==
  /\ b.size = c.size /\ b.stream = c.stream /\ b.is_small = c.is_small
  /\ b.prev = c.prev /\ b.next = c.next /\ b.segment_base = c.segment_base

SamePlace(b, c) ==
  /\ b.allocated = c.allocated /\ b.event_count = c.event_count
  /\ b.stream_uses = c.stream_uses

LEMMA AddrFacts ==
  /\ AddrLimit \in Nat
  /\ \A a \in Addr : a \in Int /\ 0 <= a /\ a < AddrLimit /\ a # null
  /\ \A a \in Int : 0 <= a /\ a < AddrLimit => a \in Addr
  /\ null \in Int /\ null < 0 /\ null \notin Addr
BY AllocatorAssumption DEF Addr, null

LEMMA BlockFields ==
  ASSUME NEW b \in Block
  PROVE  /\ b.size \in Nat \ {0} /\ b.size <= AddrLimit
         /\ b.stream \in Stream /\ b.is_small \in BOOLEAN /\ b.allocated \in BOOLEAN
         /\ b.prev \in Addr \cup {null} /\ b.next \in Addr \cup {null}
         /\ b.event_count \in Nat /\ b.stream_uses \in SUBSET Stream
         /\ b.segment_base \in Addr
BY AddrFacts DEF Block

\* The block at a segment's base is the first of that segment.
LEMMA BaseBlock ==
  ASSUME NEW blk, NEW seg, Heap(blk, seg), NEW b \in DOMAIN seg
  PROVE  b \in DOMAIN blk /\ blk[b].segment_base = b /\ blk[b].prev = null
<1>1. b \in DOMAIN blk /\ b \in Nat /\ blk[b] \in Block /\ InTile(blk, seg, b)
  BY DEF Heap, Segments, Blocks
<1> DEFINE c == blk[b].segment_base
<1>2. blk[b].size \in Nat \ {0}
  BY <1>1, BlockFields
<1>3. c \in DOMAIN seg /\ c <= b /\ b + blk[b].size <= c + seg[c]
  BY <1>1 DEF InTile
<1>4. c \in Nat /\ seg[c] \in Nat
  BY <1>3 DEF Heap, Segments
<1>5. c = b
  <2> SUFFICES ASSUME c < b PROVE FALSE
    BY <1>1, <1>3, <1>4
  <2>1. c + seg[c] <= b
    BY <1>3 DEF Heap, Segments
  <2> HIDE DEF c
  <2> QED
    BY <2>1, <1>1, <1>2, <1>3, <1>4
<1> QED
  BY <1>1, <1>5 DEF InTile

\* What a heap says of a block and its neighbours, ready for use.
LEMMA HeapFacts ==
  ASSUME NEW blk, NEW seg, Heap(blk, seg), NEW a \in DOMAIN blk
  PROVE  /\ a \in Addr /\ a \in Nat /\ blk[a] \in Block /\ blk[a].size \in Nat \ {0}
         /\ blk[a].segment_base \in DOMAIN seg /\ blk[a].segment_base \in Nat
         /\ seg[blk[a].segment_base] \in Nat \ {0}
         /\ blk[a].segment_base + seg[blk[a].segment_base] <= AddrLimit
         /\ InTile(blk, seg, a)
         /\ blk[a].next = null \/ /\ blk[a].next = a + blk[a].size
                                  /\ blk[a].next \in DOMAIN blk
                                  /\ blk[a].next # a
         /\ blk[a].prev = null \/ /\ blk[a].prev \in DOMAIN blk
                                  /\ blk[blk[a].prev].next = a
                                  /\ blk[a].prev # a
<1>1. a \in Addr /\ blk[a] \in Block /\ InTile(blk, seg, a)
  BY DEF Heap, Blocks
<1>2. a \in Nat /\ blk[a].size \in Nat \ {0}
  BY <1>1, AddrFacts, BlockFields
<1>3. blk[a].segment_base \in DOMAIN seg
  BY <1>1 DEF InTile
<1>4. /\ blk[a].segment_base \in Nat /\ seg[blk[a].segment_base] \in Nat \ {0}
      /\ blk[a].segment_base + seg[blk[a].segment_base] <= AddrLimit
  BY <1>3 DEF Heap, Segments
<1>5. blk[a].next = null \/ (blk[a].next = a + blk[a].size /\ blk[a].next \in DOMAIN blk)
  BY <1>1 DEF InTile
<1>6. blk[a].prev = null \/ (blk[a].prev \in DOMAIN blk /\ blk[blk[a].prev].next = a)
  BY DEF Heap
<1>7. blk[a].next = null \/ blk[a].next # a
  BY <1>2, <1>5
<1>8. blk[a].prev = null \/ blk[a].prev # a
  <2>1. null # a
    BY <1>1, AddrFacts
  <2> QED
    BY <1>6, <1>7, <2>1
<1> QED
  BY <1>1, <1>2, <1>3, <1>4, <1>5, <1>6, <1>7, <1>8

-----------------------------------------------------------------------------
(* Merging two neighbours. *)

LEMMA Neighbours ==
  ASSUME NEW blk, NEW seg, Heap(blk, seg), NEW d \in DOMAIN blk, blk[d].next # null
  PROVE  LET s == blk[d].next IN
         /\ s \in DOMAIN blk /\ s # d /\ s = d + blk[d].size
         /\ blk[s].prev = d /\ blk[s].segment_base = blk[d].segment_base
         /\ blk[s].stream = blk[d].stream /\ blk[s].is_small = blk[d].is_small
         /\ \A x \in DOMAIN blk : blk[x].next = s => x = d
         /\ s \notin DOMAIN seg
<1> DEFINE s == blk[d].next
<1>1. s \in DOMAIN blk /\ s # d /\ s = d + blk[d].size
  BY HeapFacts
<1>2. /\ blk[s].prev = d /\ blk[s].segment_base = blk[d].segment_base
      /\ blk[s].stream = blk[d].stream /\ blk[s].is_small = blk[d].is_small
  BY HeapFacts, <1>1 DEF InTile
<1>3. \A x \in DOMAIN blk : blk[x].next = s => x = d
  <2> SUFFICES ASSUME NEW x \in DOMAIN blk, blk[x].next = s PROVE x = d
    OBVIOUS
  <2>1. InTile(blk, seg, x)
    BY DEF Heap
  <2>2. x + blk[x].size = s /\ blk[s].prev = x
    BY <2>1 DEF InTile
  <2> QED
    BY <1>2, <2>2
<1>4. s \notin DOMAIN seg
  <2>1. d # null
    BY AddrFacts DEF Heap, Blocks
  <2> QED
    BY <1>2, <2>1, BaseBlock
<1> QED
  BY <1>1, <1>2, <1>3, <1>4

\* The fields after merge_next.
LEMMA MergeFields ==
  ASSUME NEW blk, NEW seg, Heap(blk, seg), NEW d \in DOMAIN blk, blk[d].next # null,
         NEW s, s = blk[d].next, NEW r, r = merge_next(blk, d)
  PROVE  /\ DOMAIN r = DOMAIN blk \ {s}
         /\ r[d].size = blk[d].size + blk[s].size /\ r[d].next = blk[s].next
         /\ r[d].prev = blk[d].prev
         /\ \A x \in DOMAIN r \ {d} : /\ r[x].size = blk[x].size /\ r[x].next = blk[x].next
                                     /\ r[x].prev = IF x = blk[s].next THEN d ELSE blk[x].prev
         /\ \A x \in DOMAIN r : SamePlace(r[x], blk[x])
         /\ \A x \in DOMAIN r : /\ r[x].segment_base = blk[x].segment_base
                                /\ r[x].stream = blk[x].stream
                                /\ r[x].is_small = blk[x].is_small
<1> DEFINE merged == [blk[d] EXCEPT !.next = blk[s].next, !.size = @ + blk[s].size]
<1>1. s \in DOMAIN blk /\ s # d
  BY Neighbours
<1>2. r = [a \in DOMAIN blk \ {s} |->
             IF a = d THEN merged
             ELSE IF a = blk[s].next THEN [blk[a] EXCEPT !.prev = d]
             ELSE blk[a]]
  BY DEF merge_next
<1>3. \A x \in DOMAIN blk : blk[x] \in Block
  BY DEF Heap, Blocks
<1>4. DOMAIN r = DOMAIN blk \ {s}
  BY <1>2
<1>5. /\ r[d].size = blk[d].size + blk[s].size /\ r[d].next = blk[s].next
      /\ r[d].prev = blk[d].prev /\ SamePlace(r[d], blk[d])
      /\ r[d].segment_base = blk[d].segment_base
      /\ r[d].stream = blk[d].stream /\ r[d].is_small = blk[d].is_small
  <2>1. r[d] = merged
    BY <1>1, <1>2
  <2>2. blk[d] \in Block
    BY <1>3
  <2> QED
    BY <2>1, <2>2 DEF Block, SamePlace
<1>6. ASSUME NEW x \in DOMAIN r \ {d}
      PROVE  /\ r[x].size = blk[x].size /\ r[x].next = blk[x].next
             /\ r[x].prev = IF x = blk[s].next THEN d ELSE blk[x].prev
             /\ SamePlace(r[x], blk[x])
             /\ r[x].segment_base = blk[x].segment_base
             /\ r[x].stream = blk[x].stream /\ r[x].is_small = blk[x].is_small
  <2>1. r[x] = IF x = blk[s].next THEN [blk[x] EXCEPT !.prev = d] ELSE blk[x]
    BY <1>2, <1>4
  <2>2. blk[x] \in Block
    BY <1>3, <1>4
  <2> QED
    BY <2>1, <2>2 DEF Block, SamePlace
<1> QED
  BY <1>4, <1>5, <1>6

LEMMA MergeBlocks ==
  ASSUME NEW blk, NEW seg, Heap(blk, seg), NEW d \in DOMAIN blk, blk[d].next # null
  PROVE  Blocks(merge_next(blk, d))
<1> DEFINE s == blk[d].next
           r == merge_next(blk, d)
           merged == [blk[d] EXCEPT !.next = blk[s].next, !.size = @ + blk[s].size]
<1>1. s \in DOMAIN blk /\ s # d /\ s = d + blk[d].size
  BY Neighbours
<1>2. r = [a \in DOMAIN blk \ {s} |->
             IF a = d THEN merged
             ELSE IF a = blk[s].next THEN [blk[a] EXCEPT !.prev = d]
             ELSE blk[a]]
  BY DEF merge_next
<1>3. \A x \in DOMAIN blk : blk[x] \in Block /\ x \in Addr
  BY DEF Heap, Blocks
<1>4. merged \in Block
  <2>1. blk[d].size + blk[s].size \in 1 .. AddrLimit
    <3>1. InTile(blk, seg, s) /\ s \in Nat /\ blk[s].size \in Nat \ {0} /\ d \in Nat
          /\ blk[d].size \in Nat \ {0} /\ blk[s].segment_base \in Nat
          /\ seg[blk[s].segment_base] \in Nat
          /\ blk[s].segment_base + seg[blk[s].segment_base] <= AddrLimit
      BY <1>1, HeapFacts
    <3>2. s + blk[s].size <= AddrLimit
      <4>1. s + blk[s].size <= blk[s].segment_base + seg[blk[s].segment_base]
        BY <3>1 DEF InTile
      <4> HIDE DEF s
      <4> QED
        BY <3>1, <4>1, AddrFacts
    <3> HIDE DEF s
    <3> QED
      BY <1>1, <3>1, <3>2, AddrFacts
  <2>2. blk[s].next \in Addr \cup {null}
    BY <1>1, <1>3, BlockFields
  <2>3. blk[d] \in Block
    BY <1>3
  <2> HIDE DEF s
  <2> QED
    BY <2>1, <2>2, <2>3 DEF Block
<1> HIDE DEF r, s, merged
<1>5. ASSUME NEW x \in DOMAIN r PROVE r[x] \in Block
  <2>1. CASE x = d
    BY <1>1, <1>2, <1>4, <2>1
  <2>2. CASE x # d
    <3>1. r[x] = IF x = blk[s].next THEN [blk[x] EXCEPT !.prev = d] ELSE blk[x]
      BY <1>2, <2>2
    <3>2. blk[x] \in Block /\ d \in Addr
      BY <1>2, <1>3
    <3> QED
      BY <3>1, <3>2 DEF Block
  <2> QED
    BY <2>1, <2>2
<1>6. DOMAIN r \subseteq Addr
  BY <1>2, <1>3
<1> QED
  BY <1>5, <1>6 DEF Blocks, r

\* Merging a block with its next neighbour leaves a heap.
LEMMA MergeHeap ==
  ASSUME NEW blk, NEW seg, Heap(blk, seg), NEW d \in DOMAIN blk, blk[d].next # null
  PROVE  Heap(merge_next(blk, d), seg)
<1> DEFINE s == blk[d].next
           n == blk[s].next
           r == merge_next(blk, d)
<1>1. /\ s \in DOMAIN blk /\ s # d /\ s = d + blk[d].size
      /\ blk[s].prev = d /\ blk[s].segment_base = blk[d].segment_base
      /\ blk[s].stream = blk[d].stream /\ blk[s].is_small = blk[d].is_small
      /\ \A x \in DOMAIN blk : blk[x].next = s => x = d
      /\ s \notin DOMAIN seg
  BY Neighbours
<1>2. /\ DOMAIN r = DOMAIN blk \ {s}
      /\ r[d].size = blk[d].size + blk[s].size /\ r[d].next = n /\ r[d].prev = blk[d].prev
      /\ \A x \in DOMAIN r \ {d} : /\ r[x].size = blk[x].size /\ r[x].next = blk[x].next
                                  /\ r[x].prev = IF x = n THEN d ELSE blk[x].prev
      /\ \A x \in DOMAIN r : /\ r[x].segment_base = blk[x].segment_base
                             /\ r[x].stream = blk[x].stream
                             /\ r[x].is_small = blk[x].is_small
  <2>1. s = blk[d].next /\ r = merge_next(blk, d)
    OBVIOUS
  <2> HIDE DEF r, s
  <2> QED
    BY <2>1, MergeFields
<1>3. Blocks(r)
  BY MergeBlocks
<1>4. n # null => /\ n \in DOMAIN r /\ n # d /\ n = s + blk[s].size /\ blk[n].prev = s
                  /\ blk[n].segment_base = blk[s].segment_base
                  /\ blk[n].stream = blk[s].stream /\ blk[n].is_small = blk[s].is_small
                  /\ \A x \in DOMAIN blk : blk[x].next = n => x = s
  <2> SUFFICES ASSUME n # null
               PROVE  /\ n \in DOMAIN r /\ n # d /\ n = s + blk[s].size /\ blk[n].prev = s
                      /\ blk[n].segment_base = blk[s].segment_base
                      /\ blk[n].stream = blk[s].stream /\ blk[n].is_small = blk[s].is_small
                      /\ \A x \in DOMAIN blk : blk[x].next = n => x = s
    OBVIOUS
  <2>1. /\ n \in DOMAIN blk /\ n # s /\ n = s + blk[s].size /\ blk[n].prev = s
        /\ blk[n].segment_base = blk[s].segment_base
        /\ blk[n].stream = blk[s].stream /\ blk[n].is_small = blk[s].is_small
        /\ \A x \in DOMAIN blk : blk[x].next = n => x = s
    BY <1>1, Neighbours
  <2>2. n # d
    <3>1. d \in Nat /\ blk[d].size \in Nat \ {0} /\ blk[s].size \in Nat \ {0}
      BY <1>1, HeapFacts
    <3> HIDE DEF s, n
    <3> QED
      BY <1>1, <2>1, <3>1
  <2> QED
    BY <1>2, <2>1, <2>2
<1>5. \A x \in DOMAIN blk : x \in Nat /\ x # null /\ blk[x].size \in Nat \ {0}
  BY HeapFacts, AddrFacts
<1>6. \A x \in DOMAIN blk : InTile(blk, seg, x)
  BY DEF Heap
<1>bases. \A b \in DOMAIN seg : b \in Nat /\ seg[b] \in Nat
  BY DEF Heap, Segments
<1>back. \A a \in DOMAIN blk :
           blk[a].prev # null => blk[a].prev \in DOMAIN blk /\ blk[blk[a].prev].next = a
  BY DEF Heap
<1>apart. \A a, c \in DOMAIN blk : a < c => a + blk[a].size <= c
  BY DEF Heap
<1>seg. Segments(seg) /\ DOMAIN seg \subseteq DOMAIN r
  BY <1>1, <1>2 DEF Heap
<1> HIDE DEF r, s, n
<1>7. ASSUME NEW x \in DOMAIN r PROVE InTile(r, seg, x)
  <2>0. x \in DOMAIN blk /\ x # s
    BY <1>2
  <2>1. CASE x = d
    <3>1. InTile(blk, seg, d) /\ InTile(blk, seg, s)
      BY <1>1, <1>6
    <3> DEFINE base == blk[d].segment_base
    <3>2. base \in DOMAIN seg /\ base <= d /\ (blk[d].prev = null <=> d = base)
      BY <3>1 DEF InTile
    <3>3. /\ s + blk[s].size <= base + seg[base]
          /\ n = null <=> s + blk[s].size = base + seg[base]
      BY <1>1, <3>1 DEF InTile, n
    <3>4. d + r[d].size = s + blk[s].size
      BY <1>1, <1>2, <1>5
    <3>5. n # null => /\ n = d + r[d].size /\ n \in DOMAIN r /\ r[n].prev = d
                      /\ r[n].segment_base = base /\ r[n].stream = blk[d].stream
                      /\ r[n].is_small = blk[d].is_small
      BY <1>1, <1>2, <1>4, <3>4
    <3>6. d \in DOMAIN r /\ r[d].segment_base = base /\ r[d].stream = blk[d].stream
          /\ r[d].is_small = blk[d].is_small
      BY <2>1, <1>2
    <3> HIDE DEF base
    <3> QED
      BY <1>2, <2>1, <3>2, <3>3, <3>4, <3>5, <3>6 DEF InTile
  <2>2. CASE x # d
    <3> DEFINE m == blk[x].next
               base == blk[x].segment_base
    <3>1. InTile(blk, seg, x)
      BY <1>6, <2>0
    <3>2. r[x].size = blk[x].size /\ r[x].next = m /\ r[x].segment_base = base
          /\ r[x].stream = blk[x].stream /\ r[x].is_small = blk[x].is_small
      BY <1>2, <2>2
    <3>3. /\ base \in DOMAIN seg /\ base <= x /\ x + blk[x].size <= base + seg[base]
          /\ m = null <=> x + blk[x].size = base + seg[base]
      BY <3>1 DEF InTile
    <3>4. r[x].prev = null <=> x = base
      <4>1. blk[x].prev = null <=> x = base
        BY <3>1 DEF InTile
      <4>2. CASE x = n
        <5>1. blk[x].prev = s /\ s # null /\ d # null
          BY <1>1, <1>4, <1>5, <2>0, <4>2
        <5>2. r[x].prev = d
          BY <1>2, <2>2, <4>2
        <5> QED
          BY <4>1, <5>1, <5>2
      <4>3. CASE x # n
        BY <1>2, <2>2, <4>1, <4>3
      <4> QED
        BY <4>2, <4>3
    <3>5. m # null => /\ m = x + blk[x].size /\ m \in DOMAIN r
                      /\ r[m].prev = x /\ r[m].segment_base = base
                      /\ r[m].stream = blk[x].stream /\ r[m].is_small = blk[x].is_small
      <4> SUFFICES ASSUME m # null
                   PROVE  /\ m = x + blk[x].size /\ m \in DOMAIN r
                          /\ r[m].prev = x /\ r[m].segment_base = base
                          /\ r[m].stream = blk[x].stream /\ r[m].is_small = blk[x].is_small
        OBVIOUS
      <4>1. /\ m = x + blk[x].size /\ m \in DOMAIN blk
            /\ blk[m].prev = x /\ blk[m].segment_base = base
            /\ blk[m].stream = blk[x].stream /\ blk[m].is_small = blk[x].is_small
        BY <3>1 DEF InTile
      <4>2. m # s
        BY <1>1, <2>0, <2>2
      <4>3. m \in DOMAIN r /\ r[m].segment_base = base
            /\ r[m].stream = blk[x].stream /\ r[m].is_small = blk[x].is_small
        BY <1>2, <4>1, <4>2
      <4>4. r[m].prev = x
        <5>1. CASE m = d
          BY <1>2, <4>1, <5>1
        <5>2. CASE m # d
          <6>1. m # n
            BY <1>4, <2>0
          <6> QED
            BY <1>2, <4>1, <4>3, <5>2, <6>1
        <5> QED
          BY <5>1, <5>2
      <4> QED
        BY <4>1, <4>3, <4>4
    <3> HIDE DEF m, base
    <3> QED
      BY <3>2, <3>3, <3>4, <3>5 DEF InTile
  <2> QED
    BY <2>1, <2>2
<1>8. ASSUME NEW x \in DOMAIN r, r[x].prev # null
      PROVE  r[x].prev \in DOMAIN r /\ r[r[x].prev].next = x
  <2>0. x \in DOMAIN blk /\ x # s /\ d \in DOMAIN r
    BY <1>1, <1>2
  <2>1. CASE x = n /\ x # d
    <3>1. r[x].prev = d
      BY <1>2, <2>1
    <3> QED
      BY <1>2, <2>0, <2>1, <3>1
  <2>2. CASE x = d \/ x # n
    <3>1. r[x].prev = blk[x].prev
      BY <1>2, <2>2
    <3> DEFINE p == blk[x].prev
    <3>2. p \in DOMAIN blk /\ blk[p].next = x
      BY <3>1, <1>8, <1>back, <2>0
    <3>3. p # s
      <4> SUFFICES ASSUME p = s PROVE FALSE
        OBVIOUS
      <4>1. x = n
        BY <3>2 DEF n
      <4>2. n # null /\ n # d
        BY <1>4, <1>5, <2>0, <4>1
      <4> QED
        BY <2>2, <4>1, <4>2
    <3>4. p # d
      <4> SUFFICES ASSUME p = d PROVE FALSE
        OBVIOUS
      <4>1. x = s
        BY <3>2 DEF s
      <4> QED
        BY <2>0, <4>1
    <3> HIDE DEF p
    <3> QED
      BY <1>2, <3>1, <3>2, <3>3, <3>4 DEF p
  <2> QED
    BY <2>1, <2>2
<1>9. ASSUME NEW x \in DOMAIN r, NEW y \in DOMAIN r, x < y
      PROVE  x + r[x].size <= y
  <2>0. x \in DOMAIN blk /\ y \in DOMAIN blk /\ x # s /\ y # s
    BY <1>2
  <2>1. x + blk[x].size <= y
    BY <1>apart, <1>9, <2>0
  <2>2. CASE x # d
    BY <1>2, <2>1, <2>2
  <2>3. CASE x = d
    <3>1. s <= y /\ s < y
      BY <1>1, <1>5, <2>0, <2>1, <2>3
    <3>2. s + blk[s].size <= y
      BY <1>1, <1>apart, <2>0, <3>1
    <3>3. d + r[d].size = s + blk[s].size
      BY <1>1, <1>2, <1>5
    <3> QED
      BY <2>3, <3>2, <3>3
  <2> QED
    BY <2>2, <2>3
<1> QED
  BY <1>3, <1>7, <1>8, <1>9, <1>seg DEF Heap, r

\* Merging with the previous neighbour is the same as having that one merge.
LEMMA MergePrevIsMergeNext ==
  ASSUME NEW blk, NEW seg, Heap(blk, seg), NEW a \in DOMAIN blk, blk[a].prev # null,
         SamePlace(blk[a], blk[blk[a].prev])
  PROVE  LET p == blk[a].prev IN
         /\ p \in DOMAIN blk /\ blk[p].next = a /\ blk[p].next # null
         /\ merge_prev(blk, a) = merge_next(blk, p)
<1> DEFINE p == blk[a].prev
           n == blk[a].next
           byPrev == [blk[a] EXCEPT !.prev = blk[p].prev, !.size = @ + blk[p].size]
           byNext == [blk[p] EXCEPT !.next = blk[a].next, !.size = @ + blk[a].size]
<1>1. p \in DOMAIN blk /\ blk[p].next = a /\ a # null
  BY HeapFacts, AddrFacts
<1>2. blk[p].segment_base = blk[a].segment_base /\ blk[p].stream = blk[a].stream
      /\ blk[p].is_small = blk[a].is_small
  BY <1>1, Neighbours
<1>3. blk[a] \in Block /\ blk[p] \in Block
  BY <1>1, HeapFacts
<1>4. byPrev = byNext
  <2>1. blk[a].size + blk[p].size = blk[p].size + blk[a].size
    BY <1>3, BlockFields
  <2>2. blk[a].allocated = blk[p].allocated /\ blk[a].event_count = blk[p].event_count
        /\ blk[a].stream_uses = blk[p].stream_uses
    BY DEF SamePlace
  <2> HIDE DEF p
  <2> QED
    BY <1>2, <1>3, <2>1, <2>2 DEF Block
<1>5. merge_prev(blk, a) = [x \in DOMAIN blk \ {a} |->
                              IF x = p THEN byPrev
                              ELSE IF x = n THEN [blk[x] EXCEPT !.prev = p]
                              ELSE blk[x]]
  BY DEF merge_prev
<1>6. merge_next(blk, p) = [x \in DOMAIN blk \ {a} |->
                              IF x = p THEN byNext
                              ELSE IF x = n THEN [blk[x] EXCEPT !.prev = p]
                              ELSE blk[x]]
  BY <1>1 DEF merge_next
<1> HIDE DEF byPrev, byNext
<1> QED
  BY <1>1, <1>4, <1>5, <1>6

-----------------------------------------------------------------------------
(* Splitting a block. *)

LEMMA SplitFields ==
  ASSUME NEW blk, NEW seg, Heap(blk, seg), NEW a \in DOMAIN blk,
         NEW k \in Nat \ {0}, k < blk[a].size,
         NEW rest, rest = a + k, NEW r, r = Split(blk, a, k)
  PROVE  /\ rest \notin DOMAIN blk /\ rest # a /\ rest \in Addr
         /\ DOMAIN r = DOMAIN blk \cup {rest}
         /\ r[a].size = k /\ r[a].next = rest /\ r[a].prev = blk[a].prev
         /\ r[rest].size = blk[a].size - k /\ r[rest].next = blk[a].next /\ r[rest].prev = a
         /\ \A x \in DOMAIN blk \ {a} : /\ r[x].size = blk[x].size /\ r[x].next = blk[x].next
                                       /\ r[x].prev = IF x = blk[a].next THEN rest ELSE blk[x].prev
         /\ \A x \in DOMAIN blk : SamePlace(r[x], blk[x])
         /\ \A x \in DOMAIN blk : /\ r[x].segment_base = blk[x].segment_base
                                  /\ r[x].stream = blk[x].stream
                                  /\ r[x].is_small = blk[x].is_small
         /\ SamePlace(r[rest], blk[a])
         /\ r[rest].segment_base = blk[a].segment_base
         /\ r[rest].stream = blk[a].stream /\ r[rest].is_small = blk[a].is_small
         /\ Blocks(r)
<1> DEFINE front == [blk[a] EXCEPT !.size = k, !.next = rest]
           back == [blk[a] EXCEPT !.prev = a, !.size = @ - k]
           n == blk[a].next
<1>1. /\ a \in Addr /\ a \in Nat /\ blk[a] \in Block /\ blk[a].size \in Nat \ {0}
      /\ a + blk[a].size <= AddrLimit
  <2>1. /\ a \in Addr /\ a \in Nat /\ blk[a] \in Block /\ blk[a].size \in Nat \ {0}
        /\ InTile(blk, seg, a)
        /\ blk[a].segment_base \in Nat /\ seg[blk[a].segment_base] \in Nat
        /\ blk[a].segment_base + seg[blk[a].segment_base] <= AddrLimit
    BY HeapFacts
  <2>2. a + blk[a].size <= blk[a].segment_base + seg[blk[a].segment_base]
    BY <2>1 DEF InTile
  <2> QED
    BY <2>1, <2>2, AddrFacts
<1>2. rest \in Nat /\ a < rest /\ rest < a + blk[a].size /\ rest \in Addr
  BY <1>1, AddrFacts
<1>3. rest \notin DOMAIN blk
  <2> SUFFICES ASSUME rest \in DOMAIN blk PROVE FALSE
    OBVIOUS
  <2>1. a + blk[a].size <= rest
    BY <1>2 DEF Heap
  <2> QED
    BY <1>1, <1>2, <2>1
<1>4. r = [x \in DOMAIN blk \cup {rest} |->
             IF x = a THEN front
             ELSE IF x = rest THEN back
             ELSE IF x = n THEN [blk[x] EXCEPT !.prev = rest]
             ELSE blk[x]]
  BY DEF Split
<1>5. \A x \in DOMAIN blk : blk[x] \in Block /\ x \in Addr
  BY DEF Heap, Blocks
<1> HIDE DEF n
<1>6. r[a] = front /\ r[rest] = back /\ rest # a
  BY <1>2, <1>1, <1>4
<1>7. blk[a].size - k \in 1 .. AddrLimit /\ k \in 1 .. AddrLimit
  BY <1>1, <1>5, AddrFacts
<1>8. /\ front \in Block /\ SamePlace(front, blk[a])
      /\ front.size = k /\ front.next = rest /\ front.prev = blk[a].prev
      /\ front.segment_base = blk[a].segment_base
      /\ front.stream = blk[a].stream /\ front.is_small = blk[a].is_small
  BY <1>1, <1>2, <1>7 DEF Block, SamePlace
<1>9. /\ back \in Block /\ SamePlace(back, blk[a])
      /\ back.size = blk[a].size - k /\ back.next = n /\ back.prev = a
      /\ back.segment_base = blk[a].segment_base
      /\ back.stream = blk[a].stream /\ back.is_small = blk[a].is_small
  BY <1>1, <1>2, <1>7 DEF Block, SamePlace, n
<1>10. ASSUME NEW x \in DOMAIN blk \ {a}
       PROVE  /\ r[x] \in Block /\ SamePlace(r[x], blk[x])
              /\ r[x].size = blk[x].size /\ r[x].next = blk[x].next
              /\ r[x].prev = IF x = n THEN rest ELSE blk[x].prev
              /\ r[x].segment_base = blk[x].segment_base
              /\ r[x].stream = blk[x].stream /\ r[x].is_small = blk[x].is_small
  <2>1. r[x] = IF x = n THEN [blk[x] EXCEPT !.prev = rest] ELSE blk[x]
    BY <1>3, <1>4
  <2>2. blk[x] \in Block
    BY <1>5
  <2> QED
    BY <1>2, <2>1, <2>2 DEF Block, SamePlace
<1>11. DOMAIN r = DOMAIN blk \cup {rest}
  BY <1>4
<1> HIDE DEF front, back
<1>12. Blocks(r)
  <2>1. \A x \in DOMAIN r : x \in Addr
    BY <1>2, <1>5, <1>11
  <2>2. \A x \in DOMAIN r : r[x] \in Block
    BY <1>6, <1>8, <1>9, <1>10, <1>11
  <2> QED
    BY <2>1, <2>2 DEF Blocks
<1> QED
  BY <1>2, <1>3, <1>6, <1>8, <1>9, <1>10, <1>11, <1>12 DEF n

\* Cutting a block in two leaves a heap.
LEMMA SplitHeap ==
  ASSUME NEW blk, NEW seg, Heap(blk, seg), NEW a \in DOMAIN blk,
         NEW k \in Nat \ {0}, k < blk[a].size
  PROVE  Heap(Split(blk, a, k), seg)
<1> DEFINE rest == a + k
           n == blk[a].next
           r == Split(blk, a, k)
<1>1. rest = a + k /\ r = Split(blk, a, k) /\ n = blk[a].next
  OBVIOUS
<1> HIDE DEF rest, r, n
<1>2. /\ rest \notin DOMAIN blk /\ rest # a /\ rest \in Addr
      /\ DOMAIN r = DOMAIN blk \cup {rest}
      /\ r[a].size = k /\ r[a].next = rest /\ r[a].prev = blk[a].prev
      /\ r[rest].size = blk[a].size - k /\ r[rest].next = blk[a].next /\ r[rest].prev = a
      /\ \A x \in DOMAIN blk \ {a} : /\ r[x].size = blk[x].size /\ r[x].next = blk[x].next
                                    /\ r[x].prev = IF x = blk[a].next THEN rest ELSE blk[x].prev
      /\ \A x \in DOMAIN blk : /\ r[x].segment_base = blk[x].segment_base
                               /\ r[x].stream = blk[x].stream
                               /\ r[x].is_small = blk[x].is_small
      /\ r[rest].segment_base = blk[a].segment_base
      /\ r[rest].stream = blk[a].stream /\ r[rest].is_small = blk[a].is_small
      /\ Blocks(r)
  BY <1>1, SplitFields
<1>3. \A x \in DOMAIN blk : x \in Nat /\ x # null /\ blk[x].size \in Nat \ {0}
  BY HeapFacts, AddrFacts
<1>4. n # null => /\ n \in DOMAIN blk /\ n # a /\ n = a + blk[a].size
                  /\ blk[n].prev = a /\ blk[n].segment_base = blk[a].segment_base
                  /\ blk[n].stream = blk[a].stream /\ blk[n].is_small = blk[a].is_small
                  /\ \A x \in DOMAIN blk : blk[x].next = n => x = a
  BY <1>1, Neighbours
<1>5. \A x \in DOMAIN blk : InTile(blk, seg, x)
  BY DEF Heap
<1>back. \A x \in DOMAIN blk :
           blk[x].prev # null => blk[x].prev \in DOMAIN blk /\ blk[blk[x].prev].next = x
  BY DEF Heap
<1>apart. \A x, c \in DOMAIN blk : x < c => x + blk[x].size <= c
  BY DEF Heap
<1>seg. Segments(seg) /\ DOMAIN seg \subseteq DOMAIN r
  BY <1>2 DEF Heap
<1>bases. \A b \in DOMAIN seg : b \in Nat /\ seg[b] \in Nat
  BY DEF Heap, Segments
<1>6. rest \in Nat /\ a < rest /\ rest # null /\ rest + r[rest].size = a + blk[a].size
      /\ rest < a + blk[a].size
  BY <1>1, <1>2, <1>3, AddrFacts
<1>base. blk[a].segment_base \in DOMAIN seg
  BY <1>5 DEF InTile
<1>7. InTile(r, seg, a)
  <2> DEFINE base == blk[a].segment_base
  <2>1. /\ base <= a /\ a + blk[a].size <= base + seg[base]
        /\ blk[a].prev = null <=> a = base
    BY <1>5 DEF InTile
  <2>2. base \in Nat /\ seg[base] \in Nat /\ base \in DOMAIN seg
    BY <1>base, <1>bases
  <2> HIDE DEF base
  <2>3. a + r[a].size = rest /\ rest < base + seg[base]
    BY <1>1, <1>2, <1>6, <2>1, <2>2, <1>3
  <2>4. r[a].segment_base = base /\ r[a].stream = blk[a].stream /\ r[a].is_small = blk[a].is_small
    BY <1>2 DEF base
  <2>5. /\ rest \in DOMAIN r /\ r[rest].prev = a /\ r[rest].segment_base = base
        /\ r[rest].stream = r[a].stream /\ r[rest].is_small = r[a].is_small
    BY <1>2, <2>4 DEF base
  <2>6. rest <= base + seg[base] /\ rest # base + seg[base]
    BY <1>6, <2>2, <2>3
  <2> QED
    BY <1>2, <1>6, <2>1, <2>2, <2>3, <2>4, <2>5, <2>6 DEF InTile
<1>8. InTile(r, seg, rest)
  <2> DEFINE base == blk[a].segment_base
  <2>1. /\ base <= a /\ a + blk[a].size <= base + seg[base]
        /\ n = null <=> a + blk[a].size = base + seg[base]
    BY <1>1, <1>5 DEF InTile
  <2>2. base \in Nat /\ seg[base] \in Nat /\ base \in DOMAIN seg
    BY <1>base, <1>bases
  <2>3. r[rest].segment_base = base /\ r[rest].next = n
    BY <1>1, <1>2
  <2>4. n # null => /\ n = rest + r[rest].size /\ n \in DOMAIN r
                    /\ r[n].prev = rest /\ r[n].segment_base = base
                    /\ r[n].stream = r[rest].stream /\ r[n].is_small = r[rest].is_small
    BY <1>1, <1>2, <1>4, <1>6
  <2> HIDE DEF base
  <2>5. base <= rest /\ rest # base /\ r[rest].prev # null
    BY <1>2, <1>3, <1>6, <2>1, <2>2
  <2> QED
    BY <1>6, <2>1, <2>2, <2>3, <2>4, <2>5 DEF InTile
<1>9. ASSUME NEW x \in DOMAIN blk \ {a} PROVE InTile(r, seg, x)
  <2> DEFINE m == blk[x].next
             base == blk[x].segment_base
  <2>1. InTile(blk, seg, x)
    BY <1>5
  <2>2. r[x].size = blk[x].size /\ r[x].next = m /\ r[x].segment_base = base
        /\ r[x].stream = blk[x].stream /\ r[x].is_small = blk[x].is_small
    BY <1>2
  <2>3. /\ base \in DOMAIN seg /\ base <= x /\ x + blk[x].size <= base + seg[base]
        /\ m = null <=> x + blk[x].size = base + seg[base]
    BY <2>1 DEF InTile
  <2>4. r[x].prev = null <=> x = base
    <3>1. blk[x].prev = null <=> x = base
      BY <2>1 DEF InTile
    <3>2. CASE x = n
      BY <1>1, <1>2, <1>3, <1>4, <1>6, <3>1, <3>2
    <3>3. CASE x # n
      BY <1>1, <1>2, <3>1, <3>3
    <3> QED
      BY <3>2, <3>3
  <2>5. m # null => /\ m = x + blk[x].size /\ m \in DOMAIN r
                    /\ r[m].prev = x /\ r[m].segment_base = base
                    /\ r[m].stream = blk[x].stream /\ r[m].is_small = blk[x].is_small
    <3> SUFFICES ASSUME m # null
                 PROVE  /\ m = x + blk[x].size /\ m \in DOMAIN r
                        /\ r[m].prev = x /\ r[m].segment_base = base
                        /\ r[m].stream = blk[x].stream /\ r[m].is_small = blk[x].is_small
      OBVIOUS
    <3>1. /\ m = x + blk[x].size /\ m \in DOMAIN blk
          /\ blk[m].prev = x /\ blk[m].segment_base = base
          /\ blk[m].stream = blk[x].stream /\ blk[m].is_small = blk[x].is_small
      BY <2>1 DEF InTile
    <3>2. m # n
      BY <1>4
    <3>3. r[m].prev = x
      <4>1. CASE m = a
        BY <1>2, <3>1, <4>1
      <4>2. CASE m # a
        BY <1>1, <1>2, <3>1, <3>2, <4>2
      <4> QED
        BY <4>1, <4>2
    <3> QED
      BY <1>2, <3>1, <3>3
  <2> HIDE DEF m, base
  <2> QED
    BY <2>2, <2>3, <2>4, <2>5 DEF InTile
<1>10. ASSUME NEW x \in DOMAIN r, r[x].prev # null
       PROVE  r[x].prev \in DOMAIN r /\ r[r[x].prev].next = x
  <2>1. CASE x = rest
    BY <1>2, <2>1
  <2>2. CASE x = n /\ x # rest
    <3>1. x \in DOMAIN blk \ {a}
      BY <1>2, <1>3, <1>4, <1>6, <2>2
    <3> QED
      BY <1>1, <1>2, <2>2, <3>1
  <2>3. CASE x # n /\ x # rest
    <3>1. x \in DOMAIN blk /\ r[x].prev = blk[x].prev
      BY <1>1, <1>2, <2>3
    <3>2. blk[x].prev \in DOMAIN blk /\ blk[blk[x].prev].next = x
      BY <1>10, <1>back, <3>1
    <3>3. blk[x].prev # a
      BY <1>1, <2>3, <3>2
    <3> QED
      BY <1>2, <3>1, <3>2, <3>3
  <2> QED
    BY <2>1, <2>2, <2>3
<1>11. ASSUME NEW x \in DOMAIN r, NEW y \in DOMAIN r, x < y
       PROVE  x + r[x].size <= y
  <2>1. CASE x \in DOMAIN blk /\ x # a /\ y \in DOMAIN blk
    BY <1>2, <1>11, <1>apart, <2>1
  <2>2. CASE x \in DOMAIN blk /\ x # a /\ y = rest
    <3>1. x < a
      <4> SUFFICES ASSUME ~(x < a) PROVE FALSE
        OBVIOUS
      <4>1. a < x
        BY <1>3, <2>2
      <4>2. a + blk[a].size <= x
        BY <1>apart, <2>2, <4>1
      <4> QED
        BY <1>3, <1>6, <1>11, <2>2, <4>2
    <3>2. x + blk[x].size <= a
      BY <1>apart, <2>2, <3>1
    <3> QED
      BY <1>2, <1>3, <1>6, <2>2, <3>2
  <2>3. CASE x = a
    <3>1. a + r[a].size = rest
      BY <1>1, <1>2
    <3>2. CASE y = rest
      BY <1>6, <2>3, <3>1, <3>2
    <3>3. CASE y # rest
      <4>1. y \in DOMAIN blk
        BY <1>2, <3>3
      <4>2. a + blk[a].size <= y
        BY <1>apart, <1>11, <2>3, <4>1
      <4> QED
        BY <1>3, <1>6, <2>3, <3>1, <4>1, <4>2
    <3> QED
      BY <3>2, <3>3
  <2>4. CASE x = rest
    <3>1. y \in DOMAIN blk
      BY <1>2, <1>6, <1>11, <2>4
    <3>2. a < y
      BY <1>3, <1>6, <1>11, <2>4, <3>1
    <3>3. a + blk[a].size <= y
      BY <1>apart, <3>1, <3>2
    <3> QED
      BY <1>6, <2>4, <3>3
  <2> QED
    BY <1>2, <2>1, <2>2, <2>3, <2>4
<1>12. \A x \in DOMAIN r : InTile(r, seg, x)
  BY <1>2, <1>7, <1>8, <1>9
<1> QED
  BY <1>1, <1>2, <1>10, <1>11, <1>12, <1>seg DEF Heap

-----------------------------------------------------------------------------
(* Marking a block, adding a segment, releasing one. *)

\* The flags, events and uses of a block have no part in the shape of the heap.
LEMMA MarkHeap ==
  ASSUME NEW blk, NEW seg, Heap(blk, seg), NEW r, Blocks(r),
         DOMAIN r = DOMAIN blk, \A x \in DOMAIN blk : SameShape(r[x], blk[x])
  PROVE  Heap(r, seg)
<1>1. \A x \in DOMAIN r : InTile(r, seg, x)
  <2> SUFFICES ASSUME NEW x \in DOMAIN r PROVE InTile(r, seg, x)
    OBVIOUS
  <2>1. InTile(blk, seg, x)
    BY DEF Heap
  <2>2. x \in DOMAIN blk
    OBVIOUS
  <2> QED
    BY <2>1, <2>2 DEF InTile, SameShape
<1>2. \A x \in DOMAIN r :
        r[x].prev # null => r[x].prev \in DOMAIN r /\ r[r[x].prev].next = x
  BY DEF Heap, SameShape
<1>3. \A x, c \in DOMAIN r : x < c => x + r[x].size <= c
  BY DEF Heap, SameShape
<1>4. Segments(seg) /\ DOMAIN seg \subseteq DOMAIN r
  BY DEF Heap
<1> QED
  BY <1>1, <1>2, <1>3, <1>4 DEF Heap

\* A fresh segment, apart from the others, holding one block.
LEMMA AddHeap ==
  ASSUME NEW blk, NEW seg, Heap(blk, seg),
         NEW base \in Addr, NEW n \in Nat \ {0}, base + n <= AddrLimit,
         \A b \in DOMAIN seg : b + seg[b] <= base \/ base + n <= b,
         NEW fresh \in Block, fresh.size = n, fresh.prev = null, fresh.next = null,
         fresh.segment_base = base
  PROVE  base \notin DOMAIN blk /\ Heap(With(blk, base, fresh), With(seg, base, n))
<1> DEFINE r == With(blk, base, fresh)
           g == With(seg, base, n)
<1>0. base \in Nat
  BY AddrFacts
<1>bases. \A b \in DOMAIN seg : b \in Nat /\ seg[b] \in Nat \ {0} /\ b + seg[b] <= AddrLimit
  BY DEF Heap, Segments
<1>1. \A x \in DOMAIN blk :
        /\ x \in Nat /\ blk[x].size \in Nat \ {0} /\ blk[x].segment_base \in DOMAIN seg
        /\ blk[x].segment_base <= x
        /\ x + blk[x].size <= blk[x].segment_base + seg[blk[x].segment_base]
  <2> SUFFICES ASSUME NEW x \in DOMAIN blk
               PROVE  /\ x \in Nat /\ blk[x].size \in Nat \ {0}
                      /\ blk[x].segment_base \in DOMAIN seg /\ blk[x].segment_base <= x
                      /\ x + blk[x].size <= blk[x].segment_base + seg[blk[x].segment_base]
    OBVIOUS
  <2>1. /\ x \in Nat /\ blk[x].size \in Nat \ {0} /\ blk[x].segment_base \in DOMAIN seg
        /\ InTile(blk, seg, x)
    BY HeapFacts
  <2> QED
    BY <2>1 DEF InTile
<1>2. \A x \in DOMAIN blk : x + blk[x].size <= base \/ base + n <= x
  <2> SUFFICES ASSUME NEW x \in DOMAIN blk
               PROVE  x + blk[x].size <= base \/ base + n <= x
    OBVIOUS
  <2> DEFINE b == blk[x].segment_base
  <2>1. /\ x \in Nat /\ blk[x].size \in Nat \ {0} /\ b \in DOMAIN seg
        /\ b <= x /\ x + blk[x].size <= b + seg[b]
    BY <1>1
  <2>2. b \in Nat /\ seg[b] \in Nat \ {0} /\ (b + seg[b] <= base \/ base + n <= b)
    BY <1>bases, <2>1
  <2> HIDE DEF b
  <2> QED
    BY <1>0, <2>1, <2>2
<1>3. base \notin DOMAIN blk /\ base \notin DOMAIN seg
  <2>1. \A x \in DOMAIN blk : x # base
    BY <1>0, <1>1, <1>2
  <2> QED
    BY <2>1 DEF Heap
<1>4. /\ DOMAIN r = DOMAIN blk \cup {base} /\ r[base] = fresh
      /\ \A x \in DOMAIN blk : r[x] = blk[x]
  BY <1>3 DEF With
<1>5. /\ DOMAIN g = DOMAIN seg \cup {base} /\ g[base] = n
      /\ \A x \in DOMAIN seg : g[x] = seg[x]
  BY <1>3 DEF With
<1> HIDE DEF r, g
<1>6. Blocks(r)
  BY <1>4 DEF Blocks, Heap
<1>7. Segments(g)
  <2>1. \A b \in DOMAIN g : b \in Nat /\ g[b] \in Nat \ {0} /\ b + g[b] <= AddrLimit
    BY <1>0, <1>5, <1>bases
  <2>2. ASSUME NEW b \in DOMAIN g, NEW c \in DOMAIN g, b < c PROVE b + g[b] <= c
    <3>1. CASE b = base
      BY <1>0, <1>5, <1>bases, <2>2, <3>1
    <3>2. CASE c = base /\ b # base
      BY <1>0, <1>5, <1>bases, <2>2, <3>2
    <3>3. CASE b # base /\ c # base
      BY <1>5, <2>2, <3>3 DEF Heap, Segments
    <3> QED
      BY <3>1, <3>2, <3>3
  <2> QED
    BY <2>1, <2>2 DEF Segments
<1>8. DOMAIN g \subseteq DOMAIN r
  BY <1>4, <1>5 DEF Heap
<1>9. ASSUME NEW x \in DOMAIN r PROVE InTile(r, g, x)
  <2>1. CASE x = base
    BY <1>0, <1>4, <1>5, <2>1 DEF InTile
  <2>2. CASE x # base
    <3>1. x \in DOMAIN blk /\ r[x] = blk[x]
      BY <1>4, <2>2
    <3>2. InTile(blk, seg, x)
      BY <3>1 DEF Heap
    <3>3. \A y \in DOMAIN blk : y \in DOMAIN r /\ r[y] = blk[y]
      BY <1>4
    <3> QED
      BY <1>5, <3>1, <3>2, <3>3 DEF InTile
  <2> QED
    BY <2>1, <2>2
<1>10. ASSUME NEW x \in DOMAIN r, r[x].prev # null
       PROVE  r[x].prev \in DOMAIN r /\ r[r[x].prev].next = x
  <2>1. x \in DOMAIN blk /\ r[x] = blk[x]
    BY <1>4, <1>10
  <2>2. blk[x].prev \in DOMAIN blk /\ blk[blk[x].prev].next = x
    BY <1>10, <2>1 DEF Heap
  <2> QED
    BY <1>4, <2>1, <2>2
<1>11. ASSUME NEW x \in DOMAIN r, NEW y \in DOMAIN r, x < y
       PROVE  x + r[x].size <= y
  <2>1. CASE x = base
    BY <1>0, <1>1, <1>2, <1>4, <1>11, <2>1
  <2>2. CASE y = base /\ x # base
    BY <1>0, <1>1, <1>2, <1>4, <1>11, <2>2
  <2>3. CASE x # base /\ y # base
    BY <1>4, <1>11, <2>3 DEF Heap
  <2> QED
    BY <2>1, <2>2, <2>3
<1> QED
  BY <1>3, <1>6, <1>7, <1>8, <1>9, <1>10, <1>11 DEF Heap, r, g

\* A block with no neighbours fills its segment, which it leaves with it.
LEMMA RemoveHeap ==
  ASSUME NEW blk, NEW seg, Heap(blk, seg), NEW a \in DOMAIN blk, ~is_split(blk[a])
  PROVE  /\ blk[a].segment_base = a /\ a \in DOMAIN seg /\ seg[a] = blk[a].size
         /\ Heap(Without(blk, a), Without(seg, a))
<1> DEFINE r == Without(blk, a)
           g == Without(seg, a)
<1>0. blk[a].prev = null /\ blk[a].next = null
  BY DEF is_split
<1>1. /\ a \in Nat /\ InTile(blk, seg, a) /\ blk[a].size \in Nat \ {0}
      /\ seg[blk[a].segment_base] \in Nat
  BY HeapFacts
<1>2. blk[a].segment_base = a /\ a \in DOMAIN seg /\ seg[a] = blk[a].size
  BY <1>0, <1>1 DEF InTile
<1>3. /\ DOMAIN r = DOMAIN blk \ {a} /\ \A x \in DOMAIN r : r[x] = blk[x]
      /\ DOMAIN g = DOMAIN seg \ {a} /\ \A x \in DOMAIN g : g[x] = seg[x]
  BY DEF Without, Restrict
<1> HIDE DEF r, g
<1>4. \A x \in DOMAIN r : /\ blk[x].segment_base # a
                          /\ blk[x].next # a /\ blk[x].prev # a
  <2> SUFFICES ASSUME NEW x \in DOMAIN blk, x # a
               PROVE  blk[x].segment_base # a /\ blk[x].next # a /\ blk[x].prev # a
    BY <1>3
  <2>1. /\ x \in Nat /\ InTile(blk, seg, x) /\ blk[x].size \in Nat \ {0}
        /\ (blk[x].prev = null \/ blk[blk[x].prev].next = x)
    BY HeapFacts
  <2>2. blk[x].segment_base # a
    <3> SUFFICES ASSUME blk[x].segment_base = a PROVE FALSE
      OBVIOUS
    <3>1. a <= x /\ x + blk[x].size <= a + blk[a].size
      BY <1>2, <2>1 DEF InTile
    <3>2. a + blk[a].size <= x
      BY <1>1, <2>1, <3>1 DEF Heap
    <3> QED
      BY <1>1, <2>1, <3>1, <3>2
  <2>3. a # null /\ x # null
    BY AddrFacts DEF Heap, Blocks
  <2>4. blk[x].next # a
    BY <1>0, <2>1, <2>3 DEF InTile
  <2>5. blk[x].prev # a
    BY <1>0, <2>1, <2>3
  <2> QED
    BY <2>2, <2>4, <2>5
<1>5. Blocks(r)
  BY <1>3 DEF Blocks, Heap
<1>6. Segments(g) /\ DOMAIN g \subseteq DOMAIN r
  BY <1>3 DEF Segments, Heap
<1>7. ASSUME NEW x \in DOMAIN r PROVE InTile(r, g, x)
  <2>1. x \in DOMAIN blk /\ r[x] = blk[x] /\ blk[x].segment_base # a /\ blk[x].next # a
    BY <1>3, <1>4
  <2>2. InTile(blk, seg, x)
    BY <2>1 DEF Heap
  <2>3. \A y \in DOMAIN blk : y # a => y \in DOMAIN r /\ r[y] = blk[y]
    BY <1>3
  <2>4. \A y \in DOMAIN seg : y # a => y \in DOMAIN g /\ g[y] = seg[y]
    BY <1>3
  <2> QED
    BY <2>1, <2>2, <2>3, <2>4 DEF InTile
<1>8. \A x \in DOMAIN r :
        r[x].prev # null => r[x].prev \in DOMAIN r /\ r[r[x].prev].next = x
  BY <1>3, <1>4 DEF Heap
<1>9. \A x, y \in DOMAIN r : x < y => x + r[x].size <= y
  BY <1>3 DEF Heap
<1> QED
  BY <1>2, <1>5, <1>6, <1>7, <1>8, <1>9 DEF Heap, r, g

-----------------------------------------------------------------------------
(* A heap with its pool P, its live blocks L and its waiting events W.     *)

On(W, a) == {s \in Stream : a \in Range(W[s])}

\* What Sorted says of one block.
InPlace(b, a, P, L, W) ==
  /\ b.allocated <=> a \in L
  /\ b.event_count = Cardinality(On(W, a))
  /\ a \in P <=> a \notin L /\ On(W, a) = {} /\ b.stream_uses = {}
  /\ a \in L \/ b.stream_uses # {} => On(W, a) = {}
  /\ a \notin L /\ b.stream_uses # {} => "device_late" \in Faults

Placed(blk, P, L, W) ==
  /\ P \subseteq DOMAIN blk /\ L \subseteq DOMAIN blk
  /\ \A s \in Stream : Range(W[s]) \subseteq DOMAIN blk /\ IsInjective(W[s])
  /\ \A a \in DOMAIN blk : InPlace(blk[a], a, P, L, W)

Good(blk, seg, P, L, W) == Heap(blk, seg) /\ Placed(blk, P, L, W)

\* No two neighbours are in P.
Merged(blk, P) == \A x \in P : blk[x].next \notin P

SizeSum(blk, S) == SumFunctionOnSet([a \in DOMAIN blk |-> blk[a].size], S)

LEMMA FiniteOn ==
  ASSUME NEW W, NEW a
  PROVE  IsFiniteSet(On(W, a)) /\ On(W, a) \subseteq Stream
<1>1. IsFiniteSet(Stream) /\ On(W, a) \subseteq Stream
  BY AllocatorAssumption DEF On
<1> QED
  BY <1>1, FS_Subset

LEMMA FiniteBlocks ==
  ASSUME NEW blk, Blocks(blk), NEW S, S \subseteq DOMAIN blk
  PROVE  IsFiniteSet(S) /\ SizeSum(blk, S) \in Nat
<1>1. AddrLimit - 1 \in Int /\ IsFiniteSet(0 .. (AddrLimit - 1))
  BY AddrFacts, FS_Interval
<1>2. S \subseteq 0 .. (AddrLimit - 1)
  BY DEF Blocks, Addr
<1>3. IsFiniteSet(S)
  BY <1>1, <1>2, FS_Subset
<1> DEFINE f == [a \in DOMAIN blk |-> blk[a].size]
<1>4. \A x \in S : f[x] \in Nat
  <2> SUFFICES ASSUME NEW x \in S PROVE blk[x].size \in Nat
    OBVIOUS
  <2>1. blk[x] \in Block
    BY DEF Blocks
  <2> QED
    BY <2>1, BlockFields
<1> HIDE DEF f
<1>5. SumFunctionOnSet(f, S) \in Nat
  BY <1>3, <1>4, SumIsNat
<1> QED
  BY <1>3, <1>5 DEF f, SizeSum

\* The pool holds exactly the blocks that may be merged.
LEMMA PooledIsMergeable ==
  ASSUME NEW blk, NEW seg, NEW P, NEW L, NEW W, Good(blk, seg, P, L, W),
         NEW x \in DOMAIN blk \cup {null}
  PROVE  mergeable(blk, x) <=> x \in P
<1>1. CASE x = null
  <2>1. null \notin P
    BY AddrFacts DEF Good, Placed, Heap, Blocks
  <2> QED
    BY <1>1, <2>1 DEF mergeable
<1>2. CASE x \in DOMAIN blk
  <2>1. x # null /\ InPlace(blk[x], x, P, L, W) /\ blk[x] \in Block
    BY <1>2, AddrFacts DEF Good, Placed, Heap, Blocks
  <2>2. Cardinality(On(W, x)) = 0 <=> On(W, x) = {}
    BY FiniteOn, FS_EmptySet
  <2> QED
    BY <2>1, <2>2 DEF InPlace, mergeable
<1> QED
  BY <1>1, <1>2

\* Blocks in one pool have the same flags, events and uses.
LEMMA PooledAlike ==
  ASSUME NEW blk, NEW seg, NEW P, NEW L, NEW W, Good(blk, seg, P, L, W),
         NEW x \in P, NEW y \in P
  PROVE  SamePlace(blk[x], blk[y])
<1>1. mergeable(blk, x) /\ mergeable(blk, y)
  BY PooledIsMergeable DEF Good, Placed
<1>2. blk[x] \in Block /\ blk[y] \in Block
  BY DEF Good, Placed, Heap, Blocks
<1> QED
  BY <1>1, <1>2, BlockFields DEF mergeable, SamePlace

\* One merge of two pooled neighbours d and s.
LEMMA MergeStep ==
  ASSUME NEW blk, NEW seg, NEW P, NEW L, NEW W, Good(blk, seg, P, L, W),
         NEW d \in P, NEW s \in P, s = blk[d].next, NEW r, r = merge_next(blk, d)
  PROVE  /\ Good(r, seg, P \ {s}, L, W)
         /\ SizeSum(r, P \ {s}) = SizeSum(blk, P)
         /\ SizeSum(r, L) = SizeSum(blk, L)
         /\ s # d /\ r[d].next = blk[s].next
         /\ \A x \in P \ {s, d} : r[x].next = blk[x].next
         /\ \A x \in P : blk[x].next = s => x = d
         /\ blk[s].next # s
<1>0. Heap(blk, seg) /\ Placed(blk, P, L, W) /\ P \subseteq DOMAIN blk /\ L \subseteq DOMAIN blk
  BY DEF Good, Placed
<1>1. d \in DOMAIN blk /\ s \in DOMAIN blk /\ blk[d].next # null
  BY <1>0, AddrFacts DEF Heap, Blocks
<1>2. s # d /\ \A x \in DOMAIN blk : blk[x].next = s => x = d
  BY <1>0, <1>1, Neighbours
<1>3. /\ DOMAIN r = DOMAIN blk \ {s}
      /\ r[d].size = blk[d].size + blk[s].size /\ r[d].next = blk[s].next
      /\ \A x \in DOMAIN r \ {d} : r[x].size = blk[x].size /\ r[x].next = blk[x].next
      /\ \A x \in DOMAIN r : SamePlace(r[x], blk[x])
  BY <1>0, <1>1, MergeFields
<1>4. Heap(r, seg) /\ Blocks(r) /\ Blocks(blk)
  BY <1>0, <1>1, MergeHeap DEF Heap
<1>5. s \notin L /\ On(W, s) = {} /\ d \notin L
  BY <1>0, <1>1 DEF Placed, InPlace
<1>6. Placed(r, P \ {s}, L, W)
  <2>1. \A x \in DOMAIN r : InPlace(r[x], x, P \ {s}, L, W)
    <3> SUFFICES ASSUME NEW x \in DOMAIN r PROVE InPlace(r[x], x, P \ {s}, L, W)
      OBVIOUS
    <3>1. x \in DOMAIN blk /\ x # s
      BY <1>3
    <3>2. SamePlace(r[x], blk[x])
      BY <1>3
    <3>3. InPlace(blk[x], x, P, L, W)
      BY <1>0, <3>1 DEF Placed
    <3> QED
      BY <3>1, <3>2, <3>3 DEF InPlace, SamePlace
  <2>2. \A t \in Stream : Range(W[t]) \subseteq DOMAIN r
    BY <1>0, <1>3, <1>5 DEF Placed, On
  <2> QED
    BY <1>0, <1>3, <1>5, <2>1, <2>2 DEF Placed
<1> DEFINE f == [a \in DOMAIN blk |-> blk[a].size]
           g == [a \in DOMAIN r |-> r[a].size]
<1>7. \A x \in DOMAIN blk : f[x] = blk[x].size /\ f[x] \in Nat
  <2>1. \A x \in DOMAIN blk : blk[x] \in Block
    BY <1>4 DEF Blocks
  <2> QED
    BY <2>1, BlockFields
<1>8. \A x \in DOMAIN r : g[x] = r[x].size
  OBVIOUS
<1> HIDE DEF f, g
<1>9. SumFunctionOnSet(g, P \ {s}) = SumFunctionOnSet(f, P)
  <2> DEFINE Q == P \ {s}
             R == Q \ {d}
  <2>1. d \in Q /\ IsFiniteSet(P) /\ IsFiniteSet(Q) /\ IsFiniteSet(R)
    BY <1>0, <1>2, <1>4, FiniteBlocks, FS_RemoveElement
  <2>2. \A x \in P : f[x] \in Nat
    BY <1>0, <1>7
  <2>3. \A x \in Q : g[x] \in Nat
    <3>1. \A x \in Q : x \in DOMAIN r /\ r[x] \in Block
      BY <1>0, <1>3, <1>4 DEF Blocks
    <3> QED
      BY <1>8, <3>1, BlockFields
  <2>4. \A x \in R : g[x] = f[x]
    BY <1>0, <1>3, <1>7, <1>8
  <2>5. g[d] = f[d] + f[s]
    BY <1>1, <1>2, <1>3, <1>7, <1>8
  <2> HIDE DEF Q, R
  <2>6. /\ SumFunctionOnSet(f, P) = f[s] + SumFunctionOnSet(f, Q)
        /\ \A x \in Q : f[x] \in Nat
    BY <2>1, <2>2, SumTakes DEF Q
  <2>7. /\ SumFunctionOnSet(f, Q) = f[d] + SumFunctionOnSet(f, R)
        /\ SumFunctionOnSet(f, R) \in Nat
    BY <2>1, <2>6, SumTakes DEF R
  <2>8. SumFunctionOnSet(g, Q) = g[d] + SumFunctionOnSet(g, R)
    BY <2>1, <2>3, SumTakes DEF R
  <2>9. SumFunctionOnSet(g, R) = SumFunctionOnSet(f, R)
    BY <2>1, <2>4, SumCongruence
  <2>10. f[s] \in Nat /\ f[d] \in Nat
    BY <2>2
  <2>11. SumFunctionOnSet(g, Q) = SumFunctionOnSet(f, P)
    BY <2>5, <2>6, <2>7, <2>8, <2>9, <2>10
  <2> QED
    BY <2>11 DEF Q
<1>10. SumFunctionOnSet(g, L) = SumFunctionOnSet(f, L)
  <2>1. \A x \in L : g[x] = f[x]
    BY <1>0, <1>3, <1>5, <1>7, <1>8
  <2>2. IsFiniteSet(L)
    BY <1>0, <1>4, FiniteBlocks
  <2> QED
    BY <2>1, <2>2, SumCongruence
<1>11. blk[s].next # s
  BY <1>1, <1>2
<1> QED
  BY <1>0, <1>2, <1>3, <1>4, <1>6, <1>9, <1>10, <1>11 DEF Good, SizeSum, f, g

\* free_block: the blocks freed and merged make a good heap again, with no two
\* neighbours in the pool, and no byte lost.
LEMMA FreeBlockGood ==
  ASSUME NEW blk, NEW seg, NEW L, NEW W, NEW a, a \notin pool,
         Good(blk, seg, pool \cup {a}, L, W), Merged(blk, pool)
  PROVE  /\ Good(FreeBlock(blk, a).block, seg, FreeBlock(blk, a).pool, L, W)
         /\ Merged(FreeBlock(blk, a).block, FreeBlock(blk, a).pool)
         /\ SizeSum(FreeBlock(blk, a).block, FreeBlock(blk, a).pool) = SizeSum(blk, pool \cup {a})
         /\ SizeSum(FreeBlock(blk, a).block, L) = SizeSum(blk, L)
<1> DEFINE P == pool \cup {a}
           p == blk[a].prev
           withPrev == mergeable(blk, p)
           start == IF withPrev THEN p ELSE a
           blk1 == IF withPrev THEN merge_prev(blk, a) ELSE blk
           P1 == P \ (IF withPrev THEN {a} ELSE {})
           src == blk1[start].next
           withNext == mergeable(blk1, src)
           blk2 == IF withNext THEN merge_next(blk1, start) ELSE blk1
           P2 == P1 \ (IF withNext THEN {src} ELSE {})
<1>0. Good(blk, seg, P, L, W) /\ P \subseteq DOMAIN blk /\ a \in P /\ Heap(blk, seg)
  BY DEF Good, Placed
<1>1. p \in DOMAIN blk \cup {null} /\ (p # null => blk[p].next = a /\ p # a)
  BY <1>0, HeapFacts
<1>2. withPrev <=> p \in P
  BY <1>0, <1>1, PooledIsMergeable
<1>3. \A x \in P : blk[x].next \in P => x = a \/ x = p
  <2> SUFFICES ASSUME NEW x \in P, blk[x].next \in P, x # a PROVE x = p
    OBVIOUS
  <2>1. blk[x].next = a
    BY DEF Merged
  <2>2. blk[x].next # null
    BY <1>0, <2>1, AddrFacts DEF Heap, Blocks
  <2>3. blk[a].prev = x
    BY <1>0, <2>1, <2>2, Neighbours
  <2> QED
    BY <2>3
<1>4. /\ Good(blk1, seg, P1, L, W) /\ SizeSum(blk1, P1) = SizeSum(blk, P)
      /\ SizeSum(blk1, L) = SizeSum(blk, L)
      /\ start \in P1 /\ \A x \in P1 : blk1[x].next \in P1 => x = start
  <2>1. CASE withPrev
    <3>1. p \in P /\ p # null /\ blk[p].next = a /\ p # a
      BY <1>1, <1>2, <2>1 DEF mergeable
    <3>2. SamePlace(blk[a], blk[p])
      BY <1>0, <3>1, PooledAlike
    <3>3. merge_prev(blk, a) = merge_next(blk, p)
      BY <1>0, <3>1, <3>2, MergePrevIsMergeNext
    <3> DEFINE r == merge_next(blk, p)
    <3> HIDE DEF r
    <3>4. /\ Good(r, seg, P \ {a}, L, W) /\ SizeSum(r, P \ {a}) = SizeSum(blk, P)
          /\ SizeSum(r, L) = SizeSum(blk, L)
          /\ r[p].next = blk[a].next
          /\ \A x \in P \ {a, p} : r[x].next = blk[x].next
      <4> HIDE DEF P, p
      <4> QED
        BY <1>0, <3>1, MergeStep DEF r
    <3>5. blk1 = r /\ P1 = P \ {a} /\ start = p
      BY <2>1, <3>3 DEF r
    <3>6. \A x \in P \ {a} : r[x].next \in P \ {a} => x = p
      BY <1>3, <3>4
    <3> HIDE DEF blk1, P1, start, P, p
    <3> QED
      BY <3>1, <3>4, <3>5, <3>6
  <2>2. CASE ~withPrev
    <3>1. blk1 = blk /\ P1 = P /\ start = a
      BY <2>2
    <3>2. \A x \in P : blk[x].next \in P => x = a
      BY <1>2, <1>3, <2>2
    <3> HIDE DEF blk1, P1, start, P, p
    <3> QED
      BY <1>0, <3>1, <3>2
  <2> QED
    BY <2>1, <2>2
<1> HIDE DEF blk1, P1, start
<1>5. Heap(blk1, seg) /\ P1 \subseteq DOMAIN blk1 /\ src \in DOMAIN blk1 \cup {null}
  <2>1. Heap(blk1, seg) /\ P1 \subseteq DOMAIN blk1
    BY <1>4 DEF Good, Placed
  <2>2. src = null \/ src \in DOMAIN blk1
    BY <1>4, <2>1, HeapFacts
  <2> QED
    BY <2>1, <2>2
<1>6. withNext <=> src \in P1
  BY <1>4, <1>5, PooledIsMergeable
<1>7. /\ Good(blk2, seg, P2, L, W) /\ SizeSum(blk2, P2) = SizeSum(blk1, P1)
      /\ SizeSum(blk2, L) = SizeSum(blk1, L)
      /\ start \in P2 /\ Merged(blk2, P2)
  <2>1. CASE withNext
    <3>1. src \in P1
      BY <1>6, <2>1
    <3> DEFINE r == merge_next(blk1, start)
    <3> HIDE DEF r
    <3>2. /\ Good(r, seg, P1 \ {src}, L, W) /\ SizeSum(r, P1 \ {src}) = SizeSum(blk1, P1)
          /\ SizeSum(r, L) = SizeSum(blk1, L)
          /\ src # start /\ r[start].next = blk1[src].next
          /\ \A x \in P1 \ {src, start} : r[x].next = blk1[x].next
      BY <1>4, <3>1, MergeStep DEF r
    <3>3. \A x \in P1 \ {src} : r[x].next \notin P1 \ {src}
      BY <1>4, <3>1, <3>2
    <3>4. blk2 = r /\ P2 = P1 \ {src}
      BY <2>1 DEF r
    <3> HIDE DEF blk2, P2, src
    <3> QED
      BY <1>4, <3>2, <3>3, <3>4 DEF Merged
  <2>2. CASE ~withNext
    <3>1. blk2 = blk1 /\ P2 = P1
      BY <2>2
    <3>2. \A x \in P1 : blk1[x].next \notin P1
      BY <1>4, <1>6, <2>2
    <3> HIDE DEF blk2, P2, src
    <3> QED
      BY <1>4, <3>1, <3>2 DEF Merged
  <2> QED
    BY <2>1, <2>2
<1>8. FreeBlock(blk, a).block = blk2
  BY DEF FreeBlock, blk1, start
<1>9. FreeBlock(blk, a).pool = P2
  <2>1. FreeBlock(blk, a).pool = (pool \ (IF withNext THEN {src} ELSE {})) \cup {start}
    BY DEF FreeBlock, blk1, start
  <2>2. P1 \ {start} = pool \ {start} /\ start \in P1
    BY <1>1, <1>2, <1>4 DEF P1, start
  <2>3. withNext => src # start
    <3>1. src # start
      <4>1. start \in DOMAIN blk1 /\ start # null
        BY <1>4, <1>5, AddrFacts DEF Heap, Blocks
      <4> QED
        BY <1>5, <4>1, HeapFacts
    <3> QED
      BY <3>1
  <2> HIDE DEF src, withNext
  <2> QED
    BY <2>1, <2>2, <2>3
<1> HIDE DEF blk2, P2
<1> QED
  BY <1>4, <1>7, <1>8, <1>9

-----------------------------------------------------------------------------
(* Queues without repetition. *)

LEMMA TailRange ==
  ASSUME NEW S, NEW q \in Seq(S), q # <<>>, IsInjective(q)
  PROVE  /\ Tail(q) \in Seq(S) /\ IsInjective(Tail(q))
         /\ Head(q) \in Range(q) /\ Range(Tail(q)) = Range(q) \ {Head(q)}
<1>1. /\ Len(q) \in Nat \ {0} /\ DOMAIN q = 1 .. Len(q) /\ Head(q) = q[1]
      /\ Tail(q) \in Seq(S) /\ Len(Tail(q)) = Len(q) - 1
      /\ DOMAIN Tail(q) = 1 .. (Len(q) - 1)
      /\ \A i \in 1 .. (Len(q) - 1) : Tail(q)[i] = q[i + 1]
  OBVIOUS
<1>2. IsInjective(Tail(q))
  <2> SUFFICES ASSUME NEW i \in 1 .. (Len(q) - 1), NEW j \in 1 .. (Len(q) - 1),
                      Tail(q)[i] = Tail(q)[j]
               PROVE  i = j
    BY <1>1 DEF IsInjective
  <2>1. q[i + 1] = q[j + 1] /\ i + 1 \in DOMAIN q /\ j + 1 \in DOMAIN q
    BY <1>1
  <2>2. i + 1 = j + 1
    BY <2>1 DEF IsInjective
  <2> QED
    BY <2>2
<1>3. Head(q) \in Range(q)
  BY <1>1 DEF Range
<1>4. ASSUME NEW x \in Range(Tail(q)) PROVE x \in Range(q) /\ x # Head(q)
  <2>1. PICK i \in 1 .. (Len(q) - 1) : x = Tail(q)[i]
    BY <1>1 DEF Range
  <2>2. x = q[i + 1] /\ i + 1 \in DOMAIN q /\ 1 \in DOMAIN q /\ i + 1 # 1
    BY <1>1, <2>1
  <2>3. x # q[1]
    BY <2>2 DEF IsInjective
  <2> QED
    BY <1>1, <2>2, <2>3 DEF Range
<1>5. ASSUME NEW x \in Range(q), x # Head(q) PROVE x \in Range(Tail(q))
  <2>1. PICK i \in 1 .. Len(q) : x = q[i]
    BY <1>1 DEF Range
  <2>2. i # 1
    BY <1>1, <1>5, <2>1
  <2>3. i - 1 \in 1 .. (Len(q) - 1) /\ (i - 1) + 1 = i
    BY <1>1, <2>2
  <2>4. Tail(q)[i - 1] = x
    BY <1>1, <2>1, <2>3
  <2> QED
    BY <1>1, <2>3, <2>4 DEF Range
<1> QED
  BY <1>1, <1>2, <1>3, <1>4, <1>5

LEMMA AppendRange ==
  ASSUME NEW S, NEW q \in Seq(S), NEW a \in S, a \notin Range(q), IsInjective(q)
  PROVE  /\ Append(q, a) \in Seq(S) /\ IsInjective(Append(q, a))
         /\ Range(Append(q, a)) = Range(q) \cup {a}
<1> DEFINE r == Append(q, a)
<1>1. /\ Len(q) \in Nat /\ DOMAIN q = 1 .. Len(q)
      /\ r \in Seq(S) /\ DOMAIN r = 1 .. (Len(q) + 1) /\ r[Len(q) + 1] = a
      /\ \A i \in 1 .. Len(q) : r[i] = q[i]
  OBVIOUS
<1> HIDE DEF r
<1>2. \A i \in 1 .. Len(q) : q[i] # a
  BY <1>1 DEF Range
<1>3. IsInjective(r)
  <2> SUFFICES ASSUME NEW i \in 1 .. (Len(q) + 1), NEW j \in 1 .. (Len(q) + 1), r[i] = r[j]
               PROVE  i = j
    BY <1>1 DEF IsInjective
  <2>1. CASE i \in 1 .. Len(q) /\ j \in 1 .. Len(q)
    BY <1>1, <2>1 DEF IsInjective
  <2>2. CASE i = Len(q) + 1
    BY <1>1, <1>2, <2>2
  <2>3. CASE j = Len(q) + 1
    BY <1>1, <1>2, <2>3
  <2> QED
    BY <1>1, <2>1, <2>2, <2>3
<1>4. ASSUME NEW x \in Range(r) PROVE x \in Range(q) \cup {a}
  <2>1. PICK i \in 1 .. (Len(q) + 1) : x = r[i]
    BY <1>1 DEF Range
  <2> QED
    BY <1>1, <2>1 DEF Range
<1>5. ASSUME NEW x \in Range(q) \cup {a} PROVE x \in Range(r)
  <2>1. CASE x = a
    <3>1. Len(q) + 1 \in DOMAIN r
      BY <1>1
    <3> QED
      BY <1>1, <2>1, <3>1 DEF Range
  <2>2. CASE x \in Range(q)
    <3>1. PICK i \in 1 .. Len(q) : x = q[i]
      BY <1>1, <2>2 DEF Range
    <3>2. i \in DOMAIN r /\ r[i] = x
      BY <1>1, <3>1
    <3> QED
      BY <3>2 DEF Range
  <2> QED
    BY <2>1, <2>2
<1> QED
  BY <1>1, <1>3, <1>4, <1>5 DEF r

-----------------------------------------------------------------------------
(* Steps that change one block. *)

LEMMA SizeSumAdd ==
  ASSUME NEW blk, Blocks(blk), NEW S, S \subseteq DOMAIN blk, NEW a \in DOMAIN blk, a \notin S
  PROVE  SizeSum(blk, S \cup {a}) = SizeSum(blk, S) + blk[a].size
<1> DEFINE f == [x \in DOMAIN blk |-> blk[x].size]
           T == S \cup {a}
<1>1. \A x \in T : f[x] \in Nat
  <2> SUFFICES ASSUME NEW x \in T PROVE blk[x].size \in Nat
    OBVIOUS
  <2>1. blk[x] \in Block
    BY DEF Blocks
  <2> QED
    BY <2>1, BlockFields
<1>2. IsFiniteSet(T) /\ a \in T /\ T \ {a} = S /\ f[a] = blk[a].size
  <2>1. T \subseteq DOMAIN blk
    OBVIOUS
  <2> QED
    BY <2>1, FiniteBlocks
<1> HIDE DEF f, T
<1>3. /\ SumFunctionOnSet(f, T) = f[a] + SumFunctionOnSet(f, T \ {a})
      /\ SumFunctionOnSet(f, T \ {a}) \in Nat
  BY <1>1, <1>2, SumTakes
<1>4. f[a] \in Nat
  BY <1>1, <1>2
<1>5. SumFunctionOnSet(f, T) = SumFunctionOnSet(f, S) + blk[a].size
  <2>1. SumFunctionOnSet(f, T \ {a}) = SumFunctionOnSet(f, S)
    BY <1>2
  <2>2. f[a] = blk[a].size
    BY <1>2
  <2> QED
    BY <2>1, <2>2, <1>3, <1>4
<1> QED
  BY <1>5 DEF SizeSum, f, T

LEMMA SizeSumRemove ==
  ASSUME NEW blk, Blocks(blk), NEW S, S \subseteq DOMAIN blk, NEW a \in S
  PROVE  SizeSum(blk, S \ {a}) = SizeSum(blk, S) - blk[a].size
<1>1. S \ {a} \subseteq DOMAIN blk /\ a \notin S \ {a} /\ a \in DOMAIN blk /\ (S \ {a}) \cup {a} = S
  OBVIOUS
<1>2. SizeSum(blk, (S \ {a}) \cup {a}) = SizeSum(blk, S \ {a}) + blk[a].size
  BY <1>1, SizeSumAdd
<1>3. SizeSum(blk, S \ {a}) \in Nat
  BY <1>1, FiniteBlocks
<1>4. blk[a].size \in Nat
  BY <1>1, BlockFields DEF Blocks
<1>5. SizeSum(blk, S) = SizeSum(blk, S \ {a}) + blk[a].size
  BY <1>1, <1>2
<1> QED
  BY <1>3, <1>4, <1>5

\* The sum depends on nothing but the sizes.
LEMMA SizeSumSame ==
  ASSUME NEW blk, NEW r, NEW S, Blocks(r), S \subseteq DOMAIN blk, S \subseteq DOMAIN r,
         \A x \in S : r[x].size = blk[x].size
  PROVE  SizeSum(r, S) = SizeSum(blk, S)
<1> DEFINE f == [x \in DOMAIN blk |-> blk[x].size]
           g == [x \in DOMAIN r |-> r[x].size]
<1>1. \A x \in S : g[x] = f[x]
  OBVIOUS
<1>2. IsFiniteSet(S)
  BY FiniteBlocks
<1> HIDE DEF f, g
<1>3. SumFunctionOnSet(g, S) = SumFunctionOnSet(f, S)
  BY <1>1, <1>2, SumCongruence
<1> QED
  BY <1>3 DEF SizeSum, f, g

\* From blk to r only the block at a changes its flags, events or uses, and with
\* them its place.
Moves(blk, r, a, P, L, W, P2, L2, W2) ==
  /\ a \in DOMAIN blk /\ DOMAIN r = DOMAIN blk
  /\ r[a] \in Block /\ SameShape(r[a], blk[a])
  /\ \A x \in DOMAIN blk : x # a => r[x] = blk[x] /\ On(W2, x) = On(W, x)
  /\ P2 \subseteq P \cup {a} /\ P \subseteq P2 \cup {a}
  /\ L2 \subseteq L \cup {a} /\ L \subseteq L2 \cup {a}
  /\ \A s \in Stream : Range(W2[s]) \subseteq DOMAIN blk /\ IsInjective(W2[s])
  /\ InPlace(r[a], a, P2, L2, W2)

LEMMA MarkStep ==
  ASSUME NEW blk, NEW seg, NEW P, NEW L, NEW W, Good(blk, seg, P, L, W),
         NEW a, NEW r, NEW P2, NEW L2, NEW W2, Moves(blk, r, a, P, L, W, P2, L2, W2)
  PROVE  /\ Good(r, seg, P2, L2, W2)
         /\ DOMAIN r = DOMAIN blk
         /\ \A x \in DOMAIN blk : r[x].next = blk[x].next /\ r[x].size = blk[x].size
         /\ \A x \in DOMAIN blk : x # a => r[x] = blk[x]
         /\ \A S \in SUBSET DOMAIN blk : SizeSum(r, S) = SizeSum(blk, S)
<1>0. Heap(blk, seg) /\ Blocks(blk) /\ Placed(blk, P, L, W)
  BY DEF Good, Heap
<1>1. /\ a \in DOMAIN blk /\ DOMAIN r = DOMAIN blk
      /\ \A x \in DOMAIN blk : x # a => r[x] = blk[x] /\ On(W2, x) = On(W, x)
      /\ InPlace(r[a], a, P2, L2, W2)
  BY DEF Moves
<1>2. \A x \in DOMAIN blk : SameShape(r[x], blk[x])
  BY <1>1 DEF SameShape, Moves
<1>3. Blocks(r)
  BY <1>0, <1>1 DEF Blocks, Moves
<1>4. Heap(r, seg)
  BY <1>0, <1>1, <1>2, <1>3, MarkHeap
<1>5. \A x \in DOMAIN blk : InPlace(r[x], x, P2, L2, W2)
  <2> SUFFICES ASSUME NEW x \in DOMAIN blk, x # a PROVE InPlace(r[x], x, P2, L2, W2)
    BY <1>1
  <2>1. InPlace(blk[x], x, P, L, W) /\ r[x] = blk[x] /\ On(W2, x) = On(W, x)
    BY <1>0, <1>1 DEF Placed
  <2>2. (x \in P2 <=> x \in P) /\ (x \in L2 <=> x \in L)
    BY DEF Moves
  <2> QED
    BY <2>1, <2>2 DEF InPlace
<1>6. Placed(r, P2, L2, W2)
  <2>1. P2 \subseteq DOMAIN r /\ L2 \subseteq DOMAIN r
    BY <1>0, <1>1 DEF Placed, Moves
  <2>2. \A s \in Stream : Range(W2[s]) \subseteq DOMAIN r /\ IsInjective(W2[s])
    BY <1>1 DEF Moves
  <2> QED
    BY <1>1, <1>5, <2>1, <2>2 DEF Placed
<1>7. \A x \in DOMAIN blk : r[x].next = blk[x].next /\ r[x].size = blk[x].size
  BY <1>2 DEF SameShape
<1>8. \A S \in SUBSET DOMAIN blk : SizeSum(r, S) = SizeSum(blk, S)
  <2> SUFFICES ASSUME NEW S \in SUBSET DOMAIN blk PROVE SizeSum(r, S) = SizeSum(blk, S)
    OBVIOUS
  <2>1. S \subseteq DOMAIN blk /\ S \subseteq DOMAIN r /\ \A x \in S : r[x].size = blk[x].size
    BY <1>1, <1>7
  <2> QED
    BY <1>3, <2>1, SizeSumSame
<1> QED
  BY <1>1, <1>4, <1>6, <1>7, <1>8 DEF Good

\* The changes themselves, named so that a proof need not look into them: a block
\* is given back with n events to wait for; it is given back and stranded; it
\* moves from L to P; the block at a gets the value v; it is taken; it is used
\* by more streams; it joins the queues of "on"; it leaves the head of a queue
\* and with its last event joins P.
Freed(v, b, n) ==
  SameShape(v, b) /\ v.allocated = FALSE /\ v.event_count = n /\ v.stream_uses = {}
Strands(v, b) ==
  /\ SameShape(v, b) /\ v.allocated = FALSE /\ v.event_count = b.event_count
  /\ v.stream_uses # {}
Gives(P, P2, L, L2, a) == P2 = P \cup {a} /\ L2 = L \ {a}
Sets(blk, r, a, v) == r = [blk EXCEPT ![a] = v]
Takes(blk, r, a)   == r = [blk EXCEPT ![a].allocated = TRUE]
AddsUses(blk, r, a, u) == r = [blk EXCEPT ![a].stream_uses = @ \cup u]
Joins(W, W2, on, a) == W2 = [s \in Stream |-> IF s \in on THEN Append(W[s], a) ELSE W[s]]
Ticks(blk, r, a, P, P2, W, W2, s) ==
  /\ W[s] # <<>> /\ a = Head(W[s])
  /\ r = [blk EXCEPT ![a].event_count = @ - 1]
  /\ W2 = [W EXCEPT ![s] = Tail(@)]
  /\ P2 = IF r[a].event_count = 0 THEN P \cup {a} ELSE P

\* A pooled block becomes live.
LEMMA TakeStep ==
  ASSUME NEW blk, NEW seg, NEW P, NEW L, NEW W, Good(blk, seg, P, L, W),
         NEW a \in P, NEW r, Takes(blk, r, a)
  PROVE  /\ Good(r, seg, P \ {a}, L \cup {a}, W)
         /\ Merged(blk, P) => Merged(r, P \ {a})
         /\ SizeSum(r, P \ {a}) = SizeSum(blk, P) - blk[a].size
         /\ SizeSum(r, L \cup {a}) = SizeSum(blk, L) + blk[a].size
         /\ a \notin L /\ DOMAIN r = DOMAIN blk
<1> USE DEF Takes
<1> DEFINE v == [blk[a] EXCEPT !.allocated = TRUE]
<1>0. Blocks(blk) /\ Placed(blk, P, L, W) /\ a \in DOMAIN blk /\ P \subseteq DOMAIN blk
      /\ L \subseteq DOMAIN blk
  BY DEF Good, Heap, Placed
<1>1. blk[a] \in Block /\ InPlace(blk[a], a, P, L, W)
  BY <1>0 DEF Blocks, Placed
<1>2. v \in Block /\ SameShape(v, blk[a]) /\ v.allocated = TRUE
      /\ v.event_count = blk[a].event_count /\ v.stream_uses = blk[a].stream_uses
  BY <1>1 DEF Block, SameShape
<1>3. r = [blk EXCEPT ![a] = v]
  BY <1>0
<1> HIDE DEF v
<1>4. a \notin L /\ InPlace(v, a, P \ {a}, L \cup {a}, W)
  BY <1>1, <1>2 DEF InPlace
<1>5. /\ Good(r, seg, P \ {a}, L \cup {a}, W) /\ DOMAIN r = DOMAIN blk
      /\ \A x \in DOMAIN blk : r[x].next = blk[x].next /\ r[x].size = blk[x].size
      /\ \A S \in SUBSET DOMAIN blk : SizeSum(r, S) = SizeSum(blk, S)
  <2>1. \A s \in Stream : Range(W[s]) \subseteq DOMAIN blk /\ IsInjective(W[s])
    BY <1>0 DEF Placed
  <2> DEFINE P2 == P \ {a}
             L2 == L \cup {a}
  <2>2. /\ P2 \subseteq P \cup {a} /\ P \subseteq P2 \cup {a}
        /\ L2 \subseteq L \cup {a} /\ L \subseteq L2 \cup {a}
    OBVIOUS
  <2>3. InPlace(v, a, P2, L2, W)
    BY <1>4
  <2> HIDE DEF P2, L2
  <2>moves. Moves(blk, r, a, P, L, W, P2, L2, W)
    BY <1>0, <1>2, <1>3, <2>1, <2>2, <2>3 DEF Moves
  <2>4. /\ Good(r, seg, P2, L2, W) /\ DOMAIN r = DOMAIN blk
        /\ \A x \in DOMAIN blk : r[x].next = blk[x].next /\ r[x].size = blk[x].size
        /\ \A S \in SUBSET DOMAIN blk : SizeSum(r, S) = SizeSum(blk, S)
    BY ONLY Good(blk, seg, P, L, W), <2>moves, MarkStep
  <2> QED
    BY <2>4 DEF P2, L2
<1>6. SizeSum(r, P \ {a}) = SizeSum(blk, P \ {a}) /\ SizeSum(r, L \cup {a}) = SizeSum(blk, L \cup {a})
  BY <1>0, <1>5
<1>7. SizeSum(blk, P \ {a}) = SizeSum(blk, P) - blk[a].size
  BY <1>0, SizeSumRemove
<1>8. SizeSum(blk, L \cup {a}) = SizeSum(blk, L) + blk[a].size
  BY <1>0, <1>4, SizeSumAdd
<1>9. Merged(blk, P) => Merged(r, P \ {a})
  BY <1>0, <1>5 DEF Merged
<1> QED
  BY <1>4, <1>5, <1>6, <1>7, <1>8, <1>9

\* A live block that was used on its own stream only becomes free.
LEMMA GiveStep ==
  ASSUME NEW blk, NEW seg, NEW P, NEW L, NEW W, Good(blk, seg, P, L, W),
         NEW a \in L, NEW v \in Block, Freed(v, blk[a], blk[a].event_count),
         NEW r, Sets(blk, r, a, v), NEW P2, NEW L2, Gives(P, P2, L, L2, a)
  PROVE  /\ Good(r, seg, P2, L2, W)
         /\ Merged(blk, P) => Merged(r, P)
         /\ SizeSum(r, P2) = SizeSum(blk, P) + blk[a].size
         /\ SizeSum(r, L2) = SizeSum(blk, L) - blk[a].size
         /\ a \notin P /\ a \in DOMAIN r /\ r[a].size = blk[a].size
<1> USE DEF Freed, Sets, Gives
<1>0. Blocks(blk) /\ Placed(blk, P, L, W) /\ a \in DOMAIN blk /\ P \subseteq DOMAIN blk
      /\ L \subseteq DOMAIN blk
  BY DEF Good, Heap, Placed
<1>1. InPlace(blk[a], a, P, L, W)
  BY <1>0 DEF Placed
<1>2. a \notin P /\ InPlace(v, a, P2, L2, W)
  BY <1>1 DEF InPlace
<1>3. \A s \in Stream : Range(W[s]) \subseteq DOMAIN blk /\ IsInjective(W[s])
  BY <1>0 DEF Placed
<1>4. /\ P2 \subseteq P \cup {a} /\ P \subseteq P2 \cup {a}
      /\ L2 \subseteq L \cup {a} /\ L \subseteq L2 \cup {a}
      /\ P2 \in SUBSET DOMAIN blk /\ L2 \in SUBSET DOMAIN blk
  BY <1>0
<1>moves. Moves(blk, r, a, P, L, W, P2, L2, W)
  BY <1>0, <1>2, <1>3, <1>4 DEF Moves
<1>5. /\ Good(r, seg, P2, L2, W) /\ DOMAIN r = DOMAIN blk
      /\ \A x \in DOMAIN blk : r[x].next = blk[x].next /\ r[x].size = blk[x].size
      /\ \A S \in SUBSET DOMAIN blk : SizeSum(r, S) = SizeSum(blk, S)
  BY ONLY Good(blk, seg, P, L, W), <1>moves, MarkStep
<1>6. SizeSum(r, P2) = SizeSum(blk, P2) /\ SizeSum(r, L2) = SizeSum(blk, L2)
  BY <1>4, <1>5
<1>7. SizeSum(blk, P2) = SizeSum(blk, P) + blk[a].size
  BY <1>0, <1>2, SizeSumAdd
<1>8. SizeSum(blk, L2) = SizeSum(blk, L) - blk[a].size
  BY <1>0, SizeSumRemove
<1>9. Merged(blk, P) => Merged(r, P)
  BY <1>0, <1>5 DEF Merged
<1> QED
  BY <1>0, <1>2, <1>5, <1>6, <1>7, <1>8, <1>9

\* A live block used on other streams waits for an event on each of them.
LEMMA WaitStep ==
  ASSUME NEW blk, NEW seg, NEW P, NEW L, NEW W, Good(blk, seg, P, L, W),
         W \in [Stream -> Seq(Addr)],
         NEW a \in L, NEW on \in SUBSET Stream, on # {},
         NEW v \in Block, Freed(v, blk[a], Cardinality(on)),
         NEW r, Sets(blk, r, a, v),
         NEW W2, Joins(W, W2, on, a)
  PROVE  /\ Good(r, seg, P, L \ {a}, W2)
         /\ Merged(blk, P) => Merged(r, P)
         /\ SizeSum(r, P) = SizeSum(blk, P)
         /\ SizeSum(r, L \ {a}) = SizeSum(blk, L) - blk[a].size
         /\ W2 \in [Stream -> Seq(Addr)]
<1> USE DEF Freed, Sets, Joins
<1>0. Blocks(blk) /\ Placed(blk, P, L, W) /\ a \in DOMAIN blk /\ P \subseteq DOMAIN blk
      /\ L \subseteq DOMAIN blk /\ a \in Addr
  BY DEF Good, Heap, Placed, Blocks
<1>1. InPlace(blk[a], a, P, L, W) /\ On(W, a) = {}
  BY <1>0 DEF Placed, InPlace
<1>2. \A s \in Stream : /\ W[s] \in Seq(Addr) /\ IsInjective(W[s]) /\ a \notin Range(W[s])
                        /\ Range(W[s]) \subseteq DOMAIN blk
  BY <1>0, <1>1 DEF Placed, On
<1>3. \A s \in on : /\ W2[s] \in Seq(Addr) /\ IsInjective(W2[s])
                    /\ Range(W2[s]) = Range(W[s]) \cup {a}
  <2> SUFFICES ASSUME NEW s \in on
               PROVE  /\ W2[s] \in Seq(Addr) /\ IsInjective(W2[s])
                      /\ Range(W2[s]) = Range(W[s]) \cup {a}
    OBVIOUS
  <2>1. W2[s] = Append(W[s], a)
    OBVIOUS
  <2> QED
    BY <1>0, <1>2, <2>1, AppendRange
<1>4. \A s \in Stream \ on : W2[s] = W[s]
  OBVIOUS
<1>5. W2 \in [Stream -> Seq(Addr)]
  BY <1>2, <1>3, <1>4
<1>6. \A s \in Stream : Range(W2[s]) \subseteq DOMAIN blk /\ IsInjective(W2[s])
  BY <1>0, <1>2, <1>3, <1>4
<1>7. On(W2, a) = on
  BY <1>2, <1>3, <1>4 DEF On
<1>8. \A x \in DOMAIN blk : x # a => On(W2, x) = On(W, x)
  <2> SUFFICES ASSUME NEW x \in DOMAIN blk, x # a, NEW s \in Stream
               PROVE  x \in Range(W2[s]) <=> x \in Range(W[s])
    BY DEF On
  <2>1. CASE s \in on
    BY ONLY <1>3, <2>1, x # a
  <2>2. CASE s \notin on
    <3>1. W2[s] = W[s]
      BY <1>4, <2>2
    <3> QED
      BY <3>1
  <2> QED
    BY <2>1, <2>2
<1> DEFINE L2 == L \ {a}
<1>9. InPlace(v, a, P, L2, W2)
  BY <1>1, <1>7 DEF InPlace
<1>10. /\ P \subseteq P \cup {a} /\ L2 \subseteq L \cup {a} /\ L \subseteq L2 \cup {a}
       /\ P \in SUBSET DOMAIN blk /\ L2 \in SUBSET DOMAIN blk
  BY <1>0
<1> HIDE DEF L2
<1>moves. Moves(blk, r, a, P, L, W, P, L2, W2)
  BY <1>0, <1>6, <1>8, <1>9, <1>10 DEF Moves
<1>11. /\ Good(r, seg, P, L2, W2) /\ DOMAIN r = DOMAIN blk
       /\ \A x \in DOMAIN blk : r[x].next = blk[x].next /\ r[x].size = blk[x].size
       /\ \A S \in SUBSET DOMAIN blk : SizeSum(r, S) = SizeSum(blk, S)
  BY ONLY Good(blk, seg, P, L, W), <1>moves, MarkStep
<1>12. SizeSum(r, P) = SizeSum(blk, P) /\ SizeSum(r, L2) = SizeSum(blk, L2)
  BY <1>10, <1>11
<1>13. SizeSum(blk, L \ {a}) = SizeSum(blk, L) - blk[a].size
  BY <1>0, SizeSumRemove
<1>14. Merged(blk, P) => Merged(r, P)
  BY <1>0, <1>11 DEF Merged
<1> QED
  BY <1>5, <1>11, <1>12, <1>13, <1>14 DEF L2

\* A live block used on other streams for which no event can be recorded: it is
\* nowhere from then on.
LEMMA StrandStep ==
  ASSUME NEW blk, NEW seg, NEW P, NEW L, NEW W, Good(blk, seg, P, L, W),
         "device_late" \in Faults,
         NEW a \in L, NEW v \in Block, Strands(v, blk[a]),
         NEW r, Sets(blk, r, a, v)
  PROVE  /\ Good(r, seg, P, L \ {a}, W)
         /\ Merged(blk, P) => Merged(r, P)
         /\ SizeSum(r, P) = SizeSum(blk, P)
         /\ SizeSum(r, L \ {a}) = SizeSum(blk, L) - blk[a].size
<1> USE DEF Strands, Sets
<1> DEFINE L2 == L \ {a}
<1>0. Blocks(blk) /\ Placed(blk, P, L, W) /\ a \in DOMAIN blk /\ P \subseteq DOMAIN blk
      /\ L \subseteq DOMAIN blk
  BY DEF Good, Heap, Placed
<1>1. InPlace(blk[a], a, P, L, W)
  BY <1>0 DEF Placed
<1>2. a \notin P /\ InPlace(v, a, P, L2, W)
  BY <1>1 DEF InPlace
<1>3. \A s \in Stream : Range(W[s]) \subseteq DOMAIN blk /\ IsInjective(W[s])
  BY <1>0 DEF Placed
<1>4. /\ P \subseteq P \cup {a} /\ L2 \subseteq L \cup {a} /\ L \subseteq L2 \cup {a}
      /\ P \in SUBSET DOMAIN blk /\ L2 \in SUBSET DOMAIN blk
  BY <1>0
<1> HIDE DEF L2
<1>moves. Moves(blk, r, a, P, L, W, P, L2, W)
  BY <1>0, <1>2, <1>3, <1>4 DEF Moves
<1>5. /\ Good(r, seg, P, L2, W) /\ DOMAIN r = DOMAIN blk
      /\ \A x \in DOMAIN blk : r[x].next = blk[x].next /\ r[x].size = blk[x].size
      /\ \A S \in SUBSET DOMAIN blk : SizeSum(r, S) = SizeSum(blk, S)
  BY ONLY Good(blk, seg, P, L, W), <1>moves, MarkStep
<1>6. SizeSum(r, P) = SizeSum(blk, P) /\ SizeSum(r, L2) = SizeSum(blk, L2)
  BY <1>4, <1>5
<1>7. SizeSum(blk, L \ {a}) = SizeSum(blk, L) - blk[a].size
  BY <1>0, SizeSumRemove
<1>8. Merged(blk, P) => Merged(r, P)
  BY <1>0, <1>5 DEF Merged
<1> QED
  BY <1>5, <1>6, <1>7, <1>8 DEF L2

\* The oldest event a block waits for on stream s has come; with the last one
\* it is free.
LEMMA EventStep ==
  ASSUME NEW blk, NEW seg, NEW P, NEW L, NEW W, Good(blk, seg, P, L, W),
         NEW s \in Stream, W \in [Stream -> Seq(Addr)],
         NEW a, NEW r, NEW W2, NEW P2, Ticks(blk, r, a, P, P2, W, W2, s)
  PROVE  /\ a \in DOMAIN blk /\ a \notin P /\ a \notin L /\ a \in Addr
         /\ Good(r, seg, P2, L, W2)
         /\ Merged(blk, P) => Merged(r, P)
         /\ SizeSum(r, L) = SizeSum(blk, L)
         /\ SizeSum(r, P2) = SizeSum(blk, P) + (IF r[a].event_count = 0 THEN blk[a].size ELSE 0)
<1> USE DEF Ticks
<1>0. Blocks(blk) /\ Placed(blk, P, L, W) /\ P \subseteq DOMAIN blk /\ L \subseteq DOMAIN blk
  BY DEF Good, Heap, Placed
<1>1. \A t \in Stream : W[t] \in Seq(Addr) /\ IsInjective(W[t]) /\ Range(W[t]) \subseteq DOMAIN blk
  BY <1>0 DEF Placed
<1>2. /\ Tail(W[s]) \in Seq(Addr) /\ IsInjective(Tail(W[s])) /\ a \in Range(W[s])
      /\ Range(Tail(W[s])) = Range(W[s]) \ {a}
  BY <1>1, TailRange
<1>3. a \in DOMAIN blk /\ blk[a] \in Block /\ a \in Addr
  BY <1>0, <1>1, <1>2 DEF Blocks
<1>4. InPlace(blk[a], a, P, L, W)
  BY <1>0, <1>3 DEF Placed
<1>5. s \in On(W, a)
  BY <1>2 DEF On
<1>6. a \notin P /\ a \notin L
  BY <1>4, <1>5 DEF InPlace
<1>7. W2[s] = Tail(W[s]) /\ \A t \in Stream : t # s => W2[t] = W[t]
  OBVIOUS
<1>8. On(W2, a) = On(W, a) \ {s}
  BY <1>2, <1>7 DEF On
<1>9. \A x \in DOMAIN blk : x # a => On(W2, x) = On(W, x)
  BY <1>2, <1>7 DEF On
<1>10. /\ IsFiniteSet(On(W2, a)) /\ Cardinality(On(W2, a)) = Cardinality(On(W, a)) - 1
       /\ Cardinality(On(W2, a)) \in Nat
  <2>1. IsFiniteSet(On(W, a)) /\ IsFiniteSet(On(W2, a))
    BY FiniteOn
  <2>2. Cardinality(On(W, a) \ {s}) = Cardinality(On(W, a)) - 1
    BY <1>5, <2>1, FS_RemoveElement
  <2>3. Cardinality(On(W2, a)) = Cardinality(On(W, a) \ {s})
    BY <1>8
  <2>4. Cardinality(On(W2, a)) \in Nat
    BY <2>1, FS_CardinalityType
  <2> QED
    BY <2>1, <2>2, <2>3, <2>4
<1> DEFINE v == [blk[a] EXCEPT !.event_count = @ - 1]
<1>11. r = [blk EXCEPT ![a] = v] /\ r[a] = v
  BY <1>3
<1>12. blk[a].event_count = Cardinality(On(W, a))
  BY <1>4 DEF InPlace
<1>13. blk[a].event_count - 1 = Cardinality(On(W2, a)) /\ blk[a].event_count - 1 \in Nat
  BY <1>10, <1>12
<1>14. /\ v \in Block /\ SameShape(v, blk[a]) /\ v.allocated = blk[a].allocated
       /\ v.event_count = blk[a].event_count - 1 /\ v.stream_uses = blk[a].stream_uses
  BY <1>3, <1>13 DEF Block, SameShape
<1> HIDE DEF v
<1>15. v.event_count = 0 <=> On(W2, a) = {}
  BY <1>10, <1>13, <1>14, FS_EmptySet
<1>16. InPlace(v, a, P2, L, W2)
  <2>1. v.event_count = Cardinality(On(W2, a))
    BY <1>13, <1>14
  <2>2. (v.allocated <=> a \in L) /\ v.stream_uses = {}
    BY <1>4, <1>5, <1>14 DEF InPlace
  <2>3. a \in P2 <=> On(W2, a) = {}
    BY <1>6, <1>11, <1>15
  <2> QED
    BY <1>6, <2>1, <2>2, <2>3 DEF InPlace
<1>17. \A t \in Stream : Range(W2[t]) \subseteq DOMAIN blk /\ IsInjective(W2[t])
  BY <1>1, <1>2, <1>7
<1>18. P2 \subseteq P \cup {a} /\ P \subseteq P2 \cup {a} /\ L \subseteq L \cup {a}
       /\ P2 \in SUBSET DOMAIN blk /\ L \in SUBSET DOMAIN blk
  BY <1>0, <1>3
<1>moves. Moves(blk, r, a, P, L, W, P2, L, W2)
  BY <1>3, <1>9, <1>11, <1>14, <1>16, <1>17, <1>18 DEF Moves
<1>19. /\ Good(r, seg, P2, L, W2) /\ DOMAIN r = DOMAIN blk
       /\ \A x \in DOMAIN blk : r[x].next = blk[x].next /\ r[x].size = blk[x].size
       /\ \A S \in SUBSET DOMAIN blk : SizeSum(r, S) = SizeSum(blk, S)
  BY ONLY Good(blk, seg, P, L, W), <1>moves, MarkStep
<1>20. SizeSum(r, P2) = SizeSum(blk, P2) /\ SizeSum(r, L) = SizeSum(blk, L)
  BY <1>18, <1>19
<1>21. SizeSum(blk, P2) = SizeSum(blk, P) + (IF r[a].event_count = 0 THEN blk[a].size ELSE 0)
  <2>1. CASE r[a].event_count = 0
    <3>1. SizeSum(blk, P \cup {a}) = SizeSum(blk, P) + blk[a].size
      BY <1>0, <1>3, <1>6, SizeSumAdd
    <3>2. P2 = P \cup {a}
      BY <2>1
    <3> QED
      BY <2>1, <3>1, <3>2
  <2>2. CASE r[a].event_count # 0
    <3>1. SizeSum(blk, P) \in Nat
      BY <1>0, FiniteBlocks
    <3>2. P2 = P
      BY <2>2
    <3> QED
      BY <2>2, <3>1, <3>2
  <2> QED
    BY <2>1, <2>2
<1>22. Merged(blk, P) => Merged(r, P)
  BY <1>0, <1>19 DEF Merged
<1> QED
  BY <1>3, <1>6, <1>19, <1>20, <1>21, <1>22

\* record_stream adds to the uses of a live block.
LEMMA UsesStep ==
  ASSUME NEW blk, NEW seg, NEW P, NEW L, NEW W, Good(blk, seg, P, L, W),
         NEW a \in L, NEW u \in SUBSET Stream,
         NEW r, AddsUses(blk, r, a, u)
  PROVE  /\ Good(r, seg, P, L, W)
         /\ Merged(blk, P) => Merged(r, P)
         /\ SizeSum(r, P) = SizeSum(blk, P) /\ SizeSum(r, L) = SizeSum(blk, L)
<1> USE DEF AddsUses
<1>0. Blocks(blk) /\ Placed(blk, P, L, W) /\ a \in DOMAIN blk /\ P \subseteq DOMAIN blk
      /\ L \subseteq DOMAIN blk
  BY DEF Good, Heap, Placed
<1>1. blk[a] \in Block /\ InPlace(blk[a], a, P, L, W)
  BY <1>0 DEF Blocks, Placed
<1> DEFINE v == [blk[a] EXCEPT !.stream_uses = @ \cup u]
<1>2. /\ v \in Block /\ SameShape(v, blk[a]) /\ v.allocated = blk[a].allocated
      /\ v.event_count = blk[a].event_count
  BY <1>1 DEF Block, SameShape
<1>3. r = [blk EXCEPT ![a] = v] /\ r[a] = v /\ DOMAIN r = DOMAIN blk
      /\ \A x \in DOMAIN blk : x # a => r[x] = blk[x]
  BY <1>0
<1> HIDE DEF v
<1>4. InPlace(v, a, P, L, W)
  BY <1>1, <1>2 DEF InPlace
<1>5. \A s \in Stream : Range(W[s]) \subseteq DOMAIN blk /\ IsInjective(W[s])
  BY <1>0 DEF Placed
<1>moves. Moves(blk, r, a, P, L, W, P, L, W)
  BY ONLY <1>0, <1>2, <1>3, <1>4, <1>5 DEF Moves
<1>6. /\ Good(r, seg, P, L, W) /\ DOMAIN r = DOMAIN blk
      /\ \A x \in DOMAIN blk : r[x].next = blk[x].next /\ r[x].size = blk[x].size
      /\ \A S \in SUBSET DOMAIN blk : SizeSum(r, S) = SizeSum(blk, S)
  BY ONLY Good(blk, seg, P, L, W), <1>moves, MarkStep
<1>7. Merged(blk, P) => Merged(r, P)
  BY <1>0, <1>6 DEF Merged
<1> QED
  BY <1>0, <1>6, <1>7

\* The rest of a pooled block that is cut in two is pooled too.
LEMMA SplitStep ==
  ASSUME NEW blk, NEW seg, NEW P, NEW L, NEW W, Good(blk, seg, P, L, W),
         NEW a \in P, NEW k \in Nat \ {0}, k < blk[a].size,
         NEW rest, rest = a + k, NEW r, r = Split(blk, a, k)
  PROVE  /\ Good(r, seg, P \cup {rest}, L, W)
         /\ rest \notin P /\ rest # a
         /\ Merged(blk, P) => Merged(r, (P \cup {rest}) \ {a})
         /\ SizeSum(r, P \cup {rest}) = SizeSum(blk, P)
         /\ SizeSum(r, L) = SizeSum(blk, L)
         /\ r[a].size = k /\ a \in DOMAIN r
<1>0. Heap(blk, seg) /\ Placed(blk, P, L, W) /\ P \subseteq DOMAIN blk /\ L \subseteq DOMAIN blk
      /\ a \in DOMAIN blk /\ Blocks(blk)
  BY DEF Good, Heap, Placed
<1>1. /\ rest \notin DOMAIN blk /\ rest # a /\ rest \in Addr
      /\ DOMAIN r = DOMAIN blk \cup {rest}
      /\ r[a].size = k /\ r[a].next = rest
      /\ r[rest].size = blk[a].size - k /\ r[rest].next = blk[a].next
      /\ \A x \in DOMAIN blk \ {a} : r[x].size = blk[x].size /\ r[x].next = blk[x].next
      /\ \A x \in DOMAIN blk : SamePlace(r[x], blk[x])
      /\ SamePlace(r[rest], blk[a])
      /\ Blocks(r)
  BY <1>0, SplitFields
<1>2. Heap(r, seg)
  BY <1>0, SplitHeap
<1>3. a \notin L /\ On(W, a) = {} /\ InPlace(blk[a], a, P, L, W)
  BY <1>0 DEF Placed, InPlace
<1>4. rest \notin L /\ On(W, rest) = {}
  BY <1>0, <1>1 DEF Placed, On
<1>5. Placed(r, P \cup {rest}, L, W)
  <2>1. \A x \in DOMAIN r : InPlace(r[x], x, P \cup {rest}, L, W)
    <3> SUFFICES ASSUME NEW x \in DOMAIN r PROVE InPlace(r[x], x, P \cup {rest}, L, W)
      OBVIOUS
    <3>1. CASE x = rest
      BY <1>1, <1>3, <1>4, <3>1 DEF InPlace, SamePlace
    <3>2. CASE x # rest
      <4>1. x \in DOMAIN blk /\ SamePlace(r[x], blk[x]) /\ InPlace(blk[x], x, P, L, W)
        BY <1>0, <1>1, <3>2 DEF Placed
      <4> QED
        BY <3>2, <4>1 DEF InPlace, SamePlace
    <3> QED
      BY <3>1, <3>2
  <2>2. P \cup {rest} \subseteq DOMAIN r /\ L \subseteq DOMAIN r /\ DOMAIN blk \subseteq DOMAIN r
    BY <1>0, <1>1
  <2>3. \A s \in Stream : Range(W[s]) \subseteq DOMAIN r /\ IsInjective(W[s])
    BY <1>0, <2>2 DEF Placed
  <2> QED
    BY <2>1, <2>2, <2>3 DEF Placed
<1>6. Merged(blk, P) => Merged(r, (P \cup {rest}) \ {a})
  <2> SUFFICES ASSUME Merged(blk, P), NEW x \in (P \cup {rest}) \ {a}
               PROVE  r[x].next \notin (P \cup {rest}) \ {a}
    BY DEF Merged
  <2>1. r[x].next # rest
    <3> SUFFICES ASSUME r[x].next = rest PROVE FALSE
      OBVIOUS
    <3>1. x \in DOMAIN r /\ a \in DOMAIN r /\ rest # null
      BY <1>0, <1>1, AddrFacts
    <3>2. x = a
      BY <1>1, <1>2, <3>1, Neighbours
    <3> QED
      BY <3>2
  <2>2. r[x].next \notin P
    BY <1>0, <1>1 DEF Merged
  <2> QED
    BY <2>1, <2>2
<1> DEFINE Q == P \cup {rest}
<1>7. SizeSum(r, Q) = SizeSum(blk, P)
  <2> DEFINE f == [x \in DOMAIN blk |-> blk[x].size]
             g == [x \in DOMAIN r |-> r[x].size]
             Q1 == Q \ {rest}
             R == P \ {a}
  <2>1. \A x \in Q : g[x] \in Nat /\ g[x] = r[x].size
    <3> SUFFICES ASSUME NEW x \in Q PROVE r[x].size \in Nat /\ x \in DOMAIN r
      OBVIOUS
    <3>1. x \in DOMAIN r /\ r[x] \in Block
      BY <1>0, <1>1 DEF Blocks
    <3> QED
      BY <3>1, BlockFields
  <2>2. \A x \in P : f[x] \in Nat /\ f[x] = blk[x].size
    <3> SUFFICES ASSUME NEW x \in P PROVE blk[x].size \in Nat /\ x \in DOMAIN blk
      OBVIOUS
    <3>1. x \in DOMAIN blk /\ blk[x] \in Block
      BY <1>0 DEF Blocks
    <3> QED
      BY <3>1, BlockFields
  <2>3. Q \subseteq DOMAIN r /\ P \subseteq DOMAIN r
    BY <1>0, <1>1
  <2>4. IsFiniteSet(Q) /\ IsFiniteSet(P) /\ IsFiniteSet(R) /\ Q1 = P
    <3>1. IsFiniteSet(Q) /\ IsFiniteSet(P)
      BY <1>0, <1>1, <2>3, FiniteBlocks
    <3> QED
      BY <1>0, <1>1, <3>1, FS_RemoveElement
  <2>5. \A x \in R : g[x] = f[x]
    BY <1>0, <1>1, <2>1, <2>2
  <2>6. g[rest] = f[a] - k /\ g[a] = k /\ f[a] \in Nat
    BY <1>1, <2>1, <2>2
  <2> HIDE DEF f, g
  <2>7. SumFunctionOnSet(g, Q) = g[rest] + SumFunctionOnSet(g, P)
    <3>1. rest \in Q /\ IsFiniteSet(Q) /\ \A x \in Q : g[x] \in Nat
      BY <2>1, <2>4
    <3> HIDE DEF Q
    <3>2. SumFunctionOnSet(g, Q) = g[rest] + SumFunctionOnSet(g, Q \ {rest})
      BY ONLY <3>1, SumTakes
    <3>3. SumFunctionOnSet(g, Q \ {rest}) = SumFunctionOnSet(g, P)
      BY <2>4
    <3> QED
      BY <3>2, <3>3
  <2>8. SumFunctionOnSet(g, P) = g[a] + SumFunctionOnSet(g, R)
    <3>1. \A x \in P : g[x] \in Nat
      BY <2>1
    <3> QED
      BY <2>4, <3>1, SumTakes
  <2>9. SumFunctionOnSet(f, P) = f[a] + SumFunctionOnSet(f, R) /\ SumFunctionOnSet(f, R) \in Nat
    <3>1. \A x \in P : f[x] \in Nat
      BY <2>2
    <3> QED
      BY <2>4, <3>1, SumTakes
  <2>10. SumFunctionOnSet(g, R) = SumFunctionOnSet(f, R)
    BY <2>4, <2>5, SumCongruence
  <2>11. SumFunctionOnSet(g, Q) = SumFunctionOnSet(f, P)
    <3> HIDE DEF Q, R
    <3> QED
      BY <2>6, <2>7, <2>8, <2>9, <2>10
  <2> QED
    BY <2>11 DEF SizeSum, f, g
<1>8. SizeSum(r, L) = SizeSum(blk, L)
  <2>1. L \subseteq DOMAIN r /\ \A x \in L : r[x].size = blk[x].size
    BY <1>0, <1>1, <1>3
  <2> QED
    BY <1>0, <1>1, <2>1, SizeSumSame
<1> QED
  BY <1>0, <1>1, <1>2, <1>5, <1>6, <1>7, <1>8 DEF Good

\* A new segment comes with one pooled block.
LEMMA AddStep ==
  ASSUME NEW blk, NEW seg, NEW P, NEW L, NEW W, Good(blk, seg, P, L, W),
         NEW base \in Addr, NEW n \in Nat \ {0}, base + n <= AddrLimit,
         \A b \in DOMAIN seg : b + seg[b] <= base \/ base + n <= b,
         NEW fresh \in Block, fresh.size = n, fresh.prev = null, fresh.next = null,
         fresh.segment_base = base, ~fresh.allocated, fresh.event_count = 0,
         fresh.stream_uses = {},
         NEW r, r = With(blk, base, fresh)
  PROVE  /\ base \notin DOMAIN blk /\ base \notin P /\ base \notin L
         /\ Good(r, With(seg, base, n), P \cup {base}, L, W)
         /\ Merged(blk, P) => Merged(r, P \cup {base})
         /\ SizeSum(r, P \cup {base}) = SizeSum(blk, P) + n
         /\ SizeSum(r, L) = SizeSum(blk, L)
         /\ r[base] = fresh
<1>0. Heap(blk, seg) /\ Placed(blk, P, L, W) /\ P \subseteq DOMAIN blk /\ L \subseteq DOMAIN blk
      /\ Blocks(blk)
  BY DEF Good, Heap, Placed
<1>1. base \notin DOMAIN blk /\ Heap(r, With(seg, base, n))
  BY <1>0, AddHeap
<1>2. /\ DOMAIN r = DOMAIN blk \cup {base} /\ r[base] = fresh
      /\ \A x \in DOMAIN blk : r[x] = blk[x]
  BY <1>1 DEF With
<1>3. Blocks(r)
  BY <1>1 DEF Heap
<1>4. base \notin P /\ base \notin L /\ On(W, base) = {}
  BY <1>0, <1>1 DEF Placed, On
<1>5. Placed(r, P \cup {base}, L, W)
  <2>1. \A x \in DOMAIN r : InPlace(r[x], x, P \cup {base}, L, W)
    <3> SUFFICES ASSUME NEW x \in DOMAIN r PROVE InPlace(r[x], x, P \cup {base}, L, W)
      OBVIOUS
    <3>1. CASE x = base
      <4>1. Cardinality(On(W, base)) = 0
        BY <1>4, FS_EmptySet
      <4>2. fresh.event_count = Cardinality(On(W, base))
        BY <4>1
      <4> QED
        BY <1>2, <1>4, <3>1, <4>2 DEF InPlace
    <3>2. CASE x # base
      <4>1. x \in DOMAIN blk /\ r[x] = blk[x] /\ InPlace(blk[x], x, P, L, W)
        BY <1>0, <1>2, <3>2 DEF Placed
      <4> QED
        BY <3>2, <4>1 DEF InPlace
    <3> QED
      BY <3>1, <3>2
  <2>2. P \cup {base} \subseteq DOMAIN r /\ L \subseteq DOMAIN r /\ DOMAIN blk \subseteq DOMAIN r
    BY <1>0, <1>2
  <2>3. \A s \in Stream : Range(W[s]) \subseteq DOMAIN r /\ IsInjective(W[s])
    BY <1>0, <2>2 DEF Placed
  <2> QED
    BY <2>1, <2>2, <2>3 DEF Placed
<1>6. Merged(blk, P) => Merged(r, P \cup {base})
  <2> SUFFICES ASSUME Merged(blk, P), NEW x \in P \cup {base}
               PROVE  r[x].next \notin P \cup {base}
    BY DEF Merged
  <2>1. CASE x = base
    BY <1>0, <1>2, <2>1, AddrFacts DEF Blocks
  <2>2. CASE x # base
    <3>1. x \in P /\ r[x].next = blk[x].next /\ blk[x].next \notin P
      BY <1>0, <1>2, <2>2 DEF Merged
    <3>2. blk[x].next # base
      <4>1. blk[x].next = null \/ blk[x].next \in DOMAIN blk
        BY <1>0, <3>1, HeapFacts
      <4>2. base # null
        BY AddrFacts
      <4> QED
        BY <1>1, <4>1, <4>2
    <3> QED
      BY <3>1, <3>2
  <2> QED
    BY <2>1, <2>2
<1>7. SizeSum(r, P \cup {base}) = SizeSum(r, P) + n
  <2>1. P \subseteq DOMAIN r /\ base \in DOMAIN r /\ r[base].size = n
    BY <1>0, <1>2
  <2>2. SizeSum(r, P \cup {base}) = SizeSum(r, P) + r[base].size
    BY <1>3, <1>4, <2>1, SizeSumAdd
  <2> QED
    BY <2>1, <2>2
<1>8. SizeSum(r, P) = SizeSum(blk, P) /\ SizeSum(r, L) = SizeSum(blk, L)
  <2>1. \A S : S \subseteq DOMAIN blk => S \subseteq DOMAIN r /\ \A x \in S : r[x].size = blk[x].size
    BY <1>2
  <2> QED
    BY <1>0, <1>3, <2>1, SizeSumSame
<1> QED
  BY <1>1, <1>2, <1>4, <1>5, <1>6, <1>7, <1>8 DEF Good

\* A pooled block without neighbours goes back to the driver with its segment.
LEMMA RemoveStep ==
  ASSUME NEW blk, NEW seg, NEW P, NEW L, NEW W, Good(blk, seg, P, L, W),
         NEW a \in P, ~is_split(blk[a]), NEW r, r = Without(blk, a)
  PROVE  /\ blk[a].segment_base = a /\ a \in DOMAIN seg /\ seg[a] = blk[a].size
         /\ Good(r, Without(seg, a), P \ {a}, L, W)
         /\ Merged(blk, P) => Merged(r, P \ {a})
         /\ SizeSum(r, P \ {a}) = SizeSum(blk, P) - blk[a].size
         /\ SizeSum(r, L) = SizeSum(blk, L)
<1>0. Heap(blk, seg) /\ Placed(blk, P, L, W) /\ P \subseteq DOMAIN blk /\ L \subseteq DOMAIN blk
      /\ Blocks(blk) /\ a \in DOMAIN blk
  BY DEF Good, Heap, Placed
<1>1. /\ blk[a].segment_base = a /\ a \in DOMAIN seg /\ seg[a] = blk[a].size
      /\ Heap(r, Without(seg, a))
  BY <1>0, RemoveHeap
<1>2. DOMAIN r = DOMAIN blk \ {a} /\ \A x \in DOMAIN r : r[x] = blk[x]
  BY DEF Without, Restrict
<1>3. Blocks(r)
  BY <1>1 DEF Heap
<1>4. a \notin L /\ On(W, a) = {}
  BY <1>0 DEF Placed, InPlace
<1>5. Placed(r, P \ {a}, L, W)
  <2>1. \A x \in DOMAIN r : InPlace(r[x], x, P \ {a}, L, W)
    <3> SUFFICES ASSUME NEW x \in DOMAIN r PROVE InPlace(r[x], x, P \ {a}, L, W)
      OBVIOUS
    <3>1. x \in DOMAIN blk /\ x # a /\ r[x] = blk[x] /\ InPlace(blk[x], x, P, L, W)
      BY <1>0, <1>2 DEF Placed
    <3> QED
      BY <3>1 DEF InPlace
  <2>2. P \ {a} \subseteq DOMAIN r /\ L \subseteq DOMAIN r
    BY <1>0, <1>2, <1>4
  <2>3. \A s \in Stream : Range(W[s]) \subseteq DOMAIN r /\ IsInjective(W[s])
    <3> SUFFICES ASSUME NEW s \in Stream
                 PROVE  Range(W[s]) \subseteq DOMAIN r /\ IsInjective(W[s])
      OBVIOUS
    <3>1. Range(W[s]) \subseteq DOMAIN blk /\ IsInjective(W[s]) /\ a \notin Range(W[s])
      BY <1>0, <1>4 DEF Placed, On
    <3> QED
      BY <1>2, <3>1
  <2> QED
    BY <2>1, <2>2, <2>3 DEF Placed
<1>6. Merged(blk, P) => Merged(r, P \ {a})
  <2> SUFFICES ASSUME Merged(blk, P), NEW x \in P \ {a} PROVE r[x].next \notin P \ {a}
    BY DEF Merged
  <2>1. r[x] = blk[x]
    BY <1>0, <1>2
  <2> QED
    BY <2>1 DEF Merged
<1>7. SizeSum(r, P \ {a}) = SizeSum(blk, P \ {a}) /\ SizeSum(r, L) = SizeSum(blk, L)
  <2>1. /\ P \ {a} \subseteq DOMAIN blk /\ P \ {a} \subseteq DOMAIN r /\ L \subseteq DOMAIN r
        /\ \A x \in DOMAIN r : r[x].size = blk[x].size
    BY <1>0, <1>2, <1>4
  <2> DEFINE Q == P \ {a}
  <2> HIDE DEF Q
  <2>2. Q \subseteq DOMAIN blk /\ Q \subseteq DOMAIN r
    BY <2>1 DEF Q
  <2>3. SizeSum(r, Q) = SizeSum(blk, Q)
    BY <1>3, <2>1, <2>2, SizeSumSame
  <2>4. SizeSum(r, L) = SizeSum(blk, L)
    BY <1>0, <1>3, <2>1, SizeSumSame
  <2> QED
    BY <2>3, <2>4 DEF Q
<1>8. SizeSum(blk, P \ {a}) = SizeSum(blk, P) - blk[a].size
  BY <1>0, SizeSumRemove
<1> QED
  BY <1>1, <1>5, <1>6, <1>7, <1>8 DEF Good

-----------------------------------------------------------------------------
(* The allocator.                                                          *)

Waits == [s \in Stream |-> Waiting(s)]

\* The heap, its pool, its live blocks and its events; and the byte counts.
Sound ==
  /\ Good(block, segment, pool, live, Waits)
  /\ Merged(block, pool)
  /\ bytes_cached = SizeSum(block, pool)
  /\ bytes_allocated = SizeSum(block, live)
  /\ bytes_reserved = SumFunction(segment)

\* Segments the driver has handed out and nobody has booked yet.
Unbooked == {ptr[t] : t \in {u \in Thread : pc[u] = "mapped"}}

Backed ==
  /\ DOMAIN segment \cup Unbooked \subseteq DOMAIN device
  /\ DOMAIN device = DOMAIN segment \cup Unbooked \/ SegmentsMayLeak
  /\ \A b \in DOMAIN segment : device[b] = segment[b]

\* What TypeOK adds to Sound.
Types ==
  /\ lock \in Thread \cup {NoThread}
  /\ queue \in [Stream -> Seq(Addr)]
  /\ DOMAIN segment \subseteq Base
  /\ DOMAIN device \subseteq Base /\ \A b \in DOMAIN device : device[b] \in Nat \ {0}
  /\ max_cached_bytes \in CapChoices \cup {Unlimited}
  /\ allowed_memory_maximum \in MaxChoices \cup {Unlimited}
  /\ ptr \in [Thread -> Addr \cup {null}]
  /\ synced \in [Stream -> Nat]
  /\ DOMAIN declared = live

PInv ==
  /\ Types
  /\ CallTypes
  /\ LockInv
  /\ CallInv
  /\ SyncedInv
  /\ DeviceInv
  /\ Backed
  /\ Sound

-----------------------------------------------------------------------------
(* PInv says what AInv says. *)

LEMMA ReservedIsNat ==
  ASSUME NEW seg, Segments(seg), DOMAIN seg \subseteq Addr
  PROVE  IsFiniteSet(DOMAIN seg) /\ SumFunction(seg) \in Nat
<1>1. AddrLimit - 1 \in Int /\ IsFiniteSet(0 .. (AddrLimit - 1))
  BY AddrFacts, FS_Interval
<1>2. DOMAIN seg \subseteq 0 .. (AddrLimit - 1)
  BY DEF Addr
<1>3. IsFiniteSet(DOMAIN seg)
  BY <1>1, <1>2, FS_Subset
<1>4. \A x \in DOMAIN seg : seg[x] \in Nat
  BY DEF Segments
<1>5. SumFunctionOnSet(seg, DOMAIN seg) \in Nat
  BY <1>3, <1>4, SumIsNat
<1> QED
  BY <1>3, <1>5 DEF SumFunction

LEMMA SoundHeap ==
  ASSUME Sound
  PROVE  HeapInv /\ Coalesced
<1>1. Heap(block, segment) /\ Merged(block, pool)
  BY DEF Sound, Good
<1>2. Tiled
  BY <1>1 DEF Heap, InTile, Tiled
<1>3. LinksBack /\ Apart
  BY <1>1 DEF Heap, LinksBack, Apart
<1>4. Coalesced
  BY <1>1 DEF Merged, Coalesced
<1> QED
  BY <1>2, <1>3, <1>4 DEF HeapInv

LEMMA SoundSorted ==
  ASSUME Sound
  PROVE  Sorted
<1>1. Placed(block, pool, live, Waits)
  BY DEF Sound, Good
<1>2. \A s \in Stream : Waits[s] = Waiting(s)
  BY DEF Waits
<1>3. \A a : On(Waits, a) = WaitsOn(a)
  BY <1>2 DEF On, WaitsOn
<1>4. pool \cup live \cup UNION {Range(Waiting(s)) : s \in Stream} \subseteq DOMAIN block
  BY <1>1, <1>2 DEF Placed
<1>5. \A s \in Stream : IsInjective(Waiting(s))
  BY <1>1, <1>2 DEF Placed
<1>6. ASSUME NEW a \in DOMAIN block
      PROVE  /\ block[a].allocated <=> a \in live
             /\ block[a].event_count = Cardinality(WaitsOn(a))
             /\ a \in pool <=> a \notin live /\ WaitsOn(a) = {} /\ ~Stranded(a)
             /\ a \in live \/ Stranded(a) => WaitsOn(a) = {}
             /\ Stranded(a) => "device_late" \in Faults
  <2>1. InPlace(block[a], a, pool, live, Waits) /\ On(Waits, a) = WaitsOn(a)
    BY <1>1, <1>3 DEF Placed
  <2> QED
    BY <2>1 DEF InPlace, Stranded
<1> QED
  BY <1>4, <1>5, <1>6 DEF Sorted

LEMMA PInvGivesAInv ==
  ASSUME PInv
  PROVE  AInv
<1>1. HeapInv /\ Coalesced /\ Sorted
  BY SoundHeap, SoundSorted DEF PInv
<1>2. Heap(block, segment) /\ Blocks(block) /\ Segments(segment)
      /\ pool \subseteq DOMAIN block /\ live \subseteq DOMAIN block
  BY DEF PInv, Sound, Good, Heap, Placed
<1>3. \A S : TotalSize(S) = SizeSum(block, S)
  BY DEF TotalSize, SizeSum
<1>4. Accounted
  BY <1>3 DEF PInv, Sound, Backed, Unbooked, Accounted
<1>5. bytes_cached \in Nat /\ bytes_allocated \in Nat
  BY <1>2, FiniteBlocks DEF PInv, Sound
<1>6. bytes_reserved \in Nat
  <2>1. DOMAIN segment \subseteq Addr
    BY <1>2 DEF Heap, Blocks
  <2> QED
    BY <1>2, <2>1, ReservedIsNat DEF PInv, Sound
<1>7. TypeOK
  BY <1>2, <1>5, <1>6 DEF PInv, Types, Blocks, Segments, TypeOK
<1> QED
  BY <1>1, <1>4, <1>7 DEF PInv, AInv

-----------------------------------------------------------------------------
(* Sequences of waiting events. *)

LEMMA WaitsType ==
  ASSUME Types
  PROVE  Waits \in [Stream -> Seq(Addr)]
<1> SUFFICES ASSUME NEW s \in Stream PROVE Waiting(s) \in Seq(Addr)
  BY DEF Waits
<1>1. queue[s] \in Seq(Addr) /\ synced[s] \in Nat
  BY DEF Types
<1> QED
  BY <1>1 DEF Waiting

\* The holder of the mutex is the only thread inside, and unless it flushes
\* no queue is half recycled.
LEMMA HolderAlone ==
  ASSUME PInv, NEW t \in Thread, pc[t] \in LockedLabels
  PROVE  /\ lock = t
         /\ \A u \in Thread : pc[u] \in LockedLabels => u = t
BY DEF PInv, LockInv

LEMMA NothingHalfDone ==
  ASSUME PInv, \A u \in Thread : pc[u] # "flush"
  PROVE  /\ \A s \in Stream : synced[s] = 0 /\ Waiting(s) = queue[s]
         /\ synced = [s \in Stream |-> 0]
<1>1. \A s \in Stream : synced[s] = 0
  BY DEF PInv, SyncedInv
<1>2. \A s \in Stream : Waiting(s) = queue[s]
  <2> SUFFICES ASSUME NEW s \in Stream PROVE Waiting(s) = queue[s]
    OBVIOUS
  <2>1. queue[s] \in Seq(Addr) /\ synced[s] = 0
    BY <1>1 DEF PInv, Types
  <2>2. SubSeq(queue[s], 1, Len(queue[s])) = queue[s]
    BY <2>1, SubSeqFull
  <2> QED
    BY <2>1, <2>2 DEF Waiting
<1>3. synced \in [Stream -> Nat]
  BY DEF PInv, Types
<1> QED
  BY <1>1, <1>2, <1>3

-----------------------------------------------------------------------------
(* What a step of one thread leaves of each part of the invariant. *)

\* CallInv, of one thread.
CallOK(t) ==
  /\ pc[t] = "poll" => after[t] \in {"search", "free"}
  /\ pc[t] = "flush" => after[t] \in {"return", "recheck", "driver_retry"}
  /\ nested[t] => \/ pc[t] \in {"free", "trim"}
                  \/ pc[t] = "poll" /\ after[t] = "free"
                  \/ pc[t] = "flush" /\ after[t] = "return"
  /\ Requesting(t) => req[t].stream \in Stream
  /\ pc[t] = "free" \/ (pc[t] = "poll" /\ after[t] = "free") => ptr[t] \in live

\* The threads other than t stay where they are.
OthersKept(t) ==
  \A u \in Thread \ {t} :
    /\ pc'[u] = pc[u] /\ req'[u] = req[u] /\ ptr'[u] = ptr[u] /\ hint'[u] = hint[u]
    /\ after'[u] = after[u] /\ nested'[u] = nested[u]

\* The mutex is taken, kept or dropped by t alone.
LockStep(t) ==
  \/ /\ lock \in {t, NoThread} /\ lock' \in {t, NoThread}
     /\ pc'[t] \in LockedLabels <=> lock' = t
  \/ lock' = lock /\ pc[t] \in OpenLabels /\ pc'[t] \in OpenLabels

LEMMA LabelsApart == LockedLabels \cap OpenLabels = {}
BY DEF LockedLabels, OpenLabels

LEMMA CallInvIsCallOK == CallInv <=> \A t \in Thread : CallOK(t)
BY DEF CallInv, CallOK

LEMMA LockKept ==
  ASSUME LockInv, NEW t \in Thread, OthersKept(t), LockStep(t), Types, Types'
  PROVE  LockInv'
<1> SUFFICES ASSUME NEW u \in Thread PROVE pc'[u] \in LockedLabels <=> lock' = u
  BY DEF LockInv
<1>1. NoThread \notin Thread
  BY AllocatorAssumption
<1>2. CASE u = t
  BY <1>1, <1>2, LabelsApart DEF LockStep, LockInv
<1>3. CASE u # t
  <2>1. pc'[u] = pc[u]
    BY <1>3 DEF OthersKept
  <2> QED
    BY <1>1, <1>3, <2>1, LabelsApart DEF LockStep, LockInv
<1> QED
  BY <1>2, <1>3

LEMMA CallKept ==
  ASSUME PInv, NEW t \in Thread, OthersKept(t), CallOK(t)',
         live \subseteq live' \/ pc[t] \in LockedLabels
  PROVE  CallInv'
<1> SUFFICES ASSUME NEW u \in Thread, u # t PROVE CallOK(u)'
  BY DEF CallInv, CallOK
<1>1. CallOK(u)
  BY CallInvIsCallOK DEF PInv
<1>2. /\ pc'[u] = pc[u] /\ req'[u] = req[u] /\ ptr'[u] = ptr[u]
      /\ after'[u] = after[u] /\ nested'[u] = nested[u]
  BY DEF OthersKept
<1>3. pc[u] \in LockedLabels => live \subseteq live'
  BY HolderAlone
<1>4. Requesting(u)' = Requesting(u)
  BY <1>2 DEF Requesting
<1>5. pc[u] = "free" \/ (pc[u] = "poll" /\ after[u] = "free") => ptr[u] \in live'
  BY <1>1, <1>3 DEF CallOK, LockedLabels
<1> QED
  BY <1>1, <1>2, <1>4, <1>5 DEF CallOK

LEMMA SyncedKept ==
  ASSUME SyncedInv, Types, NEW t \in Thread, OthersKept(t), UNCHANGED <<queue, synced>>,
         pc[t] # "flush" \/ pc'[t] = "flush" \/ NoEventQueued
  PROVE  SyncedInv'
<1>1. \A s \in Stream : synced'[s] # 0 => synced'[s] < Len(queue'[s])
  BY DEF SyncedInv
<1>2. (\E s \in Stream : synced'[s] # 0) => \E u \in Thread : pc'[u] = "flush"
  <2> SUFFICES ASSUME NEW s \in Stream, synced[s] # 0
               PROVE  \E u \in Thread : pc'[u] = "flush"
    OBVIOUS
  <2>1. PICK u \in Thread : pc[u] = "flush"
    BY DEF SyncedInv
  <2>2. CASE u = t /\ NoEventQueued
    <3>1. synced[s] < Len(queue[s]) /\ queue[s] = <<>> /\ synced[s] \in Nat
      BY <2>2 DEF SyncedInv, NoEventQueued, Types
    <3> QED
      BY <3>1
  <2> QED
    BY <2>1, <2>2 DEF OthersKept
<1> QED
  BY <1>1, <1>2 DEF SyncedInv

LEMMA SegmentSizeKept ==
  ASSUME NEW u, req'[u] = req[u]
  PROVE  SegmentSize(u)' = SegmentSize(u)
BY DEF SegmentSize, Rounded

LEMMA DeviceKept ==
  ASSUME DeviceInv, Backed, NEW t \in Thread, OthersKept(t), UNCHANGED <<segment, device>>,
         pc[t] # "mapped", pc'[t] # "mapped"
  PROVE  DeviceInv' /\ Backed'
<1>1. \A u \in Thread : pc'[u] = "mapped" <=> pc[u] = "mapped"
  BY DEF OthersKept
<1>2. \A u \in Thread : pc[u] = "mapped" => ptr'[u] = ptr[u] /\ req'[u] = req[u]
  BY DEF OthersKept
<1>3. \A u \in Thread : pc[u] = "mapped" => SegmentSize(u)' = SegmentSize(u)
  BY <1>2, SegmentSizeKept
<1>4. DeviceInv'
  BY <1>1, <1>2, <1>3 DEF DeviceInv
<1>5. Unbooked' = Unbooked
  BY <1>1, <1>2 DEF Unbooked
<1> QED
  BY <1>4, <1>5 DEF Backed

LEMMA SoundKept ==
  ASSUME Sound, UNCHANGED <<core, bytes, synced>>
  PROVE  Sound'
<1>1. Waits' = Waits
  BY DEF core, Waits, Waiting
<1> QED
  BY <1>1 DEF Sound, core, bytes

\* A step that only moves a thread from one place of the code to another.
LEMMA ControlStep ==
  ASSUME PInv, NEW t \in Thread, OthersKept(t), LockStep(t), Types', CallTypes', CallOK(t)',
         UNCHANGED <<core, bytes, synced, device>>,
         pc[t] # "mapped", pc'[t] # "mapped",
         pc[t] # "flush" \/ pc'[t] = "flush" \/ NoEventQueued
  PROVE  PInv'
<1>1. LockInv'
  BY LockKept DEF PInv
<1>2. CallInv'
  BY CallKept DEF core
<1>3. SyncedInv'
  BY SyncedKept DEF PInv, core
<1>4. DeviceInv' /\ Backed'
  BY DeviceKept DEF PInv, core
<1>5. Sound'
  BY SoundKept DEF PInv
<1> QED
  BY <1>1, <1>2, <1>3, <1>4, <1>5 DEF PInv

-----------------------------------------------------------------------------
(* The steps that only move a thread. *)

Labels == LockedLabels \cup OpenLabels

LEMMA CallFunctions ==
  ASSUME PInv
  PROVE  /\ pc \in [Thread -> Labels]
         /\ req \in [Thread -> [size : Nat, stream : Stream \cup {DefaultStream}, limit : Nat]]
         /\ ptr \in [Thread -> Addr \cup {null}]
         /\ hint \in [Thread -> Stream \cup {DefaultStream}]
         /\ after \in [Thread -> {"idle", "search", "free", "return", "recheck", "driver_retry"}]
         /\ nested \in [Thread -> BOOLEAN]
BY DEF PInv, Types, CallTypes, Labels

\* A thread goes on to p, keeping its call; what it will do after it may be
\* settled on the way.
LEMMA GotoStep ==
  ASSUME PInv, NEW t \in Thread, NEW p \in Labels, Goto(t, p), LockStep(t),
         NEW q \in {"idle", "search", "free", "return", "recheck", "driver_retry"},
         after' = [after EXCEPT ![t] = q],
         UNCHANGED <<core, bytes, limits, req, ptr, hint, nested, synced, world>>,
         lock' \in Thread \cup {NoThread},
         CallOK(t)',
         pc[t] # "mapped", p # "mapped",
         pc[t] # "flush" \/ NoEventQueued
  PROVE  PInv'
<1>1. OthersKept(t) /\ pc'[t] = p
  BY CallFunctions DEF OthersKept, Goto
<1>2. Types'
  BY DEF PInv, Types, core, limits, world
<1>3. CallTypes'
  <2>1. pc' \in [Thread -> LockedLabels \cup OpenLabels]
    BY CallFunctions DEF Goto, Labels
  <2>2. after' \in [Thread -> {"idle", "search", "free", "return", "recheck", "driver_retry"}]
    BY CallFunctions
  <2> QED
    BY <2>1, <2>2, CallFunctions DEF CallTypes
<1> QED
  BY <1>1, <1>2, <1>3, ControlStep DEF world

LEMMA AfterSame ==
  ASSUME PInv, NEW t \in Thread
  PROVE  /\ after = [after EXCEPT ![t] = after[t]]
         /\ after[t] \in {"idle", "search", "free", "return", "recheck", "driver_retry"}
BY CallFunctions

LEMMA ThrowStep ==
  ASSUME PInv, NEW t \in Thread, Throw(t), UNCHANGED <<core, bytes, limits, world>>,
         pc[t] # "flush", pc[t] # "mapped"
  PROVE  PInv'
<1>1. OthersKept(t)
  BY CallFunctions DEF OthersKept, Throw
<1>2. pc'[t] = "idle" /\ ~nested'[t] /\ after'[t] = "idle"
      /\ lock' = IF lock = t THEN NoThread ELSE lock
  BY CallFunctions DEF Throw
<1>3. NoThread \notin Thread /\ "idle" \in OpenLabels /\ "idle" \notin LockedLabels
  BY AllocatorAssumption DEF OpenLabels, LockedLabels
<1>4. pc[t] \in LockedLabels \cup OpenLabels
  BY CallFunctions DEF Labels
<1>5. LockStep(t)
  <2>1. CASE lock = t
    BY <1>2, <1>3, <2>1 DEF LockStep
  <2>2. CASE lock # t
    BY <1>2, <1>3, <1>4, <2>2 DEF LockStep, PInv, LockInv
  <2> QED
    BY <2>1, <2>2
<1>6. UNCHANGED synced
  <2>1. CASE lock = t
    <3>1. \A u \in Thread : pc[u] # "flush"
      BY <2>1 DEF PInv, LockInv, LockedLabels
    <3> QED
      BY <2>1, <3>1, NothingHalfDone DEF Throw
  <2>2. CASE lock # t
    BY <2>2 DEF Throw, PInv, Types
  <2> QED
    BY <2>1, <2>2
<1>7. Types'
  <2>1. ptr' \in [Thread -> Addr \cup {null}]
    BY CallFunctions DEF Throw
  <2> QED
    BY <1>2, <1>6, <2>1 DEF PInv, Types, core, limits, world
<1>8. CallTypes'
  <2>1. NoRequest \in [size : Nat, stream : Stream \cup {DefaultStream}, limit : Nat]
    BY AllocatorAssumption DEF NoRequest
  <2> QED
    BY <1>3, <2>1, CallFunctions DEF CallTypes, Throw, Labels
<1>9. CallOK(t)'
  BY <1>2 DEF CallOK, Requesting, OpenLabels
<1> QED
  BY <1>1, <1>2, <1>5, <1>6, <1>7, <1>8, <1>9, ControlStep DEF world

LEMMA LeaveStep ==
  ASSUME PInv, NEW t \in Thread, Leave(t), UNCHANGED <<core, bytes, limits, world>>,
         pc[t] = "trim" \/ (pc[t] = "flush" /\ after[t] = "return" /\ NoEventQueued)
  PROVE  PInv'
<1>1. OthersKept(t)
  BY CallFunctions DEF OthersKept, Leave
<1>2. /\ pc'[t] = IF nested[t] THEN "callback" ELSE "idle"
      /\ lock' = IF nested[t] THEN t ELSE NoThread
      /\ ~nested'[t] /\ after'[t] = "idle"
      /\ nested[t] => req'[t] = req[t]
  BY CallFunctions DEF Leave
<1>3. lock = t
  BY DEF PInv, LockInv, LockedLabels
<1>4. NoThread # t
  BY AllocatorAssumption
<1>5. LockStep(t)
  BY <1>2, <1>3, <1>4 DEF LockStep, LockedLabels
<1>6. Types'
  BY <1>2, CallFunctions DEF PInv, Types, core, limits, world, Leave, null
<1>7. CallTypes'
  <2>1. NoRequest \in [size : Nat, stream : Stream \cup {DefaultStream}, limit : Nat]
    BY AllocatorAssumption DEF NoRequest
  <2>2. "idle" \in LockedLabels \cup OpenLabels /\ "callback" \in LockedLabels \cup OpenLabels
    BY DEF OpenLabels, LockedLabels
  <2> QED
    BY <2>1, <2>2, CallFunctions DEF CallTypes, Leave, Labels
<1>8. CallOK(t)'
  <2>1. nested[t] => req[t].stream \in Stream
    BY CallInvIsCallOK DEF PInv, CallOK, Requesting
  <2> QED
    BY <1>2, <2>1 DEF CallOK, Requesting, OpenLabels
<1> QED
  BY <1>1, <1>2, <1>5, <1>6, <1>7, <1>8, ControlStep DEF world, Leave

\* A call begins, with the mutex free or from a callback that holds it.
LEMMA EnterStep ==
  ASSUME PInv, NEW t \in Thread,
         NEW where \in LockedLabels,
         NEW next \in {"idle", "search", "free", "return", "recheck", "driver_retry"},
         Enter(t, where, next),
         UNCHANGED <<core, bytes, allowed_memory_maximum, synced, world>>,
         max_cached_bytes' \in CapChoices \cup {Unlimited},
         req' \in [Thread -> [size : Nat, stream : Stream \cup {DefaultStream}, limit : Nat]],
         ptr' \in [Thread -> Addr \cup {null}],
         hint' \in [Thread -> Stream \cup {DefaultStream}],
         \A u \in Thread \ {t} : req'[u] = req[u] /\ ptr'[u] = ptr[u] /\ hint'[u] = hint[u],
         where # "flush" \/ next = "return",
         CallOK(t)'
  PROVE  PInv'
<1>1. OthersKept(t)
  BY CallFunctions DEF OthersKept, Enter
<1>2. pc'[t] = where /\ lock' = t
  BY CallFunctions DEF Enter
<1>3. lock \in {t, NoThread} /\ pc[t] # "flush" /\ pc[t] # "mapped"
  BY DEF PInv, LockInv, Enter, MayEnter, LockedLabels
<1>4. LockStep(t)
  BY <1>2, <1>3 DEF LockStep
<1>5. Types'
  BY <1>2 DEF PInv, Types, core, world
<1>6. CallTypes'
  BY CallFunctions DEF CallTypes, Enter, Labels
<1>7. where # "mapped"
  BY DEF LockedLabels
<1> QED
  BY <1>1, <1>2, <1>3, <1>4, <1>5, <1>6, <1>7, ControlStep DEF world

\* What a thread may enter with: nothing pending but, in a callback, an allocation.
LEMMA Entering ==
  ASSUME PInv, NEW t \in Thread, MayEnter(t)
  PROVE  pc[t] = "callback" => req[t].stream \in Stream
BY CallInvIsCallOK DEF PInv, CallOK, Requesting, MayEnter

LEMMA AllocateStep ==
  ASSUME PInv, NEW t \in Thread, NEW n \in Sizes, NEW s \in Stream, Allocate(t, n, s)
  PROVE  PInv'
<1>1. Enter(t, "poll", "search") /\ "poll" \in LockedLabels
  BY DEF Allocate, LockedLabels
<1>2. [size |-> n, stream |-> s, limit |-> allowed_memory_maximum]
        \in [size : Nat, stream : Stream \cup {DefaultStream}, limit : Nat]
  BY AllocatorAssumption DEF PInv, Types
<1>3. /\ req' \in [Thread -> [size : Nat, stream : Stream \cup {DefaultStream}, limit : Nat]]
      /\ req'[t].stream = s /\ \A u \in Thread \ {t} : req'[u] = req[u]
  BY <1>2, CallFunctions DEF Allocate
<1>4. /\ pc'[t] = "poll" /\ after'[t] = "search" /\ ~nested'[t]
  BY CallFunctions DEF Allocate, Enter
<1>5. CallOK(t)'
  BY <1>3, <1>4 DEF CallOK
<1> QED
  BY <1>1, <1>3, <1>5, CallFunctions, EnterStep DEF Allocate, limits, PInv, Types

LEMMA DeallocateStep ==
  ASSUME PInv, NEW t \in Thread, NEW a \in live, NEW s \in Stream \cup {DefaultStream},
         Deallocate(t, a, s)
  PROVE  PInv'
<1>1. Enter(t, "poll", "free") /\ "poll" \in LockedLabels /\ MayEnter(t)
  BY DEF Deallocate, LockedLabels, Enter
<1>2. a \in Addr
  BY AddrFacts DEF PInv, Sound, Good, Placed, Heap, Blocks
<1>3. ptr' \in [Thread -> Addr \cup {null}] /\ ptr'[t] = a
      /\ \A u \in Thread \ {t} : ptr'[u] = ptr[u]
  BY <1>2, CallFunctions DEF Deallocate
<1>4. hint' \in [Thread -> Stream \cup {DefaultStream}]
      /\ \A u \in Thread \ {t} : hint'[u] = hint[u]
  BY CallFunctions DEF Deallocate
<1>5. /\ pc'[t] = "poll" /\ after'[t] = "free" /\ nested'[t] = (pc[t] = "callback")
      /\ req' = req /\ live' = live
  BY CallFunctions DEF Deallocate, Enter, core
<1>6. CallOK(t)'
  BY <1>1, <1>3, <1>5, Entering DEF CallOK, Requesting, OpenLabels
<1> QED
  BY <1>1, <1>3, <1>4, <1>6, CallFunctions, EnterStep DEF Deallocate, limits, PInv, Types

LEMMA EmptyCacheStep ==
  ASSUME PInv, NEW t \in Thread, empty_cache(t)
  PROVE  PInv'
<1>1. Enter(t, "flush", "return") /\ "flush" \in LockedLabels /\ MayEnter(t)
  BY DEF empty_cache, LockedLabels, Enter
<1>2. /\ pc'[t] = "flush" /\ after'[t] = "return" /\ nested'[t] = (pc[t] = "callback")
      /\ req' = req
  BY CallFunctions DEF empty_cache, Enter
<1>3. CallOK(t)'
  BY <1>1, <1>2, Entering DEF CallOK, Requesting, OpenLabels
<1> QED
  BY <1>1, <1>3, CallFunctions, EnterStep DEF empty_cache, limits, PInv, Types

LEMMA SetCapStep ==
  ASSUME PInv, NEW t \in Thread, NEW n \in CapChoices, set_max_cached_bytes(t, n)
  PROVE  PInv'
<1>1. Enter(t, "trim", "idle") /\ "trim" \in LockedLabels
  BY DEF set_max_cached_bytes, LockedLabels
<1>2. pc'[t] = "trim" /\ after'[t] = "idle" /\ ~nested'[t]
  BY CallFunctions DEF set_max_cached_bytes, Enter
<1>3. CallOK(t)'
  BY <1>2 DEF CallOK, Requesting, OpenLabels
<1> QED
  BY <1>1, <1>3, CallFunctions, EnterStep DEF set_max_cached_bytes

\* Neither the clients' streams and declarations nor the memory limit are part of
\* the invariant.
LEMMA StutterStep ==
  ASSUME PInv, UNCHANGED <<lock, core, bytes, max_cached_bytes, pc, call, device>>,
         allowed_memory_maximum' \in MaxChoices \cup {Unlimited},
         DOMAIN declared' = DOMAIN declared
  PROVE  PInv'
<1>1. Types' /\ CallTypes'
  BY DEF PInv, Types, CallTypes, core, call
<1>2. LockInv' /\ CallInv' /\ SyncedInv'
  BY DEF PInv, LockInv, CallInv, SyncedInv, Requesting, core, call
<1>3. Sound'
  BY SoundKept DEF PInv, call
<1>4. \A u \in Thread : SegmentSize(u)' = SegmentSize(u)
  BY SegmentSizeKept DEF call
<1>5. DeviceInv'
  BY <1>4 DEF PInv, DeviceInv, core, call
<1>6. Backed'
  BY DEF PInv, Backed, Unbooked, core, call
<1> QED
  BY <1>1, <1>2, <1>3, <1>5, <1>6 DEF PInv

LEMMA SetFractionStep ==
  ASSUME PInv, NEW t \in Thread, NEW n \in MaxChoices, set_memory_fraction(t, n)
  PROVE  PInv'
<1>1. UNCHANGED <<lock, core, bytes, max_cached_bytes, pc, call, world>>
      /\ allowed_memory_maximum' = n
  BY DEF set_memory_fraction
<1> QED
  BY <1>1, StutterStep DEF world

LEMMA PollDoneStep ==
  ASSUME PInv, NEW t \in Thread, PollDone(t)
  PROVE  PInv'
<1>1. pc[t] = "poll" /\ after[t] \in {"search", "free"} /\ Goto(t, after[t])
      /\ after' = [after EXCEPT ![t] = "idle"] /\ CallOK(t)
  BY CallInvIsCallOK DEF PollDone, PInv, CallOK
<1>2. pc'[t] = after[t] /\ after'[t] = "idle" /\ nested' = nested /\ req' = req
      /\ ptr' = ptr /\ live' = live
  BY CallFunctions DEF PollDone, Goto, core
<1>3. CallOK(t)'
  BY <1>1, <1>2 DEF CallOK, Requesting, OpenLabels
<1>4. lock = t /\ lock' = t /\ after[t] \in Labels /\ after[t] \in LockedLabels
  BY <1>1, HolderAlone DEF LockedLabels, Labels, PollDone
<1>5. LockStep(t)
  BY <1>2, <1>4 DEF LockStep
<1> QED
  BY <1>1, <1>3, <1>4, <1>5, GotoStep DEF PollDone

LEMMA FlushDoneStep ==
  ASSUME PInv, NEW t \in Thread, FlushDone(t)
  PROVE  PInv'
<1>1. CASE after[t] = "return"
  BY <1>1, LeaveStep DEF FlushDone
<1>2. CASE after[t] # "return"
  <2>1. pc[t] = "flush" /\ after[t] \in {"recheck", "driver_retry"} /\ Goto(t, after[t])
        /\ after' = [after EXCEPT ![t] = "idle"] /\ CallOK(t) /\ NoEventQueued
        /\ UNCHANGED <<core, bytes, limits, req, ptr, hint, nested, synced, world>>
        /\ lock' = IF after[t] = "driver_retry" THEN NoThread ELSE lock
    BY <1>2, CallInvIsCallOK DEF FlushDone, PInv, CallOK
  <2>2. pc'[t] = after[t] /\ after'[t] = "idle"
    BY <2>1, CallFunctions DEF Goto
  <2>3. ~nested[t] /\ req[t].stream \in Stream
    BY <2>1 DEF CallOK, Requesting
  <2>4. CallOK(t)'
    BY <2>1, <2>2, <2>3 DEF CallOK, Requesting, OpenLabels
  <2>5. lock = t /\ NoThread # t
    BY <2>1, HolderAlone, AllocatorAssumption DEF LockedLabels
  <2>6. LockStep(t)
    BY <2>1, <2>2, <2>5 DEF LockStep, LockedLabels
  <2>7. after[t] \in Labels /\ after[t] # "mapped" /\ pc[t] # "mapped"
        /\ lock' \in Thread \cup {NoThread}
    BY <2>1, <2>5 DEF LockedLabels, OpenLabels, Labels
  <2> QED
    BY <2>1, <2>4, <2>6, <2>7, GotoStep
<1> QED
  BY <1>1, <1>2

\* A step that keeps the whole call but for its place, within the mutex or without.
LEMMA PlaceStep ==
  ASSUME PInv, NEW t \in Thread, NEW p \in Labels, Goto(t, p),
         UNCHANGED <<core, bytes, limits, call, world>>,
         \/ pc[t] \in LockedLabels \ {"flush"} /\ p \in LockedLabels \ {"free", "poll"}
            /\ lock' = lock
         \/ pc[t] \in LockedLabels \ {"flush"} /\ p \in OpenLabels /\ lock' = NoThread
         \/ pc[t] \in OpenLabels /\ p \in OpenLabels /\ lock' = lock,
         p = "flush" => after[t] \in {"return", "recheck", "driver_retry"},
         req[t].stream \in Stream, ~nested[t], pc[t] # "mapped", p # "mapped"
  PROVE  PInv'
<1>1. after' = [after EXCEPT ![t] = after[t]]
      /\ after[t] \in {"idle", "search", "free", "return", "recheck", "driver_retry"}
  BY AfterSame DEF call
<1>2. pc'[t] = p
  BY CallFunctions DEF Goto
<1>3. CallOK(t)'
  BY <1>2, LabelsApart DEF CallOK, call, LockedLabels, OpenLabels
<1>4. NoThread # t /\ (pc[t] \in LockedLabels => lock = t) /\ lock \in Thread \cup {NoThread}
  BY HolderAlone, AllocatorAssumption DEF PInv, Types
<1>5. LockStep(t) /\ lock' \in Thread \cup {NoThread}
  BY <1>2, <1>4, LabelsApart DEF LockStep
<1>6. pc[t] # "flush"
  BY DEF OpenLabels
<1> QED
  BY <1>1, <1>3, <1>5, <1>6, GotoStep DEF call

\* What an allocation that is past its poll knows of its call.
LEMMA InAllocation ==
  ASSUME PInv, NEW t \in Thread,
         pc[t] \in {"search", "research", "callback", "miss", "recheck"} \cup (OpenLabels \ {"idle"})
  PROVE  req[t].stream \in Stream /\ ~nested[t]
BY CallInvIsCallOK DEF PInv, CallOK, Requesting, OpenLabels

LEMMA RunCallbacksStep ==
  ASSUME PInv, NEW t \in Thread, RunCallbacks(t)
  PROVE  PInv'
<1>1. pc[t] = "search" /\ Goto(t, "callback")
      /\ UNCHANGED <<lock, core, bytes, limits, call, world>>
  BY DEF RunCallbacks
<1> QED
  BY <1>1, InAllocation, PlaceStep DEF LockedLabels, Labels

LEMMA CallbacksDoneStep ==
  ASSUME PInv, NEW t \in Thread, NEW freed \in BOOLEAN, CallbacksDone(t, freed)
  PROVE  PInv'
<1>1. pc[t] = "callback" /\ UNCHANGED <<lock, core, bytes, limits, call, world>>
  BY DEF CallbacksDone
<1>2. PICK p \in {"research", "miss"} : Goto(t, p)
  BY DEF CallbacksDone
<1>3. req[t].stream \in Stream /\ ~nested[t]
  BY <1>1, InAllocation
<1>4. p \in Labels /\ p \in LockedLabels \ {"free", "poll"} /\ p # "flush" /\ p # "mapped"
      /\ pc[t] \in LockedLabels \ {"flush"} /\ pc[t] # "mapped"
  BY <1>1 DEF LockedLabels, Labels
<1> QED
  BY <1>1, <1>2, <1>3, <1>4, PlaceStep

LEMMA MissStep ==
  ASSUME PInv, NEW t \in Thread, Miss(t)
  PROVE  PInv'
<1>1. pc[t] \in {"research", "miss"}
      /\ UNCHANGED <<core, bytes, limits, req, ptr, hint, nested, synced, world>>
  BY DEF Miss
<1>2. req[t].stream \in Stream /\ ~nested[t] /\ lock = t /\ NoThread # t
  BY <1>1, InAllocation, HolderAlone, AllocatorAssumption DEF LockedLabels
<1>3. CASE reserved_would_exceed(t)
  <2>1. Goto(t, "flush") /\ after' = [after EXCEPT ![t] = "recheck"] /\ lock' = lock
    BY <1>3 DEF Miss
  <2>2. pc'[t] = "flush" /\ after'[t] = "recheck"
    BY <2>1, CallFunctions DEF Goto
  <2>3. CallOK(t)'
    BY <1>1, <1>2, <2>2 DEF CallOK, Requesting, OpenLabels
  <2>4. LockStep(t)
    BY <1>2, <2>1, <2>2 DEF LockStep, LockedLabels
  <2>5. "flush" \in Labels /\ pc[t] # "mapped" /\ pc[t] # "flush"
    BY <1>1 DEF LockedLabels, Labels
  <2> QED
    BY <1>1, <1>2, <2>1, <2>3, <2>4, <2>5, GotoStep
<1>4. CASE ~reserved_would_exceed(t)
  <2>1. Goto(t, "driver") /\ lock' = NoThread
        /\ UNCHANGED <<core, bytes, limits, call, world>>
    BY <1>1, <1>4 DEF Miss, call
  <2>2. "driver" \in Labels /\ "driver" \in OpenLabels /\ pc[t] \in LockedLabels \ {"flush"}
        /\ pc[t] # "mapped"
    BY <1>1 DEF LockedLabels, OpenLabels, Labels
  <2> QED
    BY <1>2, <2>1, <2>2, PlaceStep
<1> QED
  BY <1>3, <1>4

LEMMA RecheckStep ==
  ASSUME PInv, NEW t \in Thread, Recheck(t)
  PROVE  PInv'
<1>1. pc[t] = "recheck" /\ UNCHANGED <<core, bytes, limits, world>>
  BY DEF Recheck
<1>2. pc[t] \in LockedLabels \ {"flush"} /\ pc[t] # "mapped"
      /\ "driver" \in Labels /\ "driver" \in OpenLabels
  BY <1>1 DEF LockedLabels, OpenLabels, Labels
<1>3. CASE reserved_would_exceed(t)
  BY <1>1, <1>2, <1>3, ThrowStep DEF Recheck
<1>4. CASE ~reserved_would_exceed(t)
  <2>1. Goto(t, "driver") /\ lock' = NoThread /\ UNCHANGED call
    BY <1>4 DEF Recheck
  <2> QED
    BY <1>1, <1>2, <2>1, InAllocation, PlaceStep
<1> QED
  BY <1>3, <1>4

\* Without the mutex: the driver has no memory, or fails.
LEMMA RefusedStep ==
  ASSUME PInv, NEW t \in Thread, NEW p \in {"refused", "exhausted"},
         pc[t] \in {"driver", "driver_retry"}, Goto(t, p),
         UNCHANGED <<lock, core, bytes, limits, call, world>>
  PROVE  PInv'
<1>1. p \in Labels /\ p \in OpenLabels /\ p # "mapped" /\ p # "flush" /\ pc[t] \in OpenLabels
      /\ pc[t] # "mapped" /\ pc[t] # "idle"
  BY DEF OpenLabels, Labels
<1> QED
  BY <1>1, InAllocation, PlaceStep

LEMMA FlushForRetryStep ==
  ASSUME PInv, NEW t \in Thread, FlushForRetry(t)
  PROVE  PInv'
<1>1. pc[t] = "refused" /\ lock = NoThread /\ lock' = t /\ Goto(t, "flush")
      /\ after' = [after EXCEPT ![t] = "driver_retry"]
      /\ UNCHANGED <<core, bytes, limits, req, ptr, hint, nested, synced, world>>
  BY DEF FlushForRetry
<1>2. pc'[t] = "flush" /\ after'[t] = "driver_retry"
  BY <1>1, CallFunctions DEF Goto
<1>3. req[t].stream \in Stream /\ ~nested[t]
  BY <1>1, InAllocation DEF OpenLabels
<1>4. CallOK(t)'
  BY <1>1, <1>2, <1>3 DEF CallOK, Requesting, OpenLabels
<1>5. LockStep(t) /\ "flush" \in Labels
  BY <1>1, <1>2 DEF LockStep, LockedLabels, Labels
<1> QED
  BY <1>1, <1>4, <1>5, GotoStep

-----------------------------------------------------------------------------
(* Events: polling and flushing recycle those that wait at the head of a   *)
(* queue.                                                                  *)

\* A step that changes the heap, put together from its parts.
LEMMA HeapStep ==
  ASSUME PInv, NEW t \in Thread, OthersKept(t), LockStep(t), Types', CallTypes', CallOK(t)',
         live \subseteq live' \/ pc[t] \in LockedLabels,
         SyncedInv', DeviceInv', Backed', Sound'
  PROVE  PInv'
BY LockKept, CallKept DEF PInv

LEMMA RecycleGood ==
  ASSUME PInv, NEW s \in Stream, NEW i, Waits[s] # <<>>, queue[s][i] = Head(Waits[s]),
         Recycle(s, i), NEW W2, W2 = [Waits EXCEPT ![s] = Tail(@)]
  PROVE  /\ Good(block', segment, pool', live, W2)
         /\ Merged(block', pool')
         /\ bytes_cached' = SizeSum(block', pool')
         /\ bytes_allocated = SizeSum(block', live)
<1> DEFINE a == queue[s][i]
           blk == [block EXCEPT ![a].event_count = @ - 1]
           last == blk[a].event_count = 0
           P2 == IF last THEN pool \cup {a} ELSE pool
<1>1. Good(block, segment, pool, live, Waits) /\ Merged(block, pool)
      /\ bytes_cached = SizeSum(block, pool) /\ bytes_allocated = SizeSum(block, live)
  BY DEF PInv, Sound
<1>2. Waits \in [Stream -> Seq(Addr)]
  BY WaitsType DEF PInv
<1>4. /\ block' = IF last THEN FreeBlock(blk, a).block ELSE blk
      /\ pool' = IF last THEN FreeBlock(blk, a).pool ELSE pool
      /\ bytes_cached' = bytes_cached + (IF last THEN block[a].size ELSE 0)
  BY DEF Recycle
<1>5. Ticks(block, blk, a, pool, P2, Waits, W2, s)
  BY DEF Ticks
<1>6. P2 = IF last THEN pool \cup {a} ELSE pool
  OBVIOUS
<1>7. last <=> blk[a].event_count = 0
  OBVIOUS
<1> HIDE DEF a, blk, last, P2
<1>8. /\ a \notin pool
      /\ Good(blk, segment, P2, live, W2) /\ Merged(blk, pool)
      /\ SizeSum(blk, live) = SizeSum(block, live)
      /\ SizeSum(blk, P2) = SizeSum(block, pool) + (IF last THEN block[a].size ELSE 0)
  <2>1. /\ a \in DOMAIN block /\ a \notin pool /\ a \notin live /\ a \in Addr
        /\ Good(blk, segment, P2, live, W2)
        /\ Merged(block, pool) => Merged(blk, pool)
        /\ SizeSum(blk, live) = SizeSum(block, live)
        /\ SizeSum(blk, P2) = SizeSum(block, pool)
                              + (IF blk[a].event_count = 0 THEN block[a].size ELSE 0)
    BY ONLY <1>1, <1>2, <1>5, EventStep, s \in Stream
  <2> QED
    BY ONLY <2>1, <1>1, <1>7
<1>9. CASE last
  <2>1. P2 = pool \cup {a}
    BY <1>6, <1>9
  <2>2. Good(blk, segment, pool \cup {a}, live, W2)
    BY <1>8, <2>1
  <2>3. /\ Good(FreeBlock(blk, a).block, segment, FreeBlock(blk, a).pool, live, W2)
        /\ Merged(FreeBlock(blk, a).block, FreeBlock(blk, a).pool)
        /\ SizeSum(FreeBlock(blk, a).block, FreeBlock(blk, a).pool) = SizeSum(blk, pool \cup {a})
        /\ SizeSum(FreeBlock(blk, a).block, live) = SizeSum(blk, live)
    BY ONLY <1>8, <2>2, FreeBlockGood
  <2>4. block' = FreeBlock(blk, a).block /\ pool' = FreeBlock(blk, a).pool
        /\ bytes_cached' = bytes_cached + block[a].size
    BY <1>4, <1>9
  <2>5. SizeSum(blk, pool \cup {a}) = SizeSum(block, pool) + block[a].size
    BY <1>8, <1>9, <2>1
  <2> QED
    BY ONLY <1>1, <1>8, <2>3, <2>4, <2>5
<1>10. CASE ~last
  <2>1. P2 = pool
    BY <1>6, <1>10
  <2>2. block' = blk /\ pool' = pool /\ bytes_cached' = bytes_cached + 0
    BY <1>4, <1>10
  <2>3. SizeSum(blk, pool) = SizeSum(block, pool) + 0
    BY <1>8, <1>10, <2>1
  <2>4. Good(blk, segment, pool, live, W2)
    BY <1>8, <2>1
  <2> QED
    BY ONLY <1>1, <1>8, <2>2, <2>3, <2>4
<1> QED
  BY <1>9, <1>10

\* What recycling an event leaves alone.
LEMMA KeepsCalls ==
  ASSUME PInv, NEW t \in Thread, pc[t] \in LockedLabels,
         UNCHANGED <<lock, live, segment, limits, pc, req, ptr, hint, after, nested, device>>,
         DOMAIN declared' = DOMAIN declared,
         queue' \in [Stream -> Seq(Addr)], synced' \in [Stream -> Nat]
  PROVE  /\ OthersKept(t) /\ LockStep(t) /\ Types' /\ CallTypes' /\ CallOK(t)'
         /\ DeviceInv' /\ Backed'
<1>1. CallOK(t)'
  <2>1. CallOK(t)
    BY CallInvIsCallOK DEF PInv
  <2> QED
    BY <2>1 DEF CallOK, Requesting
<1>2. LockStep(t)
  BY HolderAlone DEF LockStep
<1>3. Types' /\ CallTypes'
  BY DEF PInv, Types, CallTypes, limits
<1>4. \A u \in Thread : SegmentSize(u)' = SegmentSize(u)
  BY SegmentSizeKept
<1>5. DeviceInv'
  BY <1>4 DEF PInv, DeviceInv
<1>6. Backed'
  BY DEF PInv, Backed, Unbooked
<1>7. OthersKept(t)
  BY DEF OthersKept
<1> QED
  BY <1>1, <1>2, <1>3, <1>5, <1>6, <1>7

LEMMA PollEventStep ==
  ASSUME PInv, NEW t \in Thread, NEW s \in Stream, PollEvent(t, s)
  PROVE  PInv'
<1>1. pc[t] = "poll" /\ queue[s] # <<>> /\ Recycle(s, 1) /\ queue' = [queue EXCEPT ![s] = Tail(@)]
      /\ UNCHANGED <<lock, live, segment, bytes_allocated, bytes_reserved, limits, pc, call, world>>
  BY DEF PollEvent
<1>2. pc[t] \in LockedLabels /\ \A u \in Thread : pc[u] # "flush"
  BY <1>1, HolderAlone DEF LockedLabels
<1>3. \A r \in Stream : synced[r] = 0 /\ Waiting(r) = queue[r]
  BY <1>2, NothingHalfDone
<1>4. Waits = queue
  BY <1>3 DEF Waits, PInv, Types
<1>5. queue[s] \in Seq(Addr) /\ queue \in [Stream -> Seq(Addr)]
  BY DEF PInv, Types
<1>6. Tail(queue[s]) \in Seq(Addr) /\ queue[s][1] = Head(queue[s])
  BY <1>1, <1>5
<1>7. queue' \in [Stream -> Seq(Addr)]
  BY <1>1, <1>5, <1>6
<1>8. Waits' = queue'
  <2>1. \A r \in Stream : Waiting(r)' = queue'[r]
    <3> SUFFICES ASSUME NEW r \in Stream PROVE Waiting(r)' = queue'[r]
      OBVIOUS
    <3>1. queue'[r] \in Seq(Addr) /\ synced'[r] = 0
      BY <1>1, <1>3, <1>7 DEF call
    <3>2. SubSeq(queue'[r], 1, Len(queue'[r])) = queue'[r]
      BY <3>1, SubSeqFull
    <3> QED
      BY <3>1, <3>2 DEF Waiting
  <2> QED
    BY <2>1, <1>7 DEF Waits
<1>9. Waits' = [Waits EXCEPT ![s] = Tail(@)]
  BY <1>1, <1>4, <1>8
<1>10. /\ Good(block', segment, pool', live, Waits')
       /\ Merged(block', pool')
       /\ bytes_cached' = SizeSum(block', pool')
       /\ bytes_allocated = SizeSum(block', live)
  BY <1>1, <1>4, <1>6, <1>9, RecycleGood
<1>11. Sound'
  BY <1>1, <1>10 DEF PInv, Sound
<1>12. SyncedInv'
  BY <1>1, <1>3 DEF SyncedInv, call
<1> QED
  BY <1>1, <1>2, <1>7, <1>11, <1>12, KeepsCalls, HeapStep DEF call, world, PInv, Types

\* What waits in a queue whose next event is the i-th, and what is left of it.
LEMMA NextWaits ==
  ASSUME NEW q \in Seq(Addr), NEW n \in Nat, n + 1 <= Len(q)
  PROVE  LET w == SubSeq(q, n + 1, Len(q)) IN
         /\ w # <<>> /\ Head(w) = q[n + 1]
         /\ Tail(w) = SubSeq(q, n + 2, Len(q))
<1> DEFINE w == SubSeq(q, n + 1, Len(q))
<1>1. Head(w) = q[n + 1] /\ Tail(w) = SubSeq(q, n + 2, Len(q))
  BY HeadTailOfSubSeq
<1>2. w # <<>>
  <2>1. Len(w) = Len(q) - n /\ Len(q) \in Nat
    BY SubSeqProperties
  <2> HIDE DEF w
  <2>2. Len(w) # 0
    BY <2>1
  <2> QED
    BY <2>2
<1> QED
  BY <1>1, <1>2

LEMMA SyncEventStep ==
  ASSUME PInv, NEW t \in Thread, NEW s \in Stream, SyncEvent(t, s)
  PROVE  PInv'
<1> DEFINE n == synced[s]
           q == queue[s]
<1>1. /\ pc[t] = "flush" /\ n + 1 <= Len(q) /\ Recycle(s, n + 1)
      /\ \A r \in Stream \ {s} : synced[r] = 0
      /\ queue' = [queue EXCEPT ![s] = IF n + 1 = Len(q) THEN <<>> ELSE q]
      /\ synced' = [synced EXCEPT ![s] = IF n + 1 = Len(q) THEN 0 ELSE n + 1]
      /\ UNCHANGED <<lock, live, segment, bytes_allocated, bytes_reserved, limits, pc, req, ptr,
                     hint, after, nested, world>>
  BY DEF SyncEvent
<1>2. q \in Seq(Addr) /\ n \in Nat /\ queue \in [Stream -> Seq(Addr)]
      /\ synced \in [Stream -> Nat]
  BY DEF PInv, Types
<1>3. queue' \in [Stream -> Seq(Addr)] /\ synced' \in [Stream -> Nat]
  <2>1. (IF n + 1 = Len(q) THEN <<>> ELSE q) \in Seq(Addr)
    BY <1>2
  <2>2. (IF n + 1 = Len(q) THEN 0 ELSE n + 1) \in Nat
    BY <1>2
  <2> QED
    BY <1>1, <1>2, <2>1, <2>2
<1>4. /\ Waits[s] = SubSeq(q, n + 1, Len(q)) /\ Waits[s] # <<>> /\ Head(Waits[s]) = q[n + 1]
      /\ Tail(Waits[s]) = SubSeq(q, n + 2, Len(q))
  BY <1>1, <1>2, NextWaits DEF Waits, Waiting
<1>5. Waiting(s)' = Tail(Waits[s])
  <2>1. CASE n + 1 = Len(q)
    <3>1. queue'[s] = <<>> /\ synced'[s] = 0
      BY <1>1, <1>2, <2>1
    <3>2. Waiting(s)' = <<>>
      BY <3>1 DEF Waiting
    <3>3. SubSeq(q, n + 2, Len(q)) = <<>>
      BY <1>2, <2>1
    <3> QED
      BY <1>4, <3>2, <3>3
  <2>2. CASE n + 1 # Len(q)
    <3>1. queue'[s] = q /\ synced'[s] = n + 1
      BY <1>1, <1>2, <2>2
    <3>2. Waiting(s)' = SubSeq(q, (n + 1) + 1, Len(q))
      BY <3>1 DEF Waiting
    <3>3. (n + 1) + 1 = n + 2
      BY <1>2
    <3> QED
      BY <1>4, <3>2, <3>3
  <2> QED
    BY <2>1, <2>2
<1>6. \A r \in Stream \ {s} : Waiting(r)' = Waiting(r)
  BY <1>1, <1>2 DEF Waiting
<1>7. Waits' = [Waits EXCEPT ![s] = Tail(@)]
  BY <1>5, <1>6 DEF Waits
<1> HIDE DEF q, n
<1>8. /\ Good(block', segment, pool', live, Waits')
      /\ Merged(block', pool')
      /\ bytes_cached' = SizeSum(block', pool')
      /\ bytes_allocated = SizeSum(block', live)
  <2>1. queue[s][n + 1] = Head(Waits[s])
    BY <1>4 DEF q
  <2> QED
    BY <1>1, <1>4, <1>7, <2>1, RecycleGood
<1>9. Sound'
  BY <1>1, <1>8 DEF PInv, Sound
<1>10. SyncedInv'
  <2>1. \A r \in Stream : synced'[r] # 0 => r = s /\ n + 1 # Len(q) /\ synced'[r] = n + 1
    BY <1>1, <1>2 DEF n
  <2>2. \A r \in Stream : synced'[r] # 0 => synced'[r] < Len(queue'[r])
    <3> SUFFICES ASSUME NEW r \in Stream, synced'[r] # 0 PROVE synced'[r] < Len(queue'[r])
      OBVIOUS
    <3>1. r = s /\ n + 1 # Len(q) /\ synced'[r] = n + 1
      BY <2>1
    <3>2. queue'[r] = q
      BY <1>1, <1>2, <3>1 DEF q
    <3>3. Len(q) \in Nat
      BY <1>2
    <3> QED
      BY <1>1, <1>2, <3>1, <3>2, <3>3
  <2>3. pc'[t] = "flush"
    BY <1>1
  <2> QED
    BY <2>2, <2>3 DEF SyncedInv
<1>11. pc[t] \in LockedLabels
  BY <1>1 DEF LockedLabels
<1> QED
  BY <1>1, <1>3, <1>9, <1>10, <1>11, KeepsCalls, HeapStep DEF world, PInv, Types

-----------------------------------------------------------------------------
(* Giving segments back. *)

\* Flushing and trimming release a pooled block that is its whole segment.
LEMMA ReleaseStep ==
  ASSUME PInv, NEW t \in Thread, pc[t] \in {"flush", "trim"}, NEW a \in Releasable, Release(a),
         UNCHANGED <<lock, live, queue, bytes_allocated, limits, pc, call, declared>>
  PROVE  PInv'
<1>0. a \in pool /\ ~is_split(block[a])
  BY DEF Releasable
<1>1. /\ Good(block, segment, pool, live, Waits) /\ Merged(block, pool)
      /\ bytes_cached = SizeSum(block, pool) /\ bytes_allocated = SizeSum(block, live)
      /\ bytes_reserved = SumFunction(segment)
  BY DEF PInv, Sound
<1>2. /\ block[a].segment_base = a /\ a \in DOMAIN segment /\ segment[a] = block[a].size
      /\ Good(Without(block, a), Without(segment, a), pool \ {a}, live, Waits)
      /\ Merged(Without(block, a), pool \ {a})
      /\ SizeSum(Without(block, a), pool \ {a}) = SizeSum(block, pool) - block[a].size
      /\ SizeSum(Without(block, a), live) = SizeSum(block, live)
  BY ONLY <1>0, <1>1, RemoveStep
<1>3. /\ pool' = pool \ {a} /\ block' = Without(block, a)
      /\ bytes_cached' = bytes_cached - block[a].size
      /\ bytes_reserved' = bytes_reserved - block[a].size
      /\ segment' = Without(segment, a)
      /\ device' = Without(device, a) \/ ("free" \in Faults /\ device' = device)
  BY <1>2 DEF Release
<1>4. Waits' = Waits
  BY DEF call, Waits, Waiting
<1>5. bytes_reserved' = SumFunction(segment')
  <2>1. Segments(segment) /\ DOMAIN segment \subseteq Addr
    BY <1>1 DEF Good, Heap, Blocks
  <2>2. IsFiniteSet(DOMAIN segment) /\ \A b \in DOMAIN segment : segment[b] \in Nat
    BY <2>1, ReservedIsNat DEF Segments
  <2>3. /\ DOMAIN segment' = DOMAIN segment \ {a}
        /\ \A b \in DOMAIN segment \ {a} : segment'[b] = segment[b]
    BY <1>3 DEF Without, Restrict
  <2>4. SumFunctionOnSet(segment', DOMAIN segment \ {a})
          = SumFunctionOnSet(segment, DOMAIN segment) - segment[a]
    BY ONLY <1>2, <2>2, <2>3, SumWithout
  <2> QED
    BY <1>1, <1>2, <1>3, <2>3, <2>4 DEF SumFunction
<1>6. Sound'
  BY <1>1, <1>2, <1>3, <1>4, <1>5 DEF Sound
<1>7. pc[t] \in LockedLabels
  BY DEF LockedLabels
<1>8. OthersKept(t) /\ LockStep(t)
  BY <1>7, HolderAlone DEF OthersKept, LockStep, call
<1>9. /\ DOMAIN device' = DOMAIN device \ {a}
         \/ (DOMAIN device' = DOMAIN device /\ SegmentsMayLeak)
      /\ DOMAIN segment' = DOMAIN segment \ {a}
      /\ \A b \in DOMAIN device' : b \in DOMAIN device /\ device'[b] = device[b]
      /\ \A b \in DOMAIN segment' : segment'[b] = segment[b]
  <2>1. CASE device' = Without(device, a)
    BY <1>3, <2>1 DEF Without, Restrict
  <2>2. CASE "free" \in Faults /\ device' = device
    BY <1>3, <2>2 DEF Without, Restrict, SegmentsMayLeak
  <2> QED
    BY <1>3, <2>1, <2>2
<1>10. Types' /\ CallTypes'
  BY <1>9 DEF PInv, Types, CallTypes, limits, call
<1>11. CallOK(t)'
  <2>1. CallOK(t)
    BY CallInvIsCallOK DEF PInv
  <2> QED
    BY <2>1 DEF CallOK, Requesting, call
<1>12. SyncedInv'
  BY DEF PInv, SyncedInv, call
<1>13. \A u \in Thread : SegmentSize(u)' = SegmentSize(u)
  BY SegmentSizeKept DEF call
<1>14. DeviceInv'
  <2>1. /\ \A b \in DOMAIN device' : b + device'[b] <= AddrLimit
        /\ \A b, c \in DOMAIN device' : b < c => b + device'[b] <= c
    BY <1>9 DEF PInv, DeviceInv
  <2>2. \A u \in Thread : pc[u] = "mapped" =>
          /\ ptr[u] \in DOMAIN device' \ DOMAIN segment'
          /\ device'[ptr[u]] = SegmentSize(u)'
          /\ \A w \in Thread : pc[w] = "mapped" /\ ptr[w] = ptr[u] => w = u
    BY <1>2, <1>9, <1>13 DEF PInv, DeviceInv
  <2> QED
    BY <2>1, <2>2 DEF DeviceInv, call
<1>15. Backed'
  <2>1. Unbooked' = Unbooked
    BY DEF Unbooked, call
  <2>2. a \notin Unbooked
    BY <1>2 DEF Unbooked, PInv, DeviceInv
  <2> QED
    BY <1>2, <1>9, <2>1, <2>2 DEF PInv, Backed
<1> QED
  BY <1>6, <1>8, <1>10, <1>11, <1>12, <1>14, <1>15, HeapStep

-----------------------------------------------------------------------------
(* Sizes. *)

LEMMA CeilToBounds ==
  ASSUME NEW n \in Nat, NEW k \in Nat \ {0}
  PROVE  CeilTo(n, k) \in Nat /\ n <= CeilTo(n, k)
<1> DEFINE m == n + k - 1
           d == m \div k
<1>1. m \in Nat /\ k \in Int /\ k > 0
  OBVIOUS
<1>2. d \in Int /\ d >= 0
  BY <1>1
<1>3. m < k * d + k
  BY <1>1
<1> HIDE DEF d
<1>4. k * d \in Int /\ k * d >= 0
  BY <1>1, <1>2
<1>5. k * d \in Nat /\ k * d >= n
  BY <1>3, <1>4
<1> QED
  BY <1>5 DEF CeilTo, d

LEMMA SizesPositive ==
  ASSUME PInv, NEW t \in Thread
  PROVE  Rounded(t) \in Nat \ {0} /\ SegmentSize(t) \in Nat \ {0}
<1>1. \A k \in {kMinBlockSize, kSmallSize, kSmallBuffer, kMinLargeAlloc, kLargeBuffer, kRoundLarge} :
        k \in Nat \ {0}
  BY SizeClassAssumption
<1>2. req[t].size \in Nat
  BY CallFunctions
<1>3. \A n \in Nat, k \in Nat \ {0} : CeilTo(n, k) \in Nat /\ n <= CeilTo(n, k)
  BY CeilToBounds
<1>4. Rounded(t) \in Nat \ {0}
  BY <1>1, <1>2, <1>3 DEF Rounded, round_request_size
<1> DEFINE n == Rounded(t)
<1> HIDE DEF n
<1>5. segment_size_for(n) \in Nat \ {0}
  BY <1>1, <1>3, <1>4 DEF n, segment_size_for
<1> QED
  BY <1>4, <1>5 DEF n, SegmentSize

-----------------------------------------------------------------------------
(* An allocation takes a block: of the cache, or of a new segment. *)

\* A block of P, in no pool any more, is cut to size and becomes live.
LEMMA FoundGood ==
  ASSUME PInv, NEW t \in Thread, NEW blk, NEW seg, NEW P, Good(blk, seg, P, live, Waits),
         Merged(blk, P), NEW a \in P, NEW rest, rest = P \ {a}, NEW cached,
         cached = SizeSum(blk, P) - blk[a].size, bytes_allocated = SizeSum(blk, live),
         Found(t, a, blk, rest, cached)
  PROVE  /\ Good(block', seg, pool', live', Waits)
         /\ Merged(block', pool')
         /\ bytes_cached' = SizeSum(block', pool')
         /\ bytes_allocated' = SizeSum(block', live')
<1> DEFINE n == Rounded(t)
           split == should_split(blk[a], n)
           cut == a + n
           r == IF split THEN Split(blk, a, n) ELSE blk
           Q == IF split THEN P \cup {cut} ELSE P
<1>1. n \in Nat \ {0}
  BY SizesPositive
<1>2. Blocks(blk) /\ P \subseteq DOMAIN blk /\ live \subseteq DOMAIN blk /\ a \in DOMAIN blk
  BY DEF Good, Heap, Placed
<1>3. blk[a].size \in Nat \ {0} /\ blk[a].is_small \in BOOLEAN
      /\ SizeSum(blk, P) \in Nat /\ SizeSum(blk, live) \in Nat
  BY <1>2, BlockFields, FiniteBlocks DEF Blocks
<1>4. split => n < blk[a].size
  <2>1. kMinBlockSize \in Nat \ {0} /\ kSmallSize \in Nat \ {0}
    BY SizeClassAssumption
  <2> QED
    BY <1>1, <1>3, <2>1 DEF should_split
<1>5. /\ block' = [r EXCEPT ![a].allocated = TRUE]
      /\ pool' = IF split THEN rest \cup {cut} ELSE rest
      /\ live' = live \cup {a}
      /\ bytes_cached' = cached + (IF split THEN blk[a].size - n ELSE 0)
      /\ bytes_allocated' = bytes_allocated + r[a].size
  BY DEF Found
<1> HIDE DEF n, split, r, Q, cut
<1>6. /\ Good(r, seg, Q, live, Waits) /\ a \in Q
      /\ Merged(r, Q \ {a})
      /\ SizeSum(r, Q) = SizeSum(blk, P) /\ SizeSum(r, live) = SizeSum(blk, live)
      /\ r[a].size = IF split THEN n ELSE blk[a].size
      /\ pool' = Q \ {a}
  <2>1. CASE split
    <3>1. r = Split(blk, a, n) /\ Q = P \cup {cut} /\ cut = a + n
      BY <2>1 DEF r, Q, cut
    <3>2. n < blk[a].size
      BY <1>4, <2>1
    <3>3. /\ Good(Split(blk, a, n), seg, P \cup {cut}, live, Waits)
          /\ cut \notin P /\ cut # a
          /\ Merged(blk, P) => Merged(Split(blk, a, n), (P \cup {cut}) \ {a})
          /\ SizeSum(Split(blk, a, n), P \cup {cut}) = SizeSum(blk, P)
          /\ SizeSum(Split(blk, a, n), live) = SizeSum(blk, live)
          /\ Split(blk, a, n)[a].size = n
      BY ONLY Good(blk, seg, P, live, Waits), a \in P, <1>1, <3>1, <3>2, SplitStep
    <3>4. pool' = (P \cup {cut}) \ {a}
      BY <1>5, <2>1, <3>3
    <3> QED
      BY <2>1, <3>1, <3>3, <3>4
  <2>2. CASE ~split
    <3>1. r = blk /\ Q = P /\ pool' = P \ {a}
      BY <1>5, <2>2 DEF r, Q
    <3>2. Merged(blk, P \ {a})
      BY DEF Merged
    <3> QED
      BY <2>2, <3>1, <3>2
  <2> QED
    BY <2>1, <2>2
<1>7. Takes(r, block', a)
  BY <1>5 DEF Takes
<1>8. /\ Good(block', seg, Q \ {a}, live \cup {a}, Waits)
      /\ SizeSum(block', Q \ {a}) = SizeSum(r, Q) - r[a].size
      /\ SizeSum(block', live \cup {a}) = SizeSum(r, live) + r[a].size
      /\ DOMAIN block' = DOMAIN r
  BY ONLY <1>6, <1>7, TakeStep
<1>9. Merged(block', Q \ {a})
  <2>1. Q \subseteq DOMAIN r
    BY <1>6 DEF Good, Placed
  <2>2. \A x \in Q \ {a} : block'[x] = r[x]
    BY <1>5, <2>1
  <2> QED
    BY <1>6, <2>2 DEF Merged
<1>10. bytes_cached' = SizeSum(block', Q \ {a})
  BY <1>1, <1>3, <1>5, <1>6, <1>8
<1> QED
  BY <1>5, <1>6, <1>8, <1>9, <1>10

LEMMA HitStep ==
  ASSUME PInv, NEW t \in Thread, Hit(t)
  PROVE  PInv'
<1>1. pc[t] \in {"search", "research"}
      /\ UNCHANGED <<lock, queue, segment, bytes_reserved, limits, req, hint, after, nested,
                     synced, device, work>>
  BY DEF Hit
<1>2. PICK a \in BestFit(t) : Found(t, a, block, pool \ {a}, bytes_cached - block[a].size)
  BY DEF Hit
<1>3. a \in pool
  BY DEF BestFit, Fitting
<1>4. /\ Good(block, segment, pool, live, Waits) /\ Merged(block, pool)
      /\ bytes_cached = SizeSum(block, pool) /\ bytes_allocated = SizeSum(block, live)
      /\ bytes_reserved = SumFunction(segment)
  BY DEF PInv, Sound
<1>5. Waits' = Waits
  BY <1>1 DEF Waits, Waiting
<1>6. Sound'
  <2>1. bytes_cached - block[a].size = SizeSum(block, pool) - block[a].size
    BY <1>4
  <2>2. /\ Good(block', segment, pool', live', Waits)
        /\ Merged(block', pool')
        /\ bytes_cached' = SizeSum(block', pool')
        /\ bytes_allocated' = SizeSum(block', live')
    BY <1>2, <1>3, <1>4, <2>1, FoundGood
  <2> QED
    BY <1>1, <1>4, <1>5, <2>2 DEF Sound
<1>7. /\ pc' = [pc EXCEPT ![t] = "trim"] /\ ptr' = [ptr EXCEPT ![t] = a]
      /\ live' = live \cup {a} /\ declared' = With(declared, a, {})
  BY <1>2 DEF Found, Goto
<1>8. a \in Addr
  BY <1>3, <1>4 DEF Good, Heap, Blocks, Placed
<1>9. Types'
  <2>1. ptr' \in [Thread -> Addr \cup {null}]
    BY <1>7, <1>8, CallFunctions
  <2>2. DOMAIN declared' = live'
    BY <1>7 DEF With, PInv, Types
  <2> QED
    BY <1>1, <2>1, <2>2 DEF PInv, Types, limits
<1>10. CallTypes'
  BY <1>1, <1>7, CallFunctions DEF CallTypes, LockedLabels, OpenLabels, Labels
<1>11. OthersKept(t) /\ pc'[t] = "trim"
  BY <1>1, <1>7, CallFunctions DEF OthersKept
<1>12. ~nested[t] /\ lock = t
  BY <1>1, InAllocation, HolderAlone DEF LockedLabels
<1>13. CallOK(t)' /\ LockStep(t)
  BY <1>1, <1>11, <1>12 DEF CallOK, Requesting, OpenLabels, LockStep, LockedLabels
<1>14. SyncedInv'
  BY <1>1, <1>11, SyncedKept DEF PInv
<1>15. DeviceInv' /\ Backed'
  BY <1>1, <1>11, DeviceKept DEF PInv
<1> QED
  BY <1>6, <1>7, <1>9, <1>10, <1>11, <1>13, <1>14, <1>15, HeapStep

LEMMA DriverMallocStep ==
  ASSUME PInv, NEW t \in Thread, DriverMalloc(t)
  PROVE  PInv'
<1> DEFINE n == SegmentSize(t)
<1>1. /\ pc[t] \in {"driver", "driver_retry"} /\ pc' = [pc EXCEPT ![t] = "mapped"]
      /\ UNCHANGED <<lock, core, bytes, limits, req, hint, after, nested, synced, work, declared>>
  BY DEF DriverMalloc, Goto
<1>2. PICK base \in Base : /\ FreeAt(base, n)
                           /\ device' = With(device, base, n)
                           /\ ptr' = [ptr EXCEPT ![t] = base]
  BY DEF DriverMalloc
<1>3. n \in Nat \ {0} /\ base \in Addr /\ base \in Nat /\ AddrLimit \in Nat
  BY SizesPositive, AllocatorAssumption, AddrFacts DEF Addr
<1> HIDE DEF n
<1>4. /\ \A b \in DOMAIN device : b \in Nat /\ device[b] \in Nat \ {0}
      /\ \A b \in DOMAIN device : b + device[b] <= AddrLimit
      /\ \A b, c \in DOMAIN device : b < c => b + device[b] <= c
  <2>1. DOMAIN device \subseteq Base /\ Base \subseteq Addr
    BY AllocatorAssumption DEF PInv, Types
  <2>2. \A b \in DOMAIN device : b \in Nat
    BY <2>1, AddrFacts
  <2>3. \A b \in DOMAIN device : device[b] \in Nat \ {0}
    BY DEF PInv, Types
  <2>4. /\ \A b \in DOMAIN device : b + device[b] <= AddrLimit
        /\ \A b, c \in DOMAIN device : b < c => b + device[b] <= c
    BY DEF PInv, DeviceInv
  <2> QED
    BY <2>2, <2>3, <2>4
<1>5. /\ base + n <= AddrLimit
      /\ \A b \in DOMAIN device : b + device[b] <= base \/ base + n <= b
  BY <1>2 DEF FreeAt
<1>6. base \notin DOMAIN device
  BY <1>3, <1>4, <1>5
<1>7. /\ DOMAIN device' = DOMAIN device \cup {base} /\ device'[base] = n
      /\ \A b \in DOMAIN device : device'[b] = device[b]
  BY <1>2, <1>6 DEF With
<1>8. OthersKept(t) /\ pc'[t] = "mapped" /\ ptr'[t] = base
  BY <1>1, <1>2, CallFunctions DEF OthersKept
<1>9. Types'
  BY <1>1, <1>2, <1>3, <1>7, CallFunctions DEF PInv, Types, core, limits
<1>10. CallTypes'
  BY <1>1, CallFunctions DEF CallTypes, LockedLabels, OpenLabels, Labels
<1>11. req[t].stream \in Stream /\ ~nested[t]
  BY <1>1, InAllocation DEF OpenLabels
<1>12. CallOK(t)' /\ LockStep(t)
  BY <1>1, <1>8, <1>11 DEF CallOK, Requesting, OpenLabels, LockStep
<1>13. SyncedInv'
  BY <1>1, <1>8, SyncedKept DEF PInv, core
<1>14. DeviceInv'
  <2>1. \A b \in DOMAIN device' : b + device'[b] <= AddrLimit
    BY <1>4, <1>5, <1>7
  <2>2. \A b, c \in DOMAIN device' : b < c => b + device'[b] <= c
    BY <1>3, <1>4, <1>5, <1>7
  <2>3. ASSUME NEW u \in Thread, pc'[u] = "mapped"
        PROVE  /\ ptr'[u] \in DOMAIN device' \ DOMAIN segment'
               /\ device'[ptr'[u]] = SegmentSize(u)'
               /\ \A w \in Thread : pc'[w] = "mapped" /\ ptr'[w] = ptr'[u] => w = u
    <3>1. SegmentSize(u)' = SegmentSize(u) /\ segment' = segment
      BY <1>1, SegmentSizeKept DEF core
    <3>2. DOMAIN segment \subseteq DOMAIN device
      BY DEF PInv, Backed
    <3>3. \A w \in Thread \ {t} : pc'[w] = "mapped" =>
            /\ ptr'[w] \in DOMAIN device \ DOMAIN segment
            /\ device[ptr'[w]] = SegmentSize(w)
            /\ \A v \in Thread \ {t} : pc'[v] = "mapped" /\ ptr'[v] = ptr'[w] => v = w
      BY <1>8 DEF OthersKept, PInv, DeviceInv
    <3>4. CASE u = t
      BY <1>6, <1>7, <1>8, <3>1, <3>2, <3>3, <3>4 DEF n
    <3>5. CASE u # t
      BY <1>6, <1>7, <1>8, <2>3, <3>1, <3>3, <3>5
    <3> QED
      BY <3>4, <3>5
  <2> QED
    BY <2>1, <2>2, <2>3 DEF DeviceInv
<1>15. Backed'
  <2>1. Unbooked' = Unbooked \cup {base}
    BY <1>1, <1>8 DEF Unbooked, OthersKept
  <2> QED
    BY <1>1, <1>6, <1>7, <2>1 DEF PInv, Backed, core
<1>16. Sound'
  BY <1>1, SoundKept DEF PInv
<1> QED
  BY <1>1, <1>8, <1>9, <1>10, <1>12, <1>13, <1>14, <1>15, <1>16, HeapStep DEF core

LEMMA BookSegmentStep ==
  ASSUME PInv, NEW t \in Thread, BookSegment(t)
  PROVE  PInv'
<1> DEFINE base == ptr[t]
           n == SegmentSize(t)
           fresh == [size |-> n, stream |-> req[t].stream, is_small |-> UsesSmallPool(t),
                     allocated |-> FALSE, prev |-> null, next |-> null, event_count |-> 0,
                     stream_uses |-> {}, segment_base |-> base]
           r == With(block, base, fresh)
           P == pool \cup {base}
<1>1. /\ pc[t] = "mapped" /\ lock = NoThread /\ lock' = t
      /\ segment' = With(segment, base, n)
      /\ bytes_reserved' = bytes_reserved + n
      /\ Found(t, base, r, pool, bytes_cached)
      /\ UNCHANGED <<queue, limits, req, hint, after, nested, synced, device, work>>
  BY DEF BookSegment
<1>2. /\ base \in DOMAIN device \ DOMAIN segment /\ device[base] = n
      /\ \A u \in Thread : pc[u] = "mapped" /\ ptr[u] = base => u = t
  BY <1>1 DEF PInv, DeviceInv
<1>3. /\ base \in Addr /\ base \in Nat /\ base # null /\ base \in Base
      /\ n \in Nat \ {0} /\ base + n <= AddrLimit
  <2>1. base \in Base
    BY <1>2 DEF PInv, Types
  <2>2. base \in Addr /\ base \in Nat /\ base # null
    BY <2>1, AllocatorAssumption, AddrFacts
  <2> QED
    BY <1>2, <2>1, <2>2, SizesPositive DEF PInv, DeviceInv
<1>4. req[t].stream \in Stream /\ ~nested[t]
  BY <1>1, InAllocation DEF OpenLabels
<1>5. /\ fresh \in Block /\ fresh.size = n /\ fresh.prev = null /\ fresh.next = null
      /\ fresh.segment_base = base /\ ~fresh.allocated /\ fresh.event_count = 0
      /\ fresh.stream_uses = {}
  <2>1. n \in 1 .. AddrLimit
    BY <1>3, AddrFacts
  <2>2. UsesSmallPool(t) \in BOOLEAN
    BY DEF UsesSmallPool
  <2> QED
    BY <1>3, <1>4, <2>1, <2>2 DEF Block
<1>6. \A b \in DOMAIN segment : b + segment[b] <= base \/ base + n <= b
  <2> SUFFICES ASSUME NEW b \in DOMAIN segment
               PROVE  b + segment[b] <= base \/ base + n <= b
    OBVIOUS
  <2>1. b \in DOMAIN device /\ segment[b] = device[b] /\ b # base
    BY <1>2 DEF PInv, Backed
  <2>2. b \in Nat
    <3>1. b \in Base
      BY <2>1 DEF PInv, Types
    <3> QED
      BY <3>1, AllocatorAssumption, AddrFacts
  <2>3. b < base \/ base < b
    BY <1>3, <2>1, <2>2
  <2> QED
    BY <1>2, <2>1, <2>3 DEF PInv, DeviceInv
<1>7. r = With(block, base, fresh)
  OBVIOUS
<1> HIDE DEF base, n, fresh, r, P
<1>8. /\ Good(block, segment, pool, live, Waits) /\ Merged(block, pool)
      /\ bytes_cached = SizeSum(block, pool) /\ bytes_allocated = SizeSum(block, live)
      /\ bytes_reserved = SumFunction(segment)
  BY DEF PInv, Sound
<1>9. /\ base \notin pool /\ base \notin live /\ base \notin DOMAIN block
      /\ Good(r, With(segment, base, n), pool \cup {base}, live, Waits)
      /\ Merged(r, pool \cup {base})
      /\ SizeSum(r, pool \cup {base}) = SizeSum(block, pool) + n
      /\ SizeSum(r, live) = SizeSum(block, live)
      /\ r[base] = fresh
  BY ONLY <1>3, <1>5, <1>6, <1>7, <1>8, AddStep
<1>10. /\ Good(block', segment', pool', live', Waits)
       /\ Merged(block', pool')
       /\ bytes_cached' = SizeSum(block', pool')
       /\ bytes_allocated' = SizeSum(block', live')
  <2>1. pool = P \ {base} /\ base \in P /\ P = pool \cup {base}
    BY <1>9 DEF P
  <2>2. bytes_cached = SizeSum(r, P) - r[base].size
    <3>1. SizeSum(block, pool) \in Nat
      BY <1>8, FiniteBlocks DEF Good, Heap, Placed
    <3>2. SizeSum(r, P) = SizeSum(block, pool) + n
      BY <1>9 DEF P
    <3>3. r[base].size = n
      BY <1>5, <1>9
    <3> QED
      BY <1>3, <1>8, <3>1, <3>2, <3>3
  <2>3. Good(r, segment', P, live, Waits) /\ Merged(r, P) /\ bytes_allocated = SizeSum(r, live)
    BY <1>1, <1>8, <1>9, <2>1
  <2> QED
    BY <1>1, <2>1, <2>2, <2>3, FoundGood
<1>11. bytes_reserved' = SumFunction(segment')
  <2>1. Segments(segment) /\ DOMAIN segment \subseteq Addr
    BY <1>8 DEF Good, Heap, Blocks
  <2>2. IsFiniteSet(DOMAIN segment) /\ \A b \in DOMAIN segment : segment[b] \in Nat
    BY <2>1, ReservedIsNat DEF Segments
  <2>3. /\ DOMAIN segment' = DOMAIN segment \cup {base} /\ segment'[base] = n
        /\ \A b \in DOMAIN segment : segment'[b] = segment[b]
    BY <1>1, <1>2 DEF With
  <2>4. \A b \in DOMAIN segment \cup {base} : segment'[b] \in Nat
    BY <1>3, <2>2, <2>3
  <2>5. \A b \in DOMAIN segment : segment[b] = segment'[b]
    BY <2>3
  <2>6. base \notin DOMAIN segment
    BY <1>2
  <2>7. SumFunctionOnSet(segment', DOMAIN segment \cup {base})
          = SumFunctionOnSet(segment, DOMAIN segment) + segment'[base]
    BY ONLY <2>2, <2>4, <2>5, <2>6, SumWith
  <2> QED
    BY <1>1, <1>8, <2>3, <2>7 DEF SumFunction
<1>12. Sound'
  <2>1. Waits' = Waits
    BY <1>1 DEF Waits, Waiting
  <2> QED
    BY <1>10, <1>11, <2>1 DEF Sound
<1>13. /\ pc' = [pc EXCEPT ![t] = "trim"] /\ ptr' = [ptr EXCEPT ![t] = base]
       /\ live' = live \cup {base} /\ declared' = With(declared, base, {})
  BY <1>1 DEF Found, Goto
<1>14. /\ DOMAIN segment' = DOMAIN segment \cup {base} /\ segment'[base] = n
       /\ \A b \in DOMAIN segment : segment'[b] = segment[b]
  BY <1>1, <1>2 DEF With
<1>15. Types'
  <2>1. ptr' \in [Thread -> Addr \cup {null}]
    BY <1>3, <1>13, CallFunctions
  <2>2. DOMAIN declared' = live'
    BY <1>13 DEF With, PInv, Types
  <2> QED
    BY <1>1, <1>3, <1>14, <2>1, <2>2 DEF PInv, Types, limits
<1>16. CallTypes'
  BY <1>1, <1>13, CallFunctions DEF CallTypes, LockedLabels, OpenLabels, Labels
<1>17. OthersKept(t) /\ pc'[t] = "trim"
  BY <1>1, <1>13, CallFunctions DEF OthersKept
<1>18. CallOK(t)' /\ LockStep(t)
  BY <1>1, <1>4, <1>17 DEF CallOK, Requesting, OpenLabels, LockStep, LockedLabels
<1>19. SyncedInv'
  BY <1>1, <1>17, SyncedKept DEF PInv
<1>20. \A u \in Thread : pc'[u] = "mapped" <=> pc[u] = "mapped" /\ u # t
  BY <1>1, <1>17 DEF OthersKept
<1>21. \A u \in Thread : pc'[u] = "mapped" => ptr'[u] = ptr[u] /\ ptr[u] # base
  BY <1>2, <1>17, <1>20 DEF OthersKept
<1>22. DeviceInv'
  <2>1. \A u \in Thread : SegmentSize(u)' = SegmentSize(u)
    BY <1>1, SegmentSizeKept
  <2> QED
    BY <1>1, <1>14, <1>20, <1>21, <2>1 DEF PInv, DeviceInv
<1>23. Backed'
  <2>1. Unbooked' = Unbooked \ {base}
    BY <1>1, <1>20, <1>21 DEF Unbooked, base
  <2>2. base \in Unbooked
    BY <1>1 DEF Unbooked, base
  <2> QED
    BY <1>1, <1>2, <1>14, <2>1, <2>2 DEF PInv, Backed
<1> QED
  BY <1>12, <1>13, <1>15, <1>16, <1>17, <1>18, <1>19, <1>22, <1>23, HeapStep

-----------------------------------------------------------------------------
(* A block is given back, and used. *)

\* What a thread that frees a block knows.
LEMMA Freeing1 ==
  ASSUME PInv, NEW t \in Thread, pc[t] = "free", NEW a, a = ptr[t]
  PROVE  /\ a \in live /\ a \in Addr /\ a \in DOMAIN block /\ block[a] \in Block
         /\ lock = t /\ \A u \in Thread : pc[u] # "flush"
         /\ nested[t] => req[t].stream \in Stream
         /\ Waits = queue /\ queue \in [Stream -> Seq(Addr)]
         /\ Uses(t, block[a]) \subseteq Stream
<1>1. a \in live
  BY CallInvIsCallOK DEF PInv, CallOK
<1>2. a \in Addr /\ a \in DOMAIN block /\ block[a] \in Block
  BY <1>1 DEF PInv, Sound, Good, Heap, Blocks, Placed
<1>3. lock = t /\ \A u \in Thread : pc[u] # "flush"
  BY HolderAlone DEF LockedLabels
<1>4. nested[t] => req[t].stream \in Stream
  BY CallInvIsCallOK DEF PInv, CallOK, Requesting
<1>5. queue \in [Stream -> Seq(Addr)]
  BY DEF PInv, Types
<1>6. Waits = queue
  BY <1>3, <1>5, NothingHalfDone DEF Waits
<1>7. Uses(t, block[a]) \subseteq Stream
  <2>1. block[a].stream_uses \subseteq Stream
    BY <1>2, BlockFields
  <2>2. hint[t] \in Stream \cup {DefaultStream}
    BY CallFunctions
  <2> QED
    BY <2>1, <2>2 DEF Uses
<1> QED
  BY <1>1, <1>2, <1>3, <1>4, <1>5, <1>6, <1>7

\* At once: the block goes to its pool.
LEMMA FreedGood ==
  ASSUME PInv, NEW a \in live, NEW v \in Block, Freed(v, block[a], block[a].event_count),
         NEW blk, Sets(block, blk, a, v)
  PROVE  /\ Good(FreeBlock(blk, a).block, segment, FreeBlock(blk, a).pool, live \ {a}, Waits)
         /\ Merged(FreeBlock(blk, a).block, FreeBlock(blk, a).pool)
         /\ bytes_cached + block[a].size = SizeSum(FreeBlock(blk, a).block, FreeBlock(blk, a).pool)
         /\ bytes_allocated - block[a].size = SizeSum(FreeBlock(blk, a).block, live \ {a})
         /\ blk[a].size = block[a].size
<1>1. /\ Good(block, segment, pool, live, Waits) /\ Merged(block, pool)
      /\ bytes_cached = SizeSum(block, pool) /\ bytes_allocated = SizeSum(block, live)
  BY DEF PInv, Sound
<1> DEFINE P2 == pool \cup {a}
           L2 == live \ {a}
<1>2. Gives(pool, P2, live, L2, a)
  BY DEF Gives
<1> HIDE DEF P2, L2
<1>3. /\ Good(blk, segment, P2, L2, Waits)
      /\ Merged(block, pool) => Merged(blk, pool)
      /\ SizeSum(blk, P2) = SizeSum(block, pool) + block[a].size
      /\ SizeSum(blk, L2) = SizeSum(block, live) - block[a].size
      /\ a \notin pool /\ a \in DOMAIN blk /\ blk[a].size = block[a].size
  BY ONLY <1>1, <1>2, a \in live, v \in Block, Freed(v, block[a], block[a].event_count),
          Sets(block, blk, a, v), GiveStep
<1>4. /\ Good(blk, segment, pool \cup {a}, live \ {a}, Waits)
      /\ Merged(block, pool) => Merged(blk, pool)
      /\ SizeSum(blk, pool \cup {a}) = SizeSum(block, pool) + block[a].size
      /\ SizeSum(blk, live \ {a}) = SizeSum(block, live) - block[a].size
      /\ a \notin pool /\ a \in DOMAIN blk /\ blk[a].size = block[a].size
  BY ONLY <1>3 DEF P2, L2
<1>5. Merged(blk, pool)
  BY <1>1, <1>4
<1>6. /\ Good(FreeBlock(blk, a).block, segment, FreeBlock(blk, a).pool, live \ {a}, Waits)
      /\ Merged(FreeBlock(blk, a).block, FreeBlock(blk, a).pool)
      /\ SizeSum(FreeBlock(blk, a).block, FreeBlock(blk, a).pool) = SizeSum(blk, pool \cup {a})
      /\ SizeSum(FreeBlock(blk, a).block, live \ {a}) = SizeSum(blk, live \ {a})
  BY ONLY <1>4, <1>5, FreeBlockGood
<1> QED
  BY ONLY <1>1, <1>4, <1>6

\* Later: the block waits for an event on each stream of "on".
LEMMA WaitsGood ==
  ASSUME PInv, NEW t \in Thread, pc[t] = "free", NEW a, a = ptr[t],
         NEW on \in SUBSET Stream, on # {},
         Recorded([block EXCEPT ![a].allocated = FALSE], a, on),
         synced' = synced
  PROVE  /\ Good(block', segment, pool, live \ {a}, Waits')
         /\ Merged(block', pool)
         /\ bytes_cached = SizeSum(block', pool)
         /\ bytes_allocated - block[a].size = SizeSum(block', live \ {a})
         /\ queue' \in [Stream -> Seq(Addr)]
<1>1. /\ Good(block, segment, pool, live, Waits) /\ Merged(block, pool)
      /\ bytes_cached = SizeSum(block, pool) /\ bytes_allocated = SizeSum(block, live)
  BY DEF PInv, Sound
<1>2. /\ a \in live /\ a \in Addr /\ a \in DOMAIN block /\ block[a] \in Block
      /\ Waits = queue /\ queue \in [Stream -> Seq(Addr)]
      /\ \A u \in Thread : pc[u] # "flush"
  BY Freeing1
<1>3. \A s \in Stream : synced[s] = 0
  BY <1>2, NothingHalfDone
<1> DEFINE v == [block[a] EXCEPT !.allocated = FALSE, !.event_count = Cardinality(on),
                                 !.stream_uses = {}]
<1>4. Freed(v, block[a], Cardinality(on))
  BY <1>2 DEF Block, SameShape, Freed
<1>5. v \in Block
  <2>1. IsFiniteSet(on)
    BY AllocatorAssumption, FS_Subset
  <2>2. Cardinality(on) \in Nat
    BY <2>1, FS_CardinalityType
  <2> QED
    BY <1>2, <2>2 DEF Block
<1>6. Sets(block, block', a, v)
  BY <1>2 DEF Recorded, Sets
<1>7. Joins(Waits, queue', on, a)
  BY <1>2 DEF Recorded, Joins
<1> HIDE DEF v
<1>8. /\ Good(block', segment, pool, live \ {a}, queue')
      /\ Merged(block, pool) => Merged(block', pool)
      /\ SizeSum(block', pool) = SizeSum(block, pool)
      /\ SizeSum(block', live \ {a}) = SizeSum(block, live) - block[a].size
      /\ queue' \in [Stream -> Seq(Addr)]
  <2>1. Waits \in [Stream -> Seq(Addr)]
    BY <1>2
  <2>2. a \in live
    BY <1>2
  <2> QED
    BY ONLY <1>1, <1>4, <1>5, <1>6, <1>7, <2>1, <2>2, on \in SUBSET Stream, on # {}, WaitStep
<1>9. Waits' = queue'
  <2>1. \A r \in Stream : Waiting(r)' = queue'[r]
    <3> SUFFICES ASSUME NEW r \in Stream PROVE Waiting(r)' = queue'[r]
      OBVIOUS
    <3>1. queue'[r] \in Seq(Addr) /\ synced'[r] = 0
      BY <1>3, <1>8
    <3>2. SubSeq(queue'[r], 1, Len(queue'[r])) = queue'[r]
      BY <3>1, SubSeqFull
    <3> QED
      BY <3>1, <3>2 DEF Waiting
  <2> QED
    BY <2>1, <1>8 DEF Waits
<1> QED
  BY ONLY <1>1, <1>8, <1>9

\* The rest of the call of a thread that has freed a block: it trims the cache, or
\* an exception ends it.
LEMMA FreeEnds ==
  ASSUME PInv, NEW t \in Thread, pc[t] = "free", Unlist(t),
         UNCHANGED <<segment, limits, device>>,
         \/ Goto(t, "trim") /\ UNCHANGED <<lock, call>>
         \/ Throw(t),
         queue' \in [Stream -> Seq(Addr)],
         Sound'
  PROVE  PInv'
<1> DEFINE a == ptr[t]
<1>1. /\ a \in live /\ lock = t /\ \A u \in Thread : pc[u] # "flush"
      /\ nested[t] => req[t].stream \in Stream
  BY Freeing1
<1>2. live' = live \ {a} /\ DOMAIN declared' = DOMAIN declared \ {a}
  BY DEF Unlist, Without, Restrict
<1>3. synced' = synced
  BY <1>1, NothingHalfDone DEF Throw, call
<1>4. \A s \in Stream : synced[s] = 0
  BY <1>1, NothingHalfDone
<1>5. OthersKept(t)
  BY CallFunctions DEF OthersKept, Goto, Throw, call
<1>6. \/ pc'[t] = "trim" /\ lock' = lock /\ nested' = nested /\ req' = req
      \/ pc'[t] = "idle" /\ lock' = NoThread /\ ~nested'[t]
  BY <1>1, CallFunctions DEF Goto, Throw, call
<1>7. CallOK(t)' /\ LockStep(t) /\ pc'[t] # "mapped"
  BY <1>1, <1>6, AllocatorAssumption DEF CallOK, Requesting, OpenLabels, LockStep, LockedLabels
<1>8. Types'
  <2>1. ptr' \in [Thread -> Addr \cup {null}]
    BY CallFunctions DEF Throw, call
  <2>2. DOMAIN declared' = live'
    BY <1>2 DEF PInv, Types
  <2>3. lock' \in Thread \cup {NoThread}
    BY <1>1, <1>6
  <2> QED
    BY <1>3, <2>1, <2>2, <2>3 DEF PInv, Types, limits
<1>9. CallTypes'
  <2>1. NoRequest \in [size : Nat, stream : Stream \cup {DefaultStream}, limit : Nat]
    BY AllocatorAssumption DEF NoRequest
  <2>2. "idle" \in LockedLabels \cup OpenLabels /\ "trim" \in LockedLabels \cup OpenLabels
    BY DEF OpenLabels, LockedLabels
  <2>3. CASE Throw(t)
    BY <2>1, <2>2, <2>3, CallFunctions DEF CallTypes, Throw, Labels
  <2>4. CASE Goto(t, "trim") /\ UNCHANGED <<lock, call>>
    BY <2>2, <2>4, CallFunctions DEF CallTypes, Goto, call, Labels
  <2> QED
    BY <2>3, <2>4
<1>10. SyncedInv'
  BY <1>3, <1>4 DEF SyncedInv
<1>11. DeviceInv' /\ Backed'
  BY <1>5, <1>7, DeviceKept DEF PInv
<1> QED
  BY <1>5, <1>7, <1>8, <1>9, <1>10, <1>11, HeapStep DEF LockedLabels

LEMMA FreeNowStep ==
  ASSUME PInv, NEW t \in Thread, FreeNow(t)
  PROVE  PInv'
<1> DEFINE a == ptr[t]
           v == [block[a] EXCEPT !.allocated = FALSE]
           blk == [block EXCEPT ![a].allocated = FALSE]
<1>1. /\ pc[t] = "free" /\ Uses(t, block[a]) = {} /\ Unlist(t)
      /\ block' = FreeBlock(blk, a).block /\ pool' = FreeBlock(blk, a).pool
      /\ bytes_cached' = bytes_cached + blk[a].size
      /\ Goto(t, "trim")
      /\ UNCHANGED <<lock, queue, segment, bytes_reserved, limits, call, device, work>>
  BY DEF FreeNow, FreedBytes
<1>2. /\ a \in live /\ a \in DOMAIN block /\ block[a] \in Block
      /\ queue \in [Stream -> Seq(Addr)]
  BY <1>1, Freeing1
<1>3. block[a].stream_uses = {}
  BY <1>1 DEF Uses
<1>4. v \in Block /\ Freed(v, block[a], block[a].event_count)
  BY <1>2, <1>3 DEF Block, Freed, SameShape
<1>5. Sets(block, blk, a, v)
  BY <1>2 DEF Sets
<1>6. /\ live' = live \ {a} /\ bytes_allocated' = bytes_allocated - block[a].size
  BY <1>1 DEF Unlist
<1> HIDE DEF v, blk, a
<1>7. /\ Good(FreeBlock(blk, a).block, segment, FreeBlock(blk, a).pool, live \ {a}, Waits)
      /\ Merged(FreeBlock(blk, a).block, FreeBlock(blk, a).pool)
      /\ bytes_cached + block[a].size = SizeSum(FreeBlock(blk, a).block, FreeBlock(blk, a).pool)
      /\ bytes_allocated - block[a].size = SizeSum(FreeBlock(blk, a).block, live \ {a})
      /\ blk[a].size = block[a].size
  BY ONLY PInv, <1>2, <1>4, <1>5, FreedGood
<1>8. Waits' = Waits
  BY <1>1 DEF Waits, Waiting, call
<1>9. /\ Good(block', segment', pool', live', Waits')
      /\ Merged(block', pool')
      /\ bytes_cached' = SizeSum(block', pool')
      /\ bytes_allocated' = SizeSum(block', live')
  BY <1>1, <1>6, <1>7, <1>8
<1>10. Sound'
  BY <1>1, <1>9 DEF Sound, PInv
<1> QED
  BY <1>1, <1>2, <1>10, FreeEnds

LEMMA FreeLaterStep ==
  ASSUME PInv, NEW t \in Thread, FreeLater(t)
  PROVE  PInv'
<1> DEFINE a == ptr[t]
           on == Uses(t, block[a])
<1>1. /\ pc[t] = "free" /\ on # {} /\ Unlist(t)
      /\ Recorded([block EXCEPT ![a].allocated = FALSE], a, on)
      /\ Goto(t, "trim")
      /\ UNCHANGED <<lock, pool, segment, bytes_cached, bytes_reserved, limits, call, device>>
  BY DEF FreeLater
<1>2. on \in SUBSET Stream
  BY <1>1, Freeing1
<1>3. live' = live \ {a} /\ bytes_allocated' = bytes_allocated - block[a].size
  BY <1>1 DEF Unlist
<1>4. synced' = synced
  BY <1>1 DEF call
<1>5. a = ptr[t]
  OBVIOUS
<1> HIDE DEF a, on
<1>6. /\ Good(block', segment, pool, live \ {a}, Waits')
      /\ Merged(block', pool)
      /\ bytes_cached = SizeSum(block', pool)
      /\ bytes_allocated - block[a].size = SizeSum(block', live \ {a})
      /\ queue' \in [Stream -> Seq(Addr)]
  BY <1>1, <1>2, <1>4, <1>5, WaitsGood
<1>7. Sound'
  BY <1>1, <1>3, <1>6 DEF Sound, PInv
<1> QED
  BY <1>1, <1>6, <1>7, FreeEnds

LEMMA RecordThrowsStep ==
  ASSUME PInv, NEW t \in Thread, RecordThrows(t)
  PROVE  PInv'
<1> DEFINE a == ptr[t]
           blk == [block EXCEPT ![a].allocated = FALSE]
<1>1. /\ pc[t] = "free" /\ Unlist(t) /\ Throw(t)
      /\ UNCHANGED <<segment, bytes_reserved, limits, device>>
  BY DEF RecordThrows
<1>2. PICK on \in SUBSET Uses(t, block[a]) : Salvaged(blk, a, on)
  BY DEF RecordThrows
<1>3. on \in SUBSET Stream
  BY <1>1, <1>2, Freeing1
<1>4. live' = live \ {a} /\ bytes_allocated' = bytes_allocated - block[a].size
  BY <1>1 DEF Unlist
<1>5. /\ a \in live /\ a \in DOMAIN block /\ block[a] \in Block
      /\ queue \in [Stream -> Seq(Addr)] /\ \A u \in Thread : pc[u] # "flush"
  BY <1>1, Freeing1
<1>6. synced' = synced
  BY <1>1, <1>5, NothingHalfDone DEF Throw
<1>7. queue' \in [Stream -> Seq(Addr)] /\ Sound'
  <2>1. CASE on = {}
    <3> DEFINE v == [block[a] EXCEPT !.allocated = FALSE, !.stream_uses = {}]
               r == [blk EXCEPT ![a].stream_uses = {}]
    <3>1. v \in Block /\ Freed(v, block[a], block[a].event_count)
      BY <1>5 DEF Block, Freed, SameShape
    <3>2. Sets(block, r, a, v) /\ blk[a].size = block[a].size
      BY <1>5 DEF Sets, Block
    <3>3. /\ block' = FreeBlock(r, a).block /\ pool' = FreeBlock(r, a).pool
          /\ bytes_cached' = bytes_cached + blk[a].size /\ queue' = queue
      BY <1>2, <2>1 DEF Salvaged
    <3>4. Waits' = Waits
      BY <1>6, <3>3 DEF Waits, Waiting
    <3> HIDE DEF v, r, blk, a
    <3>5. /\ Good(FreeBlock(r, a).block, segment, FreeBlock(r, a).pool, live \ {a}, Waits)
          /\ Merged(FreeBlock(r, a).block, FreeBlock(r, a).pool)
          /\ bytes_cached + block[a].size = SizeSum(FreeBlock(r, a).block, FreeBlock(r, a).pool)
          /\ bytes_allocated - block[a].size = SizeSum(FreeBlock(r, a).block, live \ {a})
      BY ONLY PInv, <1>5, <3>1, <3>2, FreedGood
    <3>6. /\ Good(block', segment', pool', live', Waits')
          /\ Merged(block', pool')
          /\ bytes_cached' = SizeSum(block', pool')
          /\ bytes_allocated' = SizeSum(block', live')
      BY <1>1, <1>4, <3>2, <3>3, <3>4, <3>5
    <3> QED
      BY <1>1, <1>5, <3>3, <3>6 DEF Sound, PInv
  <2>2. CASE on # {}
    <3>1. Recorded(blk, a, on) /\ UNCHANGED <<pool, bytes_cached>>
      BY <1>2, <2>2 DEF Salvaged
    <3>2. a = ptr[t] /\ Recorded([block EXCEPT ![a].allocated = FALSE], a, on)
      BY <3>1
    <3> HIDE DEF a, blk
    <3>3. /\ Good(block', segment, pool, live \ {a}, Waits')
          /\ Merged(block', pool)
          /\ bytes_cached = SizeSum(block', pool)
          /\ bytes_allocated - block[a].size = SizeSum(block', live \ {a})
          /\ queue' \in [Stream -> Seq(Addr)]
      BY <1>1, <1>3, <1>6, <2>2, <3>2, WaitsGood
    <3> QED
      BY <1>1, <1>4, <3>1, <3>3 DEF Sound, PInv
  <2> QED
    BY <2>1, <2>2
<1> QED
  BY <1>1, <1>7, FreeEnds

LEMMA InsertThrowsStep ==
  ASSUME PInv, NEW t \in Thread, InsertThrows(t)
  PROVE  PInv'
<1> DEFINE a == ptr[t]
           on == Uses(t, block[a])
           v == [block[a] EXCEPT !.allocated = FALSE, !.stream_uses = on]
<1>1. /\ "device_late" \in Faults /\ pc[t] = "free" /\ on # {} /\ Unlist(t) /\ Throw(t)
      /\ block' = [block EXCEPT ![a].allocated = FALSE, ![a].stream_uses = on]
      /\ UNCHANGED <<pool, queue, segment, bytes_cached, bytes_reserved, limits, device>>
  BY DEF InsertThrows
<1>2. /\ a \in live /\ a \in DOMAIN block /\ block[a] \in Block
      /\ queue \in [Stream -> Seq(Addr)] /\ \A u \in Thread : pc[u] # "flush"
      /\ on \subseteq Stream
  BY <1>1, Freeing1
<1>3. live' = live \ {a} /\ bytes_allocated' = bytes_allocated - block[a].size
  BY <1>1 DEF Unlist
<1>4. synced' = synced
  BY <1>1, <1>2, NothingHalfDone DEF Throw
<1>5. Strands(v, block[a]) /\ v \in Block /\ Sets(block, block', a, v)
  BY <1>1, <1>2 DEF Block, SameShape, Strands, Sets
<1>6. Waits' = Waits
  BY <1>1, <1>4 DEF Waits, Waiting
<1>7. /\ Good(block, segment, pool, live, Waits) /\ Merged(block, pool)
      /\ bytes_cached = SizeSum(block, pool) /\ bytes_allocated = SizeSum(block, live)
  BY DEF PInv, Sound
<1> HIDE DEF v, on, a
<1>8. /\ Good(block', segment, pool, live \ {a}, Waits)
      /\ Merged(block, pool) => Merged(block', pool)
      /\ SizeSum(block', pool) = SizeSum(block, pool)
      /\ SizeSum(block', live \ {a}) = SizeSum(block, live) - block[a].size
  BY ONLY <1>1, <1>2, <1>5, <1>7, StrandStep
<1>9. Sound'
  BY <1>1, <1>3, <1>6, <1>7, <1>8 DEF Sound, PInv
<1> QED
  BY <1>1, <1>2, <1>9, FreeEnds

LEMMA RecordStreamStep ==
  ASSUME PInv, NEW t \in Thread, NEW a \in live, NEW s \in Stream, record_stream(t, a, s)
  PROVE  PInv'
<1> DEFINE u == {s} \ {DefaultStream, block[a].stream}
<1>1. /\ DOMAIN declared' = DOMAIN declared
      /\ UNCHANGED <<lock, pool, live, queue, segment, bytes, limits, pc, call, device, work>>
  BY DEF record_stream
<1>2. u \in SUBSET Stream
  OBVIOUS
<1>3. AddsUses(block, block', a, u)
  BY DEF record_stream, AddsUses
<1> HIDE DEF u
<1>4. Good(block, segment, pool, live, Waits)
  BY DEF PInv, Sound
<1>5. /\ Good(block', segment, pool, live, Waits)
      /\ Merged(block, pool) => Merged(block', pool)
      /\ SizeSum(block', pool) = SizeSum(block, pool)
      /\ SizeSum(block', live) = SizeSum(block, live)
  BY ONLY <1>2, <1>3, <1>4, a \in live, UsesStep
<1>6. Waits' = Waits
  BY <1>1 DEF Waits, Waiting, call
<1>7. Sound'
  BY <1>1, <1>5, <1>6 DEF PInv, Sound, bytes
<1>8. Types' /\ CallTypes'
  BY <1>1 DEF PInv, Types, CallTypes, call, limits
<1>9. LockInv' /\ CallInv' /\ SyncedInv'
  BY <1>1 DEF PInv, LockInv, CallInv, SyncedInv, Requesting, call
<1>10. \A w \in Thread : SegmentSize(w)' = SegmentSize(w)
  BY <1>1, SegmentSizeKept DEF call
<1>11. DeviceInv'
  BY <1>1, <1>10 DEF PInv, DeviceInv, call
<1>12. Backed'
  BY <1>1 DEF PInv, Backed, Unbooked, call
<1> QED
  BY <1>7, <1>8, <1>9, <1>11, <1>12 DEF PInv

-----------------------------------------------------------------------------
(* The allocator begins empty, and ends empty. *)

LEMMA EmptyGood ==
  ASSUME NEW W, \A s \in Stream : W[s] = <<>>
  PROVE  /\ Good(<<>>, <<>>, {}, {}, W) /\ Merged(<<>>, {})
         /\ SizeSum(<<>>, {}) = 0 /\ SumFunction(<<>>) = 0
<1>1. DOMAIN <<>> = {}
  OBVIOUS
<1>2. Heap(<<>>, <<>>)
  BY <1>1 DEF Heap, Blocks, Segments
<1>3. \A s \in Stream : Range(W[s]) = {} /\ IsInjective(W[s])
  BY <1>1 DEF Range, IsInjective
<1>4. Placed(<<>>, {}, {}, W)
  BY <1>1, <1>3 DEF Placed
<1>5. SizeSum(<<>>, {}) = 0
  BY SumOfNone DEF SizeSum
<1>6. SumFunction(<<>>) = 0
  BY <1>1, SumOfNone DEF SumFunction
<1> QED
  BY <1>2, <1>4, <1>5, <1>6 DEF Good, Merged

LEMMA InitPInv ==
  ASSUME Init
  PROVE  PInv
<1>1. \A s \in Stream : Waits[s] = <<>>
  <2> SUFFICES ASSUME NEW s \in Stream PROVE Waits[s] = <<>>
    OBVIOUS
  <2>1. queue[s] = <<>> /\ synced[s] = 0
    BY DEF Init
  <2> QED
    BY <2>1 DEF Waits, Waiting
<1>2. Sound
  BY <1>1, EmptyGood DEF Init, Sound
<1>3. <<>> \in Seq(Addr) /\ DOMAIN <<>> = {}
  OBVIOUS
<1>4. Types
  BY <1>3 DEF Init, Types
<1>5. CallTypes
  <2>1. NoRequest \in [size : Nat, stream : Stream \cup {DefaultStream}, limit : Nat]
    BY AllocatorAssumption DEF NoRequest
  <2> QED
    BY <2>1 DEF Init, CallTypes, LockedLabels, OpenLabels
<1>6. \A t \in Thread : pc[t] = "idle" /\ ~nested[t]
  BY DEF Init
<1>7. LockInv /\ CallInv
  BY <1>6, AllocatorAssumption DEF Init, LockInv, LockedLabels, CallInv, Requesting, OpenLabels
<1>8. SyncedInv
  BY DEF Init, SyncedInv
<1>9. DeviceInv /\ Backed
  BY <1>3, <1>6 DEF Init, DeviceInv, Backed, Unbooked
<1> QED
  BY <1>2, <1>4, <1>5, <1>7, <1>8, <1>9 DEF PInv

\* The walk from a block to the head of its chain ends at the segment's base.
LEMMA HeadOfBase ==
  ASSUME Heap(block, segment), NEW b \in DOMAIN segment
  PROVE  b \in DOMAIN block /\ HeadOf(b) = b
<1>1. b \in DOMAIN block /\ block[b].prev = null
  BY BaseBlock
<1> DEFINE h == [x \in DOMAIN block |-> block[x].segment_base]
           Walks(f) == f = [x \in DOMAIN block |->
                              IF block[x].prev = null THEN x ELSE f[block[x].prev]]
           head == CHOOSE f : Walks(f)
<1>2. Walks(h)
  <2>1. ASSUME NEW x \in DOMAIN block
        PROVE  h[x] = IF block[x].prev = null THEN x ELSE h[block[x].prev]
    <3>1. CASE block[x].prev = null
      <4>1. InTile(block, segment, x)
        BY DEF Heap
      <4> QED
        BY <3>1, <4>1 DEF InTile
    <3>2. CASE block[x].prev # null
      <4> DEFINE p == block[x].prev
      <4>1. p \in DOMAIN block /\ block[p].next = x
        BY <3>2 DEF Heap
      <4>2. x # null
        BY AddrFacts DEF Heap, Blocks
      <4>3. block[x].segment_base = block[p].segment_base
        BY <4>1, <4>2, Neighbours
      <4> QED
        BY <3>2, <4>1, <4>3
    <3> QED
      BY <3>1, <3>2
  <2> QED
    BY <2>1
<1>3. Walks(head)
  <2> HIDE DEF Walks, h
  <2> QED
    BY <1>2
<1>4. HeadOf(b) = head[b]
  BY DEF HeadOf
<1> HIDE DEF head
<1>5. head[b] = IF block[b].prev = null THEN b ELSE head[block[b].prev]
  BY <1>1, <1>3
<1> QED
  BY <1>1, <1>4, <1>5

LEMMA DestroyStep ==
  ASSUME PInv, Destroy
  PROVE  PInv'
<1>1. /\ lock = NoThread /\ \A t \in Thread : pc[t] = "idle"
      /\ \E kept \in SUBSET {HeadOf(a) : a \in Everywhere} :
           /\ "free" \in Faults \/ kept = {}
           /\ device' = Restrict(device, DOMAIN device \ ({HeadOf(a) : a \in Everywhere} \ kept))
      /\ block' = <<>> /\ pool' = {} /\ live' = {} /\ segment' = <<>>
      /\ queue' = [s \in Stream |-> <<>>]
      /\ bytes_cached' = 0 /\ bytes_allocated' = 0 /\ bytes_reserved' = 0
      /\ max_cached_bytes' = Unlimited /\ allowed_memory_maximum' = Unlimited
      /\ declared' = <<>>
      /\ UNCHANGED <<lock, pc, call>>
  BY DEF Destroy
<1>2. \A s \in Stream : synced[s] = 0 /\ Waiting(s) = queue[s]
  BY <1>1, NothingHalfDone
<1>3. \A s \in Stream : Waits'[s] = <<>>
  <2> SUFFICES ASSUME NEW s \in Stream PROVE Waits'[s] = <<>>
    OBVIOUS
  <2>1. queue'[s] = <<>> /\ synced'[s] = 0
    BY <1>1, <1>2 DEF call
  <2> QED
    BY <2>1 DEF Waits, Waiting
<1>4. Sound'
  BY <1>1, <1>3, EmptyGood DEF Sound
<1>5. /\ DOMAIN device' \subseteq DOMAIN device
      /\ \A b \in DOMAIN device' : device'[b] = device[b]
      /\ DOMAIN device' = {} \/ SegmentsMayLeak
  <2>1. Unbooked = {}
    BY <1>1 DEF Unbooked
  <2>2. DOMAIN device = DOMAIN segment \/ SegmentsMayLeak
    BY <2>1 DEF PInv, Backed
  <2>3. Heap(block, segment) /\ Placed(block, pool, live, Waits)
    BY DEF PInv, Sound, Good
  <2>4. ASSUME NEW b \in DOMAIN segment, ~SegmentsMayLeak
        PROVE  b \in {HeadOf(a) : a \in Everywhere}
    <3>1. b \in DOMAIN block /\ HeadOf(b) = b
      BY <2>3, HeadOfBase
    <3>2. "device_late" \notin Faults
      BY <2>4 DEF SegmentsMayLeak
    <3>3. b \in pool \/ b \in live \/ On(Waits, b) # {}
      BY <2>3, <3>1, <3>2 DEF Placed, InPlace
    <3>4. On(Waits, b) # {} => b \in UNION {Range(queue[s]) : s \in Stream}
      BY <1>2 DEF On, Waits
    <3>5. b \in Everywhere
      BY <3>3, <3>4 DEF Everywhere
    <3> QED
      BY <3>1, <3>5
  <2> DEFINE bases == {HeadOf(a) : a \in Everywhere}
  <2> HIDE DEF bases
  <2>5. PICK kept \in SUBSET bases :
          /\ "free" \in Faults \/ kept = {}
          /\ device' = Restrict(device, DOMAIN device \ (bases \ kept))
    BY <1>1 DEF bases
  <2>6. ~SegmentsMayLeak => kept = {} /\ DOMAIN device \subseteq bases
    BY <2>2, <2>4, <2>5 DEF SegmentsMayLeak, bases
  <2> QED
    BY <2>5, <2>6 DEF Restrict
<1>6. Types'
  <2>1. <<>> \in Seq(Addr) /\ DOMAIN <<>> = {}
    OBVIOUS
  <2>2. queue' \in [Stream -> Seq(Addr)] /\ DOMAIN declared' = live' /\ DOMAIN segment' \subseteq Base
    BY <1>1, <2>1
  <2> QED
    BY <1>1, <1>5, <2>2, CallFunctions DEF PInv, Types, call
<1>7. CallTypes'
  BY <1>1 DEF PInv, CallTypes, call
<1>8. LockInv' /\ CallInv'
  BY <1>1 DEF PInv, LockInv, CallInv, Requesting, OpenLabels, call
<1>9. SyncedInv'
  BY <1>1, <1>2 DEF SyncedInv, call
<1>10. DeviceInv' /\ Backed'
  <2>1. \A t \in Thread : pc'[t] # "mapped"
    BY <1>1
  <2>2. DOMAIN segment' = {}
    BY <1>1
  <2>3. Unbooked' = {}
    BY <2>1 DEF Unbooked
  <2>4. /\ \A b \in DOMAIN device' : b + device'[b] <= AddrLimit
        /\ \A b, c \in DOMAIN device' : b < c => b + device'[b] <= c
    BY <1>5 DEF PInv, DeviceInv
  <2> QED
    BY <1>5, <2>1, <2>2, <2>3, <2>4 DEF DeviceInv, Backed
<1> QED
  BY <1>4, <1>6, <1>7, <1>8, <1>9, <1>10 DEF PInv

-----------------------------------------------------------------------------
(* Every step. *)

LEMMA AllocatingStep ==
  ASSUME PInv, NEW t \in Thread, Allocating(t)
  PROVE  PInv'
<1>1. ASSUME NEW n \in Sizes, NEW s \in Stream, Allocate(t, n, s) PROVE PInv'
  BY <1>1, AllocateStep
<1>2. CASE Hit(t)
  BY <1>2, HitStep
<1>3. CASE RunCallbacks(t)
  BY <1>3, RunCallbacksStep
<1>4. ASSUME NEW freed \in BOOLEAN, CallbacksDone(t, freed) PROVE PInv'
  BY <1>4, CallbacksDoneStep
<1>5. CASE Miss(t)
  BY <1>5, MissStep
<1>6. CASE Recheck(t)
  BY <1>6, RecheckStep
<1>7. CASE DriverMalloc(t)
  BY <1>7, DriverMallocStep
<1>8. CASE DriverRefuses(t)
  <2>1. pc[t] \in {"driver", "driver_retry"} /\ UNCHANGED <<lock, core, bytes, limits, call, world>>
    BY <1>8 DEF DriverRefuses
  <2>2. PICK p \in {"refused", "exhausted"} : Goto(t, p)
    BY <1>8 DEF DriverRefuses
  <2> QED
    BY <2>1, <2>2, RefusedStep
<1>9. CASE DriverErrs(t)
  BY <1>9, RefusedStep DEF DriverErrs
<1>10. CASE BookSegment(t)
  BY <1>10, BookSegmentStep
<1>11. CASE FlushForRetry(t)
  BY <1>11, FlushForRetryStep
<1>12. CASE GiveUp(t)
  BY <1>12, ThrowStep DEF GiveUp
<1>13. CASE DeviceThrows(t)
  BY <1>13, ThrowStep DEF DeviceThrows, FlushDue
<1> QED
  BY <1>1, <1>2, <1>3, <1>4, <1>5, <1>6, <1>7, <1>8, <1>9, <1>10, <1>11, <1>12, <1>13
  DEF Allocating

LEMMA FreeingStep ==
  ASSUME PInv, NEW t \in Thread, Freeing(t)
  PROVE  PInv'
<1>1. ASSUME NEW a \in live, NEW s \in Stream \cup {DefaultStream}, Deallocate(t, a, s)
      PROVE  PInv'
  BY <1>1, DeallocateStep
<1>2. CASE FreeNow(t)
  BY <1>2, FreeNowStep
<1>3. CASE FreeLater(t)
  BY <1>3, FreeLaterStep
<1>4. CASE RecordThrows(t)
  BY <1>4, RecordThrowsStep
<1>5. CASE InsertThrows(t)
  BY <1>5, InsertThrowsStep
<1> QED
  BY <1>1, <1>2, <1>3, <1>4, <1>5 DEF Freeing

LEMMA KeepingStep ==
  ASSUME NoSyncFault, PInv, NEW t \in Thread, Keeping(t)
  PROVE  PInv'
<1>1. ASSUME NEW s \in Stream, PollEvent(t, s) PROVE PInv'
  BY <1>1, PollEventStep
<1>2. CASE PollDone(t)
  BY <1>2, PollDoneStep
<1>3. CASE PollThrows(t)
  BY <1>3, ThrowStep DEF PollThrows, LockedLabels
<1>4. ASSUME NEW s \in Stream, SyncEvent(t, s) PROVE PInv'
  BY <1>4, SyncEventStep
<1>5. CASE SyncThrows(t)
  BY <1>5 DEF SyncThrows, NoSyncFault
<1>6. CASE FlushBlock(t)
  <2>1. PICK a \in Releasable : Release(a)
    BY <1>6 DEF FlushBlock
  <2> QED
    BY <1>6, <2>1, ReleaseStep DEF FlushBlock
<1>7. CASE FlushDone(t)
  BY <1>7, FlushDoneStep
<1>8. CASE TrimBlock(t)
  <2>1. PICK a \in Victims : Release(a)
    BY <1>8 DEF TrimBlock
  <2>2. a \in Releasable
    BY DEF Victims
  <2> QED
    BY <1>8, <2>1, <2>2, ReleaseStep DEF TrimBlock
<1>9. CASE TrimDone(t)
  BY <1>9, LeaveStep DEF TrimDone
<1> QED
  BY <1>1, <1>2, <1>3, <1>4, <1>5, <1>6, <1>7, <1>8, <1>9 DEF Keeping

LEMMA SettingStep ==
  ASSUME PInv, NEW t \in Thread, Setting(t)
  PROVE  PInv'
<1>1. ASSUME NEW a \in live, NEW s \in Stream, record_stream(t, a, s) PROVE PInv'
  BY <1>1, RecordStreamStep
<1>2. CASE empty_cache(t)
  BY <1>2, EmptyCacheStep
<1>3. ASSUME NEW n \in CapChoices, set_max_cached_bytes(t, n) PROVE PInv'
  BY <1>3, SetCapStep
<1>4. ASSUME NEW n \in MaxChoices, set_memory_fraction(t, n) PROVE PInv'
  BY <1>4, SetFractionStep
<1> QED
  BY <1>1, <1>2, <1>3, <1>4 DEF Setting

LEMMA NextPInv ==
  ASSUME NoSyncFault, PInv, [Next]_vars
  PROVE  PInv'
<1>1. ASSUME NEW t \in Thread, Allocating(t) \/ Freeing(t) \/ Keeping(t) \/ Setting(t)
      PROVE  PInv'
  BY <1>1, AllocatingStep, FreeingStep, KeepingStep, SettingStep
<1>2. CASE Destroy
  BY <1>2, DestroyStep
<1>3. allowed_memory_maximum \in MaxChoices \cup {Unlimited}
  BY DEF PInv, Types
<1>4. ASSUME NEW a \in live, NEW s \in Stream, Launch(a, s) PROVE PInv'
  BY <1>3, <1>4, StutterStep DEF Launch, limits
<1>5. ASSUME NEW s \in Stream, Finish(s) PROVE PInv'
  BY <1>3, <1>5, StutterStep DEF Finish, limits
<1>6. CASE UNCHANGED vars
  BY <1>3, <1>6, StutterStep DEF vars, limits, world
<1> QED
  BY <1>1, <1>2, <1>4, <1>5, <1>6 DEF Next

-----------------------------------------------------------------------------
(* Unless cudaEventSynchronize fails, AInv holds in every state the         *)
(* allocator, its clients and the driver reach.                             *)
THEOREM AllocatorInvariance == NoSyncFault => (Spec => []AInv)
<1> SUFFICES ASSUME NoSyncFault PROVE Spec => []AInv
  OBVIOUS
<1>1. Init => PInv
  BY InitPInv
<1>2. PInv /\ [Next]_vars => PInv'
  BY NextPInv
<1>3. PInv => AInv
  BY PInvGivesAInv
<1> QED
  BY <1>1, <1>2, <1>3, PTL DEF Spec

-----------------------------------------------------------------------------
(* The cap on the cache, when no driver call fails but for lack of memory: *)
(* any other failure ends a call before it has trimmed the cache.          *)

\* Trimming finds a largest block as long as one can be released.
LEMMA VictimExists ==
  ASSUME PInv, Releasable # {}
  PROVE  Victims # {}
<1> DEFINE Larger(a) == {b \in Releasable : block[a].size < block[b].size}
           T == {Larger(a) : a \in Releasable}
<1>1. Blocks(block) /\ Releasable \subseteq DOMAIN block
  BY DEF PInv, Sound, Good, Heap, Placed, Releasable
<1>2. IsFiniteSet(Releasable)
  BY <1>1, FiniteBlocks
<1>3. \A a \in Releasable : block[a].size \in Nat
  BY <1>1, BlockFields DEF Blocks
<1>4. PICK x \in T : \A y \in T : y \subseteq x => y = x
  <2>1. T \subseteq SUBSET Releasable /\ T # {}
    OBVIOUS
  <2> HIDE DEF T
  <2> QED
    BY <1>2, <2>1, SmallestSet
<1>5. PICK a \in Releasable : x = Larger(a)
  OBVIOUS
<1>6. ASSUME NEW b \in Releasable, ~(block[b].size <= block[a].size) PROVE FALSE
  <2>1. b \in Larger(a) /\ b \notin Larger(b)
    BY <1>3, <1>6
  <2>2. Larger(b) \subseteq Larger(a)
    BY <1>3, <2>1
  <2>3. Larger(b) = Larger(a)
    BY <1>4, <1>5, <2>2
  <2> HIDE DEF Larger
  <2> QED
    BY <2>1, <2>3
<1> QED
  BY <1>6 DEF Victims

\* A step after which its thread has yet to trim keeps CapInv, and so does one
\* that leaves the pool, the cap and every such thread alone.
LEMMA CapByThread ==
  ASSUME NEW t \in Thread, WillTrim(t)'
  PROVE  CapInv'
BY DEF CapInv

LEMMA CapByFrame ==
  ASSUME CapInv, UNCHANGED <<block, pool, bytes_cached, max_cached_bytes>>,
         \A u \in Thread : WillTrim(u) => WillTrim(u)'
  PROVE  CapInv'
<1>1. Releasable' = Releasable
  BY DEF Releasable
<1>2. OverCap' <=> OverCap
  BY DEF OverCap
<1> QED
  BY <1>1, <1>2 DEF CapInv

LEMMA CapByNone ==
  ASSUME UNCHANGED <<block, pool, bytes_cached, max_cached_bytes>>,
         ~OverCap \/ Releasable = {}
  PROVE  CapInv'
<1>1. Releasable' = Releasable
  BY DEF Releasable
<1>2. OverCap' <=> OverCap
  BY DEF OverCap
<1> QED
  BY <1>1, <1>2 DEF CapInv

LEMMA AllocatingCap ==
  ASSUME Faults \subseteq {"oom", "free"}, PInv, CapInv, NEW t \in Thread, Allocating(t)
  PROVE  CapInv'
<1>1. ASSUME NEW n \in Sizes, NEW s \in Stream, Allocate(t, n, s) PROVE CapInv'
  <2>1. pc'[t] = "poll"
    BY <1>1, CallFunctions DEF Allocate, Enter
  <2> QED
    BY <2>1, CapByThread DEF WillTrim
<1>2. CASE Hit(t) \/ BookSegment(t)
  <2>1. pc'[t] = "trim"
    BY <1>2, CallFunctions DEF Hit, BookSegment, Found, Goto
  <2> QED
    BY <2>1, CapByThread DEF WillTrim
<1>3. CASE RunCallbacks(t) \/ \E freed \in BOOLEAN : CallbacksDone(t, freed)
  <2>1. pc'[t] \in {"callback", "research", "miss"}
    BY <1>3, CallFunctions DEF RunCallbacks, CallbacksDone, Goto
  <2> QED
    BY <2>1, CapByThread DEF WillTrim
<1>4. CASE Miss(t) \/ DriverMalloc(t) \/ FlushForRetry(t)
  <2>1. pc'[t] \in {"flush", "driver", "mapped"}
    BY <1>4, CallFunctions DEF Miss, DriverMalloc, FlushForRetry, Goto
  <2> QED
    BY <2>1, CapByThread DEF WillTrim
<1>5. CASE Recheck(t) \/ GiveUp(t)
  <2>1. \/ pc'[t] = "driver"
        \/ /\ ~WillTrim(t) /\ Throw(t)
           /\ UNCHANGED <<block, pool, bytes_cached, max_cached_bytes>>
    BY <1>5, CallFunctions DEF Recheck, GiveUp, Goto, WillTrim, core, bytes, limits
  <2>2. CASE pc'[t] = "driver"
    BY <2>2, CapByThread DEF WillTrim
  <2>3. CASE ~WillTrim(t) /\ Throw(t) /\ UNCHANGED <<block, pool, bytes_cached, max_cached_bytes>>
    <3>1. \A u \in Thread : WillTrim(u) => WillTrim(u)'
      BY <2>3, CallFunctions DEF Throw, WillTrim
    <3> QED
      BY <2>3, <3>1, CapByFrame
  <2> QED
    BY <2>1, <2>2, <2>3
<1>6. CASE DriverRefuses(t)
  <2>1. pc'[t] = IF pc[t] = "driver" THEN "refused" ELSE "exhausted"
    BY <1>6, CallFunctions DEF DriverRefuses, Goto
  <2>2. CASE pc[t] = "driver"
    BY <2>1, <2>2, CapByThread DEF WillTrim
  <2>3. CASE pc[t] # "driver"
    <3>1. pc[t] = "driver_retry" /\ pc' = [pc EXCEPT ![t] = "exhausted"]
          /\ UNCHANGED <<block, pool, bytes_cached, max_cached_bytes>>
      BY <1>6, <2>3 DEF DriverRefuses, Goto, core, bytes, limits
    <3>2. \A u \in Thread : WillTrim(u) => WillTrim(u)'
      BY <3>1, CallFunctions DEF WillTrim
    <3> QED
      BY <3>1, <3>2, CapByFrame
  <2> QED
    BY <2>2, <2>3
<1>7. ~DriverErrs(t) /\ ~DeviceThrows(t)
  BY DEF DriverErrs, DeviceThrows
<1> QED
  BY <1>1, <1>2, <1>3, <1>4, <1>5, <1>6, <1>7 DEF Allocating

LEMMA KeepingCap ==
  ASSUME Faults \subseteq {"oom", "free"}, PInv, CapInv, NEW t \in Thread, Keeping(t)
  PROVE  CapInv'
<1>1. CASE (\E s \in Stream : PollEvent(t, s)) \/ (\E s \in Stream : SyncEvent(t, s))
           \/ FlushBlock(t) \/ TrimBlock(t)
  <2>1. pc'[t] \in {"poll", "flush", "trim"}
    BY <1>1 DEF PollEvent, SyncEvent, FlushBlock, TrimBlock
  <2> QED
    BY <2>1, CapByThread DEF WillTrim
<1>2. CASE PollDone(t)
  <2>1. pc'[t] = after[t] /\ after[t] \in {"search", "free"}
    BY <1>2, CallFunctions, CallInvIsCallOK DEF PollDone, Goto, PInv, CallOK
  <2> QED
    BY <2>1, CapByThread DEF WillTrim
<1>3. CASE FlushDone(t)
  BY <1>3, CapByNone DEF FlushDone, core, bytes, limits
<1>4. CASE TrimDone(t)
  BY <1>4, VictimExists, CapByNone DEF TrimDone, core, bytes, limits
<1>5. ~PollThrows(t) /\ ~SyncThrows(t)
  BY DEF PollThrows, SyncThrows
<1> QED
  BY <1>1, <1>2, <1>3, <1>4, <1>5 DEF Keeping

LEMMA NextCap ==
  ASSUME Faults \subseteq {"oom", "free"}, PInv, CapInv, [Next]_vars
  PROVE  CapInv'
<1>1. ASSUME NEW t \in Thread, Freeing(t) PROVE CapInv'
  <2>1. pc'[t] \in {"poll", "trim"}
    BY <1>1, CallFunctions DEF Freeing, Deallocate, Enter, FreeNow, FreeLater, RecordThrows, InsertThrows, Goto
  <2> QED
    BY <2>1, CapByThread DEF WillTrim
<1>2. ASSUME NEW t \in Thread, Setting(t) PROVE CapInv'
  <2>1. CASE empty_cache(t) \/ \E n \in CapChoices : set_max_cached_bytes(t, n)
    <3>1. pc'[t] \in {"flush", "trim"}
      BY <2>1, CallFunctions DEF empty_cache, set_max_cached_bytes, Enter
    <3> QED
      BY <3>1, CapByThread DEF WillTrim
  <2>2. ASSUME NEW n \in MaxChoices, set_memory_fraction(t, n) PROVE CapInv'
    BY <2>2, CapByFrame DEF set_memory_fraction, core, bytes, WillTrim
  <2>3. ASSUME NEW a \in live, NEW s \in Stream, record_stream(t, a, s) PROVE CapInv'
    <3>1. UNCHANGED <<pool, bytes_cached, max_cached_bytes, pc>>
      BY <2>3 DEF record_stream, bytes, limits
    <3>2. \A x \in DOMAIN block : is_split(block'[x]) <=> is_split(block[x])
      <4>1. a \in DOMAIN block /\ block[a] \in Block
        BY DEF PInv, Sound, Good, Heap, Blocks, Placed
      <4> QED
        BY <2>3, <4>1 DEF record_stream, is_split, Block
    <3>3. pool \subseteq DOMAIN block
      BY DEF PInv, Sound, Good, Placed
    <3>4. Releasable' = Releasable
      BY <3>1, <3>2, <3>3 DEF Releasable
    <3> QED
      BY <3>1, <3>4 DEF CapInv, OverCap, WillTrim
  <2> QED
    BY <1>2, <2>1, <2>2, <2>3 DEF Setting
<1>3. CASE Destroy
  BY <1>3 DEF Destroy, CapInv, OverCap
<1>4. CASE UNCHANGED vars \/ (\E a \in live, s \in Stream : Launch(a, s)) \/ \E s \in Stream : Finish(s)
  <2>1. UNCHANGED <<block, pool, bytes_cached, max_cached_bytes, pc>>
    BY <1>4 DEF vars, Launch, Finish, core, bytes, limits
  <2> QED
    BY <2>1, CapByFrame DEF WillTrim
<1> QED
  BY <1>1, <1>2, <1>3, <1>4, AllocatingCap, KeepingCap DEF Next

------------------------------------------------------------------------------
(* What AInv and CapInv give for the properties of CachingAllocator.       *)

(* No block ever has a size of zero or leaves the addresses, no event       *)
(* count and no byte count goes below zero: TypeOK, for the operations of   *)
(* cuda_caching_allocator::Impl together.                                   *)
THEOREM TypesHold == NoSyncFault => (Spec => []TypeOK)
<1>1. AInv => TypeOK
  BY DEF AInv
<1> QED
  BY <1>1, AllocatorInvariance, PTL

(* Whatever is split, merged, released and booked, the blocks of a segment  *)
(* tile it: Tiled, for split, merge_prev, merge_next and release_segment.   *)
THEOREM HeapIsTiled == NoSyncFault => (Spec => []Tiled)
<1>1. AInv => Tiled
  BY DEF AInv, HeapInv
<1> QED
  BY <1>1, AllocatorInvariance, PTL

(* Two neighbours are never both free: Coalesced, for free_block, which     *)
(* looks at each neighbour once and only at the moment a block is freed.    *)
THEOREM NoMergeMissed == NoSyncFault => (Spec => []Coalesced)
<1>1. AInv => Coalesced
  BY DEF AInv
<1> QED
  BY <1>1, AllocatorInvariance, PTL

(* The three byte counts are the sums of what is pooled, live and booked,   *)
(* and the driver's segments are those booked: Accounted.                   *)
THEOREM BytesAreAccounted == NoSyncFault => (Spec => []Accounted)
<1>1. AInv => Accounted
  BY DEF AInv
<1> QED
  BY <1>1, AllocatorInvariance, PTL

(* Whatever driver calls fail, cudaEventSynchronize excepted: a block is in *)
(* exactly one of the pools, allocated_blocks_ and the event queues, or the *)
(* device switch of insert_events_locked failed for it, and the bytes and   *)
(* segments are those booked: NothingLost.                                  *)
THEOREM NothingIsLost == NoSyncFault => (Spec => []NothingLost)
<1>1. AInv => NothingLost
  BY DEF AInv, NothingLost
<1> QED
  BY <1>1, AllocatorInvariance, PTL

(* The device switch of insert_events_locked and a flush cut short are the  *)
(* only failures that take a block out of reach: with neither of them,      *)
(* every block is live, pooled or queued (NotOrphaned).                     *)
THEOREM NothingIsOrphaned ==
  NoSyncFault /\ "device_late" \notin Faults => (Spec => []NotOrphaned)
<1> SUFFICES ASSUME NoSyncFault, "device_late" \notin Faults PROVE Spec => []NotOrphaned
  OBVIOUS
<1>1. AInv => NotOrphaned
  BY DEF AInv, Sorted, NotOrphaned
<1> QED
  BY <1>1, AllocatorInvariance, PTL

LEMMA CapInvGivesCapHeld ==
  ASSUME CapInv
  PROVE  CapHeld
<1> SUFFICES ASSUME \A t \in Thread : pc[t] = "idle", OverCap,
                    NEW a \in pool, ~is_split(block[a])
             PROVE  FALSE
  BY DEF CapHeld, OverCap
<1>1. a \in Releasable
  BY DEF Releasable
<1>2. PICK t \in Thread : WillTrim(t)
  BY <1>1 DEF CapInv
<1> QED
  BY <1>2 DEF WillTrim

(* Between calls nothing that could be released is cached past the cap:     *)
(* CapHeld, for trim_cache_locked and the calls that end with it, when no   *)
(* driver call fails but cudaMalloc for lack of memory, and cudaFree.       *)
THEOREM CapIsHeld == Faults \subseteq {"oom", "free"} => (Spec => []CapHeld)
<1> SUFFICES ASSUME Faults \subseteq {"oom", "free"} PROVE Spec => []CapHeld
  OBVIOUS
<1>1. NoSyncFault
  BY DEF NoSyncFault
<1>2. Init => PInv /\ CapInv
  <2>1. Init => ~OverCap
    BY DEF Init, OverCap
  <2> QED
    BY <2>1, InitPInv DEF CapInv
<1>3. PInv /\ CapInv /\ [Next]_vars => (PInv /\ CapInv)'
  BY <1>1, NextPInv, NextCap
<1>4. PInv /\ CapInv => CapHeld
  BY CapInvGivesCapHeld
<1> QED
  BY <1>2, <1>3, <1>4, PTL DEF Spec

-----------------------------------------------------------------------------
(* The memory fraction, with one thread: nobody books a segment between    *)
(* the moment a call finds room and the moment it takes it.                *)

OneThread == \A t, u \in Thread : t = u

LEMMA ByteTypes ==
  ASSUME PInv
  PROVE  /\ bytes_reserved \in Nat /\ allowed_memory_maximum \in Nat
         /\ \A a \in Releasable : block[a].size \in Nat
<1>1. TypeOK
  BY PInvGivesAInv DEF AInv
<1>2. Releasable \subseteq DOMAIN block
  BY DEF PInv, Sound, Good, Placed, Releasable
<1> QED
  BY <1>1, <1>2, AllocatorAssumption, AddrFacts DEF TypeOK, Block

\* A step after which the thread is not between the two moments.
LEMMA FractionByNone ==
  ASSUME OneThread, NEW t \in Thread, ~Committed(t)'
  PROVE  FractionInv'
BY DEF OneThread, FractionInv

\* A step that leaves room where there was room.
LEMMA FractionByFrame ==
  ASSUME PInv, FractionInv, req' = req, allowed_memory_maximum' = allowed_memory_maximum,
         bytes_reserved' \in Int, bytes_reserved' <= bytes_reserved,
         \A t \in Thread : Committed(t)' => Committed(t)
  PROVE  FractionInv'
<1> SUFFICES ASSUME NEW t \in Thread, Committed(t)'
             PROVE  bytes_reserved' + SegmentSize(t)' <= allowed_memory_maximum'
  BY DEF FractionInv
<1>1. SegmentSize(t)' = SegmentSize(t) /\ SegmentSize(t) \in Nat
  BY SegmentSizeKept, SizesPositive
<1>2. bytes_reserved + SegmentSize(t) <= allowed_memory_maximum
  BY DEF FractionInv
<1>3. bytes_reserved \in Nat /\ allowed_memory_maximum \in Nat
  BY ByteTypes
<1> QED
  BY <1>1, <1>2, <1>3

LEMMA AllocatingFraction ==
  ASSUME OneThread, PInv, FractionInv, NEW t \in Thread, Allocating(t)
  PROVE  FractionInv'
<1>1. CASE \/ \E n \in Sizes, s \in Stream : Allocate(t, n, s)
           \/ Hit(t) \/ RunCallbacks(t) \/ (\E freed \in BOOLEAN : CallbacksDone(t, freed))
           \/ BookSegment(t) \/ GiveUp(t) \/ DriverErrs(t) \/ DeviceThrows(t)
  <2>1. pc'[t] \in {"poll", "trim", "callback", "research", "miss", "idle", "exhausted"}
    BY <1>1, CallFunctions
       DEF Allocate, Enter, Hit, Found, RunCallbacks, CallbacksDone, BookSegment, GiveUp, Throw,
           DriverErrs, DeviceThrows, Goto
  <2>2. ~Committed(t)'
    BY <2>1 DEF Committed
  <2> QED
    BY <2>2, FractionByNone
<1>2. CASE Miss(t) \/ Recheck(t)
  <2>1. \/ pc'[t] = "idle"
        \/ pc'[t] = "flush" /\ after'[t] = "recheck"
        \/ ~reserved_would_exceed(t) /\ req' = req
    BY <1>2, CallFunctions DEF Miss, Recheck, Throw, Goto, call
  <2>2. CASE pc'[t] = "idle" \/ (pc'[t] = "flush" /\ after'[t] = "recheck")
    <3>1. ~Committed(t)'
      BY <2>2 DEF Committed
    <3> QED
      BY <3>1, FractionByNone
  <2>3. CASE ~reserved_would_exceed(t) /\ req' = req
    <3>1. UNCHANGED <<bytes_reserved, allowed_memory_maximum>>
      BY <1>2 DEF Miss, Recheck, bytes, limits
    <3>2. SegmentSize(t)' = SegmentSize(t) /\ SegmentSize(t) \in Nat
      BY <2>3, SegmentSizeKept, SizesPositive
    <3>3. bytes_reserved + SegmentSize(t) <= allowed_memory_maximum
      BY <2>3, <3>2, ByteTypes DEF reserved_would_exceed
    <3> QED
      BY <3>1, <3>2, <3>3 DEF OneThread, FractionInv
  <2> QED
    BY <2>1, <2>2, <2>3
<1>3. CASE DriverMalloc(t) \/ DriverRefuses(t) \/ FlushForRetry(t)
  <2>1. /\ UNCHANGED <<bytes_reserved, allowed_memory_maximum, req>>
        /\ Committed(t)
    BY <1>3 DEF DriverMalloc, DriverRefuses, FlushForRetry, Committed, bytes, limits, call
  <2>2. \A u \in Thread : Committed(u)
    BY <2>1 DEF OneThread
  <2> QED
    BY <2>1, <2>2, ByteTypes, FractionByFrame
<1> QED
  BY <1>1, <1>2, <1>3 DEF Allocating

LEMMA KeepingFraction ==
  ASSUME OneThread, PInv, FractionInv, NEW t \in Thread, Keeping(t)
  PROVE  FractionInv'
<1>1. CASE (\E s \in Stream : PollEvent(t, s)) \/ PollDone(t) \/ PollThrows(t) \/ SyncThrows(t)
           \/ TrimBlock(t) \/ TrimDone(t)
  <2>1. pc'[t] \in {"poll", "search", "free", "idle", "trim", "callback"}
    <3>1. CASE PollDone(t)
      BY <3>1, CallFunctions, CallInvIsCallOK DEF PollDone, Goto, PInv, CallOK
    <3> QED
      BY <1>1, <3>1, CallFunctions
         DEF PollEvent, PollThrows, SyncThrows, Throw, TrimBlock, TrimDone, Leave
  <2>2. ~Committed(t)'
    BY <2>1 DEF Committed
  <2> QED
    BY <2>2, FractionByNone
<1>2. CASE \E s \in Stream : SyncEvent(t, s)
  <2>1. UNCHANGED <<bytes_reserved, allowed_memory_maximum, req, pc, after>>
    BY <1>2 DEF SyncEvent, limits
  <2> QED
    BY <2>1, ByteTypes, FractionByFrame DEF Committed
<1>3. CASE FlushBlock(t)
  <2>1. /\ UNCHANGED <<allowed_memory_maximum, req, pc, after>>
        /\ \E a \in Releasable : bytes_reserved' = bytes_reserved - block[a].size
    BY <1>3 DEF FlushBlock, Release, limits, call
  <2>2. bytes_reserved' \in Int /\ bytes_reserved' <= bytes_reserved
    BY <2>1, ByteTypes
  <2> QED
    BY <2>1, <2>2, FractionByFrame DEF Committed
<1>4. CASE FlushDone(t)
  <2>1. after[t] \in {"return", "recheck", "driver_retry"} /\ pc[t] = "flush"
    BY <1>4, CallInvIsCallOK DEF FlushDone, PInv, CallOK
  <2>2. CASE after[t] \in {"return", "recheck"}
    <3>1. pc'[t] \in {"idle", "callback", "recheck"}
      BY <1>4, <2>2, CallFunctions DEF FlushDone, Leave, Goto
    <3>2. ~Committed(t)'
      BY <3>1 DEF Committed
    <3> QED
      BY <3>2, FractionByNone
  <2>3. CASE after[t] = "driver_retry"
    <3>1. UNCHANGED <<bytes_reserved, allowed_memory_maximum, req>> /\ Committed(t)
      BY <1>4, <2>1, <2>3 DEF FlushDone, Committed, bytes, limits
    <3>2. \A u \in Thread : Committed(u)
      BY <3>1 DEF OneThread
    <3> QED
      BY <3>1, <3>2, ByteTypes, FractionByFrame
  <2> QED
    BY <2>1, <2>2, <2>3
<1> QED
  BY <1>1, <1>2, <1>3, <1>4 DEF Keeping

LEMMA NextFraction ==
  ASSUME OneThread, PInv, FractionInv, [Next]_vars
  PROVE  FractionInv'
<1>1. ASSUME NEW t \in Thread, Freeing(t) PROVE FractionInv'
  <2>1. pc'[t] \in {"poll", "trim", "idle"}
    BY <1>1, CallFunctions
       DEF Freeing, Deallocate, Enter, FreeNow, FreeLater, RecordThrows, InsertThrows, Throw, Goto
  <2>2. ~Committed(t)'
    BY <2>1 DEF Committed
  <2> QED
    BY <2>2, FractionByNone
<1>2. ASSUME NEW t \in Thread, Setting(t) PROVE FractionInv'
  <2>1. \/ pc'[t] \in {"trim", "idle"}
        \/ pc'[t] = "flush" /\ after'[t] = "return"
    BY <1>2, CallFunctions
       DEF Setting, empty_cache, set_max_cached_bytes, Enter, set_memory_fraction, record_stream
  <2>2. ~Committed(t)'
    BY <2>1 DEF Committed
  <2> QED
    BY <2>2, FractionByNone
<1>3. CASE Destroy
  <2>1. \A t \in Thread : pc'[t] = "idle"
    BY <1>3 DEF Destroy
  <2> QED
    BY <2>1 DEF FractionInv, Committed
<1>4. CASE UNCHANGED vars \/ (\E a \in live, s \in Stream : Launch(a, s)) \/ \E s \in Stream : Finish(s)
  <2>1. UNCHANGED <<bytes_reserved, allowed_memory_maximum, req, pc, after>>
    BY <1>4 DEF vars, Launch, Finish, bytes, limits, call
  <2> QED
    BY <2>1, ByteTypes, FractionByFrame DEF Committed
<1> QED
  BY <1>1, <1>2, <1>3, <1>4, AllocatingFraction, KeepingFraction DEF Next

LEMMA MaxIsAbove ==
  \A x, y \in Nat : y <= Max({x, y}) /\ Max({x, y}) \in Nat
<1> SUFFICES ASSUME NEW x \in Nat, NEW y \in Nat PROVE y <= Max({x, y}) /\ Max({x, y}) \in Nat
  OBVIOUS
<1>1. \E z \in {x, y} : \A w \in {x, y} : z >= w
  <2>1. CASE x >= y
    BY <2>1
  <2>2. CASE ~(x >= y)
    BY <2>2
  <2> QED
    BY <2>1, <2>2
<1>2. Max({x, y}) \in {x, y} /\ \A w \in {x, y} : Max({x, y}) >= w
  BY <1>1 DEF Max
<1> QED
  BY <1>2

(* With one host thread an allocation begun under a memory fraction keeps   *)
(* the reserved bytes within it: FractionHeld, for allocate and             *)
(* alloc_segment, which compare the limit before the mutex is dropped       *)
(* around cudaMalloc and charge it after.  With two the run shows that it   *)
(* does not hold.                                                           *)
THEOREM FractionIsHeldAlone == OneThread /\ NoSyncFault => (Spec => FractionHeld)
<1> SUFFICES ASSUME OneThread, NoSyncFault PROVE Spec => FractionHeld
  OBVIOUS
<1>1. Init => PInv /\ FractionInv
  BY InitPInv DEF Init, FractionInv, Committed
<1>2. PInv /\ FractionInv /\ [Next]_vars => (PInv /\ FractionInv)'
  BY NextPInv, NextFraction
<1>3. PInv /\ FractionInv /\ [Next]_vars =>
        [\A t \in Thread : BookSegment(t) =>
           bytes_reserved' <= Max({req[t].limit, allowed_memory_maximum})]_vars
  <2> SUFFICES ASSUME PInv, FractionInv, NEW t \in Thread, BookSegment(t)
               PROVE  bytes_reserved' <= Max({req[t].limit, allowed_memory_maximum})
    OBVIOUS
  <2>1. bytes_reserved' = bytes_reserved + SegmentSize(t) /\ Committed(t)
    BY DEF BookSegment, Committed
  <2>2. bytes_reserved' <= allowed_memory_maximum
    BY <2>1 DEF FractionInv
  <2>3. /\ bytes_reserved' \in Nat /\ allowed_memory_maximum \in Nat /\ req[t].limit \in Nat
    BY <2>1, ByteTypes, SizesPositive, CallFunctions
  <2>4. allowed_memory_maximum <= Max({req[t].limit, allowed_memory_maximum})
    BY <2>3, MaxIsAbove
  <2>5. Max({req[t].limit, allowed_memory_maximum}) \in Nat
    BY <2>3, MaxIsAbove
  <2> QED
    BY <2>2, <2>3, <2>4, <2>5
<1> QED
  BY <1>1, <1>2, <1>3, PTL DEF Spec, FractionHeld
=============================================================================
