------------------------- MODULE CachingPromiseProofs -------------------------
(***************************************************************************)
(* The caching allocator keeps the promise of StreamHeap: memory is never  *)
(* handed out twice, nor while another stream works in it.  SInv of        *)
(* CachingAllocatorInv says why: a kernel only touches blocks of its own   *)
(* stream, live blocks whose client answers for it, and blocks that an     *)
(* event recorded behind it keeps out of the pools.                        *)
(***************************************************************************)
EXTENDS CachingAllocatorProofs

-----------------------------------------------------------------------------
(* Counting the markers in what is left of a stream. *)

MarkersIn(w, i) == {j \in (i + 1) .. Len(w) : w[j] = Marker}

LEMMA BehindFacts ==
  ASSUME NEW S, NEW w \in Seq(S), NEW i \in Nat
  PROVE  /\ IsFiniteSet(MarkersIn(w, i)) /\ Behind(w, i) = Cardinality(MarkersIn(w, i))
         /\ Behind(w, i) \in Nat /\ Behind(w, i) <= Behind(w, 0)
<1>1. \A n \in Nat : IsFiniteSet(MarkersIn(w, n)) /\ Cardinality(MarkersIn(w, n)) \in Nat
  <2> SUFFICES ASSUME NEW n \in Nat
               PROVE  IsFiniteSet(MarkersIn(w, n)) /\ Cardinality(MarkersIn(w, n)) \in Nat
    OBVIOUS
  <2>1. IsFiniteSet((n + 1) .. Len(w))
    BY FS_Interval
  <2>2. MarkersIn(w, n) \in SUBSET ((n + 1) .. Len(w))
    BY DEF MarkersIn
  <2>3. IsFiniteSet(MarkersIn(w, n))
    BY <2>1, <2>2, FS_Subset
  <2> QED
    BY <2>3, FS_CardinalityType
<1>2. \A n \in Nat : Behind(w, n) = Cardinality(MarkersIn(w, n))
  BY DEF Behind, MarkersIn
<1>3. MarkersIn(w, i) \in SUBSET MarkersIn(w, 0)
  BY DEF MarkersIn
<1>4. Cardinality(MarkersIn(w, i)) <= Cardinality(MarkersIn(w, 0))
  BY <1>1, <1>3, FS_Subset
<1> QED
  BY <1>1, <1>2, <1>4

LEMMA PendingIsBehind ==
  ASSUME NEW s
  PROVE  Pending(s) = Behind(work[s], 0)
BY DEF Pending, Behind

LEMMA BehindAppend ==
  ASSUME NEW S, NEW w \in Seq(S), NEW e \in S, NEW i \in 0 .. Len(w)
  PROVE  Behind(Append(w, e), i) = Behind(w, i) + (IF e = Marker THEN 1 ELSE 0)
<1> DEFINE v == Append(w, e)
           n == Len(w) + 1
<1>1. v \in Seq(S) /\ Len(v) = n /\ v[n] = e /\ \A j \in 1 .. Len(w) : v[j] = w[j]
  OBVIOUS
<1>2. Len(w) \in Nat /\ i \in Nat /\ n \in Nat
  OBVIOUS
<1> HIDE DEF v
<1>3. MarkersIn(v, i) = MarkersIn(w, i) \cup (IF e = Marker THEN {n} ELSE {})
  <2>1. \A j \in MarkersIn(v, i) : j \in MarkersIn(w, i) \/ (j = n /\ e = Marker)
    BY <1>1, <1>2 DEF MarkersIn
  <2>2. \A j \in MarkersIn(w, i) : j \in MarkersIn(v, i)
    BY <1>1, <1>2 DEF MarkersIn
  <2>3. e = Marker => n \in MarkersIn(v, i)
    BY <1>1, <1>2 DEF MarkersIn
  <2> QED
    BY <2>1, <2>2, <2>3
<1>4. n \notin MarkersIn(w, i)
  BY DEF MarkersIn
<1>5. IsFiniteSet(MarkersIn(w, i)) /\ Behind(w, i) = Cardinality(MarkersIn(w, i))
      /\ Behind(w, i) \in Nat /\ Behind(v, i) = Cardinality(MarkersIn(v, i))
  BY <1>1, <1>2, BehindFacts
<1>6. CASE e = Marker
  <2>1. MarkersIn(v, i) = MarkersIn(w, i) \cup {n}
    BY <1>3, <1>6
  <2> QED
    BY <1>4, <1>5, <1>6, <2>1, FS_AddElement DEF v
<1>7. CASE e # Marker
  BY <1>3, <1>5, <1>7 DEF v
<1> QED
  BY <1>6, <1>7

\* Getting through the oldest n entries leaves the markers behind the others.
LEMMA SuffixFacts ==
  ASSUME NEW S, NEW w \in Seq(S), NEW n \in 0 .. Len(w),
         NEW v, v = SubSeq(w, n + 1, Len(w))
  PROVE  /\ v \in Seq(S) /\ Len(v) = Len(w) - n
         /\ \A i \in 1 .. Len(v) : v[i] = w[i + n]
<1>1. n + 1 \in 1 .. Len(w) + 1 /\ Len(w) \in Nat
  OBVIOUS
<1> QED
  BY <1>1, SubSeqProperties

LEMMA BehindSuffix ==
  ASSUME NEW S, NEW w \in Seq(S), NEW n \in 0 .. Len(w),
         NEW v, v = SubSeq(w, n + 1, Len(w)), NEW i \in 0 .. Len(v)
  PROVE  Behind(v, i) = Behind(w, i + n)
<1> DEFINE A == MarkersIn(v, i)
           B == MarkersIn(w, i + n)
           f == [j \in A |-> j + n]
<1>1. /\ v \in Seq(S) /\ Len(v) = Len(w) - n
      /\ \A j \in 1 .. Len(v) : v[j] = w[j + n]
  BY SuffixFacts
<1>2. Len(v) \in Nat /\ i \in Nat /\ i + n \in Nat /\ n \in Nat
  BY <1>1
<1>3. \A j \in A : j + n \in B
  BY <1>1, <1>2 DEF MarkersIn
<1>4. \A j \in B : j - n \in A /\ (j - n) + n = j
  BY <1>1, <1>2 DEF MarkersIn
<1>5. \A j \in A : j \in Nat
  BY <1>2 DEF MarkersIn
<1>6. IsFiniteSet(A) /\ Behind(v, i) = Cardinality(A) /\ Behind(w, i + n) = Cardinality(B)
  BY <1>1, <1>2, BehindFacts
<1> HIDE DEF A, B
<1>7. f \in [A -> B]
  BY <1>3
<1>8. \A x, y \in A : f[x] = f[y] => x = y
  BY <1>2, <1>5
<1>9. \A y \in B : \E x \in A : f[x] = y
  BY <1>4
<1> HIDE DEF f
<1>10. f \in Bijection(A, B)
  BY <1>7, <1>8, <1>9 DEF Bijection, Injection, Surjection, IsInjective
<1>11. ExistsBijection(A, B)
  BY <1>10 DEF ExistsBijection
<1> QED
  BY ONLY <1>6, <1>11, FS_Bijection

-----------------------------------------------------------------------------
(* Kernels and blocks: what splitting, merging, adding and releasing do to *)
(* the blocks that a kernel k of stream s touches.                         *)

\* The blocks of other streams that k touches are all in X.
Kept(blk, s, k, X) == \A a \in DOMAIN blk : Foreign(blk, a, s, k) => a \in X

\* The blocks in L are what they were to a client.
Alike(blk, r, L) ==
  \A x \in L : /\ x \in DOMAIN blk /\ x \in DOMAIN r
               /\ r[x].size = blk[x].size /\ r[x].stream = blk[x].stream
               /\ r[x].stream_uses = blk[x].stream_uses

Span == {k \in [lo : Nat, hi : Nat] : k.lo < k.hi}

LEMMA KeptByMark ==
  ASSUME NEW blk, NEW r, DOMAIN r = DOMAIN blk,
         \A x \in DOMAIN blk : r[x].size = blk[x].size /\ r[x].stream = blk[x].stream,
         NEW s, NEW k, NEW X, Kept(blk, s, k, X)
  PROVE  Kept(r, s, k, X)
BY DEF Kept, Foreign

LEMMA KeptByMerge ==
  ASSUME NEW blk, NEW seg, Heap(blk, seg), NEW d \in DOMAIN blk, blk[d].next # null,
         NEW r, r = merge_next(blk, d), NEW s, NEW k \in Span, NEW X, Kept(blk, s, k, X),
         d \notin X, blk[d].next \notin X
  PROVE  Kept(r, s, k, X)
<1> DEFINE n == blk[d].next
<1>0. n = blk[d].next
  OBVIOUS
<1>1. n \in DOMAIN blk /\ n # d /\ n = d + blk[d].size /\ blk[n].stream = blk[d].stream
  BY Neighbours
<1> HIDE DEF n
<1>2. /\ DOMAIN r = DOMAIN blk \ {n} /\ r[d].size = blk[d].size + blk[n].size
      /\ \A x \in DOMAIN r \ {d} : r[x].size = blk[x].size
      /\ \A x \in DOMAIN r : r[x].stream = blk[x].stream
  BY ONLY Heap(blk, seg), d \in DOMAIN blk, blk[d].next # null, r = merge_next(blk, d), <1>0,
          MergeFields
<1>3. d \in Nat /\ blk[d].size \in Nat /\ blk[n].size \in Nat /\ k.lo \in Nat /\ k.hi \in Nat
      /\ k.lo < k.hi
  BY <1>1, HeapFacts DEF Span
<1>4. ~Foreign(blk, d, s, k) /\ ~Foreign(blk, n, s, k)
  BY <1>0, <1>1 DEF Kept
<1>5. ~Foreign(r, d, s, k)
  <2>1. CASE blk[d].stream = s
    BY <1>1, <1>2, <2>1 DEF Foreign
  <2>2. CASE blk[d].stream # s
    <3>1. ~Touches(k, d, d + blk[d].size) /\ ~Touches(k, n, n + blk[n].size)
      BY <1>1, <1>4, <2>2 DEF Foreign
    <3> DEFINE y == blk[d].size
               z == blk[n].size
    <3>2. ~Touches(k, d, d + (y + z))
      <4>1. y \in Nat /\ z \in Nat /\ n = d + y /\ ~Touches(k, d, d + y) /\ ~Touches(k, n, n + z)
        BY <1>1, <1>3, <3>1
      <4> HIDE DEF y, z
      <4> QED
        BY <1>3, <4>1 DEF Touches
    <3> QED
      BY <1>2, <3>2 DEF Foreign
  <2> QED
    BY <2>1, <2>2
<1> QED
  BY <1>1, <1>2, <1>5 DEF Kept, Foreign

LEMMA KeptBySplit ==
  ASSUME NEW blk, NEW seg, Heap(blk, seg), NEW a \in DOMAIN blk,
         NEW n \in Nat \ {0}, n < blk[a].size, NEW rest, rest = a + n,
         NEW r, r = Split(blk, a, n),
         NEW s, NEW k \in Span, NEW X, Kept(blk, s, k, X), a \notin X
  PROVE  Kept(r, s, k, X)
<1>1. /\ DOMAIN r = DOMAIN blk \cup {rest} /\ rest # a
      /\ r[a].size = n /\ r[rest].size = blk[a].size - n
      /\ \A x \in DOMAIN blk \ {a} : r[x].size = blk[x].size
      /\ \A x \in DOMAIN blk : r[x].stream = blk[x].stream
      /\ r[rest].stream = blk[a].stream
  BY SplitFields
<1>2. a \in Nat /\ blk[a].size \in Nat /\ k.lo \in Nat /\ k.hi \in Nat
      /\ k.lo < k.hi
  BY HeapFacts DEF Span
<1>3. ~Foreign(blk, a, s, k)
  BY DEF Kept
<1>4. ~Foreign(r, a, s, k) /\ ~Foreign(r, rest, s, k)
  BY <1>1, <1>2, <1>3 DEF Foreign, Touches
<1> QED
  BY <1>1, <1>4 DEF Kept, Foreign

\* A kernel within the segments booked before does not touch a new one.
LEMMA KeptByAdd ==
  ASSUME NEW blk, NEW seg, Segments(seg), NEW base \in Nat, NEW n \in Nat,
         \A b \in DOMAIN seg : b + seg[b] <= base \/ base + n <= b,
         NEW fresh, fresh.size = n, NEW r, r = With(blk, base, fresh),
         NEW s, NEW k \in Span, NEW X, Kept(blk, s, k, X),
         NEW b \in DOMAIN seg, b <= k.lo, k.hi <= b + seg[b]
  PROVE  Kept(r, s, k, X)
<1>1. /\ DOMAIN r = DOMAIN blk \cup {base} /\ r[base] = fresh
      /\ \A x \in DOMAIN blk \ {base} : r[x] = blk[x]
  BY DEF With
<1>2. b \in Nat /\ seg[b] \in Nat /\ k.lo \in Nat /\ k.hi \in Nat
      /\ k.lo < k.hi
  BY DEF Segments, Span
<1>3. ~Touches(k, base, base + n)
  BY <1>2 DEF Touches
<1> QED
  BY <1>1, <1>3 DEF Kept, Foreign

LEMMA KeptByRemove ==
  ASSUME NEW blk, NEW a, NEW s, NEW k, NEW X, Kept(blk, s, k, X)
  PROVE  Kept(Without(blk, a), s, k, X)
BY DEF Kept, Foreign, Without, Restrict

\* The live blocks are not in the pool.
LEMMA PoolApart ==
  ASSUME NEW blk, NEW seg, NEW P, NEW L, NEW W, Good(blk, seg, P, L, W)
  PROVE  P \cap L = {} /\ P \subseteq DOMAIN blk /\ L \subseteq DOMAIN blk
         /\ \A s \in Stream : P \cap Range(W[s]) = {} /\ L \cap Range(W[s]) = {}
BY DEF Good, Placed, InPlace, On

LEMMA MergeKeeps ==
  ASSUME NEW blk, NEW seg, NEW P, NEW L, NEW W, Good(blk, seg, P, L, W),
         NEW d \in P, NEW n \in P, n = blk[d].next, NEW r, r = merge_next(blk, d)
  PROVE  /\ Alike(blk, r, L)
         /\ \A s, k, X : k \in Span /\ P \cap X = {} /\ Kept(blk, s, k, X) => Kept(r, s, k, X)
<1>1. Heap(blk, seg) /\ P \cap L = {} /\ P \subseteq DOMAIN blk /\ L \subseteq DOMAIN blk
  BY PoolApart DEF Good
<1>2. d \in DOMAIN blk /\ blk[d].next # null
  BY <1>1, AddrFacts DEF Heap, Blocks
<1>3. /\ DOMAIN r = DOMAIN blk \ {n}
      /\ \A x \in DOMAIN r \ {d} : r[x].size = blk[x].size
      /\ \A x \in DOMAIN r : r[x].stream = blk[x].stream
      /\ \A x \in DOMAIN r : SamePlace(r[x], blk[x])
  <2>1. /\ DOMAIN r = DOMAIN blk \ {n}
        /\ \A x \in DOMAIN r \ {d} : /\ r[x].size = blk[x].size /\ r[x].next = blk[x].next
                                    /\ r[x].prev = IF x = blk[n].next THEN d ELSE blk[x].prev
        /\ \A x \in DOMAIN r : SamePlace(r[x], blk[x])
        /\ \A x \in DOMAIN r : /\ r[x].segment_base = blk[x].segment_base
                               /\ r[x].stream = blk[x].stream
                               /\ r[x].is_small = blk[x].is_small
    BY <1>1, <1>2, MergeFields
  <2> QED
    BY <2>1
<1>4. Alike(blk, r, L)
  BY <1>1, <1>3 DEF Alike, SamePlace
<1> QED
  BY <1>1, <1>2, <1>4, KeptByMerge

\* free_block: the block at a is merged with its free neighbours and pooled.
LEMMA FreeBlockKeeps ==
  ASSUME NEW blk, NEW seg, NEW L, NEW W, NEW a, a \notin pool,
         Good(blk, seg, pool \cup {a}, L, W)
  PROVE  LET r == FreeBlock(blk, a).block IN
         /\ Alike(blk, r, L)
         /\ \A s, k, X : k \in Span /\ (pool \cup {a}) \cap X = {} /\ Kept(blk, s, k, X)
                           => Kept(r, s, k, X)
<1> DEFINE P == pool \cup {a}
           p == blk[a].prev
           withPrev == mergeable(blk, p)
           start == IF withPrev THEN p ELSE a
           blk1 == IF withPrev THEN merge_prev(blk, a) ELSE blk
           P1 == P \ (IF withPrev THEN {a} ELSE {})
           src == blk1[start].next
           withNext == mergeable(blk1, src)
           blk2 == IF withNext THEN merge_next(blk1, start) ELSE blk1
<1>0. Good(blk, seg, P, L, W) /\ P \subseteq DOMAIN blk /\ a \in P /\ Heap(blk, seg)
      /\ L \subseteq DOMAIN blk
  BY PoolApart DEF Good
<1>1. p \in DOMAIN blk \cup {null} /\ (p # null => blk[p].next = a /\ p # a)
  BY <1>0, HeapFacts
<1>2. withPrev <=> p \in P
  BY <1>0, <1>1, PooledIsMergeable
<1>3. /\ Good(blk1, seg, P1, L, W) /\ start \in P1 /\ P1 \subseteq P
      /\ Alike(blk, blk1, L)
      /\ \A s, k, X : k \in Span /\ P \cap X = {} /\ Kept(blk, s, k, X)
                        => Kept(blk1, s, k, X)
  <2>1. CASE withPrev
    <3>1. p \in P /\ p # null /\ blk[p].next = a /\ p # a
      BY <1>1, <1>2, <2>1 DEF mergeable
    <3>2. SamePlace(blk[a], blk[p])
      BY <1>0, <3>1, PooledAlike
    <3>3. merge_prev(blk, a) = merge_next(blk, p)
      BY <1>0, <3>1, <3>2, MergePrevIsMergeNext
    <3> DEFINE r == merge_next(blk, p)
    <3> HIDE DEF r
    <3>4. /\ Good(r, seg, P \ {a}, L, W)
          /\ Alike(blk, r, L)
          /\ \A s, k, X : k \in Span /\ P \cap X = {} /\ Kept(blk, s, k, X)
                            => Kept(r, s, k, X)
      <4> HIDE DEF P, p
      <4>1. Good(r, seg, P \ {a}, L, W)
        BY <1>0, <3>1, MergeStep DEF r
      <4> QED
        BY <1>0, <3>1, <4>1, MergeKeeps DEF r
    <3>5. blk1 = r /\ P1 = P \ {a} /\ start = p
      BY <2>1, <3>3 DEF r
    <3> HIDE DEF blk1, P1, start, P, p
    <3> QED
      BY <3>1, <3>4, <3>5
  <2>2. CASE ~withPrev
    <3>1. blk1 = blk /\ P1 = P /\ start = a
      BY <2>2
    <3>2. Alike(blk, blk, L)
      BY <1>0 DEF Alike
    <3> HIDE DEF blk1, P1, start, P, p
    <3> QED
      BY <1>0, <3>1, <3>2
  <2> QED
    BY <2>1, <2>2
<1> HIDE DEF blk1, P1, start
<1>4. Heap(blk1, seg) /\ P1 \subseteq DOMAIN blk1 /\ src \in DOMAIN blk1 \cup {null}
      /\ L \subseteq DOMAIN blk1
  <2>1. Heap(blk1, seg) /\ P1 \subseteq DOMAIN blk1 /\ L \subseteq DOMAIN blk1
    BY <1>3, PoolApart DEF Good
  <2>2. src = null \/ src \in DOMAIN blk1
    BY <1>3, <2>1, HeapFacts
  <2> QED
    BY <2>1, <2>2
<1>5. withNext <=> src \in P1
  BY <1>3, <1>4, PooledIsMergeable
<1>6. /\ Alike(blk1, blk2, L)
      /\ \A s, k, X : k \in Span /\ P1 \cap X = {} /\ Kept(blk1, s, k, X)
                        => Kept(blk2, s, k, X)
  <2>1. CASE withNext
    <3>1. src \in P1
      BY <1>5, <2>1
    <3> DEFINE r == merge_next(blk1, start)
    <3> HIDE DEF r
    <3>2. /\ Alike(blk1, r, L)
          /\ \A s, k, X : k \in Span /\ P1 \cap X = {} /\ Kept(blk1, s, k, X)
                            => Kept(r, s, k, X)
      BY <1>3, <3>1, MergeKeeps DEF r
    <3>3. blk2 = r
      BY <2>1 DEF r
    <3> HIDE DEF blk2, src
    <3> QED
      BY <3>2, <3>3
  <2>2. CASE ~withNext
    <3>1. blk2 = blk1
      BY <2>2
    <3> HIDE DEF blk2, src
    <3> QED
      BY <1>4, <3>1 DEF Alike
  <2> QED
    BY <2>1, <2>2
<1>7. FreeBlock(blk, a).block = blk2
  BY DEF FreeBlock, blk1, start
<1> HIDE DEF blk2, src, P
<1>8. Alike(blk, blk2, L)
  BY <1>3, <1>6 DEF Alike
<1>9. \A s, k, X : k \in Span /\ P \cap X = {} /\ Kept(blk, s, k, X) => Kept(blk2, s, k, X)
  <2> SUFFICES ASSUME NEW s, NEW k \in Span, NEW X, P \cap X = {}, Kept(blk, s, k, X)
               PROVE  Kept(blk2, s, k, X)
    OBVIOUS
  <2>1. P1 \cap X = {} /\ Kept(blk1, s, k, X)
    BY <1>3
  <2> QED
    BY <1>6, <2>1
<1> QED
  BY <1>7, <1>8, <1>9 DEF P

-----------------------------------------------------------------------------
(* What SInv says of one kernel. *)

KernelOK(s, i) ==
  LET k == work[s][i] IN
  /\ k \in Span
  /\ \E b \in DOMAIN segment : b <= k.lo /\ k.hi <= b + segment[b]
  /\ Kept(block, s, k, Excused(s, i))

Kernels(s) == {i \in 1 .. Len(work[s]) : work[s][i] # Marker}

LEMMA KernelsOK ==
  ASSUME WorkType
  PROVE  KernelInv <=> \A s \in Stream : \A i \in Kernels(s) : KernelOK(s, i)
<1>1. \A s \in Stream : \A i \in 1 .. Len(work[s]) : work[s][i] \in [lo : Nat, hi : Nat]
  <2> SUFFICES ASSUME NEW s \in Stream
               PROVE  \A i \in 1 .. Len(work[s]) : work[s][i] \in [lo : Nat, hi : Nat]
    OBVIOUS
  <2>1. work[s] \in Seq([lo : Nat, hi : Nat])
    BY DEF WorkType
  <2> DEFINE R == [lo : Nat, hi : Nat]
  <2> HIDE DEF R
  <2>2. work[s] \in Seq(R)
    BY <2>1 DEF R
  <2>3. \A i \in 1 .. Len(work[s]) : work[s][i] \in R
    BY <2>2
  <2> QED
    BY <2>3 DEF R
<1> QED
  BY <1>1 DEF KernelInv, KernelOK, Kernels, Kept, Span

LEMMA WorkFacts ==
  ASSUME WorkType, NEW s \in Stream
  PROVE  /\ work[s] \in Seq([lo : Nat, hi : Nat]) /\ Len(work[s]) \in Nat
         /\ Pending(s) \in Nat
         /\ \A i \in Nat : Behind(work[s], i) \in Nat /\ Behind(work[s], i) <= Pending(s)
<1>1. work[s] \in Seq([lo : Nat, hi : Nat])
  BY DEF WorkType
<1>2. \A i \in Nat : Behind(work[s], i) \in Nat /\ Behind(work[s], i) <= Behind(work[s], 0)
  BY <1>1, BehindFacts
<1> QED
  BY <1>1, <1>2, PendingIsBehind

\* An event that holds a block back is one that its block still waits for.
LEMMA HeldBackWaits ==
  ASSUME Types, WorkType, EventInv, NEW s \in Stream, NEW i \in Nat, NEW a, HeldBack(s, i, a)
  PROVE  /\ a \in Range(Waiting(s))
         /\ \E q \in (synced[s] + 1) .. Len(queue[s]) :
              queue[s][q] = a /\ q > Len(queue[s]) - Behind(work[s], i)
<1>1. PICK q \in 1 .. Len(queue[s]) :
        queue[s][q] = a /\ q > Len(queue[s]) - Behind(work[s], i)
  BY DEF HeldBack
<1>2. queue[s] \in Seq(Addr) /\ synced[s] \in Nat /\ Len(queue[s]) \in Nat
  BY DEF Types
<1>3. Pending(s) \in Nat /\ Behind(work[s], i) \in Nat /\ Behind(work[s], i) <= Pending(s)
      /\ synced[s] + Pending(s) <= Len(queue[s])
  BY WorkFacts DEF EventInv
<1>4. q \in (synced[s] + 1) .. Len(queue[s])
  BY <1>1, <1>2, <1>3
<1>5. a \in Range(Waiting(s))
  <2> DEFINE w == Waiting(s)
             n == synced[s]
             l == Len(queue[s])
  <2>0. w = SubSeq(queue[s], n + 1, Len(queue[s])) /\ n \in 0 .. Len(queue[s])
    BY <1>2, <1>3 DEF Waiting
  <2> HIDE DEF w
  <2>1. Len(w) = l - n /\ \A j \in 1 .. (l - n) : w[j] = queue[s][n + j]
    <3>2. Len(w) = l - n /\ \A j \in 1 .. Len(w) : w[j] = queue[s][j + n]
      <4> HIDE DEF n
      <4> QED
        BY ONLY <1>2, <2>0, SuffixFacts
    <3> QED
      BY <1>2, <1>3, <3>2
  <2>2. q - n \in 1 .. (l - n) /\ n + (q - n) = q
    BY <1>2, <1>4
  <2>3. w[q - n] = a /\ q - n \in DOMAIN w
    <3>1. w \in Seq(Addr)
      BY <1>2, <2>0
    <3> QED
      BY <1>1, <2>1, <2>2, <3>1
  <2>4. a \in Range(w)
    BY <2>3 DEF Range
  <2> QED
    BY <2>4 DEF Waiting, w
<1> QED
  BY <1>1, <1>4, <1>5

\* A pooled block is nobody's but its stream's.
LEMMA PoolNotExcused ==
  ASSUME PInv, SInv, NEW s \in Stream, NEW i \in Nat
  PROVE  pool \cap Excused(s, i) = {}
<1> SUFFICES ASSUME NEW a \in pool, a \in Excused(s, i) PROVE FALSE
  OBVIOUS
<1>1. a \notin live /\ a \notin Range(Waits[s])
  BY PoolApart DEF PInv, Sound
<1>2. HeldBack(s, i, a)
  BY <1>1 DEF Excused
<1>3. a \in Range(Waiting(s))
  BY <1>2, HeldBackWaits DEF PInv, SInv
<1> QED
  BY <1>1, <1>3 DEF Waits

-----------------------------------------------------------------------------
(* Steps that leave the streams, the queues and the segments as they are.  *)

\* Whoever gives a block back after the step gave it back before it.
CallsKept ==
  \A u \in Thread, a \in live : GivingBack(u, a)' => GivingBack(u, a) /\ hint'[u] = hint[u]

LEMMA ExcusedStays ==
  ASSUME CallsKept, UNCHANGED <<work, queue>>, NEW s \in Stream, NEW i, NEW a \in Excused(s, i),
         a \in live' <=> a \in live, a \in live => declared[a] \subseteq declared'[a]
  PROVE  a \in Excused(s, i)'
<1>1. CASE a \in live
  <2>1. \A t \in Thread : GivingBack(t, a) => s \in declared[a] \cup {hint[t]}
    BY <1>1 DEF Excused
  <2>2. \A t \in Thread : GivingBack(t, a)' => s \in declared'[a] \cup {hint'[t]}
    BY <1>1, <2>1 DEF CallsKept
  <2> QED
    BY <1>1, <2>2 DEF Excused
<1>2. CASE a \notin live
  <2>1. HeldBack(s, i, a)'
    BY <1>2 DEF Excused, HeldBack
  <2> QED
    BY <1>2, <2>1 DEF Excused
<1> QED
  BY <1>1, <1>2

LEMMA EventsStay ==
  ASSUME EventInv, WorkType, Types, UNCHANGED <<work, queue>>,
         \A s \in Stream : synced'[s] \in Nat /\ synced'[s] <= synced[s]
  PROVE  EventInv'
<1> SUFFICES ASSUME NEW s \in Stream PROVE synced'[s] + Pending(s)' <= Len(queue'[s])
  BY DEF EventInv
<1>1. Pending(s)' = Pending(s) /\ Pending(s) \in Nat /\ synced[s] \in Nat
      /\ Len(queue[s]) \in Nat
  BY WorkFacts DEF Pending, Types
<1>2. synced[s] + Pending(s) <= Len(queue[s])
  BY DEF EventInv
<1> QED
  BY <1>1, <1>2

LEMMA UsesStay ==
  ASSUME UsesInv, Alike(block, block', live'), live' \subseteq live,
         \A a \in live' : declared'[a] = declared[a]
  PROVE  UsesInv'
BY DEF UsesInv, Alike

-----------------------------------------------------------------------------
(* What every step has to show: SInv again, and a step of the promise.     *)

Hand(blk, a) == [lo |-> a, hi |-> a + blk[a].size, stream |-> blk[a].stream]
Handed(blk, L) == {Hand(blk, a) : a \in L}

Keeps == SInv' /\ [Promise!Next]_(Promise!heapvars)

LEMMA HandedAlike ==
  ASSUME NEW blk, NEW r, NEW L, Alike(blk, r, L)
  PROVE  Handed(r, L) = Handed(blk, L)
<1>1. \A x \in L : Hand(r, x) = Hand(blk, x)
  BY DEF Alike, Hand
<1> QED
  BY <1>1 DEF Handed

LEMMA PromiseStutters ==
  ASSUME UNCHANGED work, Handed(block', live') = Handed(block, live)
  PROVE  [Promise!Next]_(Promise!heapvars)
BY DEF Promise!heapvars, Handed, Hand

LEMMA KernelsAfter ==
  ASSUME \A s \in Stream : \A i \in Kernels(s)' : KernelOK(s, i)'
  PROVE  KernelInv'
BY DEF KernelInv, KernelOK, Kernels, Kept, Span

\* When the work stays, it is enough to follow each kernel.
LEMMA KernelsFollow ==
  ASSUME WorkType, KernelInv, UNCHANGED work,
         \A b \in DOMAIN segment : b \in DOMAIN segment' /\ segment'[b] = segment[b],
         \A s \in Stream : \A i \in Kernels(s) :
           KernelOK(s, i) => Kept(block', s, work[s][i], Excused(s, i)')
  PROVE  KernelInv'
<1> SUFFICES ASSUME NEW s \in Stream, NEW i \in Kernels(s) PROVE KernelOK(s, i)'
  BY KernelsAfter DEF Kernels
<1>1. KernelOK(s, i)
  BY KernelsOK
<1>2. Kept(block', s, work[s][i], Excused(s, i)')
  BY <1>1
<1>3. work[s][i] \in Span
      /\ \E b \in DOMAIN segment : b <= work[s][i].lo /\ work[s][i].hi <= b + segment[b]
  BY <1>1 DEF KernelOK
<1>4. \E b \in DOMAIN segment' : b <= work[s][i].lo /\ work[s][i].hi <= b + segment'[b]
  BY <1>3
<1> QED
  BY <1>2, <1>3, <1>4 DEF KernelOK

LEMMA KeptMore ==
  ASSUME NEW blk, NEW s, NEW k, NEW X, NEW Y, Kept(blk, s, k, X),
         \A a \in DOMAIN blk : a \in X => a \in Y
  PROVE  Kept(blk, s, k, Y)
BY DEF Kept

\* A step that moves threads only.
LEMMA QuietStep ==
  ASSUME PInv, SInv, CallsKept, UNCHANGED <<core, work, declared>>,
         \A s \in Stream : synced'[s] \in Nat /\ synced'[s] <= synced[s]
  PROVE  Keeps
<1>1. WorkType /\ KernelInv /\ EventInv /\ UsesInv /\ Types
  BY DEF SInv, PInv
<1>2. UNCHANGED <<block, live, queue, segment>>
  BY DEF core
<1>3. KernelInv'
  <2> SUFFICES ASSUME NEW s \in Stream, NEW i \in Kernels(s), KernelOK(s, i)
               PROVE  Kept(block, s, work[s][i], Excused(s, i)')
    BY <1>1, <1>2, KernelsFollow
  <2>1. Kept(block, s, work[s][i], Excused(s, i))
    BY DEF KernelOK
  <2>2. \A a \in Excused(s, i) : a \in Excused(s, i)'
    BY <1>2, ExcusedStays
  <2> QED
    BY <2>1, <2>2, KeptMore
<1>4. EventInv'
  BY <1>1, <1>2, EventsStay
<1>5. UsesInv' /\ WorkType'
  BY <1>1, <1>2 DEF UsesInv, WorkType
<1>6. [Promise!Next]_(Promise!heapvars)
  BY <1>2, PromiseStutters
<1> QED
  BY <1>3, <1>4, <1>5, <1>6 DEF Keeps, SInv

\* The steps of a thread that begin no deallocation.
LEMMA CallsKeptBy ==
  ASSUME NEW t \in Thread, OthersKept(t),
         \/ pc'[t] \notin {"poll", "free"}
         \/ pc'[t] = "poll" /\ after'[t] # "free"
         \/ /\ pc[t] = "free" \/ (pc[t] = "poll" /\ after[t] = "free")
            /\ ptr'[t] = ptr[t] /\ hint'[t] = hint[t]
  PROVE  CallsKept
<1> SUFFICES ASSUME NEW u \in Thread, NEW a \in live, GivingBack(u, a)'
             PROVE  GivingBack(u, a) /\ hint'[u] = hint[u]
  BY DEF CallsKept
<1>1. CASE u = t
  BY <1>1 DEF GivingBack
<1>2. CASE u # t
  BY <1>2 DEF GivingBack, OthersKept
<1> QED
  BY <1>1, <1>2

LEMMA SyncedStays ==
  ASSUME PInv,
         \/ synced' = synced
         \/ \E t : synced' = [s \in Stream |-> IF lock = t THEN 0 ELSE synced[s]]
  PROVE  \A s \in Stream : synced'[s] \in Nat /\ synced'[s] <= synced[s]
BY DEF PInv, Types

LEMMA ThrowKeeps ==
  ASSUME PInv, SInv, NEW t \in Thread, Throw(t), UNCHANGED <<core, world>>
  PROVE  Keeps
<1>1. OthersKept(t) /\ pc'[t] = "idle"
  BY CallFunctions DEF OthersKept, Throw
<1>2. CallsKept
  BY <1>1, CallsKeptBy
<1>3. \A s \in Stream : synced'[s] \in Nat /\ synced'[s] <= synced[s]
  BY SyncedStays DEF Throw
<1> QED
  BY <1>2, <1>3, QuietStep DEF world

LEMMA LeaveKeeps ==
  ASSUME PInv, SInv, NEW t \in Thread, Leave(t), UNCHANGED <<core, world>>
  PROVE  Keeps
<1>1. OthersKept(t) /\ pc'[t] \in {"idle", "callback"}
  BY CallFunctions DEF OthersKept, Leave
<1>2. CallsKept
  BY <1>1, CallsKeptBy
<1>3. \A s \in Stream : synced'[s] \in Nat /\ synced'[s] <= synced[s]
  BY SyncedStays DEF Leave
<1> QED
  BY <1>2, <1>3, QuietStep DEF world

\* A thread goes on to p.
LEMMA GotoKeeps ==
  ASSUME PInv, SInv, NEW t \in Thread, NEW p, Goto(t, p),
         \/ p \notin {"poll", "free"}
         \/ p = "free" /\ pc[t] = "poll" /\ after[t] = "free" /\ UNCHANGED ptr,
         \/ UNCHANGED ptr
         \/ \E base : ptr' = [ptr EXCEPT ![t] = base],
         \/ UNCHANGED after
         \/ \E q : after' = [after EXCEPT ![t] = q],
         UNCHANGED <<core, work, declared, req, hint, nested, synced>>
  PROVE  Keeps
<1>1. OthersKept(t) /\ pc'[t] = p
  BY CallFunctions DEF OthersKept, Goto
<1>2. CallsKept
  BY <1>1, CallsKeptBy
<1> QED
  BY <1>2, SyncedStays, QuietStep

\* A thread begins a call that is no deallocation.
LEMMA EnterKeeps ==
  ASSUME PInv, SInv, NEW t \in Thread, NEW where, NEW next, Enter(t, where, next),
         where # "free", where = "poll" => next # "free",
         UNCHANGED <<core, work, declared, ptr, hint, synced>>,
         \A u \in Thread \ {t} : req'[u] = req[u]
  PROVE  Keeps
<1>1. OthersKept(t) /\ pc'[t] = where /\ after'[t] = next
  BY CallFunctions DEF OthersKept, Enter
<1>2. CallsKept
  BY <1>1, CallsKeptBy
<1> QED
  BY <1>2, SyncedStays, QuietStep

\* The steps of an allocation before a block is found.
LEMMA SearchKeeps ==
  ASSUME PInv, SInv, NEW t \in Thread,
         \/ \E n \in Sizes, s \in Stream : Allocate(t, n, s)
         \/ RunCallbacks(t) \/ (\E freed \in BOOLEAN : CallbacksDone(t, freed))
         \/ Miss(t) \/ Recheck(t) \/ DriverMalloc(t) \/ DriverRefuses(t) \/ DriverErrs(t)
         \/ FlushForRetry(t) \/ GiveUp(t) \/ DeviceThrows(t)
  PROVE  Keeps
<1> USE DEF world, call
<1>1. ASSUME NEW n \in Sizes, NEW s \in Stream, Allocate(t, n, s) PROVE Keeps
  <2>1. \A u \in Thread \ {t} : req'[u] = req[u]
    BY <1>1, CallFunctions DEF Allocate
  <2> QED
    BY <1>1, <2>1, EnterKeeps DEF Allocate
<1>2. CASE RunCallbacks(t)
  BY <1>2, GotoKeeps DEF RunCallbacks
<1>3. ASSUME NEW freed \in BOOLEAN, CallbacksDone(t, freed) PROVE Keeps
  BY <1>3, GotoKeeps DEF CallbacksDone
<1>4. CASE Miss(t)
  BY <1>4, GotoKeeps DEF Miss
<1>5. CASE Recheck(t)
  BY <1>5, GotoKeeps, ThrowKeeps DEF Recheck
<1>6. CASE DriverMalloc(t)
  BY <1>6, GotoKeeps DEF DriverMalloc
<1>7. CASE DriverRefuses(t)
  BY <1>7, GotoKeeps DEF DriverRefuses
<1>8. CASE DriverErrs(t)
  BY <1>8, GotoKeeps DEF DriverErrs
<1>9. CASE FlushForRetry(t)
  BY <1>9, GotoKeeps DEF FlushForRetry
<1>10. CASE GiveUp(t)
  BY <1>10, ThrowKeeps DEF GiveUp
<1>11. CASE DeviceThrows(t)
  BY <1>11, ThrowKeeps DEF DeviceThrows
<1> QED
  BY <1>1, <1>2, <1>3, <1>4, <1>5, <1>6, <1>7, <1>8, <1>9, <1>10, <1>11

LEMMA SettleKeeps ==
  ASSUME PInv, SInv, NEW t \in Thread,
         \/ PollDone(t) \/ PollThrows(t) \/ FlushDone(t) \/ TrimDone(t)
         \/ empty_cache(t) \/ (\E n \in CapChoices : set_max_cached_bytes(t, n))
         \/ \E n \in MaxChoices : set_memory_fraction(t, n)
  PROVE  Keeps
<1> USE DEF world
<1>1. CASE PollDone(t)
  <2>1. after[t] \in {"search", "free"} /\ pc[t] = "poll"
    BY <1>1, CallInvIsCallOK DEF PInv, CallOK, PollDone
  <2> QED
    BY <1>1, <2>1, GotoKeeps DEF PollDone
<1>2. CASE PollThrows(t)
  BY <1>2, ThrowKeeps DEF PollThrows
<1>3. CASE FlushDone(t)
  <2>1. after[t] \in {"return", "recheck", "driver_retry"}
    BY <1>3, CallInvIsCallOK DEF PInv, CallOK, FlushDone
  <2> QED
    BY <1>3, <2>1, GotoKeeps, LeaveKeeps DEF FlushDone
<1>4. CASE TrimDone(t)
  BY <1>4, LeaveKeeps DEF TrimDone
<1>5. CASE empty_cache(t)
  BY <1>5, EnterKeeps DEF empty_cache
<1>6. ASSUME NEW n \in CapChoices, set_max_cached_bytes(t, n) PROVE Keeps
  BY <1>6, EnterKeeps DEF set_max_cached_bytes
<1>7. ASSUME NEW n \in MaxChoices, set_memory_fraction(t, n) PROVE Keeps
  <2>1. UNCHANGED <<core, pc, call, work, declared>>
    BY <1>7 DEF set_memory_fraction
  <2>2. CallsKept /\ synced' = synced
    BY <2>1 DEF CallsKept, GivingBack, call
  <2> QED
    BY <2>1, <2>2, SyncedStays, QuietStep
<1> QED
  BY <1>1, <1>2, <1>3, <1>4, <1>5, <1>6, <1>7

\* The client answers for every stream that still works in the block.
LEMMA DeallocateKeeps ==
  ASSUME PInv, SInv, NEW t \in Thread, NEW a \in live,
         NEW s \in Stream \cup {DefaultStream}, Deallocate(t, a, s)
  PROVE  Keeps
<1>1. /\ \A u \in Thread : ptr[u] # a
      /\ Declares(a, s)
      /\ UNCHANGED <<block, live, queue, segment, work, declared, synced>>
  BY DEF Deallocate, Owned, core, world
<1>2. /\ OthersKept(t) /\ ptr'[t] = a /\ hint'[t] = s
  BY CallFunctions DEF OthersKept, Deallocate, Enter
<1>3. \A u \in Thread, x \in Addr :
        GivingBack(u, x)' => \/ u = t /\ x = a
                             \/ x # a /\ GivingBack(u, x) /\ hint'[u] = hint[u]
  BY <1>1, <1>2 DEF GivingBack, OthersKept
<1>4. WorkType /\ KernelInv /\ EventInv /\ UsesInv /\ Types
  BY DEF SInv, PInv
<1>5. KernelInv'
  <2> SUFFICES ASSUME NEW r \in Stream, NEW i \in Kernels(r), KernelOK(r, i)
               PROVE  Kept(block, r, work[r][i], Excused(r, i)')
    BY <1>1, <1>4, KernelsFollow
  <2> SUFFICES ASSUME NEW x \in DOMAIN block, Foreign(block, x, r, work[r][i])
               PROVE  x \in Excused(r, i)'
    BY DEF Kept
  <2>1. x \in Excused(r, i)
    BY DEF KernelOK, Kept
  <2>2. x \in Addr
    BY <2>1 DEF Excused
  <2>3. CASE x = a
    <3>1. r # block[a].stream /\ Touches(work[r][i], a, a + block[a].size) /\ i \in 1 .. Len(work[r])
      BY <2>3 DEF Foreign, Kernels
    <3>2. r \in declared[a] \cup {s}
      BY <1>1, <3>1 DEF Declares
    <3>3. \A u \in Thread : GivingBack(u, a)' => r \in declared'[a] \cup {hint'[u]}
      BY <1>1, <1>2, <1>3, <2>2, <2>3, <3>2
    <3> QED
      BY <1>1, <2>2, <2>3, <3>3 DEF Excused
  <2>4. CASE x # a /\ x \in live
    <3>1. \A u \in Thread : GivingBack(u, x) => r \in declared[x] \cup {hint[u]}
      BY <2>1, <2>4 DEF Excused
    <3>2. \A u \in Thread : GivingBack(u, x)' => r \in declared'[x] \cup {hint'[u]}
      BY <1>1, <1>3, <2>2, <2>4, <3>1
    <3> QED
      BY <1>1, <2>2, <2>4, <3>2 DEF Excused
  <2>5. CASE x \notin live
    <3>1. HeldBack(r, i, x)'
      BY <1>1, <2>1, <2>5 DEF Excused, HeldBack
    <3> QED
      BY <1>1, <2>2, <2>5, <3>1 DEF Excused
  <2> QED
    BY <2>3, <2>4, <2>5
<1>6. EventInv'
  BY <1>1, <1>4, SyncedStays, EventsStay
<1>7. UsesInv' /\ WorkType'
  BY <1>1, <1>4 DEF UsesInv, WorkType
<1>8. [Promise!Next]_(Promise!heapvars)
  BY <1>1, PromiseStutters
<1> QED
  BY <1>5, <1>6, <1>7, <1>8 DEF Keeps, SInv

LEMMA RecordStreamKeeps ==
  ASSUME PInv, SInv, NEW t \in Thread, NEW a \in live, NEW s \in Stream, record_stream(t, a, s)
  PROVE  Keeps
<1>1. /\ declared' = [declared EXCEPT ![a] = @ \cup {s}]
      /\ block' = [block EXCEPT ![a].stream_uses = @ \cup ({s} \ {DefaultStream, block[a].stream})]
      /\ UNCHANGED <<pc, ptr, hint, after, synced, live, queue, segment, work>>
  BY DEF record_stream, call
<1>2. WorkType /\ KernelInv /\ EventInv /\ UsesInv /\ Types /\ DOMAIN declared = live
  BY DEF SInv, PInv, Types
<1>3. live \subseteq DOMAIN block /\ \A x \in DOMAIN block : block[x] \in Block
  BY DEF PInv, Sound, Good, Heap, Blocks, Placed
<1>4. /\ DOMAIN block' = DOMAIN block
      /\ \A x \in DOMAIN block : block'[x].size = block[x].size /\ block'[x].stream = block[x].stream
      /\ \A x \in DOMAIN block : x # a => block'[x] = block[x]
      /\ block'[a].stream_uses = block[a].stream_uses \cup ({s} \ {DefaultStream, block[a].stream})
  BY <1>1, <1>3 DEF Block
<1>5. /\ declared'[a] = declared[a] \cup {s}
      /\ \A x \in live : x # a => declared'[x] = declared[x]
  BY <1>1, <1>2
<1>6. CallsKept
  BY <1>1 DEF CallsKept, GivingBack
<1>7. KernelInv'
  <2> SUFFICES ASSUME NEW r \in Stream, NEW i \in Kernels(r), KernelOK(r, i)
               PROVE  Kept(block', r, work[r][i], Excused(r, i)')
    BY <1>1, <1>2, KernelsFollow
  <2>1. Kept(block', r, work[r][i], Excused(r, i))
    BY <1>4, KeptByMark DEF KernelOK
  <2>2. \A x \in Excused(r, i) : x \in Excused(r, i)'
    BY <1>1, <1>5, <1>6, ExcusedStays
  <2> QED
    BY <2>1, <2>2, KeptMore
<1>8. EventInv'
  BY <1>1, <1>2, SyncedStays, EventsStay
<1>9. UsesInv'
  <2> SUFFICES ASSUME NEW x \in live
               PROVE  /\ declared'[x] \subseteq Stream
                      /\ block'[x].stream_uses = declared'[x] \ {DefaultStream, block'[x].stream}
    BY <1>1 DEF UsesInv
  <2>1. /\ declared[x] \subseteq Stream
        /\ block[x].stream_uses = declared[x] \ {DefaultStream, block[x].stream}
    BY <1>2 DEF UsesInv
  <2>2. CASE x = a
    BY <1>3, <1>4, <1>5, <2>1, <2>2
  <2>3. CASE x # a
    BY <1>3, <1>4, <1>5, <2>1, <2>3
  <2> QED
    BY <2>2, <2>3
<1>10. Handed(block', live') = Handed(block, live)
  <2>1. \A x \in live : Hand(block', x) = Hand(block, x)
    BY <1>3, <1>4 DEF Hand
  <2> QED
    BY <1>1, <2>1 DEF Handed
<1>11. [Promise!Next]_(Promise!heapvars)
  BY <1>1, <1>10, PromiseStutters
<1>12. WorkType'
  BY <1>1, <1>2 DEF WorkType
<1> QED
  BY <1>7, <1>8, <1>9, <1>11, <1>12 DEF Keeps, SInv

-----------------------------------------------------------------------------
(* The streams: kernels start at the end, and end at the front.            *)

LEMMA DestroyKeeps ==
  ASSUME PInv, SInv, Destroy
  PROVE  Keeps
<1>1. /\ live' = {} /\ queue' = [s \in Stream |-> <<>>] /\ work' = [s \in Stream |-> <<>>]
      /\ synced' = synced /\ \A t \in Thread : pc[t] = "idle"
  BY DEF Destroy, call
<1>2. \A s \in Stream : synced[s] = 0
  BY <1>1, NothingHalfDone
<1>3. WorkType'
  BY <1>1 DEF WorkType
<1>4. KernelInv' /\ UsesInv'
  BY <1>1 DEF KernelInv, UsesInv
<1>5. EventInv'
  <2> SUFFICES ASSUME NEW s \in Stream PROVE synced'[s] + Pending(s)' <= Len(queue'[s])
    BY DEF EventInv
  <2>1. {i \in 1 .. Len(work'[s]) : work'[s][i] = Marker} = {}
    BY <1>1
  <2>2. Pending(s)' = 0
    BY <2>1, FS_EmptySet DEF Pending
  <2> QED
    BY <1>1, <1>2, <2>2
<1>6. Promise!Next
  BY <1>1 DEF Promise!Next, Promise!Teardown
<1> QED
  BY <1>3, <1>4, <1>5, <1>6 DEF Keeps, SInv

\* Each stream s is through with its oldest n[s] entries.
Cuts(n) ==
  /\ work' = [s \in Stream |-> SubSeq(work[s], n[s] + 1, Len(work[s]))]
  /\ \A s \in Stream : n[s] \in 0 .. Len(work[s])

LEMMA CutFacts ==
  ASSUME PInv, SInv, NEW n, Cuts(n), UNCHANGED <<live, queue, pc, ptr, hint, after, synced, declared>>
  PROVE  /\ WorkType' /\ EventInv'
         /\ \A s \in Stream : \A i \in Kernels(s)' :
              /\ i + n[s] \in Kernels(s) /\ work'[s][i] = work[s][i + n[s]]
              /\ Excused(s, i)' = Excused(s, i + n[s])
         /\ UNCHANGED Handed(block, live) => Promise!Next
<1> USE DEF Cuts
<1> DEFINE R == [lo : Nat, hi : Nat]
<1>0. work \in [Stream -> Seq(R)]
  BY DEF SInv, WorkType
<1> HIDE DEF R
<1>1. ASSUME NEW s \in Stream
      PROVE  /\ work'[s] \in Seq(R) /\ Len(work'[s]) = Len(work[s]) - n[s]
             /\ Len(work[s]) \in Nat /\ n[s] \in Nat
             /\ \A i \in 1 .. Len(work'[s]) : work'[s][i] = work[s][i + n[s]]
             /\ \A i \in 0 .. Len(work'[s]) : Behind(work'[s], i) = Behind(work[s], i + n[s])
  <2>1. work[s] \in Seq(R)
    BY <1>0
  <2>2. n[s] \in 0 .. Len(work[s]) /\ work'[s] = SubSeq(work[s], n[s] + 1, Len(work[s]))
    OBVIOUS
  <2>3. Len(work[s]) \in Nat /\ n[s] \in Nat
    BY <2>1, <2>2
  <2> DEFINE w == work[s]
             v == work'[s]
             m == n[s]
  <2>4. w \in Seq(R) /\ m \in 0 .. Len(w) /\ v = SubSeq(w, m + 1, Len(w))
    BY <2>1, <2>2
  <2> HIDE DEF w, v, m
  <2>5. /\ v \in Seq(R) /\ Len(v) = Len(w) - m
        /\ \A i \in 1 .. Len(v) : v[i] = w[i + m]
        /\ \A i \in 0 .. Len(v) : Behind(v, i) = Behind(w, i + m)
    <3>1. /\ v \in Seq(R) /\ Len(v) = Len(w) - m
          /\ \A i \in 1 .. Len(v) : v[i] = w[i + m]
      BY <2>4, SuffixFacts
    <3>2. ASSUME NEW i \in 0 .. Len(v)
          PROVE  Behind(v, i) = Behind(w, i + m)
      BY ONLY <2>4, <3>2, BehindSuffix
    <3> QED
      BY <3>1, <3>2
  <2> QED
    BY ONLY <2>3, <2>5 DEF w, v, m
<1>2. WorkType'
  <2>1. work' = [s \in Stream |-> work'[s]]
    OBVIOUS
  <2>2. \A s \in Stream : work'[s] \in Seq(R)
    BY <1>1
  <2>3. work' \in [Stream -> Seq(R)]
    BY <2>1, <2>2
  <2> QED
    BY <2>3 DEF WorkType, R
<1>3. EventInv'
  <2> SUFFICES ASSUME NEW s \in Stream PROVE synced'[s] + Pending(s)' <= Len(queue'[s])
    BY DEF EventInv
  <2>1. Pending(s)' = Behind(work[s], n[s])
    <3>1. Pending(s)' = Behind(work'[s], 0)
      BY DEF Pending, Behind
    <3>2. 0 \in 0 .. Len(work'[s]) /\ 0 + n[s] = n[s]
      BY <1>1
    <3> QED
      BY <1>1, <3>1, <3>2
  <2>2. /\ Pending(s) \in Nat /\ Behind(work[s], n[s]) \in Nat
        /\ Behind(work[s], n[s]) <= Pending(s)
    BY <1>1, WorkFacts DEF SInv
  <2>3. synced[s] + Pending(s) <= Len(queue[s]) /\ synced[s] \in Nat /\ Len(queue[s]) \in Nat
    BY DEF SInv, EventInv, PInv, Types
  <2> QED
    BY <2>1, <2>2, <2>3
<1>4. ASSUME NEW s \in Stream, NEW i \in Kernels(s)'
      PROVE  /\ i + n[s] \in Kernels(s) /\ work'[s][i] = work[s][i + n[s]]
             /\ Excused(s, i)' = Excused(s, i + n[s])
  <2>1. i \in 1 .. Len(work'[s]) /\ work'[s][i] # Marker
    BY DEF Kernels
  <2>2. /\ i + n[s] \in 1 .. Len(work[s]) /\ work'[s][i] = work[s][i + n[s]]
        /\ Behind(work'[s], i) = Behind(work[s], i + n[s])
    <3> DEFINE m == n[s]
               l == Len(work[s])
               l2 == Len(work'[s])
    <3>1. l2 = l - m /\ l \in Nat /\ m \in Nat /\ i \in 1 .. l2
      BY <1>1, <2>1
    <3> HIDE DEF m, l, l2
    <3>2. i + m \in 1 .. l /\ i \in 0 .. l2
      BY ONLY <3>1
    <3> QED
      BY <1>1, <2>1, <3>2 DEF m, l, l2
  <2>3. \A a : HeldBack(s, i, a)' <=> HeldBack(s, i + n[s], a)
    BY <2>2 DEF HeldBack
  <2>4. \A t \in Thread, a \in Addr : GivingBack(t, a)' <=> GivingBack(t, a)
    BY DEF GivingBack
  <2>5. Excused(s, i)' = Excused(s, i + n[s])
    BY <2>3, <2>4 DEF Excused
  <2> QED
    BY <2>1, <2>2, <2>5 DEF Kernels
<1>5. ASSUME UNCHANGED Handed(block, live)
      PROVE  Promise!Next
  BY <1>5 DEF Promise!Next, Promise!Complete, Handed, Hand
<1> QED
  BY <1>2, <1>3, <1>4, <1>5

LEMMA FinishKeeps ==
  ASSUME PInv, SInv, NEW r \in Stream, Finish(r)
  PROVE  Keeps
<1> DEFINE n == [s \in Stream |-> IF s = r THEN 1 ELSE 0]
<1>1. /\ work[r] # <<>> /\ work' = [work EXCEPT ![r] = Tail(@)]
      /\ UNCHANGED <<block, segment, live, queue, pc, ptr, hint, after, synced, declared>>
  BY DEF Finish, core, call
<1> DEFINE R == [lo : Nat, hi : Nat]
<1>2. work \in [Stream -> Seq(R)]
  BY DEF SInv, WorkType
<1> HIDE DEF R
<1>3. Cuts(n)
  <2>1. work' = [s \in Stream |-> work'[s]]
    BY <1>1, <1>2
  <2>2. ASSUME NEW s \in Stream
        PROVE  n[s] \in 0 .. Len(work[s]) /\ work'[s] = SubSeq(work[s], n[s] + 1, Len(work[s]))
    <3>1. work[s] \in Seq(R) /\ Len(work[s]) \in Nat
      BY <1>2
    <3>2. CASE s = r
      <4>1. n[s] = 1 /\ Len(work[s]) # 0 /\ work'[s] = Tail(work[s])
        BY <1>1, <1>2, <3>1, <3>2
      <4>2. Tail(work[s]) = SubSeq(work[s], 2, Len(work[s]))
        BY <3>1, <1>1, <3>2, TailIsSubSeq
      <4>3. n[s] + 1 = 2 /\ 1 \in 0 .. Len(work[s])
        BY <3>1, <4>1
      <4> HIDE DEF n
      <4> QED
        BY ONLY <4>1, <4>2, <4>3
    <3>3. CASE s # r
      <4>1. n[s] = 0 /\ work'[s] = work[s]
        BY <1>1, <1>2, <3>3
      <4>2. SubSeq(work[s], 1, Len(work[s])) = work[s]
        BY <3>1, SubSeqFull
      <4>3. n[s] + 1 = 1 /\ 0 \in 0 .. Len(work[s])
        BY <3>1, <4>1
      <4> HIDE DEF n
      <4> QED
        BY ONLY <4>1, <4>2, <4>3
    <3> QED
      BY <3>2, <3>3
  <2> QED
    BY <2>1, <2>2 DEF Cuts
<1> HIDE DEF n
<1>4. UNCHANGED Handed(block, live)
  BY <1>1 DEF Handed, Hand
<1>5. /\ WorkType' /\ EventInv' /\ Promise!Next
      /\ \A s \in Stream : \A i \in Kernels(s)' :
           /\ i + n[s] \in Kernels(s) /\ work'[s][i] = work[s][i + n[s]]
           /\ Excused(s, i)' = Excused(s, i + n[s])
  BY <1>1, <1>3, <1>4, CutFacts
<1>6. KernelInv'
  <2> SUFFICES ASSUME NEW s \in Stream, NEW i \in Kernels(s)' PROVE KernelOK(s, i)'
    BY KernelsAfter
  <2>1. KernelOK(s, i + n[s])
    BY <1>5, KernelsOK DEF SInv
  <2> QED
    BY <1>1, <1>5, <2>1 DEF KernelOK
<1>7. UsesInv'
  BY <1>1 DEF SInv, UsesInv
<1> QED
  BY <1>5, <1>6, <1>7 DEF Keeps, SInv

\* Releasing a segment waits for the kernels that touch it, and no other can.
LEMMA MaxOf ==
  ASSUME NEW n \in Nat, NEW S, S \subseteq 1 .. n, S # {}
  PROVE  Max(S) \in S /\ \A y \in S : y <= Max(S)
<1> DEFINE Larger(x) == {y \in S : x < y}
           T == {Larger(x) : x \in S}
<1>0. S \subseteq Nat
  OBVIOUS
<1>1. IsFiniteSet(S)
  <2>1. IsFiniteSet(1 .. n) /\ S \in SUBSET (1 .. n)
    BY FS_Interval
  <2> QED
    BY ONLY <2>1, FS_Subset
<1>2. PICK z \in T : \A y \in T : y \subseteq z => y = z
  <2>1. T \subseteq SUBSET S /\ T # {}
    OBVIOUS
  <2> HIDE DEF T
  <2> QED
    BY ONLY <1>1, <2>1, SmallestSet
<1>3. PICK x \in S : z = Larger(x)
  OBVIOUS
<1>4. \A y \in S : x >= y
  <2> SUFFICES ASSUME NEW y \in S, x < y PROVE FALSE
    BY <1>0
  <2>1. y \in Larger(x) /\ y \notin Larger(y)
    BY <1>0
  <2>2. Larger(y) \subseteq Larger(x)
    <3>1. x \in Int /\ y \in Int /\ \A w \in S : w \in Int
      BY <1>0
    <3>2. \A w \in S : y < w => x < w
      BY ONLY <3>1, x < y
    <3> QED
      BY ONLY <3>2
  <2>3. Larger(y) = Larger(x)
    BY <1>2, <1>3, <2>2
  <2> HIDE DEF Larger
  <2> QED
    BY <2>1, <2>3
<1> HIDE DEF Larger, T
<1>5. Max(S) \in S /\ \A y \in S : Max(S) >= y
  BY <1>4 DEF Max
<1> QED
  BY <1>0, <1>5

LEMMA ReleaseKeeps ==
  ASSUME PInv, SInv, NEW t \in Thread, FlushBlock(t) \/ TrimBlock(t), "free" \notin Faults
  PROVE  Keeps
<1>1. PICK a \in Releasable : Release(a)
  BY DEF FlushBlock, TrimBlock, Victims
<1>2. UNCHANGED <<live, queue, pc, ptr, hint, after, synced, declared>>
  BY DEF FlushBlock, TrimBlock, call
<1>3. a \in pool /\ ~is_split(block[a]) /\ Good(block, segment, pool, live, Waits)
  BY DEF Releasable, PInv, Sound
<1>4. /\ block[a].segment_base = a /\ a \in DOMAIN segment /\ segment[a] = block[a].size
      /\ a \notin live /\ live \subseteq DOMAIN block /\ Segments(segment)
  <2>1. /\ block[a].segment_base = a /\ a \in DOMAIN segment /\ segment[a] = block[a].size
        /\ Good(Without(block, a), Without(segment, a), pool \ {a}, live, Waits)
    BY ONLY <1>3, RemoveStep
  <2>2. a \notin live /\ live \subseteq DOMAIN block
    BY <1>3, PoolApart
  <2> QED
    BY <1>3, <2>1, <2>2 DEF Good, Heap
<1> DEFINE hi == a + segment[a]
<1>5. /\ block' = Without(block, a) /\ segment' = Without(segment, a)
      /\ work' = Drained(a, hi)
  BY <1>1, <1>4 DEF Release
<1> DEFINE touching(s) == {i \in 1 .. Len(work[s]) : Touches(work[s][i], a, hi)}
           n == [s \in Stream |-> IF touching(s) = {} THEN 0 ELSE Max(touching(s))]
<1>6. ASSUME NEW s \in Stream
      PROVE  n[s] \in 0 .. Len(work[s]) /\ \A i \in touching(s) : i <= n[s]
  <2>1. Len(work[s]) \in Nat
    BY WorkFacts DEF SInv
  <2>2. CASE touching(s) = {}
    BY <2>1, <2>2
  <2>3. CASE touching(s) # {}
    <3>1. n[s] = Max(touching(s)) /\ touching(s) \subseteq 1 .. Len(work[s])
      BY <2>3
    <3> HIDE DEF touching, n
    <3>2. Max(touching(s)) \in touching(s) /\ \A i \in touching(s) : i <= Max(touching(s))
      BY <2>1, <2>3, <3>1, MaxOf
    <3> QED
      BY <2>1, <3>1, <3>2
  <2> QED
    BY <2>2, <2>3
<1>7. Cuts(n)
  <2>1. ASSUME NEW s \in Stream
        PROVE  work'[s] = SubSeq(work[s], n[s] + 1, Len(work[s]))
    <3>1. work'[s] = SubSeq(work[s], IF touching(s) = {} THEN 1 ELSE Max(touching(s)) + 1,
                            Len(work[s]))
      BY <1>5 DEF Drained
    <3>2. (IF touching(s) = {} THEN 1 ELSE Max(touching(s)) + 1) = n[s] + 1
      <4>1. n[s] = IF touching(s) = {} THEN 0 ELSE Max(touching(s))
        OBVIOUS
      <4> HIDE DEF touching, n
      <4> QED
        BY <4>1
    <3> QED
      BY ONLY <3>1, <3>2
  <2>2. work' = [s \in Stream |-> work'[s]]
    BY <1>5 DEF Drained
  <2> HIDE DEF n
  <2> QED
    BY <1>6, <2>1, <2>2 DEF Cuts
<1> HIDE DEF n
<1>8. /\ DOMAIN block' = DOMAIN block \ {a} /\ \A x \in DOMAIN block' : block'[x] = block[x]
      /\ DOMAIN segment' = DOMAIN segment \ {a}
      /\ \A b \in DOMAIN segment' : segment'[b] = segment[b]
  BY <1>5 DEF Without, Restrict
<1>9. \A x \in live : x \in DOMAIN block' /\ block'[x] = block[x]
  BY <1>4, <1>8
<1>10. UNCHANGED Handed(block, live)
  BY <1>2, <1>9 DEF Handed, Hand
<1>11. /\ WorkType' /\ EventInv' /\ Promise!Next
       /\ \A s \in Stream : \A i \in Kernels(s)' :
            /\ i + n[s] \in Kernels(s) /\ work'[s][i] = work[s][i + n[s]]
            /\ Excused(s, i)' = Excused(s, i + n[s])
  BY <1>2, <1>7, <1>10, CutFacts
<1>12. KernelInv'
  <2> SUFFICES ASSUME NEW s \in Stream, NEW i \in Kernels(s)' PROVE KernelOK(s, i)'
    BY KernelsAfter
  <2> DEFINE j == i + n[s]
             k == work'[s][i]
  <2>1. j \in Kernels(s) /\ k = work[s][j] /\ Excused(s, i)' = Excused(s, j)
    BY <1>11
  <2>2. /\ k \in Span /\ Kept(block, s, k, Excused(s, j))
        /\ \E b \in DOMAIN segment : b <= k.lo /\ k.hi <= b + segment[b]
    BY <2>1, KernelsOK DEF SInv, KernelOK
  <2>3. ~Touches(k, a, hi)
    <3>1. i \in 1 .. Len(work'[s]) /\ n[s] \in Nat /\ j \in 1 .. Len(work[s])
      BY <1>6, <2>1 DEF Kernels
    <3>2. ~(j <= n[s])
      BY <3>1
    <3>3. j \notin touching(s)
      BY <1>6, <3>2
    <3> HIDE DEF j, k
    <3> QED
      BY <2>1, <3>1, <3>3
  <2> HIDE DEF j, k
  <2>4. Kept(block', s, k, Excused(s, i)')
    BY <1>5, <2>1, <2>2, KeptByRemove
  <2>5. \E b \in DOMAIN segment' : b <= k.lo /\ k.hi <= b + segment'[b]
    <3>1. PICK b \in DOMAIN segment : b <= k.lo /\ k.hi <= b + segment[b]
      BY <2>2
    <3>2. b # a
      <4>1. k.lo \in Nat /\ k.hi \in Nat /\ k.lo < k.hi /\ a \in Nat /\ segment[a] \in Nat
        BY <1>4, <2>2 DEF Span, Segments
      <4> QED
        BY <2>3, <3>1, <4>1 DEF Touches
    <3> QED
      BY <1>8, <3>1, <3>2
  <2> QED
    BY <2>2, <2>4, <2>5 DEF KernelOK, k
<1>13. UsesInv'
  BY <1>2, <1>9 DEF SInv, UsesInv
<1> QED
  BY <1>11, <1>12, <1>13 DEF Keeps, SInv

\* An entry is added to the streams in "on".
Adds1(on, e) == work' = [s \in Stream |-> IF s \in on THEN Append(work[s], e) ELSE work[s]]
Marks(on, e, s) == IF s \in on /\ e = Marker THEN 1 ELSE 0

LEMMA AppendFacts ==
  ASSUME WorkType, NEW on, NEW e \in [lo : Nat, hi : Nat], Adds1(on, e), NEW s \in Stream
  PROVE  /\ Len(work[s]) \in Nat
         /\ Len(work'[s]) = Len(work[s]) + (IF s \in on THEN 1 ELSE 0)
         /\ \A i \in 1 .. Len(work[s]) : work'[s][i] = work[s][i]
         /\ s \in on => work'[s][Len(work[s]) + 1] = e
         /\ work'[s] \in Seq([lo : Nat, hi : Nat])
<1> DEFINE R == [lo : Nat, hi : Nat]
<1>0. work \in [Stream -> Seq(R)] /\ e \in R
  BY DEF WorkType
<1> HIDE DEF R
<1>1. work[s] \in Seq(R) /\ work'[s] = IF s \in on THEN Append(work[s], e) ELSE work[s]
  BY <1>0 DEF Adds1
<1>2. /\ work'[s] \in Seq(R) /\ Len(work[s]) \in Nat
      /\ Len(work'[s]) = Len(work[s]) + (IF s \in on THEN 1 ELSE 0)
      /\ \A i \in 1 .. Len(work[s]) : work'[s][i] = work[s][i]
      /\ s \in on => work'[s][Len(work[s]) + 1] = e
  BY ONLY <1>0, <1>1
<1> QED
  BY <1>2 DEF R

LEMMA AppendType ==
  ASSUME WorkType, NEW on, NEW e \in [lo : Nat, hi : Nat], Adds1(on, e)
  PROVE  WorkType'
<1> DEFINE R == Seq([lo : Nat, hi : Nat])
<1>1. \A s \in Stream : work'[s] \in R
  BY AppendFacts
<1>2. work' = [s \in Stream |-> work'[s]]
  BY DEF Adds1
<1> HIDE DEF R
<1>3. work' \in [Stream -> R]
  BY ONLY <1>1, <1>2
<1> QED
  BY <1>3 DEF WorkType, R

LEMMA AppendBehind ==
  ASSUME WorkType, NEW on, NEW e \in [lo : Nat, hi : Nat], Adds1(on, e), NEW s \in Stream,
         NEW i \in 0 .. Len(work[s])
  PROVE  Behind(work[s], i) \in Nat /\ Behind(work'[s], i) = Behind(work[s], i) + Marks(on, e, s)
<1> DEFINE R == [lo : Nat, hi : Nat]
           w == work[s]
<1>1. w \in Seq(R) /\ e \in R /\ i \in 0 .. Len(w) /\ Len(w) \in Nat
  BY WorkFacts
<1> HIDE DEF R, w
<1>2. i \in Nat
  BY ONLY <1>1
<1>3. Behind(w, i) \in Nat
  BY ONLY <1>1, <1>2, BehindFacts
<1>4. CASE s \in on
  <2>1. work'[s] = Append(w, e) /\ Marks(on, e, s) = IF e = Marker THEN 1 ELSE 0
    BY <1>4 DEF Adds1, Marks, w
  <2>2. Behind(Append(w, e), i) = Behind(w, i) + (IF e = Marker THEN 1 ELSE 0)
    BY ONLY <1>1, BehindAppend
  <2> QED
    BY ONLY <1>3, <2>1, <2>2 DEF w
<1>5. CASE s \notin on
  <2>1. work'[s] = w /\ Marks(on, e, s) = 0
    BY <1>5 DEF Adds1, Marks, w
  <2> QED
    BY ONLY <1>3, <2>1 DEF w
<1> QED
  BY <1>4, <1>5

LEMMA AppendPending ==
  ASSUME WorkType, NEW on, NEW e \in [lo : Nat, hi : Nat], Adds1(on, e), NEW s \in Stream
  PROVE  Pending(s) \in Nat /\ Pending(s)' = Pending(s) + Marks(on, e, s)
<1>1. Pending(s)' = Behind(work'[s], 0) /\ Pending(s) = Behind(work[s], 0)
  BY DEF Pending, Behind
<1>2. 0 \in 0 .. Len(work[s])
  BY WorkFacts
<1>3. Behind(work[s], 0) \in Nat /\ Behind(work'[s], 0) = Behind(work[s], 0) + Marks(on, e, s)
  BY <1>2, AppendBehind
<1> QED
  BY ONLY <1>1, <1>3

\* A client starts a kernel on a block it owns.
LEMMA LaunchKeeps ==
  ASSUME PInv, SInv, NEW a \in live, NEW r \in Stream, Launch(a, r)
  PROVE  Keeps
<1> DEFINE k == Kernel(a)
<1>1. /\ \A t \in Thread : ptr[t] # a
      /\ work' = [work EXCEPT ![r] = Append(@, k)]
      /\ UNCHANGED <<block, segment, live, queue, pc, ptr, hint, after, synced, declared>>
  BY DEF Launch, Owned, core, call
<1>2. Heap(block, segment) /\ a \in DOMAIN block /\ live \subseteq DOMAIN block
  BY PoolApart DEF PInv, Sound, Good
<1> DEFINE z == block[a].size
<1>3. /\ a \in Addr /\ a \in Nat /\ z \in Nat \ {0} /\ InTile(block, segment, a)
  BY <1>2, HeapFacts
<1>4. k \in Span /\ k # Marker /\ k.lo = a /\ k.hi = a + z /\ k = [lo |-> a, hi |-> a + z]
  <2>1. k = [lo |-> a, hi |-> a + z]
    BY DEF Kernel
  <2> HIDE DEF k, z
  <2>2. a + z \in Nat /\ a < a + z /\ a + z # 0
    BY <1>3
  <2> QED
    BY <2>1, <2>2, <1>3 DEF Span, Marker
<1>5. k \in [lo : Nat, hi : Nat]
  BY <1>4 DEF Span
<1> HIDE DEF k, z
<1>6. Adds1({r}, k)
  BY <1>1 DEF Adds1, SInv, WorkType
<1>7. \A s \in Stream : Marks({r}, k, s) = 0
  BY <1>4 DEF Marks
<1>8. WorkType
  BY DEF SInv
<1>9. EventInv'
  <2> SUFFICES ASSUME NEW s \in Stream PROVE synced'[s] + Pending(s)' <= Len(queue'[s])
    BY DEF EventInv
  <2>1. Pending(s) \in Nat /\ synced[s] + Pending(s) <= Len(queue[s])
    BY <1>8, WorkFacts DEF SInv, EventInv
  <2>2. Pending(s)' = Pending(s) + Marks({r}, k, s)
    BY <1>5, <1>6, <1>8, AppendPending
  <2>3. Pending(s)' = Pending(s)
    <3> DEFINE p == Pending(s)
               p2 == Pending(s)'
               m == Marks({r}, k, s)
    <3>1. p \in Nat /\ p2 = p + m /\ m = 0
      BY <1>7, <2>1, <2>2
    <3> HIDE DEF p, p2, m
    <3>2. p2 = p
      BY ONLY <3>1
    <3> QED
      BY <3>2 DEF p, p2
  <2> QED
    BY <1>1, <2>1, <2>3
<1>10. ASSUME NEW s \in Stream, NEW i \in Kernels(s)'
       PROVE  KernelOK(s, i)'
  <2>0. /\ Len(work[s]) \in Nat
        /\ Len(work'[s]) = Len(work[s]) + (IF s \in {r} THEN 1 ELSE 0)
        /\ \A j \in 1 .. Len(work[s]) : work'[s][j] = work[s][j]
        /\ s \in {r} => work'[s][Len(work[s]) + 1] = k
    BY <1>5, <1>6, <1>8, AppendFacts
  <2>1. i \in 1 .. Len(work'[s]) /\ work'[s][i] # Marker
    BY <1>10 DEF Kernels
  <2>2. CASE i \in 1 .. Len(work[s])
    <3>1. work'[s][i] = work[s][i] /\ i \in Kernels(s)
      BY <2>0, <2>1, <2>2 DEF Kernels
    <3>2. KernelOK(s, i)
      BY <3>1, KernelsOK DEF SInv
    <3>3. Behind(work'[s], i) = Behind(work[s], i)
      <4>1. i \in 0 .. Len(work[s])
        BY <2>0, <2>2
      <4>2. Behind(work[s], i) \in Nat
            /\ Behind(work'[s], i) = Behind(work[s], i) + Marks({r}, k, s)
        BY <1>5, <1>6, <1>8, <4>1, AppendBehind
      <4> QED
        <5>1. Marks({r}, k, s) = 0
          BY <1>7
        <5> DEFINE b == Behind(work[s], i)
                   b2 == Behind(work'[s], i)
                   m == Marks({r}, k, s)
        <5>2. b \in Nat /\ b2 = b + m /\ m = 0
          BY <4>2, <5>1
        <5> HIDE DEF b, b2, m
        <5>3. b2 = b
          BY ONLY <5>2
        <5> QED
          BY <5>3 DEF b, b2
    <3>4. \A x : HeldBack(s, i, x)' <=> HeldBack(s, i, x)
      BY <1>1, <3>3 DEF HeldBack
    <3>5. Excused(s, i)' = Excused(s, i)
      BY <1>1, <3>4 DEF Excused, GivingBack
    <3> QED
      BY <1>1, <3>1, <3>2, <3>5 DEF KernelOK
  <2>3. CASE i \notin 1 .. Len(work[s])
    <3>1. s = r /\ i = Len(work[s]) + 1 /\ work'[s][i] = k
      <4> DEFINE l == Len(work[s])
                 l2 == Len(work'[s])
      <4>1. l \in Nat /\ l2 = l + (IF s = r THEN 1 ELSE 0) /\ i \in 1 .. l2 /\ i \notin 1 .. l
        BY <2>0, <2>1, <2>3
      <4> HIDE DEF l, l2
      <4>2. s = r /\ i = l + 1
        BY ONLY <4>1
      <4> QED
        BY <2>0, <4>2 DEF l
    <3>2. \E b \in DOMAIN segment : b <= k.lo /\ k.hi <= b + segment[b]
      BY <1>3, <1>4 DEF InTile, z
    <3>3. ASSUME NEW x \in DOMAIN block, Foreign(block, x, s, k)
          PROVE  x = a
      <4>1. x \in Nat /\ block[x].size \in Nat
        BY <1>2, HeapFacts
      <4>2. /\ x < a => x + block[x].size <= a
            /\ a < x => a + block[a].size <= x
        BY <1>2 DEF Heap
      <4>3. k.lo < x + block[x].size /\ x < k.hi
        BY <3>3 DEF Foreign, Touches
      <4> QED
        BY <1>3, <1>4, <4>1, <4>2, <4>3 DEF z
    <3>4. a \in Excused(s, i)'
      BY <1>1, <1>3 DEF Excused, GivingBack
    <3>5. Kept(block, s, k, Excused(s, i)')
      BY <3>3, <3>4 DEF Kept
    <3> QED
      BY <1>1, <1>4, <3>1, <3>2, <3>5 DEF KernelOK
  <2> QED
    BY <2>2, <2>3
<1>11. KernelInv'
  BY <1>10, KernelsAfter
<1>12. UsesInv'
  BY <1>1 DEF SInv, UsesInv
<1>13. Promise!Next
  <2>1. Hand(block, a) \in Handed(block, live)
    BY DEF Handed
  <2>2. k = [lo |-> Hand(block, a).lo, hi |-> Hand(block, a).hi]
    BY <1>4 DEF Hand, z
  <2>3. Promise!Launch
    BY <1>1, <2>1, <2>2 DEF Promise!Launch, Handed, Hand
  <2> QED
    BY <2>3 DEF Promise!Next
<1> QED
  BY <1>5, <1>6, <1>8, <1>9, <1>11, <1>12, <1>13, AppendType DEF Keeps, SInv

-----------------------------------------------------------------------------
(* A block is given back.                                                  *)

\* It is used where its client says, and nowhere else.
LEMMA GivenBack ==
  ASSUME PInv, SInv, DefaultStream \notin Stream, NEW t \in Thread, pc[t] = "free",
         NEW a, a = ptr[t], NEW s \in Stream, NEW i \in Kernels(s),
         Foreign(block, a, s, work[s][i])
  PROVE  s \in Uses(t, block[a])
<1>1. a \in live /\ a \in DOMAIN block
  BY Freeing1
<1>2. a \in Excused(s, i)
  BY <1>1, KernelsOK DEF SInv, KernelOK, Kept
<1>3. s \in declared[a] \cup {hint[t]}
  BY <1>1, <1>2 DEF Excused, GivingBack
<1>4. block[a].stream # s
  BY DEF Foreign
<1>5. block[a].stream_uses = declared[a] \ {DefaultStream, block[a].stream}
  BY <1>1 DEF SInv, UsesInv
<1> QED
  BY <1>3, <1>4, <1>5 DEF Uses

LEMMA HandedLess ==
  ASSUME NEW blk, NEW r, NEW L, NEW a \in L, Alike(blk, r, L \ {a})
  PROVE  Handed(r, L \ {a}) = Handed(blk, L) \ {Hand(blk, a)}
<1>1. \A x \in L \ {a} : Hand(r, x) = Hand(blk, x)
  BY DEF Alike, Hand
<1>2. \A x \in L : Hand(blk, x).lo = x
  BY DEF Hand
<1>3. \A x \in L \ {a} : Hand(blk, x) # Hand(blk, a)
  BY <1>2
<1> QED
  BY <1>1, <1>3 DEF Handed

\* What the thread leaves as it is when it has freed the block at a.
Lets(t, a) ==
  /\ pc[t] = "free" /\ a = ptr[t] /\ Unlist(t)
  /\ Goto(t, "trim")
  /\ UNCHANGED <<segment, call>>
  /\ Alike(block, block', live \ {a})

LEMMA LetsPromise ==
  ASSUME PInv, SInv, NEW t \in Thread, NEW a, Lets(t, a), NEW on \in SUBSET Stream,
         Adds1(on, Marker)
  PROVE  UsesInv' /\ WorkType' /\ Promise!Next
<1>1. a \in live /\ live' = live \ {a} /\ declared' = Without(declared, a)
      /\ DOMAIN declared = live
  BY Freeing1 DEF Lets, Unlist, PInv, Types
<1>2. \A x \in live' : declared'[x] = declared[x]
  BY <1>1 DEF Without, Restrict
<1>3. UsesInv'
  BY <1>1, <1>2, UsesStay DEF Lets, SInv
<1>4. Marker \in [lo : Nat, hi : Nat]
  BY DEF Marker
<1>5. WorkType'
  BY <1>4, AppendType DEF SInv
<1>6. Handed(block', live') = Handed(block, live) \ {Hand(block, a)}
      /\ Hand(block, a) \in Handed(block, live)
  <2>1. Alike(block, block', live \ {a})
    BY DEF Lets
  <2>2. Handed(block', live \ {a}) = Handed(block, live) \ {Hand(block, a)}
    BY ONLY <1>1, <2>1, HandedLess
  <2>3. Hand(block, a) \in Handed(block, live)
    BY <1>1 DEF Handed
  <2> QED
    BY ONLY <1>1, <2>2, <2>3
<1>7. work' = [s \in Stream |-> IF s \in on THEN Append(work[s], Promise!Event) ELSE work[s]]
  BY DEF Adds1, Marker, Promise!Event
<1>8. \E r \in Handed(block, live) : Handed(block', live') = Handed(block, live) \ {r}
  BY ONLY <1>6
<1>9. Promise!Free
  BY <1>7, <1>8 DEF Promise!Free, Handed, Hand
<1> QED
  BY <1>3, <1>5, <1>9 DEF Promise!Next

LEMMA LetsExcuse ==
  ASSUME PInv, NEW t \in Thread, NEW a, Lets(t, a), NEW s \in Stream, NEW i,
         NEW x \in Excused(s, i), x # a, HeldBack(s, i, x) => HeldBack(s, i, x)'
  PROVE  x \in Excused(s, i)'
<1>1. a \in live /\ live' = live \ {a} /\ declared' = Without(declared, a)
      /\ DOMAIN declared = live
  BY Freeing1 DEF Lets, Unlist, PInv, Types
<1>2. CASE x \in live
  <2>1. x \in live' /\ declared'[x] = declared[x]
    BY <1>1, <1>2 DEF Without, Restrict
  <2>2. \A u \in Thread : GivingBack(u, x)' => GivingBack(u, x) /\ hint'[u] = hint[u]
    BY CallFunctions DEF GivingBack, Lets, Goto, call
  <2>3. \A u \in Thread : GivingBack(u, x) => s \in declared[x] \cup {hint[u]}
    BY <1>2 DEF Excused
  <2>4. \A u \in Thread : GivingBack(u, x)' => s \in declared'[x] \cup {hint'[u]}
    BY <2>1, <2>2, <2>3
  <2>5. x \in Addr
    BY DEF Excused
  <2> QED
    BY <2>1, <2>4, <2>5 DEF Excused
<1>3. CASE x \notin live
  <2>1. x \notin live' /\ x \in Addr /\ HeldBack(s, i, x)
    BY <1>1, <1>3 DEF Excused
  <2> QED
    BY <2>1 DEF Excused
<1> QED
  BY <1>2, <1>3

LEMMA FreeNowKeeps ==
  ASSUME PInv, SInv, DefaultStream \notin Stream, NEW t \in Thread, FreeNow(t)
  PROVE  Keeps
<1> DEFINE a == ptr[t]
           v == [block[a] EXCEPT !.allocated = FALSE]
           blk == [block EXCEPT ![a].allocated = FALSE]
           P2 == pool \cup {a}
           L2 == live \ {a}
<1>1. /\ pc[t] = "free" /\ Uses(t, block[a]) = {} /\ Unlist(t)
      /\ block' = FreeBlock(blk, a).block
      /\ Goto(t, "trim")
      /\ UNCHANGED <<queue, segment, call, work>>
  BY DEF FreeNow
<1>2. /\ a \in live /\ a \in DOMAIN block /\ block[a] \in Block
  BY <1>1, Freeing1
<1>3. block[a].stream_uses = {}
  BY <1>1 DEF Uses
<1>4. v \in Block /\ Freed(v, block[a], block[a].event_count)
  BY <1>2, <1>3 DEF Block, Freed, SameShape
<1>5. Sets(block, blk, a, v) /\ Gives(pool, P2, live, L2, a)
  BY <1>2 DEF Sets, Gives
<1>6. Good(block, segment, pool, live, Waits) /\ live \subseteq DOMAIN block
  BY PoolApart DEF PInv, Sound
<1>7. /\ DOMAIN blk = DOMAIN block
      /\ \A x \in DOMAIN block : blk[x].size = block[x].size /\ blk[x].stream = block[x].stream
                                 /\ blk[x].stream_uses = block[x].stream_uses
  BY <1>2, <1>6 DEF Good, Heap, Blocks, Block
<1>8. a = ptr[t]
  OBVIOUS
<1> HIDE DEF a, v, blk, P2, L2
<1>9. Good(blk, segment, P2, L2, Waits) /\ a \notin pool
  BY ONLY <1>2, <1>4, <1>5, <1>6, GiveStep
<1>10. Good(blk, segment, pool \cup {a}, live \ {a}, Waits)
  BY <1>9 DEF P2, L2
<1>11. /\ Alike(blk, block', live \ {a})
       /\ \A s, k, X : k \in Span /\ (pool \cup {a}) \cap X = {} /\ Kept(blk, s, k, X)
                         => Kept(block', s, k, X)
  BY ONLY <1>1, <1>9, <1>10, FreeBlockKeeps
<1>12. Alike(block, block', live \ {a})
  BY <1>6, <1>7, <1>11 DEF Alike
<1>13. Lets(t, a)
  BY <1>1, <1>8, <1>12 DEF Lets
<1>14. Adds1({}, Marker)
  <2>1. work = [s \in Stream |-> work[s]]
    BY DEF SInv, WorkType
  <2> QED
    BY <1>1, <2>1 DEF Adds1
<1>15. UsesInv' /\ WorkType' /\ Promise!Next
  BY <1>13, <1>14, LetsPromise
<1>16. EventInv'
  BY <1>1, SyncedStays, EventsStay DEF SInv, PInv, call
<1>17. KernelInv'
  <2> SUFFICES ASSUME NEW s \in Stream, NEW i \in Kernels(s), KernelOK(s, i)
               PROVE  Kept(block', s, work[s][i], Excused(s, i)')
    BY <1>1, KernelsFollow DEF SInv
  <2> DEFINE X == Excused(s, i) \ {a}
             k == work[s][i]
  <2>1. k \in Span /\ Kept(block, s, k, Excused(s, i))
    BY DEF KernelOK
  <2>2. ~Foreign(block, a, s, k)
    BY <1>1, <1>8, GivenBack
  <2>3. Kept(block, s, k, X)
    BY <2>1, <2>2 DEF Kept
  <2>4. (pool \cup {a}) \cap X = {}
    <3>1. i \in Nat
      BY DEF Kernels
    <3> QED
      BY <3>1, PoolNotExcused
  <2>5. \A x \in X : x \in Excused(s, i)'
    <3> SUFFICES ASSUME NEW x \in Excused(s, i), x # a PROVE x \in Excused(s, i)'
      OBVIOUS
    <3>1. HeldBack(s, i, x) => HeldBack(s, i, x)'
      BY <1>1 DEF HeldBack
    <3> QED
      BY ONLY PInv, <1>13, <3>1, x \in Excused(s, i), x # a, s \in Stream, t \in Thread, LetsExcuse
  <2> HIDE DEF X, k
  <2>6. Kept(blk, s, k, X)
    BY <1>7, <2>3, KeptByMark
  <2>7. Kept(block', s, k, X)
    BY <1>11, <2>1, <2>4, <2>6
  <2>8. Kept(block', s, k, Excused(s, i)')
    BY <2>5, <2>7, KeptMore
  <2> QED
    BY <2>8 DEF k
<1> QED
  BY <1>15, <1>16, <1>17 DEF Keeps, SInv

LEMMA FreeLaterKeeps ==
  ASSUME PInv, SInv, DefaultStream \notin Stream, NEW t \in Thread, FreeLater(t)
  PROVE  Keeps
<1>0. PICK a : a = ptr[t]
  OBVIOUS
<1> DEFINE on == Uses(t, block[a])
<1>1. /\ pc[t] = "free" /\ on # {} /\ Unlist(t)
      /\ Recorded([block EXCEPT ![a].allocated = FALSE], a, on)
      /\ Goto(t, "trim")
      /\ UNCHANGED <<pool, segment, call>>
  BY <1>0 DEF FreeLater
<1>2. /\ a \in live /\ a \in Addr /\ a \in DOMAIN block /\ block[a] \in Block
      /\ queue \in [Stream -> Seq(Addr)] /\ on \in SUBSET Stream
      /\ \A u \in Thread : pc[u] # "flush"
  BY <1>0, <1>1, Freeing1
<1>3. Good(block, segment, pool, live, Waits) /\ live \subseteq DOMAIN block
  BY PoolApart DEF PInv, Sound
<1>4. /\ DOMAIN block' = DOMAIN block
      /\ \A x \in DOMAIN block : block'[x].size = block[x].size /\ block'[x].stream = block[x].stream
      /\ \A x \in DOMAIN block \ {a} : block'[x] = block[x]
  BY <1>1, <1>2, <1>3 DEF Good, Heap, Blocks, Block, Recorded
<1>5. Adds1(on, Marker)
      /\ queue' = [s \in Stream |-> IF s \in on THEN Append(queue[s], a) ELSE queue[s]]
  BY <1>1 DEF Recorded, Adds1
<1>6. a = ptr[t] /\ on = Uses(t, block[a])
  BY <1>0
<1> HIDE DEF on
<1>7. Alike(block, block', live \ {a})
  BY <1>3, <1>4 DEF Alike
<1>8. Lets(t, a)
  BY <1>1, <1>6, <1>7 DEF Lets
<1>9. UsesInv' /\ WorkType' /\ Promise!Next
  BY <1>2, <1>5, <1>8, LetsPromise
<1>10. WorkType /\ Marker \in [lo : Nat, hi : Nat] /\ \A s \in Stream : synced[s] = 0
  BY <1>2, NothingHalfDone DEF SInv, Marker
\* What becomes of a stream s and its queue.
<1>11. ASSUME NEW s \in Stream
       PROVE  /\ Len(queue[s]) \in Nat
              /\ Len(queue'[s]) = Len(queue[s]) + Marks(on, Marker, s)
              /\ \A q \in 1 .. Len(queue[s]) : queue'[s][q] = queue[s][q]
              /\ s \in on => /\ queue'[s][Len(queue[s]) + 1] = a
                             /\ Marks(on, Marker, s) = 1
              /\ Marks(on, Marker, s) \in 0 .. 1
  <2>1. queue[s] \in Seq(Addr) /\ queue'[s] = IF s \in on THEN Append(queue[s], a) ELSE queue[s]
    BY <1>2, <1>5
  <2>2. Marks(on, Marker, s) = IF s \in on THEN 1 ELSE 0
    BY DEF Marks
  <2> QED
    BY ONLY <1>2, <2>1, <2>2
<1>12. EventInv'
  <2> SUFFICES ASSUME NEW s \in Stream PROVE synced'[s] + Pending(s)' <= Len(queue'[s])
    BY DEF EventInv
  <2>1. Pending(s) \in Nat /\ Pending(s)' = Pending(s) + Marks(on, Marker, s)
    BY <1>5, <1>10, AppendPending
  <2>2. synced[s] = 0 /\ synced'[s] = 0 /\ synced[s] + Pending(s) <= Len(queue[s])
    BY <1>1, <1>10 DEF SInv, EventInv, call
  <2> DEFINE p == Pending(s)
             p2 == Pending(s)'
             m == Marks(on, Marker, s)
             l == Len(queue[s])
             l2 == Len(queue'[s])
  <2>3. p \in Nat /\ p2 = p + m /\ 0 + p <= l /\ l \in Nat /\ l2 = l + m /\ m \in 0 .. 1
    BY <1>11, <2>1, <2>2
  <2> HIDE DEF p, p2, m, l, l2
  <2>4. 0 + p2 <= l2
    BY ONLY <2>3
  <2> QED
    BY <2>2, <2>4 DEF p2, l2
<1>13. ASSUME NEW s \in Stream, NEW i \in Kernels(s)
       PROVE  /\ \A x : HeldBack(s, i, x) => HeldBack(s, i, x)'
              /\ s \in on => HeldBack(s, i, a)'
              /\ i \in 1 .. Len(work[s])
              /\ work'[s][i] = work[s][i] /\ i \in 1 .. Len(work'[s])
  <2> DEFINE d == Behind(work[s], i)
             d2 == Behind(work'[s], i)
             m == Marks(on, Marker, s)
             l == Len(queue[s])
             l2 == Len(queue'[s])
             w == Len(work[s])
             w2 == Len(work'[s])
  <2>1. /\ w \in Nat /\ w2 = w + (IF s \in on THEN 1 ELSE 0) /\ i \in 1 .. w
        /\ \A j \in 1 .. w : work'[s][j] = work[s][j]
    BY <1>5, <1>10, AppendFacts DEF Kernels
  <2> HIDE DEF w, w2
  <2>2. i \in 0 .. w /\ i \in 1 .. w2
    BY ONLY <2>1
  <2>3. d \in Nat /\ d2 = d + m
    BY <1>5, <1>10, <2>2, AppendBehind DEF w
  <2>4. /\ l \in Nat /\ l2 = l + m /\ m \in 0 .. 1 /\ (s \in on => m = 1)
        /\ \A q \in 1 .. l : queue'[s][q] = queue[s][q]
        /\ s \in on => queue'[s][l + 1] = a
    BY <1>11
  <2>5. /\ \A x : HeldBack(s, i, x) <=> \E q \in 1 .. l : queue[s][q] = x /\ q > l - d
        /\ \A x : HeldBack(s, i, x)' <=> \E q \in 1 .. l2 : queue'[s][q] = x /\ q > l2 - d2
    BY DEF HeldBack
  <2> HIDE DEF d, d2, m, l, l2
  <2>6. l2 - d2 = l - d /\ \A q \in 1 .. l : q \in 1 .. l2
    BY ONLY <2>3, <2>4
  <2>7. s \in on => l + 1 \in 1 .. l2 /\ l + 1 > l2 - d2
    BY ONLY <2>3, <2>4
  <2>8. \A x : HeldBack(s, i, x) => HeldBack(s, i, x)'
    BY ONLY <2>4, <2>5, <2>6
  <2>9. s \in on => HeldBack(s, i, a)'
    BY ONLY <2>4, <2>5, <2>7
  <2> QED
    BY <2>1, <2>2, <2>8, <2>9 DEF w, w2
<1>14. ASSUME NEW s \in Stream, NEW i \in Kernels(s)'
       PROVE  i \in Kernels(s)
  <2>1. i \in 1 .. Len(work'[s]) /\ work'[s][i] # Marker
    BY <1>14 DEF Kernels
  <2>2. /\ Len(work[s]) \in Nat
        /\ Len(work'[s]) = Len(work[s]) + (IF s \in on THEN 1 ELSE 0)
        /\ \A j \in 1 .. Len(work[s]) : work'[s][j] = work[s][j]
        /\ s \in on => work'[s][Len(work[s]) + 1] = Marker
    BY <1>5, <1>10, AppendFacts
  <2> DEFINE w == Len(work[s])
             w2 == Len(work'[s])
  <2>3. w \in Nat /\ w2 = w + (IF s \in on THEN 1 ELSE 0) /\ i \in 1 .. w2
        /\ (s \in on => i # w + 1)
    BY <2>1, <2>2
  <2> HIDE DEF w, w2
  <2>4. i \in 1 .. w
    BY ONLY <2>3
  <2> QED
    BY <2>1, <2>2, <2>4 DEF w, Kernels
<1>15. KernelInv'
  <2> SUFFICES ASSUME NEW s \in Stream, NEW i \in Kernels(s)' PROVE KernelOK(s, i)'
    BY KernelsAfter
  <2>1. i \in Kernels(s) /\ KernelOK(s, i)
    BY <1>14, KernelsOK DEF SInv
  <2> DEFINE k == work[s][i]
  <2>2. /\ k \in Span /\ Kept(block, s, k, Excused(s, i))
        /\ \E b \in DOMAIN segment : b <= k.lo /\ k.hi <= b + segment[b]
    BY <2>1 DEF KernelOK
  <2>3. /\ \A x : HeldBack(s, i, x) => HeldBack(s, i, x)'
        /\ s \in on => HeldBack(s, i, a)'
        /\ work'[s][i] = k
    BY <1>13, <2>1
  <2>4. ASSUME NEW x \in DOMAIN block, Foreign(block, x, s, k)
        PROVE  x \in Excused(s, i)'
    <3>1. x \in Excused(s, i)
      BY <2>2, <2>4 DEF Kept
    <3>2. CASE x = a
      <4>1. s \in on
        BY <1>1, <1>6, <2>1, <2>4, <3>2, GivenBack
      <4>2. HeldBack(s, i, a)' /\ a \notin live'
        BY <1>1, <1>6, <2>3, <4>1 DEF Unlist
      <4> QED
        BY <1>2, <3>2, <4>2 DEF Excused
    <3>3. CASE x # a
      BY <1>8, <2>3, <3>1, <3>3, LetsExcuse
    <3> QED
      BY <3>2, <3>3
  <2>5. Kept(block', s, k, Excused(s, i)')
    <3>1. Kept(block, s, k, Excused(s, i)')
      BY <2>4 DEF Kept
    <3> HIDE DEF k
    <3> QED
      BY <1>4, <3>1, KeptByMark
  <2> QED
    BY <1>1, <2>2, <2>3, <2>5 DEF KernelOK
<1> QED
  BY <1>9, <1>12, <1>15 DEF Keeps, SInv

-----------------------------------------------------------------------------
(* Events are recycled once they have completed.                           *)

\* A block waits once in a queue.
LEMMA WaitingOnce ==
  ASSUME PInv, NEW s \in Stream,
         NEW p \in (synced[s] + 1) .. Len(queue[s]), NEW q \in (synced[s] + 1) .. Len(queue[s]),
         queue[s][p] = queue[s][q]
  PROVE  p = q
<1> DEFINE n == synced[s]
           l == Len(queue[s])
           w == Waiting(s)
           u == queue[s]
<1>1. u \in Seq(Addr) /\ n \in Nat /\ l \in Nat /\ l = Len(u)
  BY DEF PInv, Types
<1>2. n \in 0 .. Len(u) /\ w = SubSeq(u, n + 1, Len(u))
  BY <1>1 DEF Waiting
<1>3. IsInjective(w)
  BY DEF PInv, Sound, Good, Placed, Waits
<1> HIDE DEF n, l, w, u
<1>4. /\ w \in Seq(Addr) /\ Len(w) = Len(u) - n
      /\ \A j \in 1 .. Len(w) : w[j] = u[j + n]
  BY ONLY <1>1, <1>2, SuffixFacts
<1>5. p \in (n + 1) .. l /\ q \in (n + 1) .. l /\ u[p] = u[q]
  BY DEF n, l, u
<1>6. /\ p - n \in 1 .. Len(w) /\ q - n \in 1 .. Len(w)
      /\ (p - n) + n = p /\ (q - n) + n = q
  BY ONLY <1>1, <1>4, <1>5
<1>7. w[p - n] = w[q - n] /\ p - n \in DOMAIN w /\ q - n \in DOMAIN w
  <2>1. w[p - n] = u[p] /\ w[q - n] = u[q]
    BY ONLY <1>4, <1>6
  <2>2. DOMAIN w = 1 .. Len(w)
    BY ONLY <1>4
  <2> QED
    BY ONLY <1>5, <1>6, <2>1, <2>2
<1>8. p - n = q - n
  BY <1>3, <1>7 DEF IsInjective
<1> QED
  BY ONLY <1>1, <1>5, <1>8

\* The block of a completed event that is its last one is held back no more.
LEMMA LastIsFree ==
  ASSUME PInv, SInv, NEW s \in Stream, NEW i, i = synced[s] + 1, i <= Len(queue[s]),
         Completed(s, i), NEW a, a = queue[s][i], block[a].event_count = 1,
         NEW r \in Stream, NEW j \in Nat
  PROVE  ~HeldBack(r, j, a)
<1> SUFFICES ASSUME HeldBack(r, j, a) PROVE FALSE
  OBVIOUS
<1>1. /\ a \in Range(Waiting(r))
      /\ \E q \in (synced[r] + 1) .. Len(queue[r]) :
           queue[r][q] = a /\ q > Len(queue[r]) - Behind(work[r], j)
  BY HeldBackWaits DEF PInv, SInv
<1>2. queue[s] \in Seq(Addr) /\ synced[s] \in Nat /\ Len(queue[s]) \in Nat
  BY DEF PInv, Types
<1>3. i \in (synced[s] + 1) .. Len(queue[s])
  BY <1>2
<1>4. a \in Range(Waiting(s))
  <2> DEFINE w == SubSeq(queue[s], synced[s] + 1, Len(queue[s]))
  <2>1. w # <<>> /\ Head(w) = queue[s][synced[s] + 1]
    BY <1>2, NextWaits
  <2>2. w \in Seq(Addr)
    BY <1>2
  <2> HIDE DEF w
  <2>3. 1 \in DOMAIN w /\ w[1] = Head(w)
    BY <2>1, <2>2
  <2>4. a \in Range(w)
    BY <2>1, <2>3 DEF Range
  <2> QED
    BY <2>4 DEF w, Waiting
<1>5. s \in On(Waits, a) /\ r \in On(Waits, a)
  BY <1>1, <1>4 DEF On, Waits
<1>6. IsFiniteSet(On(Waits, a)) /\ block[a].event_count = Cardinality(On(Waits, a))
  <2>1. a \in DOMAIN block
    BY <1>4 DEF PInv, Sound, Good, Placed, Waits
  <2>2. InPlace(block[a], a, pool, live, Waits)
    BY <2>1 DEF PInv, Sound, Good, Placed
  <2>3. On(Waits, a) \in SUBSET Stream
    BY DEF On
  <2>4. IsFiniteSet(On(Waits, a))
    BY <2>3, AllocatorAssumption, FS_Subset
  <2> QED
    BY <2>2, <2>4 DEF InPlace
<1>7. r = s
  <2> DEFINE S == On(Waits, a)
  <2>1. IsFiniteSet(S) /\ Cardinality(S) = 1 /\ s \in S /\ r \in S
    BY <1>5, <1>6
  <2> HIDE DEF S
  <2> QED
    BY ONLY <2>1, FS_Singleton
<1>8. PICK q \in (synced[s] + 1) .. Len(queue[s]) :
        queue[s][q] = a /\ q > Len(queue[s]) - Behind(work[s], j)
  BY <1>1, <1>7
<1>9. q = i
  BY <1>3, <1>8, WaitingOnce
<1>10. /\ Pending(s) \in Nat /\ Behind(work[s], j) \in Nat /\ Behind(work[s], j) <= Pending(s)
  BY WorkFacts DEF SInv
<1>11. i <= Len(queue[s]) - Pending(s)
  BY DEF Completed
<1> QED
  BY <1>2, <1>3, <1>8, <1>9, <1>10, <1>11

LEMMA RecycleKept ==
  ASSUME PInv, SInv, NEW s \in Stream, NEW i, i = synced[s] + 1, i <= Len(queue[s]),
         Completed(s, i), Recycle(s, i)
  PROVE  /\ Alike(block, block', live)
         /\ \A r \in Stream : \A j \in Kernels(r) :
              KernelOK(r, j) => Kept(block', r, work[r][j], Excused(r, j))
<1>0. PICK a : a = queue[s][i]
  OBVIOUS
<1> DEFINE blk == [block EXCEPT ![a].event_count = @ - 1]
           last == blk[a].event_count = 0
           P2 == IF last THEN pool \cup {a} ELSE pool
           W2 == [Waits EXCEPT ![s] = Tail(@)]
<1>1. block' = IF last THEN FreeBlock(blk, a).block ELSE blk
  BY <1>0 DEF Recycle
<1>2. Good(block, segment, pool, live, Waits) /\ live \subseteq DOMAIN block
      /\ Waits \in [Stream -> Seq(Addr)]
  BY WaitsType, PoolApart DEF PInv, Sound
<1>3. Waits[s] # <<>> /\ a = Head(Waits[s])
  <2>1. queue[s] \in Seq(Addr) /\ synced[s] \in Nat /\ synced[s] + 1 <= Len(queue[s])
    BY DEF PInv, Types
  <2> QED
    BY <1>0, <2>1, NextWaits DEF Waits, Waiting
<1>4. Ticks(block, blk, a, pool, P2, Waits, W2, s)
  BY <1>3 DEF Ticks
<1>5. last => P2 = pool \cup {a}
  OBVIOUS
<1> HIDE DEF W2, P2
<1>6. a \in DOMAIN block /\ a \notin pool /\ a \notin live /\ Good(blk, segment, P2, live, W2)
  BY ONLY <1>2, <1>4, EventStep, s \in Stream
<1>7. /\ DOMAIN blk = DOMAIN block
      /\ \A x \in DOMAIN block : blk[x].size = block[x].size /\ blk[x].stream = block[x].stream
                                 /\ blk[x].stream_uses = block[x].stream_uses
      /\ blk[a].event_count = block[a].event_count - 1
      /\ block[a].event_count \in Nat
  BY <1>2, <1>6 DEF Good, Heap, Blocks, Block
<1>8. Alike(block, blk, live)
  BY <1>2, <1>7 DEF Alike
<1>9. CASE ~last
  <2>1. block' = blk
    BY <1>1, <1>9
  <2> HIDE DEF blk, last
  <2>2. ASSUME NEW r \in Stream, NEW j \in Kernels(r), KernelOK(r, j)
        PROVE  Kept(block', r, work[r][j], Excused(r, j))
    BY <1>7, <2>1, <2>2, KeptByMark DEF KernelOK
  <2> QED
    BY <1>8, <2>1, <2>2
<1>10. CASE last
  <2>1. block' = FreeBlock(blk, a).block /\ P2 = pool \cup {a}
    BY <1>1, <1>5, <1>10
  <2>2. block[a].event_count = 1
    BY <1>7, <1>10
  <2> HIDE DEF blk, last
  <2>3. Good(blk, segment, pool \cup {a}, live, W2)
    BY <1>6, <2>1
  <2>4. /\ Alike(blk, block', live)
        /\ \A r, k, X : k \in Span /\ (pool \cup {a}) \cap X = {} /\ Kept(blk, r, k, X)
                          => Kept(block', r, k, X)
    BY ONLY <1>6, <2>1, <2>3, FreeBlockKeeps
  <2>5. Alike(block, block', live)
    BY <1>8, <2>4 DEF Alike
  <2>6. ASSUME NEW r \in Stream, NEW j \in Kernels(r), KernelOK(r, j)
        PROVE  Kept(block', r, work[r][j], Excused(r, j))
    <3> DEFINE k == work[r][j]
               X == Excused(r, j)
    <3>1. k \in Span /\ Kept(block, r, k, X)
      BY <2>6 DEF KernelOK
    <3>2. j \in Nat
      BY DEF Kernels
    <3>3. a \notin X
      BY <1>0, <1>6, <2>2, <3>2, LastIsFree DEF Excused
    <3>4. (pool \cup {a}) \cap X = {}
      BY <3>2, <3>3, PoolNotExcused
    <3> HIDE DEF k, X
    <3>5. Kept(blk, r, k, X)
      BY <1>7, <3>1, KeptByMark
    <3>6. Kept(block', r, k, X)
      BY <2>4, <3>1, <3>4, <3>5
    <3> QED
      BY <3>6 DEF k, X
  <2> QED
    BY <2>5, <2>6
<1> QED
  BY <1>9, <1>10

LEMMA RecycledKeeps ==
  ASSUME PInv, SInv, NEW s \in Stream, NEW i, i = synced[s] + 1, i <= Len(queue[s]),
         Completed(s, i), Recycle(s, i),
         UNCHANGED <<live, segment, work, declared, pc, ptr, hint, after>>,
         EventInv', \A x : \A r \in Stream, j \in Nat : HeldBack(r, j, x) => HeldBack(r, j, x)'
  PROVE  Keeps
<1>1. /\ Alike(block, block', live)
      /\ \A r \in Stream : \A j \in Kernels(r) :
           KernelOK(r, j) => Kept(block', r, work[r][j], Excused(r, j))
  BY RecycleKept
<1>2. KernelInv'
  <2> SUFFICES ASSUME NEW r \in Stream, NEW j \in Kernels(r), KernelOK(r, j)
               PROVE  Kept(block', r, work[r][j], Excused(r, j)')
    BY KernelsFollow DEF SInv
  <2>1. j \in Nat
    BY DEF Kernels
  <2>2. \A x \in Excused(r, j) : x \in Excused(r, j)'
    BY <2>1 DEF Excused, GivingBack
  <2> QED
    BY <1>1, <2>2, KeptMore
<1>3. UsesInv' /\ WorkType'
  BY <1>1, UsesStay DEF SInv, WorkType
<1>4. Handed(block', live') = Handed(block, live)
  BY <1>1, HandedAlike
<1> QED
  BY <1>2, <1>3, <1>4, PromiseStutters DEF Keeps, SInv

LEMMA PollEventKeeps ==
  ASSUME PInv, SInv, NEW t \in Thread, NEW s \in Stream, PollEvent(t, s)
  PROVE  Keeps
<1>1. /\ pc[t] = "poll" /\ queue[s] # <<>> /\ Completed(s, 1) /\ Recycle(s, 1)
      /\ queue' = [queue EXCEPT ![s] = Tail(@)]
      /\ UNCHANGED <<live, segment, work, declared, pc, ptr, hint, after, synced>>
  BY DEF PollEvent, call, world
<1>2. \A r \in Stream : synced[r] = 0
  BY <1>1, HolderAlone, NothingHalfDone DEF LockedLabels
<1>3. queue[s] \in Seq(Addr) /\ queue \in [Stream -> Seq(Addr)]
  BY DEF PInv, Types
<1> DEFINE u == queue[s]
           v == queue'[s]
           p == Pending(s)
           l == Len(u)
<1>4. v = Tail(u) /\ \A r \in Stream \ {s} : queue'[r] = queue[r]
  BY <1>1, <1>3
<1>5. p \in Nat /\ 1 <= l - p /\ Pending(s)' = p
  <2>1. p \in Nat /\ 1 <= l - p
    BY <1>1, WorkFacts DEF SInv, Completed
  <2>2. Pending(s)' = p
    BY <1>1 DEF Pending
  <2> QED
    BY <2>1, <2>2
<1>6. u \in Seq(Addr) /\ u # <<>> /\ l = Len(u)
  BY <1>1, <1>3
<1> HIDE DEF u, v, p, l
<1>7. l \in Nat /\ Len(v) = l - 1 /\ \A q \in 1 .. (l - 1) : v[q] = u[q + 1]
  BY ONLY <1>4, <1>6
<1>8. EventInv'
  <2> SUFFICES ASSUME NEW r \in Stream PROVE synced'[r] + Pending(r)' <= Len(queue'[r])
    BY DEF EventInv
  <2>1. CASE r = s
    <3>1. 0 + p <= Len(v)
      BY ONLY <1>5, <1>7
    <3> QED
      BY <1>1, <1>2, <1>5, <2>1, <3>1 DEF v
  <2>2. CASE r # s
    <3>1. synced[r] + Pending(r) <= Len(queue[r]) /\ Pending(r)' = Pending(r)
      BY <1>1 DEF SInv, EventInv, Pending
    <3> QED
      BY <1>1, <1>4, <2>2, <3>1
  <2> QED
    BY <2>1, <2>2
<1>9. ASSUME NEW r \in Stream, NEW j \in Nat, NEW x, HeldBack(r, j, x)
      PROVE  HeldBack(r, j, x)'
  <2>1. CASE r = s
    <3> DEFINE d == Behind(work[s], j)
    <3>1. d \in Nat /\ d <= p
      BY WorkFacts DEF SInv, p
    <3>2. PICK q \in 1 .. l : u[q] = x /\ q > l - d
      BY <1>9, <2>1 DEF HeldBack, u, l
    <3> HIDE DEF d
    <3>3. q - 1 \in 1 .. Len(v) /\ (q - 1) + 1 = q /\ q - 1 > Len(v) - d
      BY ONLY <1>5, <1>7, <3>1, <3>2
    <3>4. v[q - 1] = x
      BY ONLY <1>7, <3>2, <3>3
    <3>5. \E z \in 1 .. Len(v) : v[z] = x /\ z > Len(v) - d
      BY ONLY <3>3, <3>4
    <3> QED
      BY <1>1, <2>1, <3>5 DEF HeldBack, v, d
  <2>2. CASE r # s
    BY <1>1, <1>4, <1>9, <2>2 DEF HeldBack
  <2> QED
    BY <2>1, <2>2
<1>10. 1 = synced[s] + 1 /\ 1 <= Len(queue[s])
  <2>1. 1 <= l
    BY ONLY <1>5, <1>7
  <2> QED
    BY <1>2, <2>1 DEF l, u
<1> QED
  BY <1>1, <1>8, <1>9, <1>10, RecycledKeeps

LEMMA SyncEventKeeps ==
  ASSUME PInv, SInv, NEW t \in Thread, NEW s \in Stream, SyncEvent(t, s)
  PROVE  Keeps
<1> DEFINE n == synced[s]
           u == queue[s]
           l == Len(u)
           p == Pending(s)
<1>1. /\ n + 1 <= l /\ Completed(s, n + 1) /\ Recycle(s, n + 1)
      /\ queue' = [queue EXCEPT ![s] = IF n + 1 = l THEN <<>> ELSE u]
      /\ synced' = [synced EXCEPT ![s] = IF n + 1 = l THEN 0 ELSE n + 1]
      /\ UNCHANGED <<live, segment, work, declared, pc, ptr, hint, after>>
  BY DEF SyncEvent, world
<1>2. n \in Nat /\ l \in Nat /\ queue \in [Stream -> Seq(Addr)] /\ synced \in [Stream -> Nat]
  BY DEF PInv, Types
<1>3. p \in Nat /\ n + 1 <= l - p
  BY <1>1, WorkFacts DEF SInv, Completed
<1>4. \A r \in Stream : Pending(r)' = Pending(r)
  BY <1>1 DEF Pending
<1>5. /\ queue'[s] = IF n + 1 = l THEN <<>> ELSE u
      /\ synced'[s] = IF n + 1 = l THEN 0 ELSE n + 1
      /\ \A r \in Stream \ {s} : queue'[r] = queue[r] /\ synced'[r] = synced[r]
  BY <1>1, <1>2
<1> HIDE DEF n, u, l, p
<1>6. n + 1 = l => p = 0
  BY ONLY <1>2, <1>3
<1>7. EventInv'
  <2> SUFFICES ASSUME NEW r \in Stream PROVE synced'[r] + Pending(r)' <= Len(queue'[r])
    BY DEF EventInv
  <2>1. CASE r = s
    <3>1. CASE n + 1 = l
      <4>1. queue'[s] = <<>> /\ synced'[s] = 0 /\ Pending(s)' = 0
        BY <1>4, <1>5, <1>6, <3>1 DEF p
      <4> QED
        BY <2>1, <4>1
    <3>2. CASE n + 1 # l
      <4>1. queue'[s] = u /\ synced'[s] = n + 1 /\ Pending(s)' = p
        BY <1>4, <1>5, <3>2 DEF p
      <4>2. (n + 1) + p <= l
        BY ONLY <1>2, <1>3
      <4> QED
        BY <2>1, <4>1, <4>2 DEF l
    <3> QED
      BY <3>1, <3>2
  <2>2. CASE r # s
    <3>1. synced[r] + Pending(r) <= Len(queue[r])
      BY DEF SInv, EventInv
    <3> QED
      BY <1>4, <1>5, <2>2, <3>1
  <2> QED
    BY <2>1, <2>2
<1>8. ASSUME NEW r \in Stream, NEW j \in Nat, NEW x, HeldBack(r, j, x)
      PROVE  HeldBack(r, j, x)'
  <2>1. CASE r = s /\ n + 1 = l
    <3> DEFINE d == Behind(work[s], j)
    <3>1. d \in Nat /\ d <= p
      BY WorkFacts DEF SInv, p
    <3>2. PICK q \in 1 .. l : u[q] = x /\ q > l - d
      BY <1>8, <2>1 DEF HeldBack, u, l
    <3> HIDE DEF d
    <3> QED
      BY ONLY <1>2, <1>6, <2>1, <3>1, <3>2
  <2>2. CASE r # s \/ n + 1 # l
    <3>1. queue'[r] = queue[r]
      BY <1>5, <2>2 DEF u
    <3> QED
      BY <1>1, <1>8, <3>1 DEF HeldBack
  <2> QED
    BY <2>1, <2>2
<1>9. n + 1 = synced[s] + 1 /\ n + 1 <= Len(queue[s])
  BY <1>1 DEF n, l, u
<1> QED
  BY <1>1, <1>7, <1>8, <1>9, RecycledKeeps

-----------------------------------------------------------------------------
(* A block is found: nobody else works in it.                              *)

\* It becomes live, cut down to what was asked for.
LEMMA FoundKept ==
  ASSUME PInv, NEW t \in Thread, NEW blk, NEW seg, NEW P, NEW W, Good(blk, seg, P, live, W),
         NEW a \in P, NEW rest, NEW cached, Found(t, a, blk, rest, cached)
  PROVE  /\ Alike(blk, block', live)
         /\ a \in DOMAIN block' /\ block'[a].stream_uses = {}
         /\ \A s, k, X : k \in Span /\ a \notin X /\ Kept(blk, s, k, X) => Kept(block', s, k, X)
<1> DEFINE n == Rounded(t)
           split == should_split(blk[a], n)
           cut == a + n
           r == IF split THEN Split(blk, a, n) ELSE blk
<1>1. n \in Nat \ {0}
  BY SizesPositive
<1>2. Heap(blk, seg) /\ P \subseteq DOMAIN blk /\ live \subseteq DOMAIN blk /\ a \in DOMAIN blk
      /\ a \notin live
  BY PoolApart DEF Good
<1>3. blk[a].size \in Nat \ {0} /\ blk[a].is_small \in BOOLEAN /\ blk[a].stream_uses = {}
  <2>1. blk[a] \in Block
    BY <1>2 DEF Heap, Blocks
  <2>2. blk[a].stream_uses = {}
    BY <1>2 DEF Good, Placed, InPlace
  <2> QED
    BY <2>1, <2>2, BlockFields
<1>4. split => n < blk[a].size
  <2>1. kMinBlockSize \in Nat \ {0} /\ kSmallSize \in Nat \ {0}
    BY SizeClassAssumption
  <2> QED
    BY <1>1, <1>3, <2>1 DEF should_split
<1>5. block' = [r EXCEPT ![a].allocated = TRUE]
  BY DEF Found
<1>6. cut = a + n
  OBVIOUS
<1> HIDE DEF n, split, cut, r
<1>7. /\ DOMAIN blk \subseteq DOMAIN r
      /\ \A x \in DOMAIN blk \ {a} : r[x].size = blk[x].size
      /\ \A x \in DOMAIN blk : r[x].stream = blk[x].stream /\ r[x].stream_uses = blk[x].stream_uses
      /\ \A x \in DOMAIN r : r[x] \in Block
      /\ \A s, k, X : k \in Span /\ a \notin X /\ Kept(blk, s, k, X) => Kept(r, s, k, X)
  <2>1. CASE split
    <3>1. r = Split(blk, a, n) /\ n < blk[a].size
      BY <1>4, <2>1 DEF r
    <3>2. /\ DOMAIN r = DOMAIN blk \cup {cut}
          /\ \A x \in DOMAIN blk \ {a} : /\ r[x].size = blk[x].size /\ r[x].next = blk[x].next
                                        /\ r[x].prev = IF x = blk[a].next THEN cut ELSE blk[x].prev
          /\ \A x \in DOMAIN blk : SamePlace(r[x], blk[x])
          /\ \A x \in DOMAIN blk : /\ r[x].segment_base = blk[x].segment_base
                                   /\ r[x].stream = blk[x].stream
                                   /\ r[x].is_small = blk[x].is_small
          /\ Blocks(r)
      BY ONLY <1>1, <1>2, <1>6, <3>1, SplitFields
    <3>3. \A s, k, X : k \in Span /\ a \notin X /\ Kept(blk, s, k, X) => Kept(r, s, k, X)
      <4> SUFFICES ASSUME NEW s, NEW k \in Span, NEW X, a \notin X, Kept(blk, s, k, X)
                   PROVE  Kept(r, s, k, X)
        OBVIOUS
      <4> QED
        BY ONLY <1>1, <1>2, <1>6, <3>1, KeptBySplit, k \in Span, a \notin X, Kept(blk, s, k, X)
    <3> QED
      BY <3>2, <3>3 DEF SamePlace, Blocks
  <2>2. CASE ~split
    <3>1. r = blk
      BY <2>2 DEF r
    <3> QED
      BY <1>2, <3>1 DEF Heap, Blocks
  <2> QED
    BY <2>1, <2>2
<1>8. /\ DOMAIN block' = DOMAIN r
      /\ \A x \in DOMAIN r : /\ block'[x].size = r[x].size /\ block'[x].stream = r[x].stream
                             /\ block'[x].stream_uses = r[x].stream_uses
  BY <1>2, <1>5, <1>7 DEF Block
<1>9. Alike(blk, block', live)
  BY <1>2, <1>7, <1>8 DEF Alike
<1>10. a \in DOMAIN block' /\ block'[a].stream_uses = {}
  BY <1>2, <1>3, <1>7, <1>8
<1>11. \A s, k, X : k \in Span /\ a \notin X /\ Kept(blk, s, k, X) => Kept(block', s, k, X)
  BY <1>7, <1>8, KeptByMark
<1> QED
  BY <1>9, <1>10, <1>11

\* The range it stands for may be handed out.
LEMMA MayHandOut ==
  ASSUME PInv', WorkType, NEW a, a \notin live, live' = live \cup {a},
         Alike(block, block', live), UNCHANGED work,
         \A s \in Stream : \A i \in Kernels(s) :
           work[s][i] \in Span /\ ~Foreign(block', a, s, work[s][i])
  PROVE  Promise!Next
<1> DEFINE r == Hand(block', a)
           z == block'[a].size
<1>1. /\ Heap(block', segment') /\ a \in DOMAIN block' /\ live \subseteq DOMAIN block'
  BY PoolApart DEF PInv, Sound, Good
<1>2. a \in Nat /\ z \in Nat \ {0} /\ r = [lo |-> a, hi |-> a + z, stream |-> block'[a].stream]
  BY <1>1, HeapFacts DEF Hand
<1>3. Handed(block', live) = Handed(block, live)
  BY HandedAlike
<1>4. Handed(block', live') = Handed(block, live) \cup {r}
  BY <1>3 DEF Handed
<1>5. \A q \in Handed(block, live) : q.lo \in live
  BY DEF Handed, Hand
<1>6. r \notin Handed(block, live)
  BY <1>2, <1>5
<1>7. ASSUME NEW q \in Handed(block, live) PROVE ~Promise!Overlap(q, r)
  <2>1. PICK x \in live : q = Hand(block', x)
    BY <1>3 DEF Handed
  <2>2. x \in DOMAIN block' /\ x # a
    BY <1>1
  <2>3. q.lo = x /\ q.hi = x + block'[x].size
    BY <2>1 DEF Hand
  <2>4. x \in Nat /\ block'[x].size \in Nat
    BY <1>1, <2>2, HeapFacts
  <2>5. /\ x < a => x + block'[x].size <= a
        /\ a < x => a + z <= x
    BY <1>1, <2>2 DEF Heap
  <2> DEFINE y == block'[x].size
  <2> HIDE DEF z, y
  <2>6. ~(x < a + z /\ a < x + y)
    BY ONLY <1>2, <2>2, <2>4, <2>5 DEF y
  <2> HIDE DEF r
  <2> QED
    BY <1>2, <2>3, <2>6 DEF Promise!Overlap, y
<1>8. ASSUME NEW s \in Stream \ {r.stream}, NEW k \in Promise!InFlight(s)
      PROVE  ~Promise!Overlap(k, r)
  <2>1. PICK i \in 1 .. Len(work[s]) : k = work[s][i]
    BY DEF Promise!InFlight
  <2>2. r.lo = a /\ r.hi = a + z /\ r.stream = block'[a].stream
    BY <1>2
  <2> HIDE DEF r
  <2>3. CASE k = Marker
    BY <1>2, <2>2, <2>3 DEF Marker, Promise!Overlap
  <2>4. CASE k # Marker
    <3>1. i \in Kernels(s)
      BY <2>1, <2>4 DEF Kernels
    <3>2. ~Foreign(block', a, s, k)
      BY <2>1, <3>1
    <3>3. ~Touches(k, a, a + z)
      BY <2>2, <3>2 DEF Foreign
    <3> QED
      BY <2>2, <3>3 DEF Touches, Promise!Overlap
  <2> QED
    BY <2>3, <2>4
<1> HIDE DEF r
<1>9. r \in Handed(block', live') \ Handed(block, live)
  BY <1>4, <1>6
<1>10. Promise!Allocate
  BY <1>4, <1>7, <1>8, <1>9 DEF Promise!Allocate, Handed, Hand
<1> QED
  BY <1>10 DEF Promise!Next

LEMMA FoundKeeps ==
  ASSUME PInv, SInv, PInv', NEW t \in Thread, NEW a, a \notin live, live' = live \cup {a},
         declared' = With(declared, a, {}), Goto(t, "trim"), ptr' = [ptr EXCEPT ![t] = a],
         UNCHANGED <<queue, work, req, hint, after, nested, synced>>,
         Alike(block, block', live), block'[a].stream_uses = {},
         \A b \in DOMAIN segment : b \in DOMAIN segment' /\ segment'[b] = segment[b],
         \A s \in Stream : \A i \in Kernels(s) : KernelOK(s, i) =>
           a \notin Excused(s, i) /\ Kept(block', s, work[s][i], Excused(s, i))
  PROVE  Keeps
<1>1. OthersKept(t) /\ pc'[t] = "trim"
  BY CallFunctions DEF OthersKept, Goto
<1>2. CallsKept
  BY <1>1, CallsKeptBy
<1>3. declared'[a] = {} /\ \A x \in live : declared'[x] = declared[x]
  BY DEF With, PInv, Types
<1>4. KernelInv'
  <2> SUFFICES ASSUME NEW s \in Stream, NEW i \in Kernels(s), KernelOK(s, i)
               PROVE  Kept(block', s, work[s][i], Excused(s, i)')
    BY KernelsFollow DEF SInv
  <2>1. a \notin Excused(s, i) /\ Kept(block', s, work[s][i], Excused(s, i))
    OBVIOUS
  <2>2. \A x \in Excused(s, i) : x \in Excused(s, i)'
    <3> SUFFICES ASSUME NEW x \in Excused(s, i) PROVE x \in Excused(s, i)'
      OBVIOUS
    <3>1. x # a
      BY <2>1
    <3>2. (x \in live' <=> x \in live) /\ (x \in live => declared[x] \subseteq declared'[x])
      BY <1>3, <3>1
    <3> QED
      BY <1>2, <3>2, ExcusedStays
  <2> QED
    BY <2>1, <2>2, KeptMore
<1>5. EventInv'
  BY SyncedStays, EventsStay DEF SInv, PInv
<1>6. UsesInv'
  BY <1>3 DEF SInv, UsesInv, Alike
<1>7. ASSUME NEW s \in Stream, NEW i \in Kernels(s)
      PROVE  work[s][i] \in Span /\ ~Foreign(block', a, s, work[s][i])
  <2>1. KernelOK(s, i)
    BY KernelsOK DEF SInv
  <2>2. work[s][i] \in Span
    BY <2>1 DEF KernelOK
  <2>3. a \notin Excused(s, i) /\ Kept(block', s, work[s][i], Excused(s, i))
    BY <2>1
  <2>4. a \in DOMAIN block'
    BY PoolApart DEF PInv, Sound
  <2> QED
    BY <2>2, <2>3, <2>4 DEF Kept
<1>8. Promise!Next
  BY <1>7, MayHandOut DEF SInv
<1>9. WorkType'
  BY DEF SInv, WorkType
<1> QED
  BY <1>4, <1>5, <1>6, <1>8, <1>9 DEF Keeps, SInv

LEMMA HitKeeps ==
  ASSUME PInv, SInv, PInv', NEW t \in Thread, Hit(t)
  PROVE  Keeps
<1>1. PICK a \in BestFit(t) : Found(t, a, block, pool \ {a}, bytes_cached - block[a].size)
  BY DEF Hit
<1>2. UNCHANGED <<queue, segment, work, req, hint, after, nested, synced>>
  BY DEF Hit
<1>3. a \in pool
  BY DEF BestFit, Fitting
<1>4. Good(block, segment, pool, live, Waits) /\ a \notin live
  BY <1>3, PoolApart DEF PInv, Sound
<1>5. /\ Alike(block, block', live)
      /\ a \in DOMAIN block' /\ block'[a].stream_uses = {}
      /\ \A s, k, X : k \in Span /\ a \notin X /\ Kept(block, s, k, X) => Kept(block', s, k, X)
  BY <1>1, <1>3, <1>4, FoundKept
<1>6. /\ Goto(t, "trim") /\ ptr' = [ptr EXCEPT ![t] = a]
      /\ live' = live \cup {a} /\ declared' = With(declared, a, {})
  BY <1>1 DEF Found
<1>7. ASSUME NEW s \in Stream, NEW i \in Kernels(s), KernelOK(s, i)
      PROVE  a \notin Excused(s, i) /\ Kept(block', s, work[s][i], Excused(s, i))
  <2>1. i \in Nat
    BY DEF Kernels
  <2>2. a \notin Excused(s, i)
    BY <1>3, <2>1, PoolNotExcused
  <2> QED
    BY <1>5, <1>7, <2>2 DEF KernelOK
<1> QED
  BY <1>2, <1>4, <1>5, <1>6, <1>7, FoundKeeps

LEMMA BookSegmentKeeps ==
  ASSUME PInv, SInv, PInv', NEW t \in Thread, BookSegment(t)
  PROVE  Keeps
<1>0. PICK base : base = ptr[t]
  OBVIOUS
<1> DEFINE n == SegmentSize(t)
           fresh == [size |-> n, stream |-> req[t].stream, is_small |-> UsesSmallPool(t),
                     allocated |-> FALSE, prev |-> null, next |-> null, event_count |-> 0,
                     stream_uses |-> {}, segment_base |-> base]
           r == With(block, base, fresh)
<1>1. /\ pc[t] = "mapped"
      /\ segment' = With(segment, base, n)
      /\ Found(t, base, r, pool, bytes_cached)
      /\ UNCHANGED <<queue, work, req, hint, after, nested, synced>>
  BY <1>0 DEF BookSegment
<1>2. base \in DOMAIN device \ DOMAIN segment /\ device[base] = n
  BY <1>0, <1>1 DEF PInv, DeviceInv
<1>3. /\ base \in Addr /\ base \in Nat /\ n \in Nat \ {0} /\ base + n <= AddrLimit
  <2>1. base \in Base
    BY <1>2 DEF PInv, Types
  <2>2. base \in Addr /\ base \in Nat
    BY <2>1, AllocatorAssumption, AddrFacts
  <2> QED
    BY <1>2, <2>1, <2>2, SizesPositive DEF PInv, DeviceInv
<1>4. req[t].stream \in Stream
  BY <1>1, InAllocation DEF OpenLabels
<1>5. /\ fresh \in Block /\ fresh.size = n /\ fresh.prev = null /\ fresh.next = null
      /\ fresh.segment_base = base /\ ~fresh.allocated /\ fresh.event_count = 0
      /\ fresh.stream_uses = {}
  <2>1. n \in 1 .. AddrLimit
    BY <1>3, AddrFacts
  <2>2. UsesSmallPool(t) \in BOOLEAN
    BY DEF UsesSmallPool
  <2> QED
    BY <1>3, <1>4, <2>1, <2>2 DEF Block
<1>6. \A b \in DOMAIN segment : b + segment[b] <= base \/ base + n <= b
  <2> SUFFICES ASSUME NEW b \in DOMAIN segment
               PROVE  b + segment[b] <= base \/ base + n <= b
    OBVIOUS
  <2>1. b \in DOMAIN device /\ segment[b] = device[b] /\ b # base
    BY <1>2 DEF PInv, Backed
  <2>2. b \in Nat
    <3>1. b \in Base
      BY <2>1 DEF PInv, Types
    <3> QED
      BY <3>1, AllocatorAssumption, AddrFacts
  <2>3. b < base \/ base < b
    BY <1>3, <2>1, <2>2
  <2> QED
    BY <1>2, <2>1, <2>3 DEF PInv, DeviceInv
<1>7. r = With(block, base, fresh)
  OBVIOUS
<1> HIDE DEF n, fresh, r
<1>8. Good(block, segment, pool, live, Waits) /\ live \subseteq DOMAIN block
      /\ \A s \in Stream : Range(Waits[s]) \subseteq DOMAIN block
  BY PoolApart DEF PInv, Sound, Good, Placed
<1>9. /\ base \notin DOMAIN block
      /\ Good(r, With(segment, base, n), pool \cup {base}, live, Waits)
      /\ r[base] = fresh
  BY ONLY <1>3, <1>5, <1>6, <1>7, <1>8, AddStep
<1>10. /\ base \notin live
       /\ Alike(r, block', live)
       /\ base \in DOMAIN block' /\ block'[base].stream_uses = {}
       /\ \A s, k, X : k \in Span /\ base \notin X /\ Kept(r, s, k, X) => Kept(block', s, k, X)
  <2>1. base \in pool \cup {base} /\ base \notin live
    BY <1>8, <1>9
  <2> QED
    BY <1>1, <1>9, <2>1, FoundKept
<1>11. Alike(block, block', live)
  <2>1. \A x \in live : x \in DOMAIN r /\ r[x] = block[x]
    BY <1>7, <1>8, <1>9 DEF With
  <2> QED
    BY <1>8, <1>10, <2>1 DEF Alike
<1>12. /\ Goto(t, "trim") /\ ptr' = [ptr EXCEPT ![t] = base]
       /\ live' = live \cup {base} /\ declared' = With(declared, base, {})
  BY <1>1 DEF Found
<1>13. \A b \in DOMAIN segment : b \in DOMAIN segment' /\ segment'[b] = segment[b]
  BY <1>1, <1>2 DEF With
<1>14. ASSUME NEW s \in Stream, NEW i \in Kernels(s), KernelOK(s, i)
       PROVE  base \notin Excused(s, i) /\ Kept(block', s, work[s][i], Excused(s, i))
  <2> DEFINE k == work[s][i]
             X == Excused(s, i)
  <2>1. /\ k \in Span /\ Kept(block, s, k, X)
        /\ \E b \in DOMAIN segment : b <= k.lo /\ k.hi <= b + segment[b]
    BY <1>14 DEF KernelOK
  <2>2. base \notin X
    <3> SUFFICES ASSUME base \in X PROVE FALSE
      OBVIOUS
    <3>1. HeldBack(s, i, base) /\ i \in Nat
      BY <1>10 DEF Excused, Kernels
    <3>2. base \in Range(Waiting(s))
      BY <3>1, HeldBackWaits DEF PInv, SInv
    <3> QED
      BY <1>8, <1>9, <3>2 DEF Waits
  <2>3. Segments(segment)
    BY <1>8 DEF Good, Heap
  <2> HIDE DEF k, X
  <2>4. Kept(r, s, k, X)
    BY <1>3, <1>5, <1>6, <1>7, <2>1, <2>3, KeptByAdd
  <2>5. Kept(block', s, k, X)
    BY <1>10, <2>1, <2>2, <2>4
  <2> QED
    BY <2>2, <2>5 DEF k, X
<1> QED
  BY <1>1, <1>10, <1>11, <1>12, <1>13, <1>14, FoundKeeps

-----------------------------------------------------------------------------
(* The promise. *)

\* The driver records events and waits for them, the device is there to record
\* them on, cudaFree does not fail, and no client uses the stream that nullptr names.
StreamsUsable ==
  /\ Faults \cap {"sync", "record", "device_late", "free"} = {}
  /\ DefaultStream \notin Stream

LEMMA InitPromise ==
  ASSUME Init
  PROVE  SInv /\ Promise!Init
<1>1. /\ work = [s \in Stream |-> <<>>] /\ queue = [s \in Stream |-> <<>>]
      /\ synced = [s \in Stream |-> 0] /\ live = {}
  BY DEF Init
<1>2. WorkType /\ KernelInv /\ UsesInv
  BY <1>1 DEF WorkType, KernelInv, UsesInv
<1>3. EventInv
  <2> SUFFICES ASSUME NEW s \in Stream PROVE synced[s] + Pending(s) <= Len(queue[s])
    BY DEF EventInv
  <2>1. {i \in 1 .. Len(work[s]) : work[s][i] = Marker} = {}
    BY <1>1
  <2>2. Pending(s) = 0
    BY <2>1, FS_EmptySet DEF Pending
  <2> QED
    BY <1>1, <2>2
<1>4. Promise!Init
  BY <1>1 DEF Promise!Init
<1> QED
  BY <1>2, <1>3, <1>4 DEF SInv

LEMMA NextKeeps ==
  ASSUME StreamsUsable, PInv, PInv', SInv, [Next]_vars
  PROVE  Keeps
<1>0. /\ DefaultStream \notin Stream
      /\ \A f \in {"sync", "record", "device_late", "free"} : f \notin Faults
  BY DEF StreamsUsable
<1>1. ASSUME NEW t \in Thread, Allocating(t) PROVE Keeps
  BY <1>1, SearchKeeps, HitKeeps, BookSegmentKeeps DEF Allocating
<1>2. ASSUME NEW t \in Thread, Freeing(t) PROVE Keeps
  BY <1>0, <1>2, DeallocateKeeps, FreeNowKeeps, FreeLaterKeeps
  DEF Freeing, RecordThrows, InsertThrows
<1>3. ASSUME NEW t \in Thread, Keeping(t) PROVE Keeps
  BY <1>0, <1>3, PollEventKeeps, SyncEventKeeps, ReleaseKeeps, SettleKeeps DEF Keeping, SyncThrows
<1>4. ASSUME NEW t \in Thread, Setting(t) PROVE Keeps
  BY <1>4, RecordStreamKeeps, SettleKeeps DEF Setting
<1>5. CASE Destroy
  BY <1>5, DestroyKeeps
<1>6. ASSUME NEW a \in live, NEW s \in Stream, Launch(a, s) PROVE Keeps
  BY <1>6, LaunchKeeps
<1>7. ASSUME NEW s \in Stream, Finish(s) PROVE Keeps
  BY <1>7, FinishKeeps
<1>8. CASE UNCHANGED vars
  <2>1. UNCHANGED <<core, work, declared>> /\ CallsKept /\ synced' = synced
    BY <1>8 DEF vars, world, call, CallsKept, GivingBack
  <2> QED
    BY <2>1, SyncedStays, QuietStep
<1> QED
  BY <1>1, <1>2, <1>3, <1>4, <1>5, <1>6, <1>7, <1>8 DEF Next

-----------------------------------------------------------------------------
(* As long as events can be recorded and waited for, and the stream that   *)
(* nullptr names is not used for work, every step of the allocator is a    *)
(* step of StreamHeap or none: it hands out no memory that is in use or    *)
(* that a kernel of another stream still touches.                          *)
THEOREM StreamsAreRespected == StreamsUsable => (Spec => ImplementsStreamHeap)
<1> SUFFICES ASSUME StreamsUsable PROVE Spec => ImplementsStreamHeap
  OBVIOUS
<1>0. NoSyncFault
  BY DEF StreamsUsable, NoSyncFault
<1>1. Init => PInv /\ SInv /\ Promise!Init
  BY InitPInv, InitPromise
<1>2. PInv /\ SInv /\ [Next]_vars => (PInv /\ SInv)' /\ [Promise!Next]_(Promise!heapvars)
  <2> SUFFICES ASSUME PInv, SInv, [Next]_vars
               PROVE  PInv' /\ SInv' /\ [Promise!Next]_(Promise!heapvars)
    OBVIOUS
  <2>1. PInv'
    BY <1>0, NextPInv
  <2> QED
    BY <2>1, NextKeeps DEF Keeps
<1> QED
  BY <1>1, <1>2, PTL DEF Spec, ImplementsStreamHeap, Promise!Spec
=============================================================================
