------------------------ MODULE SizesAndStridesProofs ------------------------
(***************************************************************************)
(* Whatever calls are made, on whatever number of objects, shapes survive: *)
(* ShapesSurvive is an invariant of SizesAndStrides.                       *)
(*                                                                         *)
(* The inductive invariant says where a shape is: in the words of its      *)
(* object, or, one half after the other, in a block that is its own.  An   *)
(* operation of the class is shown to leave the object reading as it       *)
(* should, given the heap it finds, and to touch no block but its own.     *)
(***************************************************************************)
EXTENDS SizesAndStrides, FiniteSetTheorems, SequenceTheorems, TLAPS

Object == [size : Nat, word : [Words -> Int]]
Shapes == [sizes : Seq(Int), strides : Seq(Int)]

\* The shape s is what the object r holds in the heap h.
Holds(r, h, s) ==
  /\ Len(s.sizes) = r.size /\ Len(s.strides) = r.size
  /\ isInline(r) => \A k \in 1 .. r.size : /\ r.word[k - 1] = s.sizes[k]
                                           /\ r.word[MaxInline + k - 1] = s.strides[k]
  /\ ~isInline(r) => outOfLine(r) \in DOMAIN h /\ h[outOfLine(r)] = s.sizes \o s.strides

Own(r) == IF isInline(r) THEN {} ELSE {outOfLine(r)}

SInv ==
  /\ obj \in [Obj -> Object] /\ shape \in [Obj -> Shapes]
  /\ \A o \in Live : Holds(obj[o], heap, shape[o])
  /\ \A o \in Obj \ Live : isInline(obj[o])
  /\ \A o, q \in Obj : o # q => Own(obj[o]) \cap Own(obj[q]) = {}
  /\ \A b \in DOMAIN heap : b \in HeapBlocks /\ \E o \in Obj : b \in Own(obj[o])

(* Some objects change, each with the block it owns: the others read what  *)
(* they read before.                                                       *)
ChangeOf(C) ==
  /\ C \subseteq Obj /\ obj' \in [Obj -> Object] /\ shape' \in [Obj -> Shapes]
  /\ \A q \in Obj \ C : obj'[q] = obj[q] /\ shape'[q] = shape[q]
  /\ \A o \in C : IF shape'[o] # None THEN Holds(obj'[o], heap', shape'[o])
                                         ELSE isInline(obj'[o])
  /\ \A o, q \in C : o # q => Own(obj'[o]) \cap Own(obj'[q]) = {}
  /\ \A b \in DOMAIN heap : (\A o \in C : b \notin Own(obj[o])) =>
       b \in DOMAIN heap' /\ heap'[b] = heap[b] /\ \A o \in C : b \notin Own(obj'[o])
  /\ \A b \in DOMAIN heap' :
       \/ b \in HeapBlocks /\ \E o \in C : b \in Own(obj'[o])
       \/ b \in DOMAIN heap /\ \A o \in C : b \notin Own(obj[o])

LEMMA Changed ==
  ASSUME SInv, NEW C, ChangeOf(C)
  PROVE  SInv'
<1> USE DEF ChangeOf
<1>1. \A q \in Obj : Own(obj[q]) \subseteq DOMAIN heap
  <2> SUFFICES ASSUME NEW q \in Obj, ~isInline(obj[q]) PROVE outOfLine(obj[q]) \in DOMAIN heap
    BY DEF Own
  <2>1. q \in Live
    BY DEF SInv
  <2> QED
    BY <2>1 DEF SInv, Holds
<1>2. \A q \in Obj \ C : \A o \in C : Own(obj[q]) \cap Own(obj[o]) = {}
  BY DEF SInv
<1>3. \A q \in Obj \ C : \A b \in Own(obj[q]) :
        b \in DOMAIN heap' /\ heap'[b] = heap[b] /\ \A o \in C : b \notin Own(obj'[o])
  BY <1>1, <1>2
<1>4. ASSUME NEW q \in Obj \ C, shape'[q] # None PROVE Holds(obj'[q], heap', shape'[q])
  <2>1. Holds(obj[q], heap, shape[q])
    BY <1>4 DEF SInv, Live
  <2>2. ~isInline(obj[q]) => outOfLine(obj[q]) \in Own(obj[q])
    BY DEF Own
  <2> QED
    BY <1>3, <2>1, <2>2 DEF Holds
<1>5. \A o \in Obj : IF shape'[o] # None THEN Holds(obj'[o], heap', shape'[o])
                                         ELSE isInline(obj'[o])
  BY <1>4 DEF SInv, Live
<1>6. \A o, q \in Obj : o # q => Own(obj'[o]) \cap Own(obj'[q]) = {}
  BY <1>3 DEF SInv
<1>7. ASSUME NEW b \in DOMAIN heap' PROVE b \in HeapBlocks /\ \E o \in Obj : b \in Own(obj'[o])
  <2>1. CASE b \in HeapBlocks /\ \E o \in C : b \in Own(obj'[o])
    BY <2>1
  <2>2. CASE b \in DOMAIN heap /\ \A o \in C : b \notin Own(obj[o])
    <3>1. PICK o \in Obj : b \in HeapBlocks /\ b \in Own(obj[o])
      BY <2>2 DEF SInv
    <3>2. o \in Obj \ C
      BY <2>2, <3>1
    <3> QED
      BY <3>1, <3>2
  <2> QED
    BY <1>7, <2>1, <2>2
<1>8. \A o \in Live' : Holds(obj[o], heap, shape[o])'
  BY <1>5 DEF Live, Holds, isInline, outOfLine
<1>9. \A o \in Obj \ Live' : isInline(obj[o])'
  BY <1>5 DEF Live, isInline
<1>10. \A r : Own(r)' = Own(r)
  BY DEF Own, isInline, outOfLine
<1>11. \A o \in Obj : Own(obj[o])' = Own(obj'[o])
  BY DEF Own, isInline, outOfLine
<1> QED
  BY <1>6, <1>7, <1>8, <1>9, <1>11 DEF SInv

\* A block is free whenever an object can ask for one.
LEMMA FreshIs ==
  ASSUME SInv, NEW o \in Obj
  PROVE  FreshBlock(heap) \in HeapBlocks \ DOMAIN heap
<1> DEFINE n == Cardinality(Obj)
           D == DOMAIN heap
           f == [b \in D |-> CHOOSE q \in Obj : b \in Own(obj[q])]
<1>1. n \in Nat /\ n # 0
  BY SasAssumption, FS_CardinalityType, FS_EmptySet
<1>2. IsFiniteSet(HeapBlocks) /\ Cardinality(HeapBlocks) = 2 * n
  <2> DEFINE g == [k \in 1 .. 2 * n |-> 1000 + k]
  <2>1. IsFiniteSet(1 .. 2 * n) /\ Cardinality(1 .. 2 * n) = 2 * n
    <3> HIDE DEF n
    <3>1. 1 \in Int /\ 2 * n \in Int /\ ~(1 > 2 * n) /\ 2 * n - 1 + 1 = 2 * n
      BY <1>1
    <3>2. IsFiniteSet(1 .. 2 * n)
          /\ Cardinality(1 .. 2 * n) = IF 1 > 2 * n THEN 0 ELSE 2 * n - 1 + 1
      BY <3>1, FS_Interval
    <3> QED
      BY <3>1, <3>2
  <2>2. HeapBlocks = {1000 + k : k \in 1 .. 2 * n}
    BY DEF HeapBlocks
  <2>3. g \in Surjection(1 .. 2 * n, HeapBlocks)
    <3> HIDE DEF n
    <3> QED
      BY <2>2 DEF Surjection
  <2>4. g \in Injection(1 .. 2 * n, HeapBlocks)
    <3> HIDE DEF n
    <3> QED
      BY <2>2 DEF Injection, IsInjective
  <2> HIDE DEF g, n
  <2> QED
    BY <2>1, <2>3, <2>4, FS_Surjection
<1>3. IsFiniteSet(D) /\ Cardinality(D) <= n /\ Cardinality(D) \in Nat
  <2>1. D \subseteq HeapBlocks
    BY DEF SInv
  <2>2. IsFiniteSet(D) /\ Cardinality(D) \in Nat
    <3> HIDE DEF D
    <3> QED
      BY <1>2, <2>1, FS_Subset, FS_CardinalityType
  <2>3. \A b \in D : f[b] \in Obj /\ b \in Own(obj[f[b]])
    BY DEF SInv
  <2>4. \A b, c \in D : f[b] = f[c] => b = c
    <3> HIDE DEF f, D
    <3> QED
      BY <2>3 DEF Own
  <2>5. f \in Injection(D, Obj)
    BY <2>3, <2>4 DEF Injection, IsInjective
  <2>6. Cardinality(D) <= n
    <3> HIDE DEF f, D
    <3> QED
      BY <2>2, <2>5, SasAssumption, FS_Injection
  <2> QED
    BY <2>2, <2>6
<1>4. \E b \in HeapBlocks : b \notin D
  <2> SUFFICES ASSUME HeapBlocks \subseteq D PROVE FALSE
    OBVIOUS
  <2>1. Cardinality(HeapBlocks) <= Cardinality(D)
    <3> HIDE DEF D
    <3> QED
      BY <1>3, FS_Subset
  <2> HIDE DEF n, D
  <2> QED
    BY <1>1, <1>2, <1>3, <2>1
<1> QED
  BY <1>4 DEF FreshBlock

-----------------------------------------------------------------------------
(* Lists of numbers *)

\* Two halves of one length.
InHalves(a, b, n) ==
  /\ a \o b \in Seq(Int) /\ Len(a \o b) = 2 * n
  /\ \A i \in 1 .. n : (a \o b)[i] = a[i] /\ (a \o b)[n + i] = b[i]
  /\ \A k \in 0 .. n :
       /\ SubSeq(a \o b, 1, k) = SubSeq(a, 1, k) /\ SubSeq(a, 1, k) \in Seq(Int)
       /\ SubSeq(a \o b, n + 1, n + k) = SubSeq(b, 1, k) /\ SubSeq(b, 1, k) \in Seq(Int)
  /\ SubSeq(a \o b, n + 1, Len(a \o b)) = b

LEMMA Halves ==
  \A a, b \in Seq(Int), n \in Nat : Len(a) = n /\ Len(b) = n => InHalves(a, b, n)
<1> SUFFICES ASSUME NEW a \in Seq(Int), NEW b \in Seq(Int), NEW n \in Nat, Len(a) = n, Len(b) = n
             PROVE  InHalves(a, b, n)
  OBVIOUS
<1> DEFINE c == a \o b
<1>1. c \in Seq(Int) /\ Len(c) = n + n
  BY ConcatProperties
<1>2. \A i \in 1 .. n + n : c[i] = IF i <= n THEN a[i] ELSE b[i - n]
  BY ConcatProperties
<1> HIDE DEF c
<1>3. \A i \in 1 .. n : c[i] = a[i]
  <2> SUFFICES ASSUME NEW i \in 1 .. n PROVE c[i] = a[i]
    OBVIOUS
  <2>1. i \in 1 .. n + n /\ i <= n
    OBVIOUS
  <2> QED
    BY <1>2, <2>1
<1>4. \A i \in 1 .. n : c[n + i] = b[i]
  <2> SUFFICES ASSUME NEW i \in 1 .. n PROVE c[n + i] = b[i]
    OBVIOUS
  <2>1. PICK j \in 1 .. n + n : j = n + i /\ ~(j <= n) /\ j - n = i
    OBVIOUS
  <2> QED
    BY <1>2, <2>1
<1>5. \A j \in 0 .. n : SubSeq(c, 1, j) = SubSeq(a, 1, j) /\ SubSeq(a, 1, j) \in Seq(Int)
  <2> SUFFICES ASSUME NEW j \in 0 .. n
               PROVE  SubSeq(c, 1, j) = SubSeq(a, 1, j) /\ SubSeq(a, 1, j) \in Seq(Int)
    OBVIOUS
  <2> DEFINE s == SubSeq(c, 1, j)
             t == SubSeq(a, 1, j)
  <2>1. \A i \in 1 .. j : c[i] \in Int /\ a[i] \in Int
    BY <1>1
  <2>2. /\ j - 1 + 1 = j /\ (1 <= j <=> j # 0) /\ j \in Int /\ 1 \in Int
        /\ \A i \in 1 .. j : 1 + i - 1 = i
    OBVIOUS
  <2>3. s \in Seq(Int) /\ Len(s) = j /\ \A i \in 1 .. j : s[i] = c[i]
    <3>1. /\ s \in Seq(Int) /\ Len(s) = IF 1 <= j THEN j - 1 + 1 ELSE 0
          /\ \A i \in 1 .. j - 1 + 1 : s[i] = c[1 + i - 1]
      BY <2>1, <2>2, SubSeqProperties
    <3> HIDE DEF s
    <3> QED
      BY <2>2, <3>1
  <2>4. t \in Seq(Int) /\ Len(t) = j /\ \A i \in 1 .. j : t[i] = a[i]
    <3>1. /\ t \in Seq(Int) /\ Len(t) = IF 1 <= j THEN j - 1 + 1 ELSE 0
          /\ \A i \in 1 .. j - 1 + 1 : t[i] = a[1 + i - 1]
      BY <2>1, <2>2, SubSeqProperties
    <3> HIDE DEF t
    <3> QED
      BY <2>2, <3>1
  <2> HIDE DEF s, t
  <2>5. ASSUME NEW i \in 1 .. j PROVE s[i] = t[i]
    <3>1. i \in 1 .. n
      OBVIOUS
    <3> QED
      BY <1>3, <2>3, <2>4, <3>1
  <2>6. s = t
    BY <2>3, <2>4, <2>5, SeqEqual
  <2> QED
    BY <2>4, <2>6 DEF s, t
<1>6. \A j \in 0 .. n : SubSeq(c, n + 1, n + j) = SubSeq(b, 1, j) /\ SubSeq(b, 1, j) \in Seq(Int)
  <2> SUFFICES ASSUME NEW j \in 0 .. n
               PROVE  SubSeq(c, n + 1, n + j) = SubSeq(b, 1, j) /\ SubSeq(b, 1, j) \in Seq(Int)
    OBVIOUS
  <2> DEFINE s == SubSeq(c, n + 1, n + j)
             t == SubSeq(b, 1, j)
  <2>1. \A i \in n + 1 .. n + j : c[i] \in Int
    BY <1>1
  <2>2. s \in Seq(Int) /\ Len(s) = j /\ \A i \in 1 .. j : s[i] = c[n + i]
    <3>1. /\ s \in Seq(Int) /\ Len(s) = IF n + 1 <= n + j THEN n + j - (n + 1) + 1 ELSE 0
          /\ \A i \in 1 .. n + j - (n + 1) + 1 : s[i] = c[n + 1 + i - 1]
      BY <2>1, SubSeqProperties
    <3>2. n + j - (n + 1) + 1 = j /\ (n + 1 <= n + j <=> j # 0)
      OBVIOUS
    <3>3. \A i \in 1 .. j : n + 1 + i - 1 = n + i
      OBVIOUS
    <3> HIDE DEF s
    <3> QED
      BY <3>1, <3>2, <3>3
  <2>3. t \in Seq(Int) /\ Len(t) = j /\ \A i \in 1 .. j : t[i] = b[i]
    OBVIOUS
  <2>4. ASSUME NEW i \in 1 .. j PROVE s[i] = t[i]
    <3>1. i \in 1 .. n
      OBVIOUS
    <3>2. c[n + i] = b[i]
      BY <1>4, <3>1
    <3> HIDE DEF s, t
    <3> QED
      BY <2>2, <2>3, <3>2
  <2> HIDE DEF s, t
  <2>5. s = t
    BY <2>2, <2>3, <2>4, SeqEqual
  <2> QED
    BY <2>3, <2>5 DEF s, t
<1>7. SubSeq(b, 1, n) = b
  BY SubSeqFull
<1>8. Len(c) = 2 * n /\ SubSeq(c, n + 1, Len(c)) = b
  <2>1. SubSeq(c, n + 1, n + n) = SubSeq(b, 1, n)
    BY <1>6
  <2> QED
    BY <1>1, <1>7, <2>1
<1> QED
  BY <1>1, <1>3, <1>4, <1>5, <1>6, <1>8, Zenon DEF c, InHalves

LEMMA ZeroIs ==
  ASSUME NEW n \in Nat
  PROVE  Zero(n) \in Seq(Int) /\ Len(Zero(n)) = n /\ \A i \in 1 .. n : Zero(n)[i] = 0
BY DEF Zero

\* A list cut or filled up to a length.
LEMMA FittedIs ==
  ASSUME NEW s \in Seq(Int), NEW n \in Nat
  PROVE  /\ Fitted(s, n) \in Seq(Int) /\ Len(Fitted(s, n)) = n
         /\ \A i \in 1 .. n : Fitted(s, n)[i] = IF i <= Len(s) THEN s[i] ELSE 0
         /\ n <= Len(s) => Fitted(s, n) = SubSeq(s, 1, n) \o Zero(0)
         /\ ~(n <= Len(s)) => Fitted(s, n) = SubSeq(s, 1, Len(s)) \o Zero(n - Len(s))
<1>1. CASE n <= Len(s)
  <2>1. Fitted(s, n) = SubSeq(s, 1, n)
    BY <1>1 DEF Fitted
  <2>2. SubSeq(s, 1, n) \in Seq(Int) /\ Len(SubSeq(s, 1, n)) = n
        /\ \A i \in 1 .. n : SubSeq(s, 1, n)[i] = s[i]
    BY <1>1
  <2>3. Zero(0) = <<>>
    BY DEF Zero
  <2>4. SubSeq(s, 1, n) \o Zero(0) = SubSeq(s, 1, n)
    BY <2>2, <2>3, ConcatEmptySeq
  <2>5. Len(s) \in Nat /\ \A i \in 1 .. n : i <= Len(s)
    BY <1>1
  <2>6. Fitted(s, n) \in Seq(Int) /\ Len(Fitted(s, n)) = n /\ \A i \in 1 .. n : Fitted(s, n)[i] = s[i]
    BY <2>1, <2>2
  <2> QED
    BY <1>1, <2>1, <2>4, <2>5, <2>6
<1>2. CASE ~(n <= Len(s))
  <2> DEFINE z == Zero(n - Len(s))
             c == s \o z
  <2>1. Len(s) \in Nat /\ n - Len(s) \in Nat
    BY <1>2
  <2>2. z \in Seq(Int) /\ Len(z) = n - Len(s) /\ \A i \in 1 .. n - Len(s) : z[i] = 0
    BY <2>1, ZeroIs
  <2> HIDE DEF z
  <2>3. /\ c \in Seq(Int) /\ Len(c) = Len(s) + Len(z)
        /\ \A i \in 1 .. Len(s) + Len(z) : c[i] = IF i <= Len(s) THEN s[i] ELSE z[i - Len(s)]
    BY <2>2, ConcatProperties
  <2> HIDE DEF c
  <2>4. Len(c) = n /\ \A i \in 1 .. n : c[i] = IF i <= Len(s) THEN s[i] ELSE 0
    <3>1. Len(c) = n /\ Len(s) + Len(z) = n
      BY <2>1, <2>2, <2>3
    <3>2. ASSUME NEW i \in 1 .. n PROVE c[i] = IF i <= Len(s) THEN s[i] ELSE 0
      <4>1. c[i] = IF i <= Len(s) THEN s[i] ELSE z[i - Len(s)]
        BY <2>3, <3>1
      <4>2. ~(i <= Len(s)) => i - Len(s) \in 1 .. n - Len(s)
        BY <2>1
      <4>3. ~(i <= Len(s)) => z[i - Len(s)] = 0
        BY <2>2, <4>2
      <4> QED
        BY <4>1, <4>3
    <3> QED
      BY <3>1, <3>2
  <2>5. Fitted(s, n) = c /\ SubSeq(s, 1, Len(s)) = s
    BY <1>2, SubSeqFull DEF Fitted, c, z
  <2> QED
    BY <1>2, <2>3, <2>4, <2>5 DEF c, z
<1> QED
  BY <1>1, <1>2

LEMMA Associated ==
  \A x, y, z \in Seq(Int) : x \o y \o z = x \o (y \o z)
BY ConcatAssociative

LEMMA Regrouped ==
  ASSUME NEW x \in Seq(Int), NEW y \in Seq(Int), NEW z \in Seq(Int)
  PROVE  x \o z \o y \o z = (x \o z) \o (y \o z)
<1>1. x \o z \in Seq(Int)
  BY ConcatProperties
<1> QED
  BY <1>1, Associated, Zenon

\* Two halves cut or filled up, within one list.
Least(m, n) == IF m < n THEN m ELSE n

LEMMA FittedHalves ==
  \A a, b \in Seq(Int), m, n \in Nat : Len(a) = m /\ Len(b) = m =>
    SubSeq(a, 1, Least(m, n)) \o Zero(n - Least(m, n))
        \o SubSeq(b, 1, Least(m, n)) \o Zero(n - Least(m, n))
      = Fitted(a, n) \o Fitted(b, n)
<1> SUFFICES ASSUME NEW a \in Seq(Int), NEW b \in Seq(Int), NEW m \in Nat, NEW n \in Nat,
                    Len(a) = m, Len(b) = m
             PROVE  SubSeq(a, 1, Least(m, n)) \o Zero(n - Least(m, n))
                        \o SubSeq(b, 1, Least(m, n)) \o Zero(n - Least(m, n))
                      = Fitted(a, n) \o Fitted(b, n)
  BY Zenon
<1> PICK keep : keep = Least(m, n)
  OBVIOUS
<1> DEFINE x == SubSeq(a, 1, keep)
           y == SubSeq(b, 1, keep)
           z == Zero(n - keep)
<1>1. keep \in 0 .. m /\ n - keep \in Nat
  BY DEF Least
<1>2. x \in Seq(Int) /\ y \in Seq(Int) /\ z \in Seq(Int)
  <2>1. InHalves(a, b, m)
    BY Halves, Zenon
  <2>2. z \in Seq(Int)
    BY <1>1, ZeroIs
  <2> QED
    BY <1>1, <2>1, <2>2, Zenon DEF InHalves
<1>3. Fitted(a, n) = x \o z /\ Fitted(b, n) = y \o z
  <2>1. CASE n <= m
    <3>1. keep = n /\ n - keep = 0
      BY <2>1 DEF Least
    <3>2. Fitted(a, n) = SubSeq(a, 1, n) \o Zero(0) /\ Fitted(b, n) = SubSeq(b, 1, n) \o Zero(0)
      BY <2>1, FittedIs
    <3> QED
      BY <3>1, <3>2
  <2>2. CASE ~(n <= m)
    <3>1. keep = m
      BY <2>2 DEF Least
    <3>2. Fitted(a, n) = SubSeq(a, 1, m) \o Zero(n - m) /\ Fitted(b, n) = SubSeq(b, 1, m) \o Zero(n - m)
      BY <2>2, FittedIs
    <3> QED
      BY <3>1, <3>2
  <2> QED
    BY <2>1, <2>2
<1> HIDE DEF x, y, z
<1>4. x \o z \o y \o z = (x \o z) \o (y \o z)
  BY <1>2, Regrouped
<1> QED
  BY <1>3, <1>4, Zenon DEF x, y, z

-----------------------------------------------------------------------------
(* The operations of the class *)

ShapeOf(sizes, strides) == [sizes |-> sizes, strides |-> strides]

\* No block but that of the object is touched, and a new one was free.
Alone(r, h, r2, h2) ==
  /\ \A b \in DOMAIN h : b \notin Own(r) => b \in DOMAIN h2 /\ h2[b] = h[b] /\ b \notin Own(r2)
  /\ \A b \in DOMAIN h2 : \/ b \in HeapBlocks /\ b \in Own(r2)
                          \/ b \in DOMAIN h /\ b \notin Own(r)

\* A heap there is room in.
HeapOK(h) == DOMAIN h \subseteq HeapBlocks /\ FreshBlock(h) \in HeapBlocks \ DOMAIN h

LEMMA WordsAre ==
  /\ MaxInline \in Nat /\ MaxInline >= 1 /\ 0 \in Words
  /\ \A w : w \in Words <=> w \in Nat /\ w < 2 * MaxInline
  /\ \A k \in 1 .. MaxInline : k - 1 \in Words /\ MaxInline + k - 1 \in Words
BY SasAssumption DEF Words

LEMMA ObjectIs ==
  ASSUME NEW r \in Object, NEW b \in Int, NEW n \in Nat
  PROVE  /\ r.size \in Nat /\ r.word \in [Words -> Int]
         /\ r = [size |-> r.size, word |-> r.word]
         /\ [Pointing(r, b) EXCEPT !.size = n] \in Object
         /\ [Pointing(r, b) EXCEPT !.size = n].size = n
         /\ outOfLine([Pointing(r, b) EXCEPT !.size = n]) = b
<1>1. r.size \in Nat /\ r.word \in [Words -> Int] /\ r = [size |-> r.size, word |-> r.word]
  BY DEF Object
<1> DEFINE p == [Pointing(r, b) EXCEPT !.size = n]
<1>2. p = [size |-> n, word |-> [r.word EXCEPT ![0] = b]]
  <2>1. Pointing(r, b) = [size |-> r.size, word |-> [r.word EXCEPT ![0] = b]]
    BY DEF Pointing, Object
  <2> QED
    BY <2>1
<1>3. [r.word EXCEPT ![0] = b] \in [Words -> Int] /\ [r.word EXCEPT ![0] = b][0] = b
  BY <1>1, WordsAre
<1> HIDE DEF p
<1>4. p \in Object /\ p.size = n /\ outOfLine(p) = b
  BY <1>2, <1>3 DEF Object, outOfLine
<1> QED
  BY <1>1, <1>4 DEF p

\* What an outline object holds afterwards, in the block it points at.
LEMMA HeldIs ==
  ASSUME NEW r \in Object, NEW h, NEW b \in HeapBlocks, NEW s \in Shapes, NEW n \in Nat, n > MaxInline,
         Len(s.sizes) = n, Len(s.strides) = n,
         DOMAIN h \subseteq HeapBlocks, IF isInline(r) THEN b \notin DOMAIN h ELSE b = outOfLine(r)
  PROVE  LET r2 == [Pointing(r, b) EXCEPT !.size = n]
             h2 == Held(h, b, s.sizes \o s.strides)
         IN  r2 \in Object /\ Holds(r2, h2, s) /\ Alone(r, h, r2, h2)
<1> DEFINE r2 == [Pointing(r, b) EXCEPT !.size = n]
           h2 == Held(h, b, s.sizes \o s.strides)
<1>1. b \in Int
  BY SasAssumption, FS_CardinalityType DEF HeapBlocks
<1>2. r2 \in Object /\ r2.size = n /\ outOfLine(r2) = b
  BY <1>1, ObjectIs
<1>3. DOMAIN h2 = DOMAIN h \cup {b} /\ h2[b] = s.sizes \o s.strides
      /\ \A c \in DOMAIN h : c # b => h2[c] = h[c]
  BY DEF Held
<1>4. MaxInline \in Nat
  BY WordsAre
<1> HIDE DEF r2, h2
<1>5. ~isInline(r2)
  BY <1>2, <1>4 DEF isInline
<1>6. Holds(r2, h2, s)
  BY <1>2, <1>3, <1>5 DEF Holds
<1>7. Own(r2) = {b}
  BY <1>2, <1>5 DEF Own
<1>8. Own(r) = IF isInline(r) THEN {} ELSE {b}
  BY DEF Own
<1>9. Alone(r, h, r2, h2)
  BY <1>3, <1>7, <1>8 DEF Alone
<1> QED
  BY <1>2, <1>6, <1>9 DEF r2, h2

\* What an inline object holds afterwards, its block released.
LEMMA InlineIs ==
  ASSUME NEW r \in Object, NEW h, NEW r2 \in Object, NEW h2, NEW s \in Shapes, isInline(r2),
         Len(s.sizes) = r2.size, Len(s.strides) = r2.size,
         \A k \in 1 .. r2.size : r2.word[k - 1] = s.sizes[k] /\ r2.word[MaxInline + k - 1] = s.strides[k],
         h2 = IF isInline(r) THEN h ELSE Freed(h, outOfLine(r))
  PROVE  Holds(r2, h2, s) /\ Alone(r, h, r2, h2)
<1>1. Holds(r2, h2, s) /\ Own(r2) = {}
  BY DEF Holds, Own
<1>2. CASE isInline(r)
  BY <1>1, <1>2 DEF Alone, Own
<1>3. CASE ~isInline(r)
  <2>1. DOMAIN h2 = DOMAIN h \ {outOfLine(r)} /\ \A c \in DOMAIN h2 : h2[c] = h[c]
    BY <1>3 DEF Freed
  <2>2. Own(r) = {outOfLine(r)}
    BY <1>3 DEF Own
  <2> QED
    BY <1>1, <2>1, <2>2 DEF Alone
<1> QED
  BY <1>1, <1>2, <1>3

LEMMA ShapeIs ==
  ASSUME NEW s \in Shapes
  PROVE  s.sizes \in Seq(Int) /\ s.strides \in Seq(Int) /\ s = ShapeOf(s.sizes, s.strides)
BY DEF Shapes, ShapeOf

LEMMA FittedShape ==
  ASSUME NEW s \in Shapes, NEW n \in Nat, NEW t, t = ShapeOf(Fitted(s.sizes, n), Fitted(s.strides, n))
  PROVE  /\ t \in Shapes /\ t.sizes = Fitted(s.sizes, n) /\ t.strides = Fitted(s.strides, n)
         /\ Len(t.sizes) = n /\ Len(t.strides) = n
         /\ \A i \in 1 .. n : /\ t.sizes[i] = IF i <= Len(s.sizes) THEN s.sizes[i] ELSE 0
                              /\ t.strides[i] = IF i <= Len(s.strides) THEN s.strides[i] ELSE 0
BY ShapeIs, FittedIs DEF ShapeOf, Shapes

LEMMA HoldsIs ==
  ASSUME NEW r \in Object, NEW h, NEW s \in Shapes, Holds(r, h, s)
  PROVE  /\ r.size \in Nat /\ Len(s.sizes) = r.size /\ Len(s.strides) = r.size
         /\ s.sizes \in Seq(Int) /\ s.strides \in Seq(Int) /\ r.word \in [Words -> Int]
         /\ isInline(r) => \A k \in 1 .. r.size : /\ r.word[k - 1] = s.sizes[k]
                                                  /\ r.word[MaxInline + k - 1] = s.strides[k]
         /\ ~isInline(r) => outOfLine(r) \in DOMAIN h /\ h[outOfLine(r)] = s.sizes \o s.strides
         /\ s.sizes = [k \in 1 .. r.size |-> s.sizes[k]]
         /\ s.strides = [k \in 1 .. r.size |-> s.strides[k]]
         /\ isInline(r) <=> r.size <= MaxInline
<1>1. r.size \in Nat /\ r.word \in [Words -> Int] /\ s.sizes \in Seq(Int) /\ s.strides \in Seq(Int)
  BY ShapeIs DEF Object
<1>2. Len(s.sizes) = r.size /\ Len(s.strides) = r.size
  BY DEF Holds
<1>3. s.sizes = [k \in 1 .. r.size |-> s.sizes[k]] /\ s.strides = [k \in 1 .. r.size |-> s.strides[k]]
  <2>1. DOMAIN s.sizes = 1 .. r.size /\ DOMAIN s.strides = 1 .. r.size
    BY <1>1, <1>2
  <2>2. s.sizes = [k \in DOMAIN s.sizes |-> s.sizes[k]] /\ s.strides = [k \in DOMAIN s.strides |-> s.strides[k]]
    BY <1>1
  <2> QED
    BY <2>1, <2>2
<1> QED
  BY <1>1, <1>2, <1>3, Zenon DEF Holds, isInline

LEMMA SlowResize ==
  ASSUME NEW r \in Object, NEW h, NEW s \in Shapes, NEW n \in Nat, Holds(r, h, s), HeapOK(h),
         ~(n <= MaxInline /\ isInline(r)), NEW x, x = resizeSlowPath(r, h, n),
         NEW t, t = ShapeOf(Fitted(s.sizes, n), Fitted(s.strides, n))
  PROVE  x.obj \in Object /\ Holds(x.obj, x.heap, t) /\ Alone(r, h, x.obj, x.heap)
<1> PICK old : old = r.size
  OBVIOUS
<1> PICK keep : keep = Least(old, n)
  OBVIOUS
<1> PICK a, b : a = s.sizes /\ b = s.strides
  OBVIOUS
<1> DEFINE pad == Zero(n - keep)
           c == a \o b
<1>1. /\ old \in Nat /\ Len(a) = old /\ Len(b) = old
      /\ a \in Seq(Int) /\ b \in Seq(Int) /\ MaxInline \in Nat
      /\ r.word \in [Words -> Int]
      /\ isInline(r) <=> old <= MaxInline
  BY HoldsIs, WordsAre
<1>2. /\ t \in Shapes /\ t.sizes = Fitted(a, n) /\ t.strides = Fitted(b, n)
      /\ Len(t.sizes) = n /\ Len(t.strides) = n
      /\ \A i \in 1 .. n : /\ t.sizes[i] = IF i <= Len(a) THEN a[i] ELSE 0
                           /\ t.strides[i] = IF i <= Len(b) THEN b[i] ELSE 0
  <2>1. /\ t \in Shapes /\ t.sizes = Fitted(s.sizes, n) /\ t.strides = Fitted(s.strides, n)
        /\ Len(t.sizes) = n /\ Len(t.strides) = n
        /\ \A i \in 1 .. n : /\ t.sizes[i] = IF i <= Len(s.sizes) THEN s.sizes[i] ELSE 0
                             /\ t.strides[i] = IF i <= Len(s.strides) THEN s.strides[i] ELSE 0
    BY FittedShape
  <2> QED
    BY <2>1
<1>3. SubSeq(a, 1, keep) \o pad \o SubSeq(b, 1, keep) \o pad = t.sizes \o t.strides
  <2>1. SubSeq(a, 1, keep) \o pad \o SubSeq(b, 1, keep) \o pad = Fitted(a, n) \o Fitted(b, n)
    BY <1>1, FittedHalves, Zenon
  <2> QED
    BY <1>2, <2>1, Zenon
<1>4. CASE isInline(r)
  <2>1. old <= MaxInline /\ n > MaxInline /\ keep = old
    BY <1>1, <1>4 DEF Least
  <2>2. [k \in 1 .. old |-> r.word[k - 1]] = a
    <3>1. \A k \in 1 .. old : r.word[k - 1] = a[k]
      BY <1>4, HoldsIs
    <3>2. a = [k \in 1 .. old |-> a[k]]
      BY HoldsIs
    <3> QED
      BY <3>1, <3>2
  <2>3. [k \in 1 .. old |-> r.word[MaxInline + k - 1]] = b
    <3>1. \A k \in 1 .. old : r.word[MaxInline + k - 1] = b[k]
      BY <1>4, HoldsIs
    <3>2. b = [k \in 1 .. old |-> b[k]]
      BY HoldsIs
    <3> QED
      BY <3>1, <3>2
  <2>4. SubSeq(a, 1, old) = a /\ SubSeq(b, 1, old) = b
    BY <1>1, SubSeqFull
  <2>5. a \o pad \o b \o pad = t.sizes \o t.strides
    BY <1>3, <2>1, <2>4
  <2>6. x = [obj |-> [Pointing(r, FreshBlock(h)) EXCEPT !.size = n],
             heap |-> Held(h, FreshBlock(h), t.sizes \o t.strides)]
    <3>1. ~(n <= MaxInline)
      BY <1>1, <2>1
    <3>2. x = [obj |-> [Pointing(r, FreshBlock(h)) EXCEPT !.size = n],
               heap |-> Held(h, FreshBlock(h), a \o pad \o b \o pad)]
      BY <1>4, <2>2, <2>3, <3>1, Zenon DEF resizeSlowPath, Least
    <3> QED
      BY <2>5, <3>2, Zenon
  <2>7. FreshBlock(h) \in HeapBlocks /\ FreshBlock(h) \notin DOMAIN h /\ DOMAIN h \subseteq HeapBlocks
    BY DEF HeapOK
  <2>8. /\ [Pointing(r, FreshBlock(h)) EXCEPT !.size = n] \in Object
        /\ Holds([Pointing(r, FreshBlock(h)) EXCEPT !.size = n], Held(h, FreshBlock(h), t.sizes \o t.strides), t)
        /\ Alone(r, h, [Pointing(r, FreshBlock(h)) EXCEPT !.size = n],
                 Held(h, FreshBlock(h), t.sizes \o t.strides))
    BY <1>2, <1>4, <2>1, <2>7, HeldIs, Zenon
  <2> QED
    BY <2>6, <2>8
<1>5. CASE ~isInline(r)
  <2>1. /\ old > MaxInline /\ outOfLine(r) \in DOMAIN h /\ h[outOfLine(r)] = c
        /\ outOfLine(r) \in HeapBlocks /\ DOMAIN h \subseteq HeapBlocks
    <3>1. outOfLine(r) \in DOMAIN h /\ h[outOfLine(r)] = a \o b
      BY <1>5, HoldsIs
    <3> QED
      BY <1>1, <1>5, <3>1 DEF HeapOK
  <2>2. keep \in 0 .. old
    BY <1>1 DEF Least
  <2>3. /\ c \in Seq(Int) /\ Len(c) = 2 * old
        /\ \A i \in 1 .. old : c[i] = a[i] /\ c[old + i] = b[i]
        /\ SubSeq(c, 1, keep) = SubSeq(a, 1, keep)
        /\ SubSeq(c, old + 1, old + keep) = SubSeq(b, 1, keep)
    <3>1. InHalves(a, b, old)
      BY <1>1, Halves, Zenon
    <3> QED
      BY <2>2, <3>1, Zenon DEF InHalves
  <2>4. CASE n > MaxInline
    <3>1. ~(n <= MaxInline)
      BY <1>1, <2>4
    <3>2. SubSeq(c, 1, keep) \o pad \o SubSeq(c, old + 1, old + keep) \o pad = t.sizes \o t.strides
      BY <1>3, <2>3, Zenon
    <3>3. x = [obj |-> [Pointing(r, outOfLine(r)) EXCEPT !.size = n],
               heap |-> Held(h, outOfLine(r),
                             SubSeq(c, 1, keep) \o pad \o SubSeq(c, old + 1, old + keep) \o pad)]
      BY <1>5, <2>1, <3>1, Zenon DEF resizeSlowPath, Least
    <3>4. x = [obj |-> [Pointing(r, outOfLine(r)) EXCEPT !.size = n],
               heap |-> Held(h, outOfLine(r), t.sizes \o t.strides)]
      BY <3>2, <3>3, Zenon
    <3>5. /\ [Pointing(r, outOfLine(r)) EXCEPT !.size = n] \in Object
          /\ Holds([Pointing(r, outOfLine(r)) EXCEPT !.size = n], Held(h, outOfLine(r), t.sizes \o t.strides), t)
          /\ Alone(r, h, [Pointing(r, outOfLine(r)) EXCEPT !.size = n],
                   Held(h, outOfLine(r), t.sizes \o t.strides))
      BY <1>2, <1>5, <2>1, <2>4, HeldIs, Zenon
    <3> QED
      BY <3>4, <3>5
  <2>5. CASE n <= MaxInline
    <3> DEFINE word == [w \in Words |-> IF w < MaxInline THEN c[w + 1] ELSE c[old + w - MaxInline + 1]]
               r2 == [size |-> n, word |-> word]
    <3>1. x = [obj |-> r2, heap |-> Freed(h, outOfLine(r))]
      BY <1>5, <2>1, <2>5, Zenon DEF resizeSlowPath, Least
    <3>2. ASSUME NEW w \in Words
          PROVE  IF w < MaxInline THEN w + 1 \in 1 .. 2 * old ELSE old + w - MaxInline + 1 \in 1 .. 2 * old
      <4>1. w \in Nat /\ w < 2 * MaxInline
        BY WordsAre
      <4>2. old \in Nat /\ MaxInline \in Nat /\ old > MaxInline
        BY <1>1, <2>1
      <4>3. CASE w < MaxInline
        BY <4>1, <4>2, <4>3
      <4>4. CASE ~(w < MaxInline)
        BY <4>1, <4>2, <4>4
      <4> QED
        BY <4>3, <4>4
    <3>3. word \in [Words -> Int]
      <4> HIDE DEF c
      <4> QED
        BY <2>3, <3>2
    <3>4. r2 \in Object /\ r2.size = n /\ r2.word = word /\ isInline(r2)
      BY <2>5, <3>3 DEF Object, isInline
    <3>5. ASSUME NEW k \in 1 .. n
          PROVE  word[k - 1] = t.sizes[k] /\ word[MaxInline + k - 1] = t.strides[k]
      <4>1. k \in 1 .. MaxInline /\ k \in 1 .. old
        BY <1>1, <2>1, <2>5
      <4>2. t.sizes[k] = a[k] /\ t.strides[k] = b[k]
        BY <1>1, <1>2, <4>1
      <4>3. k - 1 \in Words /\ MaxInline + k - 1 \in Words
        BY <4>1, WordsAre
      <4>4. /\ k - 1 < MaxInline /\ ~(MaxInline + k - 1 < MaxInline) /\ k - 1 + 1 = k
            /\ old + (MaxInline + k - 1) - MaxInline + 1 = old + k
        BY <1>1, <4>1
      <4>5. word[k - 1] = c[k] /\ word[MaxInline + k - 1] = c[old + k]
        <5> HIDE DEF c
        <5> QED
          BY <4>3, <4>4
      <4> QED
        BY <2>3, <4>1, <4>2, <4>5
    <3> HIDE DEF r2, word
    <3>6. Holds(r2, Freed(h, outOfLine(r)), t) /\ Alone(r, h, r2, Freed(h, outOfLine(r)))
      BY <1>2, <1>5, <3>4, <3>5, InlineIs
    <3> QED
      BY <3>1, <3>4, <3>6
  <2> QED
    BY <1>1, <2>4, <2>5
<1> QED
  BY <1>4, <1>5

LEMMA ResizeIs ==
  ASSUME NEW r \in Object, NEW h, NEW s \in Shapes, NEW n \in Nat, Holds(r, h, s), HeapOK(h),
         NEW x, x = resize(r, h, n),
         NEW t, t = ShapeOf(Fitted(s.sizes, n), Fitted(s.strides, n))
  PROVE  x.obj \in Object /\ Holds(x.obj, x.heap, t) /\ Alone(r, h, x.obj, x.heap)
<1>1. /\ r.size \in Nat /\ Len(s.sizes) = r.size /\ Len(s.strides) = r.size
      /\ s.sizes \in Seq(Int) /\ s.strides \in Seq(Int) /\ MaxInline \in Nat
      /\ r.word \in [Words -> Int]
  BY HoldsIs, WordsAre
<1>2. CASE n = r.size
  <2>1. x.obj = r /\ x.heap = h
    BY <1>2 DEF resize
  <2>2. Fitted(s.sizes, n) = s.sizes /\ Fitted(s.strides, n) = s.strides
    <3>1. \A a \in Seq(Int) : Len(a) = n => Fitted(a, n) = a
      BY SubSeqFull DEF Fitted
    <3> QED
      BY <1>1, <1>2, <3>1
  <2>3. t = s
    BY <2>2, ShapeIs
  <2>4. Alone(r, h, r, h)
    BY DEF Alone, HeapOK, Own, Holds
  <2> QED
    BY <2>1, <2>3, <2>4
<1>3. CASE n # r.size /\ n <= MaxInline /\ isInline(r)
  <2> DEFINE word == [w \in Words |-> IF {w, w - MaxInline} \cap (r.size .. n - 1) # {} THEN 0
                                      ELSE r.word[w]]
             r2 == [size |-> n, word |-> word]
  <2>1. x.obj = r2 /\ x.heap = h
    BY <1>3 DEF resize
  <2>2. r2 \in Object /\ r2.size = n /\ r2.word = word /\ isInline(r2)
    BY <1>1, <1>3 DEF Object, isInline
  <2>3. ASSUME NEW k \in 1 .. n
        PROVE  word[k - 1] = t.sizes[k] /\ word[MaxInline + k - 1] = t.strides[k]
    <3>1. /\ k \in 1 .. MaxInline /\ k - 1 \in Words /\ MaxInline + k - 1 \in Words
      BY <1>1, <1>3, WordsAre
    <3>2. /\ t.sizes[k] = IF k <= r.size THEN s.sizes[k] ELSE 0
          /\ t.strides[k] = IF k <= r.size THEN s.strides[k] ELSE 0
      <4>1. /\ t.sizes[k] = IF k <= Len(s.sizes) THEN s.sizes[k] ELSE 0
            /\ t.strides[k] = IF k <= Len(s.strides) THEN s.strides[k] ELSE 0
        BY FittedShape
      <4> QED
        BY <1>1, <4>1
    <3>3. k <= r.size => r.word[k - 1] = s.sizes[k] /\ r.word[MaxInline + k - 1] = s.strides[k]
      <4>1. k <= r.size => k \in 1 .. r.size
        BY <1>1
      <4> QED
        BY <1>3, <4>1, HoldsIs
    <3>4. k - 1 \in r.size .. n - 1 <=> ~(k <= r.size)
      BY <1>1
    <3>5. k - 1 - MaxInline \notin r.size .. n - 1
      BY <1>1, <3>1
    <3>6. MaxInline + k - 1 \notin r.size .. n - 1 /\ MaxInline + k - 1 - MaxInline = k - 1
      BY <1>1, <1>3
    <3>7. word[k - 1] = IF k <= r.size THEN r.word[k - 1] ELSE 0
      BY <3>1, <3>4, <3>5
    <3>8. word[MaxInline + k - 1] = IF k <= r.size THEN r.word[MaxInline + k - 1] ELSE 0
      <4> PICK w \in Words : w = MaxInline + k - 1
        BY <3>1
      <4>1. {w, w - MaxInline} \cap (r.size .. n - 1) = {} <=> k <= r.size
        <5>1. w \notin r.size .. n - 1 /\ w - MaxInline = k - 1
          BY <1>1, <3>6
        <5> QED
          BY <3>4, <5>1
      <4> QED
        BY <4>1
    <3> HIDE DEF word
    <3> QED
      BY <3>2, <3>3, <3>7, <3>8
  <2>4. t \in Shapes /\ Len(t.sizes) = n /\ Len(t.strides) = n
    BY FittedShape
  <2> HIDE DEF word, r2
  <2>5. Holds(r2, h, t) /\ Alone(r, h, r2, h)
    BY <1>3, <2>2, <2>3, <2>4, InlineIs
  <2> QED
    BY <2>1, <2>2, <2>5
<1>4. CASE n # r.size /\ ~(n <= MaxInline /\ isInline(r))
  <2>1. x = resizeSlowPath(r, h, n)
    BY <1>4 DEF resize
  <2> QED
    BY <1>4, <2>1, SlowResize
<1> QED
  BY <1>2, <1>3, <1>4

LEMMA ResizeReturns ==
  ASSUME NEW r, NEW h, NEW n
  PROVE  resize(r, h, n) = [obj |-> resize(r, h, n).obj, heap |-> resize(r, h, n).heap]
<1>1. resizeSlowPath(r, h, n) = [obj |-> resizeSlowPath(r, h, n).obj, heap |-> resizeSlowPath(r, h, n).heap]
  <2>1. \E y, g : resizeSlowPath(r, h, n) = [obj |-> y, heap |-> g]
    <3>1. CASE n <= MaxInline
      BY <3>1, Zenon DEF resizeSlowPath
    <3>2. CASE ~(n <= MaxInline)
      BY <3>2, Zenon DEF resizeSlowPath
    <3> QED
      BY <3>1, <3>2
  <2> QED
    BY <2>1
<1>2. CASE n = r.size
  BY <1>2 DEF resize
<1>3. CASE n # r.size /\ n <= MaxInline /\ isInline(r)
  <2>1. \E y : resize(r, h, n) = [obj |-> y, heap |-> h]
    BY <1>3, Zenon DEF resize
  <2> QED
    BY <2>1
<1>4. CASE n # r.size /\ ~(n <= MaxInline /\ isInline(r))
  <2>1. resize(r, h, n) = resizeSlowPath(r, h, n)
    BY <1>4 DEF resize
  <2> QED
    BY <1>1, <2>1
<1> QED
  BY <1>2, <1>3, <1>4

LEMMA SetSizesIs ==
  ASSUME NEW r \in Object, NEW h, NEW s \in Shapes, NEW new \in Seq(Int), Holds(r, h, s), HeapOK(h),
         NEW x, x = set_sizes(r, h, new),
         NEW t, t = ShapeOf(new, Fitted(s.strides, Len(new)))
  PROVE  x.obj \in Object /\ Holds(x.obj, x.heap, t) /\ Alone(r, h, x.obj, x.heap)
<1> PICK n \in Nat : n = Len(new)
  OBVIOUS
<1> PICK y, g : resize(r, h, n) = [obj |-> y, heap |-> g]
  BY ResizeReturns
<1> PICK u : u = ShapeOf(Fitted(s.sizes, n), Fitted(s.strides, n))
  OBVIOUS
<1>1. y \in Object /\ Holds(y, g, u) /\ Alone(r, h, y, g)
  <2> PICK q : q = resize(r, h, n)
    OBVIOUS
  <2>1. q.obj \in Object /\ Holds(q.obj, q.heap, u) /\ Alone(r, h, q.obj, q.heap)
    BY ResizeIs
  <2> QED
    BY <2>1
<1>2. u \in Shapes /\ u.sizes \in Seq(Int) /\ u.strides = Fitted(s.strides, n) /\ u.strides \in Seq(Int)
      /\ Len(u.sizes) = n /\ Len(u.strides) = n
  <2>1. /\ u \in Shapes /\ u.strides = Fitted(s.strides, n)
        /\ Len(u.sizes) = n /\ Len(u.strides) = n
    <3>1. s.sizes \in Seq(Int) /\ s.strides \in Seq(Int)
      BY ShapeIs
    <3>2. /\ Fitted(s.sizes, n) \in Seq(Int) /\ Len(Fitted(s.sizes, n)) = n
          /\ Fitted(s.strides, n) \in Seq(Int) /\ Len(Fitted(s.strides, n)) = n
      BY <3>1, FittedIs
    <3> QED
      BY <3>2 DEF ShapeOf, Shapes
  <2> QED
    BY <2>1, ShapeIs
<1>3. /\ isInline(y) => \A k \in 1 .. y.size : /\ y.word[k - 1] = u.sizes[k]
                                               /\ y.word[MaxInline + k - 1] = u.strides[k]
      /\ ~isInline(y) => outOfLine(y) \in DOMAIN g /\ g[outOfLine(y)] = u.sizes \o u.strides
  BY <1>1, Zenon DEF Holds
<1>4. y.size = n /\ y.word \in [Words -> Int] /\ y = [size |-> n, word |-> y.word]
  <2>1. y.size = n
    BY <1>1, <1>2, Zenon DEF Holds
  <2> QED
    BY <1>1, <2>1 DEF Object
<1>5. t \in Shapes /\ t.sizes = new /\ t.strides = u.strides
  BY <1>2 DEF Shapes, ShapeOf
<1>6. CASE isInline(y)
  <2> DEFINE word == [w \in Words |-> IF w < Len(new) THEN new[w + 1] ELSE y.word[w]]
             z == [size |-> n, word |-> word]
  <2>1. x.obj = z /\ x.heap = g
    <3>1. x = [[obj |-> y, heap |-> g] EXCEPT !.obj.word = word]
      <4>1. resize(r, h, Len(new)) = [obj |-> y, heap |-> g]
        OBVIOUS
      <4>2. [obj |-> y, heap |-> g].obj = y
        OBVIOUS
      <4> QED
        BY <1>6, <4>1, <4>2 DEF set_sizes
    <3> HIDE DEF word
    <3>2. [y EXCEPT !.word = word] = z
      BY <1>4
    <3> QED
      BY <3>1, <3>2
  <2>2. word \in [Words -> Int]
    <3>1. \A w \in Words : w < Len(new) => w + 1 \in 1 .. Len(new)
      BY WordsAre
    <3> QED
      BY <1>4, <3>1
  <2>3. z \in Object /\ isInline(z) /\ n <= MaxInline
    BY <1>4, <1>6, <2>2 DEF Object, isInline
  <2>4. ASSUME NEW k \in 1 .. n
        PROVE  word[k - 1] = t.sizes[k] /\ word[MaxInline + k - 1] = t.strides[k]
    <3>1. MaxInline \in Nat
      BY WordsAre
    <3>2. k \in 1 .. MaxInline
      BY <2>3, <3>1
    <3>3. k - 1 \in Words /\ MaxInline + k - 1 \in Words
      BY <3>2, WordsAre
    <3>4. k - 1 < Len(new) /\ k - 1 + 1 = k /\ ~(MaxInline + k - 1 < Len(new))
      BY <2>3, <3>1
    <3>5. y.word[MaxInline + k - 1] = u.strides[k]
      BY <1>4, <1>6, <1>3
    <3> QED
      BY <1>5, <3>3, <3>4, <3>5
  <2> HIDE DEF word
  <2>5. Holds(z, g, t)
    BY <1>2, <1>5, <2>3, <2>4 DEF Holds
  <2>6. Own(z) = {} /\ Own(y) = {}
    BY <1>6, <2>3 DEF Own
  <2>7. Alone(r, h, z, g)
    BY <1>1, <2>6 DEF Alone
  <2> QED
    BY <2>1, <2>3, <2>5, <2>7
<1>7. CASE ~isInline(y)
  <2> PICK p : p = outOfLine(y)
    OBVIOUS
  <2>1. p \in DOMAIN g /\ g[p] = u.sizes \o u.strides /\ Own(y) = {p}
    BY <1>7, <1>3 DEF Own
  <2>2. InHalves(u.sizes, u.strides, n)
    BY <1>2, Halves, Zenon
  <2>3. new \o SubSeq(g[p], Len(new) + 1, Len(g[p])) = t.sizes \o t.strides
    BY <1>5, <2>1, <2>2, Zenon DEF InHalves
  <2>4. x.obj = y /\ x.heap = [g EXCEPT ![p] = t.sizes \o t.strides]
    <3>1. x = [[obj |-> y, heap |-> g] EXCEPT
                 !.heap[p] = new \o SubSeq(g[p], Len(new) + 1, Len(g[p]))]
      BY <1>7 DEF set_sizes
    <3>2. x = [[obj |-> y, heap |-> g] EXCEPT !.heap[p] = t.sizes \o t.strides]
      BY <2>3, <3>1, Zenon
    <3> QED
      BY <3>2
  <2> PICK g2 : g2 = x.heap
    OBVIOUS
  <2>5. DOMAIN g2 = DOMAIN g /\ g2[p] = t.sizes \o t.strides /\ \A b \in DOMAIN g : b # p => g2[b] = g[b]
    BY <2>1, <2>4
  <2>6. Holds(y, g2, t)
    BY <1>2, <1>4, <1>5, <1>7, <2>1, <2>5 DEF Holds
  <2>7. Alone(r, h, y, g2)
    BY <1>1, <2>1, <2>5 DEF Alone
  <2> QED
    BY <1>1, <2>4, <2>6, <2>7
<1> QED
  BY <1>6, <1>7

LEMMA SetStridesIs ==
  ASSUME NEW r \in Object, NEW h, NEW s \in Shapes, NEW new \in Seq(Int), Holds(r, h, s), HeapOK(h),
         Len(new) = r.size, NEW x, x = set_strides(r, h, new), NEW t, t = ShapeOf(s.sizes, new)
  PROVE  x.obj \in Object /\ Holds(x.obj, x.heap, t) /\ Alone(r, h, x.obj, x.heap)
<1> PICK n : n = r.size
  OBVIOUS
<1>1. /\ n \in Nat /\ Len(s.sizes) = n /\ Len(s.strides) = n /\ s.sizes \in Seq(Int)
      /\ s.strides \in Seq(Int) /\ r.word \in [Words -> Int]
      /\ isInline(r) <=> n <= MaxInline
  BY HoldsIs
<1>2. r = [size |-> n, word |-> r.word]
  BY DEF Object
<1>3. t \in Shapes /\ t.sizes = s.sizes /\ t.strides = new
  BY <1>1 DEF Shapes, ShapeOf
<1>4. CASE isInline(r)
  <2> DEFINE word == [w \in Words |-> IF w - MaxInline \in 0 .. Len(new) - 1
                                      THEN new[w - MaxInline + 1] ELSE r.word[w]]
             z == [size |-> n, word |-> word]
  <2>1. x.obj = z /\ x.heap = h
    <3>1. x = [obj |-> [r EXCEPT !.word = word], heap |-> h]
      BY <1>4, Zenon DEF set_strides
    <3> HIDE DEF word
    <3>2. [r EXCEPT !.word = word] = z
      BY <1>2
    <3> QED
      BY <3>1, <3>2
  <2>2. word \in [Words -> Int]
    <3>1. \A w \in Words : w - MaxInline \in 0 .. Len(new) - 1 => w - MaxInline + 1 \in 1 .. Len(new)
      BY WordsAre
    <3> QED
      BY <1>1, <3>1
  <2>3. z \in Object /\ isInline(z) /\ n <= MaxInline
    BY <1>1, <1>4, <2>2 DEF Object, isInline
  <2>4. ASSUME NEW k \in 1 .. n
        PROVE  word[k - 1] = t.sizes[k] /\ word[MaxInline + k - 1] = t.strides[k]
    <3>1. MaxInline \in Nat /\ Len(new) = n
      BY WordsAre
    <3>2. k \in 1 .. MaxInline
      BY <1>1, <2>3, <3>1
    <3>3. k - 1 \in Words /\ MaxInline + k - 1 \in Words
      BY <3>2, WordsAre
    <3>4. /\ k - 1 - MaxInline \notin 0 .. Len(new) - 1
          /\ MaxInline + k - 1 - MaxInline \in 0 .. Len(new) - 1 /\ MaxInline + k - 1 - MaxInline + 1 = k
      BY <1>1, <3>1, <3>2
    <3>5. r.word[k - 1] = s.sizes[k]
      BY <1>4, HoldsIs
    <3>6. word[k - 1] = r.word[k - 1]
      BY <3>3, <3>4
    <3>7. word[MaxInline + k - 1] = new[k]
      <4> PICK w \in Words : w = MaxInline + k - 1
        BY <3>3
      <4>1. w - MaxInline \in 0 .. Len(new) - 1 /\ w - MaxInline + 1 = k
        BY <1>1, <3>1, <3>2
      <4> QED
        BY <4>1
    <3> QED
      BY <1>3, <3>5, <3>6, <3>7, Zenon
  <2> HIDE DEF word
  <2>5. Holds(z, h, t) /\ Alone(r, h, z, h)
    BY <1>1, <1>3, <1>4, <2>3, <2>4, InlineIs
  <2> QED
    BY <2>1, <2>3, <2>5
<1>5. CASE ~isInline(r)
  <2> PICK p : p = outOfLine(r)
    OBVIOUS
  <2>1. p \in DOMAIN h /\ h[p] = s.sizes \o s.strides /\ Own(r) = {p} /\ p \in HeapBlocks
    BY <1>5, HoldsIs DEF Own, HeapOK
  <2>2. InHalves(s.sizes, s.strides, n)
    BY <1>1, Halves, Zenon
  <2>3. SubSeq(h[p], 1, r.size) \o new = t.sizes \o t.strides
    <3>1. SubSeq(s.sizes \o s.strides, 1, n) = SubSeq(s.sizes, 1, n)
      <4>1. n \in 0 .. n
        BY <1>1
      <4> QED
        BY <2>2, <4>1, Zenon DEF InHalves
    <3>2. SubSeq(s.sizes, 1, n) = s.sizes
      BY <1>1, SubSeqFull
    <3> QED
      BY <1>3, <2>1, <3>1, <3>2, Zenon
  <2>4. x.obj = r /\ x.heap = [h EXCEPT ![p] = t.sizes \o t.strides]
    <3>1. x = [obj |-> r, heap |-> [h EXCEPT ![p] = SubSeq(h[p], 1, r.size) \o new]]
      BY <1>5, Zenon DEF set_strides
    <3>2. x = [obj |-> r, heap |-> [h EXCEPT ![p] = t.sizes \o t.strides]]
      BY <2>3, <3>1, Zenon
    <3> QED
      BY <3>2
  <2> PICK g2 : g2 = x.heap
    OBVIOUS
  <2>5. DOMAIN g2 = DOMAIN h /\ g2[p] = t.sizes \o t.strides /\ \A b \in DOMAIN h : b # p => g2[b] = h[b]
    BY <2>1, <2>4
  <2>6. Holds(r, g2, t)
    BY <1>1, <1>3, <1>5, <2>1, <2>5 DEF Holds
  <2>7. Alone(r, h, r, g2)
    BY <2>1, <2>5 DEF Alone
  <2> QED
    BY <2>4, <2>6, <2>7
<1> QED
  BY <1>4, <1>5

\* Copying into an object frees or reuses the block it had.
LEMMA AssignIs ==
  ASSUME NEW l \in Object, NEW r \in Object, NEW h, NEW s \in Shapes, Holds(r, h, s), HeapOK(h),
         Own(l) \subseteq DOMAIN h, NEW x, x = assign(l, r, h)
  PROVE  x.obj \in Object /\ Holds(x.obj, x.heap, s) /\ Alone(l, h, x.obj, x.heap)
<1>1. /\ r.size \in Nat /\ Len(s.sizes) = r.size /\ Len(s.strides) = r.size /\ MaxInline \in Nat
      /\ isInline(r) => \A k \in 1 .. r.size : /\ r.word[k - 1] = s.sizes[k]
                                               /\ r.word[MaxInline + k - 1] = s.strides[k]
      /\ ~isInline(r) => outOfLine(r) \in DOMAIN h /\ h[outOfLine(r)] = s.sizes \o s.strides
      /\ isInline(r) <=> r.size <= MaxInline
  BY HoldsIs, WordsAre
<1>2. CASE isInline(r)
  <2>1. x.obj = r /\ x.heap = IF isInline(l) THEN h ELSE Freed(h, outOfLine(l))
    BY <1>2 DEF assign
  <2>2. Holds(r, x.heap, s) /\ Alone(l, h, r, x.heap)
    BY <1>1, <1>2, <2>1, InlineIs
  <2> QED
    BY <2>1, <2>2
<1>3. CASE ~isInline(r)
  <2> PICK b : b = IF isInline(l) THEN FreshBlock(h) ELSE outOfLine(l)
    OBVIOUS
  <2> DEFINE y == [Pointing(l, b) EXCEPT !.size = r.size]
             g == Held(h, b, s.sizes \o s.strides)
  <2>1. x.obj = y /\ x.heap = g
    <3>1. x = [obj |-> y, heap |-> Held(h, b, h[outOfLine(r)])]
      BY <1>3 DEF assign
    <3>2. h[outOfLine(r)] = s.sizes \o s.strides
      BY <1>1, <1>3
    <3>3. x = [obj |-> y, heap |-> g]
      BY <3>1, <3>2, Zenon
    <3> HIDE DEF y, g
    <3> QED
      BY <3>3
  <2>2. b \in HeapBlocks /\ (IF isInline(l) THEN b \notin DOMAIN h ELSE b = outOfLine(l))
    BY DEF HeapOK, Own
  <2>3. r.size \in Nat /\ r.size > MaxInline /\ DOMAIN h \subseteq HeapBlocks
    BY <1>1, <1>3 DEF HeapOK
  <2>4. y \in Object /\ Holds(y, g, s) /\ Alone(l, h, y, g)
    BY <1>1, <2>2, <2>3, HeldIs
  <2> HIDE DEF y, g
  <2> QED
    BY <2>1, <2>4
<1> QED
  BY <1>2, <1>3

\* The shape s has moved from r to l: what is left of both, and the heap.
MovedTo(l, r, h, s, to, from, g) ==
  /\ to \in Object /\ from \in Object
  /\ Holds(to, g, s) /\ Holds(from, g, Moved) /\ Own(from) = {}
  /\ \A b \in DOMAIN h : b \notin Own(l) /\ b \notin Own(r) =>
       b \in DOMAIN g /\ g[b] = h[b] /\ b \notin Own(to)
  /\ \A b \in DOMAIN g : \/ b \in HeapBlocks /\ b \in Own(to)
                         \/ b \in DOMAIN h /\ b \notin Own(l) /\ b \notin Own(r)

LEMMA MoveAssignIs ==
  ASSUME NEW l \in Object, NEW r \in Object, NEW h, NEW s \in Shapes, Holds(r, h, s), HeapOK(h),
         Own(l) \cap Own(r) = {}, NEW x, x = moveAssign(l, r, h)
  PROVE  MovedTo(l, r, h, s, x.obj, x.from, x.heap)
<1>1. /\ r.size \in Nat /\ Len(s.sizes) = r.size /\ Len(s.strides) = r.size /\ MaxInline \in Nat
      /\ isInline(r) => \A k \in 1 .. r.size : /\ r.word[k - 1] = s.sizes[k]
                                               /\ r.word[MaxInline + k - 1] = s.strides[k]
      /\ ~isInline(r) => outOfLine(r) \in DOMAIN h /\ h[outOfLine(r)] = s.sizes \o s.strides
      /\ isInline(r) <=> r.size <= MaxInline
  <2>1. /\ r.size \in Nat
        /\ isInline(r) <=> r.size <= MaxInline
    BY DEF Object, isInline
  <2>2. MaxInline \in Nat
    BY WordsAre
  <2>3. /\ Len(s.sizes) = r.size /\ Len(s.strides) = r.size
        /\ isInline(r) => \A k \in 1 .. r.size : /\ r.word[k - 1] = s.sizes[k]
                                                 /\ r.word[MaxInline + k - 1] = s.strides[k]
        /\ ~isInline(r) => outOfLine(r) \in DOMAIN h /\ h[outOfLine(r)] = s.sizes \o s.strides
    BY Zenon DEF Holds
  <2> QED
    BY <2>1, <2>2, <2>3, Zenon
<1> PICK g : g = IF isInline(l) THEN h ELSE Freed(h, outOfLine(l))
  OBVIOUS
<1>2. DOMAIN g = DOMAIN h \ Own(l) /\ \A b \in DOMAIN g : g[b] = h[b]
  BY DEF Own, Freed
<1>3. ASSUME NEW z \in Object, z.size = 0 PROVE \A k : Holds(z, k, Moved) /\ Own(z) = {}
  <2>1. isInline(z)
    BY <1>1, <1>3 DEF isInline
  <2>2. Moved.sizes = <<>> /\ Moved.strides = <<>> /\ Len(<<>>) = 0
    BY DEF Moved
  <2> QED
    BY <1>3, <2>1, <2>2 DEF Holds, Own
<1>4. CASE isInline(r)
  <2>1. x.obj = r /\ x.from = [r EXCEPT !.size = 0] /\ x.heap = g
    BY <1>4 DEF moveAssign
  <2>2. [r EXCEPT !.size = 0] \in Object /\ [r EXCEPT !.size = 0].size = 0
    BY DEF Object
  <2>3. Own(r) = {}
    BY <1>4 DEF Own
  <2>4. Holds(r, g, s)
    BY <1>4 DEF Holds
  <2> QED
    BY <1>2, <1>3, <2>1, <2>2, <2>3, <2>4 DEF HeapOK, MovedTo
<1>5. CASE ~isInline(r)
  <2> PICK b : b = outOfLine(r)
    OBVIOUS
  <2> DEFINE y == [Pointing(l, b) EXCEPT !.size = r.size]
             z == [Pointing(r, 0) EXCEPT !.size = 0]
  <2>1. x.obj = y /\ x.from = z /\ x.heap = g
    BY <1>5 DEF moveAssign
  <2>2. Own(r) = {b} /\ b \in DOMAIN h /\ b \in HeapBlocks /\ h[b] = s.sizes \o s.strides /\ b \notin Own(l)
    BY <1>1, <1>5 DEF Own, HeapOK
  <2>3. b \in Int
    BY <2>2, SasAssumption, FS_CardinalityType DEF HeapBlocks
  <2>4. y \in Object /\ y.size = r.size /\ outOfLine(y) = b
    BY <1>1, <2>3, ObjectIs
  <2>5. z \in Object /\ z.size = 0
    BY ObjectIs
  <2> HIDE DEF y, z
  <2>6. ~isInline(y) /\ Own(y) = {b}
    BY <1>1, <1>5, <2>4 DEF isInline, Own
  <2>7. b \in DOMAIN g /\ g[b] = s.sizes \o s.strides
    BY <1>2, <2>2
  <2>8. Holds(y, g, s)
    BY <1>1, <2>4, <2>6, <2>7 DEF Holds
  <2>9. /\ \A c \in DOMAIN h : c \notin Own(l) /\ c \notin Own(r) =>
              c \in DOMAIN g /\ g[c] = h[c] /\ c \notin Own(y)
        /\ \A c \in DOMAIN g : \/ c \in HeapBlocks /\ c \in Own(y)
                               \/ c \in DOMAIN h /\ c \notin Own(l) /\ c \notin Own(r)
    BY <1>2, <2>2, <2>6
  <2> QED
    <3>1. Holds(z, g, Moved) /\ Own(z) = {}
      BY <1>3, <2>5
    <3>2. MovedTo(l, r, h, s, y, z, g)
      BY <2>4, <2>5, <2>8, <2>9, <3>1 DEF MovedTo
    <3> QED
      BY <2>1, <3>2
<1> QED
  BY <1>4, <1>5

-----------------------------------------------------------------------------
(* The calls *)

LEMMA HoldsNoNone ==
  ASSUME NEW r, NEW h, Holds(r, h, None)
  PROVE  FALSE
<1>1. None.sizes = <<-1>> /\ None.strides = <<>>
  BY DEF None
<1>2. Len(<<-1>>) = 1 /\ Len(<<>>) = 0
  OBVIOUS
<1> QED
  BY <1>1, <1>2 DEF Holds

LEMMA ObjectsAre ==
  ASSUME SInv, NEW o \in Obj
  PROVE  /\ obj[o] \in Object /\ shape[o] \in Shapes /\ HeapOK(heap)
         /\ (o \in Live => Holds(obj[o], heap, shape[o])) /\ (o \notin Live => Own(obj[o]) = {})
         /\ Own(obj[o]) \subseteq DOMAIN heap
<1>1. obj[o] \in Object /\ shape[o] \in Shapes
  BY DEF SInv
<1>2. HeapOK(heap)
  BY FreshIs DEF SInv, HeapOK
<1>3. (o \in Live => Holds(obj[o], heap, shape[o])) /\ (o \notin Live => Own(obj[o]) = {})
  BY DEF SInv, Own
<1>4. Own(obj[o]) \subseteq DOMAIN heap
  BY <1>3 DEF Holds, Own
<1> QED
  BY <1>1, <1>2, <1>3, <1>4

\* One object gets a shape, or is destroyed.
LEMMA OneCall ==
  ASSUME SInv, NEW o \in Obj, NEW r \in Object, NEW s \in Shapes,
         obj' = [obj EXCEPT ![o] = r], shape' = [shape EXCEPT ![o] = s],
         Holds(r, heap', s) \/ (s = None /\ isInline(r)), Alone(obj[o], heap, r, heap')
  PROVE  SInv'
<1>1. obj' \in [Obj -> Object] /\ shape' \in [Obj -> Shapes] /\ obj'[o] = r /\ shape'[o] = s
      /\ \A q \in Obj \ {o} : obj'[q] = obj[q] /\ shape'[q] = shape[q]
  BY DEF SInv
<1>2. IF s # None THEN Holds(r, heap', s) ELSE isInline(r)
  BY HoldsNoNone
<1>3. /\ \A b \in DOMAIN heap : b \notin Own(obj[o]) => b \in DOMAIN heap' /\ heap'[b] = heap[b] /\ b \notin Own(r)
      /\ \A b \in DOMAIN heap' : \/ b \in HeapBlocks /\ b \in Own(r)
                                 \/ b \in DOMAIN heap /\ b \notin Own(obj[o])
  BY DEF Alone
<1> DEFINE C == {o}
<1>4. C \subseteq Obj /\ \A q \in C : q = o
  OBVIOUS
<1>5. o \in C
  OBVIOUS
<1>6. \A q \in C : IF shape'[q] # None THEN Holds(obj'[q], heap', shape'[q]) ELSE isInline(obj'[q])
  BY <1>1, <1>2
<1>7. \A p, q \in C : p # q => Own(obj'[p]) \cap Own(obj'[q]) = {}
  BY <1>4
<1>8. \A b \in DOMAIN heap : (\A q \in C : b \notin Own(obj[q])) =>
        b \in DOMAIN heap' /\ heap'[b] = heap[b] /\ \A q \in C : b \notin Own(obj'[q])
  BY <1>1, <1>3
<1>9. \A b \in DOMAIN heap' :
        \/ b \in HeapBlocks /\ \E q \in C : b \in Own(obj'[q])
        \/ b \in DOMAIN heap /\ \A q \in C : b \notin Own(obj[q])
  BY <1>1, <1>3
<1>10. \A q \in Obj \ C : obj'[q] = obj[q] /\ shape'[q] = shape[q]
  BY <1>1
<1> HIDE DEF C
<1> QED
  BY <1>1, <1>4, <1>6, <1>7, <1>8, <1>9, <1>10, Changed DEF ChangeOf

\* One object takes what another had.
LEMMA TwoObjects ==
  ASSUME SInv, NEW o \in Obj, NEW r \in Live, o # r, NEW l, Own(l) = Own(obj[o]),
         NEW to, NEW from, MovedTo(l, obj[r], heap, shape[r], to, from, heap'),
         obj' = [obj EXCEPT ![o] = to, ![r] = from],
         shape' = [shape EXCEPT ![o] = shape[r], ![r] = Moved]
  PROVE  SInv'
<1>1. r \in Obj /\ shape[r] \in Shapes
  BY ObjectsAre DEF Live, SInv
<1>2. /\ to \in Object /\ from \in Object
      /\ Holds(to, heap', shape[r]) /\ Holds(from, heap', Moved) /\ Own(from) = {}
      /\ \A b \in DOMAIN heap : b \notin Own(l) /\ b \notin Own(obj[r]) =>
           b \in DOMAIN heap' /\ heap'[b] = heap[b] /\ b \notin Own(to)
      /\ \A b \in DOMAIN heap' : \/ b \in HeapBlocks /\ b \in Own(to)
                                 \/ b \in DOMAIN heap /\ b \notin Own(l) /\ b \notin Own(obj[r])
  BY DEF MovedTo
<1>3. Moved \in Shapes /\ Moved # None /\ shape[r] # None
  <2>1. Moved \in Shapes
    BY DEF Moved, Shapes
  <2>2. Moved.sizes # None.sizes
    BY DEF Moved, None
  <2>3. shape[r] # None
    BY DEF Live
  <2> QED
    BY <2>1, <2>2, <2>3
<1>4. /\ obj' \in [Obj -> Object] /\ shape' \in [Obj -> Shapes]
      /\ obj'[o] = to /\ obj'[r] = from /\ shape'[o] = shape[r] /\ shape'[r] = Moved
      /\ \A q \in Obj \ {o, r} : obj'[q] = obj[q] /\ shape'[q] = shape[q]
  BY <1>1, <1>2, <1>3 DEF SInv
<1> PICK C : C = {o, r}
  OBVIOUS
<1>5. C \subseteq Obj /\ \A q \in C : q = o \/ q = r
  BY <1>1
<1>6. \A q \in C : IF shape'[q] # None THEN Holds(obj'[q], heap', shape'[q]) ELSE isInline(obj'[q])
  <2>1. Holds(obj'[o], heap', shape'[o]) /\ Holds(obj'[r], heap', shape'[r])
    BY <1>2, <1>4, Zenon
  <2> QED
    BY <1>3, <1>4, <1>5, <2>1
<1>7. \A p, q \in C : p # q => Own(obj'[p]) \cap Own(obj'[q]) = {}
  BY <1>2, <1>4, <1>5
<1>8. ASSUME NEW b \in DOMAIN heap, \A q \in C : b \notin Own(obj[q])
      PROVE  b \in DOMAIN heap' /\ heap'[b] = heap[b] /\ \A q \in C : b \notin Own(obj'[q])
  <2>1. b \notin Own(l) /\ b \notin Own(obj[r])
    BY <1>8
  <2>2. b \in DOMAIN heap' /\ heap'[b] = heap[b] /\ b \notin Own(to)
    BY <1>2, <2>1
  <2> QED
    BY <1>2, <1>4, <1>5, <2>2
<1>9. ASSUME NEW b \in DOMAIN heap'
      PROVE  \/ b \in HeapBlocks /\ \E q \in C : b \in Own(obj'[q])
             \/ b \in DOMAIN heap /\ \A q \in C : b \notin Own(obj[q])
  <2>1. \/ b \in HeapBlocks /\ b \in Own(to)
        \/ b \in DOMAIN heap /\ b \notin Own(l) /\ b \notin Own(obj[r])
    BY <1>2, <1>9
  <2>2. o \in C
    OBVIOUS
  <2> QED
    BY <1>4, <1>5, <2>1, <2>2
<1>10. \A q \in Obj \ C : obj'[q] = obj[q] /\ shape'[q] = shape[q]
  BY <1>4
<1>11. \A b \in DOMAIN heap : (\A q \in C : b \notin Own(obj[q])) =>
         b \in DOMAIN heap' /\ heap'[b] = heap[b] /\ \A q \in C : b \notin Own(obj'[q])
  BY <1>8
<1>12. \A b \in DOMAIN heap' :
         \/ b \in HeapBlocks /\ \E q \in C : b \in Own(obj'[q])
         \/ b \in DOMAIN heap /\ \A q \in C : b \notin Own(obj[q])
  BY <1>9
<1>13. C \subseteq Obj /\ obj' \in [Obj -> Object] /\ shape' \in [Obj -> Shapes]
  BY <1>4, <1>5
<1>14. ChangeOf(C)
  BY <1>6, <1>7, <1>10, <1>11, <1>12, <1>13, Zenon DEF ChangeOf
<1> QED
  BY <1>14, Changed, Zenon

LEMMA TwoCall ==
  ASSUME SInv, NEW o \in Obj, NEW r \in Live, o # r, NEW l \in Object, Own(l) = Own(obj[o]),
         NEW x, x = moveAssign(l, obj[r], heap),
         obj' = [obj EXCEPT ![o] = x.obj, ![r] = x.from], heap' = x.heap,
         shape' = [shape EXCEPT ![o] = shape[r], ![r] = Moved]
  PROVE  SInv'
<1>1. /\ obj[r] \in Object /\ shape[r] \in Shapes /\ Holds(obj[r], heap, shape[r])
      /\ HeapOK(heap) /\ Own(l) \cap Own(obj[r]) = {}
  BY ObjectsAre DEF Live, SInv
<1>2. MovedTo(l, obj[r], heap, shape[r], x.obj, x.from, x.heap)
  BY <1>1, MoveAssignIs
<1> QED
  BY <1>2, TwoObjects

\* An object before its construction: no block, and words of no meaning.
LEMMA BlankIs ==
  /\ Blank \in Object /\ isInline(Blank) /\ Own(Blank) = {}
  /\ FirstStrideOne(Blank) = [size |-> 1, word |-> [Blank.word EXCEPT ![MaxInline] = 1]]
  /\ FirstStrideOne(Blank) \in Object /\ isInline(FirstStrideOne(Blank))
<1>1. MaxInline \in Nat \ {0} /\ Blank.size = 1 /\ Blank.word = [w \in Words |-> 0] /\ Blank \in Object
  BY SasAssumption DEF Blank, Object
<1>2. FirstStrideOne(Blank) = [size |-> 1, word |-> [Blank.word EXCEPT ![MaxInline] = 1]]
  BY DEF FirstStrideOne, Blank
<1>3. [Blank.word EXCEPT ![MaxInline] = 1] \in [Words -> Int]
  <2> PICK f \in [Words -> Int] : f = Blank.word
    BY <1>1
  <2>1. [f EXCEPT ![MaxInline] = 1] \in [Words -> Int]
    BY <1>1, WordsAre
  <2> QED
    BY <2>1
<1> QED
  BY <1>1, <1>2, <1>3 DEF Object, isInline, Own

LEMMA ConstructIs ==
  ASSUME SInv, NEW o \in Obj, Construct(o)
  PROVE  SInv'
<1> PICK r : r = FirstStrideOne(Blank)
  OBVIOUS
<1> PICK s : s = ShapeOf(<<0>>, <<1>>)
  OBVIOUS
<1>1. o \notin Live /\ obj' = [obj EXCEPT ![o] = r] /\ shape' = [shape EXCEPT ![o] = s] /\ heap' = heap
  BY DEF Construct, ShapeOf
<1>2. s \in Shapes /\ s.sizes = <<0>> /\ s.strides = <<1>> /\ Len(s.sizes) = 1 /\ Len(s.strides) = 1
      /\ s.sizes[1] = 0 /\ s.strides[1] = 1
  BY DEF ShapeOf, Shapes
<1>3. r \in Object /\ isInline(r) /\ r.size = 1 /\ r.word = [Blank.word EXCEPT ![MaxInline] = 1]
  BY BlankIs
<1>4. r.word[0] = 0 /\ r.word[MaxInline] = 1
  <2>1. MaxInline \in Nat \ {0} /\ 0 \in Words /\ MaxInline \in Words
    BY SasAssumption DEF Words
  <2>2. Blank.word = [w \in Words |-> 0]
    BY DEF Blank
  <2> QED
    BY <1>3, <2>1, <2>2
<1>5. obj[o] \in Object /\ isInline(obj[o])
  BY <1>1 DEF SInv
<1>6. \A k \in 1 .. r.size : r.word[k - 1] = s.sizes[k] /\ r.word[MaxInline + k - 1] = s.strides[k]
  <2>1. \A k \in 1 .. r.size : k = 1 /\ k - 1 = 0 /\ MaxInline + k - 1 = MaxInline
    BY <1>3, SasAssumption
  <2> QED
    BY <1>2, <1>4, <2>1
<1>7. Holds(r, heap, s) /\ Alone(obj[o], heap, r, heap)
  BY <1>2, <1>3, <1>5, <1>6, InlineIs
<1> QED
  BY <1>1, <1>2, <1>3, <1>7, OneCall

LEMMA CopyConstructIs ==
  ASSUME SInv, NEW o \in Obj, NEW r \in Obj, CopyConstruct(o, r)
  PROVE  SInv'
<1> PICK x : x = assign(Blank, obj[r], heap)
  OBVIOUS
<1>1. /\ o \notin Live /\ r \in Live /\ obj' = [obj EXCEPT ![o] = x.obj] /\ heap' = x.heap
      /\ shape' = [shape EXCEPT ![o] = shape[r]]
  BY DEF CopyConstruct
<1>2. /\ obj[r] \in Object /\ shape[r] \in Shapes /\ HeapOK(heap) /\ Holds(obj[r], heap, shape[r])
      /\ Own(obj[o]) = {}
  BY <1>1, ObjectsAre
<1>3. x.obj \in Object /\ Holds(x.obj, x.heap, shape[r]) /\ Alone(Blank, heap, x.obj, x.heap)
  BY <1>2, BlankIs, AssignIs
<1>4. Alone(obj[o], heap, x.obj, x.heap)
  BY <1>2, <1>3, BlankIs DEF Alone
<1> QED
  BY <1>1, <1>2, <1>3, <1>4, OneCall

LEMMA AssignShapeIs ==
  ASSUME SInv, NEW o \in Obj, NEW r \in Obj, AssignShape(o, r)
  PROVE  SInv'
<1> PICK x : x = assign(obj[o], obj[r], heap)
  OBVIOUS
<1>1. /\ r \in Live /\ obj' = [obj EXCEPT ![o] = x.obj] /\ heap' = x.heap
      /\ shape' = [shape EXCEPT ![o] = shape[r]]
  BY DEF AssignShape
<1>2. /\ obj[r] \in Object /\ shape[r] \in Shapes /\ HeapOK(heap) /\ Holds(obj[r], heap, shape[r])
      /\ obj[o] \in Object /\ Own(obj[o]) \subseteq DOMAIN heap
  BY <1>1, ObjectsAre
<1>3. x.obj \in Object /\ Holds(x.obj, x.heap, shape[r]) /\ Alone(obj[o], heap, x.obj, x.heap)
  BY <1>2, AssignIs
<1> QED
  BY <1>1, <1>2, <1>3, OneCall

LEMMA MovesAre ==
  ASSUME SInv, NEW o \in Obj, NEW r \in Obj, MoveConstruct(o, r) \/ MoveAssignShape(o, r)
  PROVE  SInv'
<1>1. CASE MoveConstruct(o, r)
  <2> PICK x : x = moveAssign(Blank, obj[r], heap)
    OBVIOUS
  <2>1. /\ o \notin Live /\ r \in Live /\ obj' = [obj EXCEPT ![o] = x.obj, ![r] = x.from]
        /\ heap' = x.heap /\ shape' = [shape EXCEPT ![o] = shape[r], ![r] = Moved]
    BY <1>1 DEF MoveConstruct
  <2>2. Own(Blank) = Own(obj[o]) /\ Blank \in Object /\ o # r
    BY <2>1, ObjectsAre, BlankIs
  <2> QED
    BY <2>1, <2>2, TwoCall
<1>2. CASE MoveAssignShape(o, r)
  <2> PICK x : x = moveAssign(obj[o], obj[r], heap)
    OBVIOUS
  <2>1. /\ r \in Live /\ o # r /\ obj' = [obj EXCEPT ![o] = x.obj, ![r] = x.from]
        /\ heap' = x.heap /\ shape' = [shape EXCEPT ![o] = shape[r], ![r] = Moved]
    BY <1>2 DEF MoveAssignShape
  <2>2. obj[o] \in Object
    BY ObjectsAre
  <2> QED
    BY <2>1, <2>2, TwoCall
<1> QED
  BY <1>1, <1>2

\* In g the object o has the shape of a and b, and the others the one f gives.
Reshaped(g, f, o, a, b) ==
  \/ g = [f EXCEPT ![o].sizes = a, ![o].strides = b]
  \/ g = [f EXCEPT ![o].strides = b] /\ a = f[o].sizes

LEMMA TwoFields ==
  ASSUME NEW a, NEW b, NEW f \in [Obj -> Shapes], NEW o \in Obj, NEW g, Reshaped(g, f, o, a, b)
  PROVE  g = [f EXCEPT ![o] = ShapeOf(a, b)]
<1>1. f[o] \in Shapes /\ DOMAIN f = Obj
  OBVIOUS
<1>2. [[f[o] EXCEPT !.sizes = a] EXCEPT !.strides = b] = ShapeOf(a, b)
      /\ [f[o] EXCEPT !.strides = b] = ShapeOf(f[o].sizes, b)
  <2> PICK u, v : f[o] = [sizes |-> u, strides |-> v]
    BY <1>1 DEF Shapes
  <2> DEFINE s == [sizes |-> u, strides |-> v]
  <2>1. [s EXCEPT !.sizes = a] = [sizes |-> a, strides |-> v]
    OBVIOUS
  <2>2. [[sizes |-> a, strides |-> v] EXCEPT !.strides = b] = [sizes |-> a, strides |-> b]
    OBVIOUS
  <2>3. [s EXCEPT !.strides = b] = [sizes |-> u, strides |-> b] /\ s.sizes = u
    OBVIOUS
  <2> HIDE DEF s
  <2>4. f[o] = s
    BY DEF s
  <2> QED
    BY <2>1, <2>2, <2>3, <2>4 DEF ShapeOf
<1>3. [f EXCEPT ![o].sizes = a, ![o].strides = b]
        = [f EXCEPT ![o] = [[f[o] EXCEPT !.sizes = a] EXCEPT !.strides = b]]
  BY <1>1
<1> QED
  BY <1>2, <1>3 DEF Reshaped

LEMMA ResizeCallIs ==
  ASSUME SInv, NEW o \in Obj, NEW n \in 0 .. MaxRank, Resize(o, n)
  PROVE  SInv'
<1> PICK x : x = resize(obj[o], heap, n)
  OBVIOUS
<1> PICK t : t = ShapeOf(Fitted(shape[o].sizes, n), Fitted(shape[o].strides, n))
  OBVIOUS
<1>1. /\ obj[o] \in Object /\ shape[o] \in Shapes /\ HeapOK(heap) /\ Holds(obj[o], heap, shape[o])
      /\ n \in Nat
  BY ObjectsAre, SasAssumption DEF Resize
<1>2. obj' = [obj EXCEPT ![o] = x.obj] /\ heap' = x.heap
  BY DEF Resize
<1>3. shape' = [shape EXCEPT ![o] = t]
  <2> PICK a, b : a = Fitted(shape[o].sizes, n) /\ b = Fitted(shape[o].strides, n)
    OBVIOUS
  <2> PICK g : g = shape'
    OBVIOUS
  <2>1. g = [shape EXCEPT ![o].sizes = a, ![o].strides = b]
    BY DEF Resize, SInv, Shapes
  <2>2. shape \in [Obj -> Shapes]
    BY DEF SInv
  <2>3. g = [shape EXCEPT ![o] = ShapeOf(a, b)]
    <3>1. Reshaped(g, shape, o, a, b)
      BY <2>1 DEF Reshaped
    <3> QED
      BY <2>2, <3>1, TwoFields, Zenon
  <2> QED
    BY <2>3
<1>4. x.obj \in Object /\ Holds(x.obj, x.heap, t) /\ Alone(obj[o], heap, x.obj, x.heap)
  BY <1>1, ResizeIs
<1>5. t \in Shapes
  BY <1>1, FittedShape
<1> QED
  BY <1>2, <1>3, <1>4, <1>5, OneCall

LEMMA CountingIs ==
  ASSUME NEW x \in Int, NEW n \in Nat
  PROVE  Counting(x, n) \in Seq(Int) /\ Len(Counting(x, n)) = n
BY DEF Counting

LEMMA SetSizesCallIs ==
  ASSUME SInv, NEW o \in Obj, NEW n \in 0 .. MaxRank, NEW v \in Extent, SetSizes(o, n, v)
  PROVE  SInv'
<1> PICK new : new = Counting(v, n)
  OBVIOUS
<1> PICK x : x = set_sizes(obj[o], heap, new)
  OBVIOUS
<1> PICK t : t = ShapeOf(new, Fitted(shape[o].strides, n))
  OBVIOUS
<1>1. /\ obj[o] \in Object /\ shape[o] \in Shapes /\ HeapOK(heap) /\ Holds(obj[o], heap, shape[o])
      /\ n \in Nat /\ v \in Nat
  BY ObjectsAre, SasAssumption DEF SetSizes
<1>2. new \in Seq(Int) /\ Len(new) = n
  BY <1>1, CountingIs
<1>3. obj' = [obj EXCEPT ![o] = x.obj] /\ heap' = x.heap
  BY DEF SetSizes
<1>4. shape' = [shape EXCEPT ![o] = t]
  <2> PICK a, b : a = new /\ b = Fitted(shape[o].strides, n)
    OBVIOUS
  <2> PICK g : g = shape'
    OBVIOUS
  <2>1. g = [shape EXCEPT ![o].sizes = a, ![o].strides = b]
    BY DEF SetSizes, SInv, Shapes
  <2>2. shape \in [Obj -> Shapes]
    BY DEF SInv
  <2>3. g = [shape EXCEPT ![o] = ShapeOf(a, b)]
    <3>1. Reshaped(g, shape, o, a, b)
      BY <2>1 DEF Reshaped
    <3> QED
      BY <2>2, <3>1, TwoFields, Zenon
  <2> QED
    BY <2>3
<1>5. x.obj \in Object /\ Holds(x.obj, x.heap, t) /\ Alone(obj[o], heap, x.obj, x.heap)
  BY <1>1, <1>2, SetSizesIs
<1>6. t \in Shapes
  BY <1>1, <1>2, ShapeIs, FittedIs DEF ShapeOf, Shapes
<1> QED
  BY <1>3, <1>4, <1>5, <1>6, OneCall

(* A call with another length than the rank throws and changes nothing. *)
LEMMA RefusedStrides ==
  ASSUME SInv, NEW o \in Obj, NEW n \in 0 .. MaxRank, NEW v \in Extent, SetStrides(o, n, v),
         n # Len(shape[o].sizes)
  PROVE  SInv'
<1> PICK new : new = Counting(v + MaxRank, n)
  OBVIOUS
<1>1. /\ obj[o] \in Object /\ shape[o] \in Shapes /\ Holds(obj[o], heap, shape[o])
      /\ v + MaxRank \in Int /\ n \in Nat
  BY ObjectsAre, SasAssumption DEF SetStrides
<1>2. Len(new) # obj[o].size
  BY <1>1, CountingIs, HoldsIs
<1>3. set_strides(obj[o], heap, new) = [obj |-> obj[o], heap |-> heap]
  BY <1>2, Zenon DEF set_strides
<1>4. obj' = [obj EXCEPT ![o] = obj[o]] /\ heap' = heap /\ shape' = shape
  <2> PICK s : s = set_strides(obj[o], heap, new)
    OBVIOUS
  <2>1. obj' = [obj EXCEPT ![o] = s.obj] /\ heap' = s.heap /\ shape' = shape
    BY DEF SetStrides
  <2>2. s.obj = obj[o] /\ s.heap = heap
    BY <1>3
  <2> QED
    BY <2>1, <2>2
<1>5. obj' = obj /\ heap' = heap /\ shape' = shape
  BY <1>4 DEF SInv
<1>6. ChangeOf({})
  BY <1>5 DEF ChangeOf, SInv
<1> QED
  BY <1>6, Changed, Zenon

LEMMA SetStridesCallIs ==
  ASSUME SInv, NEW o \in Obj, NEW n \in 0 .. MaxRank, NEW v \in Extent, SetStrides(o, n, v)
  PROVE  SInv'
<1> SUFFICES ASSUME n = Len(shape[o].sizes) PROVE SInv'
  BY RefusedStrides, Zenon
<1> PICK new : new = Counting(v + MaxRank, n)
  OBVIOUS
<1> PICK x : x = set_strides(obj[o], heap, new)
  OBVIOUS
<1> PICK t : t = ShapeOf(shape[o].sizes, new)
  OBVIOUS
<1>1. /\ obj[o] \in Object /\ shape[o] \in Shapes /\ HeapOK(heap) /\ Holds(obj[o], heap, shape[o])
      /\ v + MaxRank \in Int /\ n \in Nat
  BY ObjectsAre, SasAssumption DEF SetStrides
<1>2. new \in Seq(Int) /\ Len(new) = obj[o].size
  <2>1. new \in Seq(Int) /\ Len(new) = n
    BY <1>1, CountingIs
  <2>2. Len(shape[o].sizes) = obj[o].size
    BY <1>1, HoldsIs
  <2> QED
    BY <2>1, <2>2
<1>3. obj' = [obj EXCEPT ![o] = x.obj] /\ heap' = x.heap
  BY DEF SetStrides
<1>4. shape' = [shape EXCEPT ![o] = t]
  <2> PICK a, b : a = shape[o].sizes /\ b = new
    OBVIOUS
  <2> PICK g : g = shape'
    OBVIOUS
  <2>1. g = [shape EXCEPT ![o].strides = b]
    BY DEF SetStrides, SInv, Shapes
  <2>2. shape \in [Obj -> Shapes]
    BY DEF SInv
  <2>3. g = [shape EXCEPT ![o] = ShapeOf(a, b)]
    <3>1. Reshaped(g, shape, o, a, b)
      BY <2>1 DEF Reshaped
    <3> QED
      BY <2>2, <3>1, TwoFields, Zenon
  <2> QED
    BY <2>3
<1>5. x.obj \in Object /\ Holds(x.obj, x.heap, t) /\ Alone(obj[o], heap, x.obj, x.heap)
  BY <1>1, <1>2, SetStridesIs
<1>6. t \in Shapes
  BY <1>1, <1>2, ShapeIs DEF ShapeOf, Shapes
<1> QED
  BY <1>3, <1>4, <1>5, <1>6, OneCall

LEMMA DestroyIs ==
  ASSUME SInv, NEW o \in Obj, DestroyShape(o)
  PROVE  SInv'
<1>1. /\ obj' = [obj EXCEPT ![o] = Blank] /\ shape' = [shape EXCEPT ![o] = None]
      /\ heap' = IF isInline(obj[o]) THEN heap ELSE Freed(heap, outOfLine(obj[o]))
  BY DEF DestroyShape
<1>2. None \in Shapes
  BY DEF None, Shapes
<1>3. Alone(obj[o], heap, Blank, heap')
  BY <1>1, BlankIs DEF Alone, Own, Freed
<1> QED
  BY <1>1, <1>2, <1>3, BlankIs, OneCall

LEMMA InitShapes ==
  ASSUME SasInit
  PROVE  SInv
<1>1. None \in Shapes
  BY DEF None, Shapes
<1>2. obj \in [Obj -> Object] /\ shape \in [Obj -> Shapes] /\ heap = <<>>
  BY <1>1, BlankIs DEF SasInit
<1>3. \A o \in Obj : o \notin Live /\ isInline(obj[o]) /\ Own(obj[o]) = {}
  BY BlankIs DEF SasInit, Live
<1>4. DOMAIN heap = {}
  BY <1>2
<1> QED
  BY <1>2, <1>3, <1>4 DEF SInv, Live

LEMMA NextShapes ==
  ASSUME SInv, [SasNext]_sasVars
  PROVE  SInv'
<1>1. CASE UNCHANGED sasVars
  <2>1. obj' = obj /\ heap' = heap /\ shape' = shape
    BY <1>1 DEF sasVars
  <2>2. ChangeOf({})
    BY <2>1 DEF ChangeOf, SInv
  <2> QED
    BY <2>2, Changed, Zenon
<1>2. CASE SasNext
  <2> PICK o \in Obj :
        \/ Construct(o) \/ DestroyShape(o)
        \/ \E r \in Obj : \/ CopyConstruct(o, r) \/ MoveConstruct(o, r)
                          \/ AssignShape(o, r) \/ MoveAssignShape(o, r)
        \/ \E n \in 0 .. MaxRank : Resize(o, n)
        \/ \E n \in 0 .. MaxRank, x \in Extent : SetSizes(o, n, x) \/ SetStrides(o, n, x)
    BY <1>2, Zenon DEF SasNext
  <2>1. CASE Construct(o)
    BY <2>1, ConstructIs
  <2>2. CASE DestroyShape(o)
    BY <2>2, DestroyIs
  <2>3. CASE \E r \in Obj : \/ CopyConstruct(o, r) \/ MoveConstruct(o, r)
                            \/ AssignShape(o, r) \/ MoveAssignShape(o, r)
    BY <2>3, CopyConstructIs, AssignShapeIs, MovesAre, Zenon
  <2>4. CASE \E n \in 0 .. MaxRank : Resize(o, n)
    BY <2>4, ResizeCallIs, Zenon
  <2>5. CASE \E n \in 0 .. MaxRank, x \in Extent : SetSizes(o, n, x) \/ SetStrides(o, n, x)
    BY <2>5, SetSizesCallIs, SetStridesCallIs, Zenon
  <2> QED
    BY <2>1, <2>2, <2>3, <2>4, <2>5
<1> QED
  BY <1>1, <1>2

-----------------------------------------------------------------------------
(* What the invariant says of a reader *)

LEMMA HeldReads ==
  ASSUME NEW r \in Object, NEW s \in Shapes, Holds(r, heap, s)
  PROVE  sizes_arrayref(r) = s.sizes /\ strides_arrayref(r) = s.strides
<1> PICK n : n = r.size
  OBVIOUS
<1>2. /\ n \in Nat /\ Len(s.sizes) = n /\ Len(s.strides) = n
      /\ s.sizes \in Seq(Int) /\ s.strides \in Seq(Int)
      /\ isInline(r) => \A k \in 1 .. n : /\ r.word[k - 1] = s.sizes[k]
                                          /\ r.word[MaxInline + k - 1] = s.strides[k]
      /\ ~isInline(r) => heap[outOfLine(r)] = s.sizes \o s.strides
      /\ s.sizes = [k \in 1 .. n |-> s.sizes[k]]
      /\ s.strides = [k \in 1 .. n |-> s.strides[k]]
  BY HoldsIs
<1>3. \A k \in 1 .. n :
        /\ (IF isInline(r) THEN r.word[k - 1] ELSE heap[outOfLine(r)][k]) = s.sizes[k]
        /\ (IF isInline(r) THEN r.word[MaxInline + k - 1] ELSE heap[outOfLine(r)][n + k]) = s.strides[k]
  <2>1. CASE isInline(r)
    BY <1>2, <2>1
  <2>2. CASE ~isInline(r)
    <3>1. InHalves(s.sizes, s.strides, n)
      BY <1>2, Halves, Zenon
    <3>2. \A k \in 1 .. n : /\ (s.sizes \o s.strides)[k] = s.sizes[k]
                            /\ (s.sizes \o s.strides)[n + k] = s.strides[k]
      BY <3>1, Zenon DEF InHalves
    <3> PICK w : w = s.sizes \o s.strides
      OBVIOUS
    <3>3. heap[outOfLine(r)] = w
      BY <1>2, <2>2, Zenon
    <3>4. \A k \in 1 .. n : w[k] = s.sizes[k] /\ w[n + k] = s.strides[k]
      BY <3>2, Zenon
    <3> QED
      BY <2>2, <3>3, <3>4
  <2> QED
    BY <2>1, <2>2
<1>4. sizes_arrayref(r) = [k \in 1 .. n |-> s.sizes[k]]
  BY <1>3 DEF sizes_arrayref
<1>5. strides_arrayref(r) = [k \in 1 .. n |-> s.strides[k]]
  BY <1>3 DEF strides_arrayref
<1> QED
  BY <1>2, <1>4, <1>5, Zenon

LEMMA ReadsIs ==
  ASSUME SInv, NEW o \in Live
  PROVE  /\ sizes_arrayref(obj[o]) = shape[o].sizes
         /\ strides_arrayref(obj[o]) = shape[o].strides
<1>1. obj[o] \in Object /\ shape[o] \in Shapes /\ Holds(obj[o], heap, shape[o])
  BY ObjectsAre DEF Live
<1> QED
  BY <1>1, HeldReads

\* The blocks alive are as many as the objects that point at one.
LEMMA BlocksAre ==
  ASSUME SInv
  PROVE  Cardinality({o \in Live : ~isInline(obj[o])}) = Cardinality(DOMAIN heap)
<1> PICK S : S = {o \in Live : ~isInline(obj[o])}
  OBVIOUS
<1> PICK f : f = [o \in S |-> outOfLine(obj[o])]
  OBVIOUS
<1>1. \A o \in S : o \in Obj /\ o \in Live /\ ~isInline(obj[o])
  BY DEF Live
<1>2. \A o \in S : Own(obj[o]) = {f[o]}
  BY <1>1 DEF Own
<1>3. \A o \in S : f[o] \in DOMAIN heap
  BY <1>1, <1>2, ObjectsAre
<1>4. \A o, q \in S : f[o] = f[q] => o = q
  <2> SUFFICES ASSUME NEW o \in S, NEW q \in S, f[o] = f[q], o # q PROVE FALSE
    BY Zenon
  <2>1. Own(obj[o]) \cap Own(obj[q]) = {}
    BY <1>1 DEF SInv
  <2> QED
    BY <1>2, <2>1
<1>5. \A b \in DOMAIN heap : \E o \in S : f[o] = b
  <2> SUFFICES ASSUME NEW b \in DOMAIN heap PROVE \E o \in S : f[o] = b
    BY Zenon
  <2>1. PICK o \in Obj : b \in Own(obj[o])
    BY DEF SInv
  <2>2. ~isInline(obj[o]) /\ o \in Live
    BY <2>1 DEF Own, SInv
  <2> QED
    BY <1>2, <2>1, <2>2
<1>6. IsFiniteSet(S)
  <2>1. S \subseteq Obj
    BY <1>1
  <2> QED
    BY <2>1, SasAssumption, FS_Subset
<1> PICK D : D = DOMAIN heap
  OBVIOUS
<1>7. f \in Surjection(S, D) /\ f \in Injection(S, D)
  <2>1. f \in [S -> D]
    BY <1>3
  <2>2. \A o, q \in S : f[o] = f[q] => o = q
    BY <1>4
  <2>3. \A b \in D : \E o \in S : f[o] = b
    BY <1>5
  <2> QED
    BY <2>1, <2>2, <2>3 DEF Surjection, Injection, IsInjective
<1>8. Cardinality(S) = Cardinality(D)
  BY <1>6, <1>7, FS_Surjection
<1> QED
  BY <1>8

\* Equal words, or equal blocks, hold equal shapes.
LEMMA EqualIs ==
  ASSUME SInv, NEW a \in Live, NEW b \in Live, Equal(obj[a], obj[b])
  PROVE  shape[a] = shape[b]
<1>1. /\ obj[a].size = obj[b].size
      /\ IF isInline(obj[a]) THEN obj[a].word = obj[b].word
                             ELSE heap[outOfLine(obj[a])] = heap[outOfLine(obj[b])]
  BY DEF Equal
<1>2. isInline(obj[a]) <=> isInline(obj[b])
  BY <1>1 DEF isInline
<1>3. sizes_arrayref(obj[a]) = sizes_arrayref(obj[b])
  BY <1>1, <1>2 DEF sizes_arrayref
<1>4. strides_arrayref(obj[a]) = strides_arrayref(obj[b])
  BY <1>1, <1>2 DEF strides_arrayref
<1>5. shape[a].sizes = shape[b].sizes /\ shape[a].strides = shape[b].strides
  BY <1>3, <1>4, ReadsIs
<1>6. shape[a] \in Shapes /\ shape[b] \in Shapes
  BY ObjectsAre DEF Live
<1> QED
  BY <1>5, <1>6 DEF Shapes

LEMMA ShapesHold ==
  ASSUME SInv
  PROVE  ShapesSurvive
<1>1. \A o \in Live : isInline(obj[o]) \/ outOfLine(obj[o]) \in DOMAIN heap
  BY DEF SInv, Holds
<1>2. DimsSurvive
  BY <1>1, ReadsIs, BlocksAre, Zenon DEF DimsSurvive
<1>3. EqualOnlyIfSame
  BY EqualIs, Zenon DEF EqualOnlyIfSame
<1> QED
  BY <1>2, <1>3 DEF ShapesSurvive

\* An object's shape is where the invariant says: in its own words up to the
\* inline limit and above it in one block no other object has
\* (terminals/sizes_and_strides.h, resizeSlowPath and the assignments).
THEOREM ShapesAreHeld == SasSpec => []SInv
<1>1. SasInit => SInv
  BY InitShapes
<1>2. SInv /\ [SasNext]_sasVars => SInv'
  BY NextShapes
<1> QED
  BY <1>1, <1>2, PTL DEF SasSpec

\* Every shape reads as the calls on it asked for, no block is leaked, shared
\* or freed under a reader, and shapes that compare equal are equal, for any
\* number of objects, any inline limit, any rank and any extents.
THEOREM ShapesAlwaysSurvive == SasSpec => []ShapesSurvive
<1>1. SInv => ShapesSurvive
  BY ShapesHold
<1> QED
  BY <1>1, ShapesAreHeld, PTL
=============================================================================
