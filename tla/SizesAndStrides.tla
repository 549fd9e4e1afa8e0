-------------------------- MODULE SizesAndStrides --------------------------
(***************************************************************************)
(* The small-vector that holds a tensor's sizes and strides                *)
(* (Vectorization/terminals/sizes_and_strides.h and .cpp).  Up to          *)
(* MaxInline dimensions live inside the object, in one array of            *)
(* 2 * MaxInline words; above that the object holds a pointer to a heap    *)
(* block of 2 * size words.  The pointer is a union member of the inline   *)
(* array: it IS word 0, and writing either destroys the other.  Which one  *)
(* is meant is decided by size_ alone.                                     *)
(*                                                                         *)
(* A heap block is named by an integer of HeapBlocks, which no dimension   *)
(* is; the null pointer is 0.  Allocation does not fail here.              *)
(***************************************************************************)
EXTENDS Integers, Sequences, FiniteSets

CONSTANTS Obj,         \* the objects (a slot may be unconstructed)
          MaxInline,   \* MAX_INLINE_SIZE (5 in the code)
          MaxRank,     \* bound: the highest rank asked for
          Extent       \* a caller writes x, x + 1, ... (strides from x + MaxRank)

ASSUME SasAssumption ==
    IsFiniteSet(Obj) /\ MaxInline \in Nat \ {0} /\ MaxRank \in Nat /\ Extent \subseteq Nat

VARIABLES obj,     \* [size, word] per object
          heap,    \* the live heap blocks: block -> its words
          shape    \* what the calls so far ask for: None or [sizes, strides]

sasVars == <<obj, heap, shape>>

None == [sizes |-> <<-1>>, strides |-> <<>>]
HeapBlocks == {1000 + k : k \in 1..(2 * Cardinality(Obj))}
Words == 0..(2 * MaxInline - 1)

isInline(r) == r.size <= MaxInline
outOfLine(r) == r.word[0]

(* sizes_data() and strides_data() followed by size() entries. *)
sizes_arrayref(r) ==
    [k \in 1..r.size |-> IF isInline(r) THEN r.word[k - 1]
                                        ELSE heap[outOfLine(r)][k]]
strides_arrayref(r) ==
    [k \in 1..r.size |-> IF isInline(r) THEN r.word[MaxInline + k - 1]
                                        ELSE heap[outOfLine(r)][r.size + k]]

(* operator==: memcmp of the whole inline array, or of the two blocks. *)
Equal(a, b) ==
    /\ a.size = b.size
    /\ IF isInline(a) THEN a.word = b.word
                      ELSE heap[outOfLine(a)] = heap[outOfLine(b)]

FreshBlock(h) == CHOOSE b \in HeapBlocks : b \notin DOMAIN h
Freed(h, b) == [c \in DOMAIN h \ {b} |-> h[c]]
Held(h, b, words) == [c \in DOMAIN h \cup {b} |-> IF c = b THEN words ELSE h[c]]
Pointing(r, b) == [r EXCEPT !.word[0] = b]

-----------------------------------------------------------------------------
(* What one call leaves: the object and the heap. *)

Zero(k) == [i \in 1..k |-> 0]

(* resizeSlowPath: the entries move in, out or within the heap.             *)
resizeSlowPath(r, h, n) ==
    LET old == r.size
        here == IF isInline(r) THEN <<>> ELSE h[outOfLine(r)]
        keep == IF old < n THEN old ELSE n
        pad == Zero(n - keep)
        block == IF isInline(r)
                 THEN [k \in 1..old |-> r.word[k - 1]] \o pad
                      \o [k \in 1..old |-> r.word[MaxInline + k - 1]] \o pad
                 ELSE SubSeq(here, 1, keep) \o pad
                      \o SubSeq(here, old + 1, old + keep) \o pad
        b == IF isInline(r) THEN FreshBlock(h) ELSE outOfLine(r)
    IN  IF n <= MaxInline
        THEN [obj |-> [size |-> n,
                       word |-> [w \in Words |->
                           IF w < MaxInline THEN here[w + 1]
                                            ELSE here[old + w - MaxInline + 1]]],
              heap |-> Freed(h, outOfLine(r))]
        ELSE [obj |-> [Pointing(r, b) EXCEPT !.size = n], heap |-> Held(h, b, block)]

(* resize: the fast path zero-fills the new entries of both halves.         *)
resize(r, h, n) ==
    CASE n = r.size -> [obj |-> r, heap |-> h]
      [] n # r.size /\ n <= MaxInline /\ isInline(r) ->
            [obj |-> [size |-> n,
                      word |-> [w \in Words |->
                          IF {w, w - MaxInline} \cap (r.size..(n - 1)) # {} THEN 0 ELSE r.word[w]]],
             heap |-> h]
      [] OTHER -> resizeSlowPath(r, h, n)

(* set_sizes: resize, then copy over the sizes. *)
set_sizes(r, h, new) ==
    LET s == resize(r, h, Len(new))
    IN  IF isInline(s.obj)
        THEN [s EXCEPT !.obj.word =
                 [w \in Words |-> IF w < Len(new) THEN new[w + 1] ELSE s.obj.word[w]]]
        ELSE [s EXCEPT !.heap[outOfLine(s.obj)] =
                 new \o SubSeq(@, Len(new) + 1, Len(@))]

(* set_strides: throws on another length, changing nothing; copies over the *)
(* strides.                                                                 *)
set_strides(r, h, new) ==
    IF Len(new) # r.size THEN [obj |-> r, heap |-> h]
    ELSE IF isInline(r)
    THEN [obj |-> [r EXCEPT !.word =
                     [w \in Words |-> IF w - MaxInline \in 0..(Len(new) - 1)
                                      THEN new[w - MaxInline + 1] ELSE r.word[w]]],
          heap |-> h]
    ELSE [obj |-> r,
          heap |-> [h EXCEPT ![outOfLine(r)] = SubSeq(@, 1, r.size) \o new]]

(* Copy assignment: an inline source is copied whole (after a block of the  *)
(* target is freed); an outline one is copied into a fresh or resized block.*)
assign(l, r, h) ==
    IF isInline(r)
    THEN [obj |-> r, heap |-> IF isInline(l) THEN h ELSE Freed(h, outOfLine(l))]
    ELSE LET b == IF isInline(l) THEN FreshBlock(h) ELSE outOfLine(l)
         IN  [obj |-> [Pointing(l, b) EXCEPT !.size = r.size],
              heap |-> Held(h, b, h[outOfLine(r)])]

moveAssign_leak(l, r, h) ==   \* mutant: the target's own block is not freed
    IF isInline(r)
    THEN [obj |-> r, from |-> [r EXCEPT !.size = 0], heap |-> h]
    ELSE [obj |-> [Pointing(l, outOfLine(r)) EXCEPT !.size = r.size],
          from |-> [Pointing(r, 0) EXCEPT !.size = 0], heap |-> h]

(* Move assignment: an outline block is stolen and the source's pointer     *)
(* cleared; either way the source ends with size 0.                         *)
moveAssign(l, r, h) ==
    LET h1 == IF isInline(l) THEN h ELSE Freed(h, outOfLine(l))
    IN  IF isInline(r)
        THEN [obj |-> r, from |-> [r EXCEPT !.size = 0], heap |-> h1]
        ELSE [obj |-> [Pointing(l, outOfLine(r)) EXCEPT !.size = r.size],
              from |-> [Pointing(r, 0) EXCEPT !.size = 0],
              heap |-> h1]

-----------------------------------------------------------------------------
(* The calls. *)

Live == {o \in Obj : shape[o] # None}
Blank == [size |-> 1, word |-> [w \in Words |-> 0]]
FirstStrideOne(r) == [r EXCEPT !.word[MaxInline] = 1]
Counting(x, n) == [k \in 1..n |-> x + k]
Moved == [sizes |-> <<>>, strides |-> <<>>]

SasInit == /\ obj = [o \in Obj |-> Blank]
           /\ heap = <<>>
           /\ shape = [o \in Obj |-> None]

Construct(o) ==
    /\ o \notin Live
    /\ obj' = [obj EXCEPT ![o] = FirstStrideOne(Blank)]
    /\ shape' = [shape EXCEPT ![o] = [sizes |-> <<0>>, strides |-> <<1>>]]
    /\ UNCHANGED heap

CopyConstruct(o, r) ==
    /\ o \notin Live /\ r \in Live
    /\ LET s == assign(Blank, obj[r], heap)
       IN  obj' = [obj EXCEPT ![o] = s.obj] /\ heap' = s.heap
    /\ shape' = [shape EXCEPT ![o] = shape[r]]

MoveConstruct(o, r) ==
    /\ o \notin Live /\ r \in Live
    /\ LET s == moveAssign(Blank, obj[r], heap)
       IN  obj' = [obj EXCEPT ![o] = s.obj, ![r] = s.from] /\ heap' = s.heap
    /\ shape' = [shape EXCEPT ![o] = shape[r], ![r] = Moved]

AssignShape(o, r) ==
    /\ {o, r} \subseteq Live /\ o # r
    /\ LET s == assign(obj[o], obj[r], heap)
       IN  obj' = [obj EXCEPT ![o] = s.obj] /\ heap' = s.heap
    /\ shape' = [shape EXCEPT ![o] = shape[r]]

MoveAssignShape(o, r) ==
    /\ {o, r} \subseteq Live /\ o # r
    /\ LET s == moveAssign(obj[o], obj[r], heap)
       IN  obj' = [obj EXCEPT ![o] = s.obj, ![r] = s.from] /\ heap' = s.heap
    /\ shape' = [shape EXCEPT ![o] = shape[r], ![r] = Moved]

Fitted(s, n) == IF n <= Len(s) THEN SubSeq(s, 1, n) ELSE s \o Zero(n - Len(s))

Resize(o, n) ==
    /\ o \in Live
    /\ LET s == resize(obj[o], heap, n)
       IN  obj' = [obj EXCEPT ![o] = s.obj] /\ heap' = s.heap
    /\ shape' = [shape EXCEPT ![o].sizes = Fitted(@, n), ![o].strides = Fitted(@, n)]

SetSizes(o, n, x) ==
    /\ o \in Live
    /\ LET s == set_sizes(obj[o], heap, Counting(x, n))
       IN  obj' = [obj EXCEPT ![o] = s.obj] /\ heap' = s.heap
    /\ shape' = [shape EXCEPT ![o].sizes = Counting(x, n), ![o].strides = Fitted(@, n)]

SetStrides(o, n, x) ==
    /\ o \in Live
    /\ LET s == set_strides(obj[o], heap, Counting(x + MaxRank, n))
       IN  obj' = [obj EXCEPT ![o] = s.obj] /\ heap' = s.heap
    /\ shape' = IF n = Len(shape[o].sizes)
                THEN [shape EXCEPT ![o].strides = Counting(x + MaxRank, n)] ELSE shape

DestroyShape(o) ==
    /\ o \in Live
    /\ heap' = IF isInline(obj[o]) THEN heap ELSE Freed(heap, outOfLine(obj[o]))
    /\ obj' = [obj EXCEPT ![o] = Blank]
    /\ shape' = [shape EXCEPT ![o] = None]

SasNext ==
    \E o \in Obj :
        \/ Construct(o) \/ DestroyShape(o)
        \/ \E r \in Obj : \/ CopyConstruct(o, r) \/ MoveConstruct(o, r)
                          \/ AssignShape(o, r) \/ MoveAssignShape(o, r)
        \/ \E n \in 0..MaxRank : Resize(o, n)
        \/ \E n \in 0..MaxRank, x \in Extent : SetSizes(o, n, x) \/ SetStrides(o, n, x)

SasSpec == SasInit /\ [][SasNext]_sasVars

-----------------------------------------------------------------------------
(* Every object reads as the sizes and strides its calls asked for, and the *)
(* blocks alive are exactly the ones the outline objects point at, each by  *)
(* one object: nothing leaked, shared or freed under a reader.              *)
DimsSurvive ==
    /\ \A o \in Live : isInline(obj[o]) \/ outOfLine(obj[o]) \in DOMAIN heap
    /\ \A o \in Live : /\ sizes_arrayref(obj[o]) = shape[o].sizes
                       /\ strides_arrayref(obj[o]) = shape[o].strides
    /\ Cardinality({o \in Live : ~isInline(obj[o])}) = Cardinality(DOMAIN heap)

(* Two objects that compare equal describe the same shape.  (The converse   *)
(* is not so: operator== also compares inline words past the rank.)         *)
EqualOnlyIfSame ==
    \A a, b \in Live : Equal(obj[a], obj[b]) => shape[a] = shape[b]

(* Every shape reads as the sizes and strides its calls asked for,          *)
(* whichever of the two places keeps them, no block of storage is leaked,   *)
(* shared or freed under a reader, and shapes that compare equal are equal  *)
(* (terminals/sizes_and_strides.h).                                         *)
ShapesSurvive == DimsSurvive /\ EqualOnlyIfSame
=============================================================================
