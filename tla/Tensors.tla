------------------------------ MODULE Tensors ------------------------------
(***************************************************************************)
(* Tensors that own a buffer, borrow one from another tensor, or wrap one  *)
(* of the caller's, and the expressions evaluated between them.  A tensor  *)
(* reads memory through its sizes and strides; views change only those.    *)
(*                                                                         *)
(* Beside what the program keeps, a model keeps what each tensor means:    *)
(* array[n] is its shape and, in row-major order, the cells it is made of; *)
(* store is what was last written to a cell.  A view has cells of its      *)
(* source, a copy has cells of its own.  Cells are numbered as the packed  *)
(* addresses of the buffer a tensor was created with.                      *)
(***************************************************************************)
EXTENDS Evaluator

CONSTANTS Names,          \* tensors of the program
          MaxBlocks,      \* buffers that can be live at once
          Span,           \* addresses set aside for each buffer
          Dims,           \* shapes tensors are created with
          Strides,        \* steps of a slice
          Devices         \* devices tensors are created on

ASSUME SpanAssumption == Span % BlockAlign = 0

VARIABLES tensor,         \* the tensors that exist, by name
          mem,            \* what every address holds
          live,           \* the buffers allocated and not yet freed
          array, store    \* what the tensors mean

tensorVars == <<tensor, mem, live, array, store>>

Block_ == 1 .. MaxBlocks
base(b) == b * Span
External == (MaxBlocks + 1) * Span      \* a buffer of the caller's, never freed
Addresses == 0 .. ((MaxBlocks + 2) * Span - 1)
Garbage == 99
Null == 0

Product(dims) == FoldLeft(LAMBDA p, d : p * d, 1, dims)

-----------------------------------------------------------------------------
(* Shapes and strides *)

compute_total(dims) == Product(dims)

\* Row-major strides, from the last dimension to the first.
make_contiguous_sas(dims) ==
    [sizes |-> dims,
     strides |-> [k \in DOMAIN dims |-> Product(SubSeq(dims, k + 1, Len(dims)))]]

\* Every dimension of more than one index has the packed stride of what is inside it.
packed(sas) ==
    LET outer(k) == Product(SubSeq(sas.sizes, k + 1, Len(sas.sizes)))
    IN  \A k \in DOMAIN sas.sizes : sas.sizes[k] # 1 => sas.strides[k] = outer(k)

\* A tensor over window elements at address at.
recompute_cpu_simd_alignment_state(sas, at, window, device, owner) ==
    LET n == IF sas.sizes = <<>> THEN 0 ELSE Product(sas.sizes)
        flat == n = 0 \/ packed(sas)
        start == IF device # "cpu" \/ n = 0 \/ ~flat THEN 0 ELSE first_aligned(at, n)
    IN  [sizes |-> sas.sizes, strides |-> sas.strides, at |-> at, window |-> window,
         device |-> device, owner |-> owner, numel |-> n, contiguous |-> flat,
         align_start |-> start,
         align_end |-> IF device # "cpu" \/ n = 0 \/ ~flat THEN 0
                       ELSE last_aligned(start, n, Length)]

Empty == [sizes |-> <<>>, strides |-> <<>>, at |-> Null, window |-> 0, device |-> "cpu",
          owner |-> 0, numel |-> 0, contiguous |-> TRUE, align_start |-> 0, align_end |-> 0]

\* Mutant: the handle of the buffer stays behind.
MovedFrom_owner(t) == [Empty EXCEPT !.owner = t.owner]

\* What is left of a tensor moved from: its shape has rank 0, its view is empty.
MovedFrom(t) == Empty

\* A view of t with another shape, starting offset elements further.
borrow(t, sas, offset) ==
    recompute_cpu_simd_alignment_state(sas, t.at + offset,
        IF t.window > offset THEN t.window - offset ELSE 0, t.device, 0)

-----------------------------------------------------------------------------
(* Element access *)

logical_offset(t, flat) ==
    LET next(acc, k) == [off |-> acc.off + (acc.rem % t.sizes[k]) * t.strides[k],
                         rem |-> acc.rem \div t.sizes[k]]
    IN  IF t.contiguous THEN flat
        ELSE FoldLeft(next, [off |-> 0, rem |-> flat],
                      Reverse([k \in DOMAIN t.sizes |-> k])).off

linearized_index(t, coord) ==
    FoldLeft(LAMBDA s, k : s + coord[k] * t.strides[k], 0, [k \in DOMAIN coord |-> k])

\* The odometer of gather_logical: the last coordinate turns first, a coordinate that
\* wraps takes its strides back.
RECURSIVE Turn(_, _, _, _)
Turn(t, coord, off, k) ==
    IF k = 0 THEN [coord |-> coord, off |-> off]
    ELSE LET turned == [coord EXCEPT ![k] = @ + 1]
             past == off + t.strides[k]
         IN  IF turned[k] < t.sizes[k] THEN [coord |-> turned, off |-> past]
             ELSE Turn(t, [turned EXCEPT ![k] = 0], past - turned[k] * t.strides[k], k - 1)

\* The values of t in row-major order, out of storage that starts at address at.
gather_logical(t, storage, at) ==
    LET next(acc, i) ==
            LET s == Turn(t, acc.coord, acc.off, Len(t.sizes))
            IN  [coord |-> s.coord, off |-> s.off, dst |-> Append(acc.dst, storage[at + acc.off])]
    IN  IF t.contiguous THEN [i \in 1 .. t.numel |-> storage[at + i - 1]]
        ELSE FoldLeft(next, [coord |-> [k \in DOMAIN t.sizes |-> 0], off |-> 0, dst |-> <<>>],
                      [i \in 1 .. t.numel |-> i]).dst

\* A strided GPU tensor is downloaded as its whole window, then gathered.
copy_logical_to_host(t) ==
    LET window == [a \in Addresses |-> IF a \in t.at .. (t.at + t.window - 1) THEN mem[a] ELSE Garbage]
    IN  gather_logical(t, IF t.device = "cpu" \/ t.contiguous THEN mem ELSE window, t.at)

Value(t, i) == mem[t.at + logical_offset(t, i)]

\* operator==: shapes first, then values; a GPU side is brought to the CPU.
Values(t) == IF t.device = "cpu" THEN [i \in 1 .. t.numel |-> Value(t, i - 1)]
                                 ELSE copy_logical_to_host(t)

equal(t, u) == t.sizes = u.sizes /\ Values(t) = Values(u)

\* t(i, j): the elements of the other dimensions are those at index 0.
entry(t, i, j) ==
    LET strides == IF t.device = "cpu" THEN t.strides ELSE make_contiguous_sas(t.sizes).strides
    IN  IF t.device = "cpu" THEN mem[t.at + i * strides[1] + j * strides[2]]
        ELSE copy_logical_to_host(t)[i * strides[1] + j * strides[2] + 1]

\* Predicates of a tensor; a GPU tensor is brought to the CPU and asked there.  Numbers
\* closer than the epsilon of the value type are equal, as integers are.
is_almost_zero(x) == x = 0
all_logical(t, pred(_)) == \A x \in ToSet(Values(t)) : pred(x)
is_zero(t) == all_logical(t, is_almost_zero)
non_negative(t) == all_logical(t, LAMBDA v : v >= 0)
positive(t) == all_logical(t, LAMBDA v : v > 0)

Square(t) == Len(t.sizes) >= 2 /\ t.sizes[1] = t.sizes[2]
Rows(t) == 0 .. (t.sizes[1] - 1)
symmetric(t) ==
    Square(t) /\ \A i \in Rows(t) : \A j \in 0 .. (i - 1) : is_almost_zero(entry(t, i, j) - entry(t, j, i))
identity(t) ==
    Square(t) /\ \A i, j \in Rows(t) : entry(t, i, j) = Truth(i = j)
is_correlation(t) ==
    /\ Square(t)
    /\ \A i \in Rows(t) :
          /\ is_almost_zero(entry(t, i, i) - 1)
          /\ \A j \in 0 .. (i - 1) : /\ Magnitude(entry(t, i, j)) <= 1
                                     /\ is_almost_zero(entry(t, i, j) - entry(t, j, i))
trace(t) == FoldLeft(LAMBDA s, i : s + entry(t, i - 1, i - 1), 0, [i \in 1 .. t.sizes[1] |-> i])

\* A reduction of a bare tensor walks its buffer flat, along its alignment.
reduce(op, t) == reduce_cpu(op, View(t.at, t.numel, t.device, 0),
                            [at |-> t.at, n |-> t.numel, align_start |-> t.align_start,
                             align_end |-> t.align_end], mem)

-----------------------------------------------------------------------------
(* What tensors mean *)

\* The multi-index of element k of a row-major array, and back.
Multi(dims, k) == [d \in DOMAIN dims |->
    (k \div Product(SubSeq(dims, d + 1, Len(dims)))) % dims[d]]
Flat(dims, index) ==
    FoldLeft(LAMBDA s, d : s * dims[d] + index[d], 0, [d \in DOMAIN dims |-> d])

NewArray(dims, at) == [sizes |-> dims, cell |-> [k \in 1 .. Product(dims) |-> at + k - 1]]
NoArray == [sizes |-> <<>>, cell |-> <<>>]

\* The array of shape dims whose element at an index is the element of a at from(index).
Rearranged(a, dims, from(_)) ==
    [sizes |-> dims,
     cell |-> [k \in 1 .. Product(dims) |-> a.cell[Flat(a.sizes, from(Multi(dims, k - 1))) + 1]]]

Content(a) == [k \in DOMAIN a.cell |-> store[a.cell[k]]]

-----------------------------------------------------------------------------
(* Buffers *)

Exists(n) == n \in DOMAIN tensor
Fresh(n) == ~Exists(n)
Owner(n) == tensor[n].owner

\* The tensors that borrow from the buffer n owns.  The source of a view outlives it.
Borrowers(n) == {m \in DOMAIN tensor \ {n} :
                    Owner(n) # 0 /\ tensor[m].at \in base(Owner(n)) .. (base(Owner(n)) + Span - 1)}
Disposable(n) == Borrowers(n) = {}

FreeBlock == CHOOSE b \in Block_ \ live : \A c \in Block_ \ live : b <= c
CanAllocate == Block_ \ live # {}

\* Buffer b with the values from address base(b) on, every other address of it garbage.
Filled(m, b, values) ==
    [a \in Addresses |->
        IF a \notin base(b) .. (base(b) + Span - 1) THEN m[a]
        ELSE IF a - base(b) < Len(values) THEN values[a - base(b) + 1] ELSE Garbage]
Unfilled(m, b) == IF b = 0 THEN m ELSE Filled(m, b, <<>>)

With(f, n, x) == [m \in DOMAIN f \cup {n} |-> IF m = n THEN x ELSE f[m]]
Without(f, n) == [m \in DOMAIN f \ {n} |-> f[m]]

\* n becomes t, a tensor of the array dims over a new buffer that holds values; what n
\* owned before is freed.  A tensor with no element has no buffer.
Own(n, sas, dims, values, device, content) ==
    LET old == IF Exists(n) THEN Owner(n) ELSE 0
        b == FreeBlock
        t == recompute_cpu_simd_alignment_state(sas, base(b), Len(values), device, b)
        none == recompute_cpu_simd_alignment_state(sas, Null, 0, device, 0)
    IN  IF values = <<>>
        THEN /\ tensor' = With(tensor, n, none)
             /\ array' = With(array, n, [sizes |-> dims, cell |-> <<>>])
             /\ live' = live \ {old}
             /\ mem' = Unfilled(mem, old)
             /\ store' = Unfilled(store, old)
        ELSE /\ CanAllocate
             /\ tensor' = With(tensor, n, t)
             /\ array' = With(array, n, NewArray(dims, base(b)))
             /\ live' = (live \ {old}) \cup {b}
             /\ mem' = Unfilled(Filled(mem, b, values), old)
             /\ store' = Unfilled(Filled(store, b, content), old)

-----------------------------------------------------------------------------
(* Creation *)

Numbers(k) == [i \in 1 .. k |-> i]

\* tensor(n), tensor(rows, cols), tensor(dims) and the list and range constructors.
Make(n, dims, device) ==
    /\ Fresh(n)
    /\ Own(n, make_contiguous_sas(dims), dims, Numbers(compute_total(dims)), device,
           Numbers(compute_total(dims)))

\* A tensor over the caller's buffer, at any alignment.
Wrap(n, dims, shift) ==
    /\ Fresh(n)
    /\ tensor' = With(tensor, n, recompute_cpu_simd_alignment_state(
                        make_contiguous_sas(dims), External + shift, compute_total(dims), "cpu", 0))
    /\ array' = With(array, n, NewArray(dims, External + shift))
    /\ UNCHANGED <<mem, live, store>>

\* The elements from where a tensor starts to the end of what it borrows.
Window(t) == [k \in 1 .. t.window |-> mem[t.at + k - 1]]

\* A copy clones the window of the source and keeps its strides.
Copy(n, m) ==
    /\ Fresh(n) /\ Exists(m)
    /\ LET t == tensor[m]
       IN  Own(n, [sizes |-> t.sizes, strides |-> t.strides], array[m].sizes, Window(t), t.device,
               Content(array[m]))

CopyAssign(n, m) ==
    /\ Exists(n) /\ Exists(m) /\ n # m
    /\ Disposable(n)
    /\ LET t == tensor[m]
       IN  Own(n, [sizes |-> t.sizes, strides |-> t.strides], array[m].sizes, Window(t), t.device,
               Content(array[m]))

Move(n, m) ==
    /\ Fresh(n) /\ Exists(m)
    /\ tensor' = With([tensor EXCEPT ![m] = MovedFrom(tensor[m])], n, tensor[m])
    /\ array' = With([array EXCEPT ![m] = NoArray], n, array[m])
    /\ UNCHANGED <<mem, live, store>>

\* The buffer n owned is released, even when m has none to give.
MoveAssign(n, m) ==
    /\ Exists(n) /\ Exists(m) /\ n # m
    /\ Disposable(n)
    /\ tensor' = [tensor EXCEPT ![n] = tensor[m], ![m] = MovedFrom(tensor[m])]
    /\ array' = [array EXCEPT ![n] = array[m], ![m] = NoArray]
    /\ live' = live \ {Owner(n)}
    /\ mem' = Unfilled(mem, Owner(n))
    /\ store' = Unfilled(store, Owner(n))

\* clone, and to_cpu of a GPU or strided tensor: the elements packed in row-major order.
Packed(n, m, values, device) ==
    Own(n, make_contiguous_sas(tensor[m].sizes), array[m].sizes, values, device, Content(array[m]))

Clone(n, m) ==
    /\ Fresh(n) /\ Exists(m)
    /\ Packed(n, m, IF tensor[m].contiguous THEN [i \in 1 .. tensor[m].numel |-> mem[tensor[m].at + i - 1]]
                    ELSE copy_logical_to_host(tensor[m]), tensor[m].device)

Destroy(n) ==
    /\ Exists(n) /\ Disposable(n)
    /\ tensor' = Without(tensor, n)
    /\ array' = Without(array, n)
    /\ live' = live \ {Owner(n)}
    /\ mem' = Unfilled(mem, Owner(n))
    /\ store' = Unfilled(store, Owner(n))

-----------------------------------------------------------------------------
(* Views *)

BorrowAs(n, t, a) ==
    /\ tensor' = With(tensor, n, t)
    /\ array' = With(array, n, a)
    /\ UNCHANGED <<mem, live, store>>

Shape(t) == [sizes |-> t.sizes, strides |-> t.strides]

permute(t, order) == borrow(t, [sizes |-> [k \in DOMAIN order |-> t.sizes[order[k]]],
                                strides |-> [k \in DOMAIN order |-> t.strides[order[k]]]], 0)

Orders(k) == {p \in [1 .. k -> 1 .. k] : \A i, j \in 1 .. k : p[i] = p[j] => i = j}

\* t() is the permutation <<2, 1>>.
Permute(n, m) ==
    /\ Fresh(n) /\ Exists(m)
    /\ \E order \in Orders(Len(tensor[m].sizes)) \ {Numbers(Len(tensor[m].sizes))} :
          LET a == array[m]
              dims == [k \in DOMAIN order |-> a.sizes[order[k]]]
              from(index) == [d \in DOMAIN a.sizes |-> index[CHOOSE k \in DOMAIN order : order[k] = d]]
          IN  BorrowAs(n, permute(tensor[m], order), Rearranged(a, dims, from))

\* view and reshape.
Reshape(n, m, dims) ==
    /\ Fresh(n) /\ Exists(m)
    /\ tensor[m].contiguous
    /\ compute_total(dims) = tensor[m].numel
    /\ BorrowAs(n, borrow(tensor[m], make_contiguous_sas(dims), 0),
                [sizes |-> dims, cell |-> array[m].cell])

\* contiguous, and to_cpu of a packed CPU tensor: a borrow where no copy is needed.
Contiguous(n, m) ==
    /\ Fresh(n) /\ Exists(m)
    /\ IF tensor[m].contiguous THEN BorrowAs(n, borrow(tensor[m], Shape(tensor[m]), 0), array[m])
                               ELSE Clone(n, m)

to_cpu(n, m) ==
    /\ Fresh(n) /\ Exists(m)
    /\ IF tensor[m].contiguous /\ tensor[m].device = "cpu"
       THEN BorrowAs(n, borrow(tensor[m], Shape(tensor[m]), 0), array[m])
       ELSE Packed(n, m, copy_logical_to_host(tensor[m]), "cpu")

\* A negative start counts from the end, a negative stop is the end.
Start(start, dim_size) == LET s == IF start < 0 THEN start + dim_size ELSE start
                      IN  Smaller(IF s < 0 THEN 0 ELSE s, dim_size)
Stop(stop, dim_size) == IF stop < 0 THEN dim_size ELSE Smaller(stop, dim_size)

\* Mutant: the window starts by the stride of the slice, not of the source.
slice_step(t, dim, start, stop, step) ==
    LET dim_size == t.sizes[dim]
        first == Start(start, dim_size)
        span == Stop(stop, dim_size) - first
        new_size == IF span > 0 THEN (span + step - 1) \div step ELSE 0
    IN  borrow(t, [sizes |-> [t.sizes EXCEPT ![dim] = new_size],
                   strides |-> [t.strides EXCEPT ![dim] = @ * step]], first * t.strides[dim] * step)

slice(t, dim, start, stop, step) ==
    LET dim_size == t.sizes[dim]
        first == Start(start, dim_size)
        span == Stop(stop, dim_size) - first
        new_size == IF (span > 0 /\ step > 0) \/ (span < 0 /\ step < 0)
                    THEN (Magnitude(span) + Magnitude(step) - 1) \div Magnitude(step) ELSE 0
    IN  borrow(t, [sizes |-> [t.sizes EXCEPT ![dim] = new_size],
                   strides |-> [t.strides EXCEPT ![dim] = @ * step]], first * t.strides[dim])

\* The indices a slice keeps, in the order it keeps them.
Kept(dim_size, start, stop, step) ==
    SelectSeq([k \in 1 .. dim_size |-> Start(start, dim_size) + (k - 1) * step],
              LAMBDA i : IF step > 0 THEN i < Stop(stop, dim_size) ELSE i > Stop(stop, dim_size))

Slice(n, m, dim, start, stop, step) ==
    /\ Fresh(n) /\ Exists(m)
    /\ dim \in DOMAIN tensor[m].sizes
    /\ step < 0 => Start(start, tensor[m].sizes[dim]) < tensor[m].sizes[dim]
    /\ LET a == array[m]
           kept == Kept(a.sizes[dim], start, stop, step)
           from(index) == [index EXCEPT ![dim] = kept[@ + 1]]
       IN  BorrowAs(n, slice(tensor[m], dim, start, stop, step),
                    Rearranged(a, [a.sizes EXCEPT ![dim] = Len(kept)], from))

-----------------------------------------------------------------------------
(* Expressions *)

Target(t) == [at |-> t.at, n |-> t.numel, align_start |-> t.align_start, align_end |-> t.align_end]
store_operand(t) == View(t.at, t.numel, t.device, 0)

\* 7 - a, and the larger of a and b.
Trees(a, b) == {binary_expression("sub", Number(7), a), binary_expression("max", a, b)}

evaluated(e, t) == IF t.device = "cpu" THEN run_cpu(e, Target(t), mem) ELSE run_gpu(e, Target(t), mem)

\* What the tree denotes, read from the cells before any is written.
Meaning(e, a) == [k \in 1 .. Len(a.cell) |-> Denotes(e, mem, k - 1)]

\* An operand is the destination itself or lies off it: the loops read what they wrote.
Apart(t, u) == u.at = t.at \/ ~buffers_overlap(t.at, t.numel, u.at, u.numel)

\* The device of a new tensor is that of its operands, which must share one.
infer_expression_placement(e) == accumulate_expression_device(e)

Operands(n, a, b) ==
    /\ Exists(a) /\ Exists(b)
    /\ \A m \in {a, b} : tensor[m].contiguous /\ tensor[m].numel = tensor[b].numel

Assign(n, a, b) ==
    /\ Exists(n) /\ Operands(n, a, b)
    /\ LET t == tensor[n]
       IN  /\ t.contiguous /\ t.numel = tensor[b].numel
           /\ \A m \in {a, b} : Apart(t, tensor[m]) /\ tensor[m].device = t.device
           /\ \E e \in Trees(store_operand(tensor[a]), store_operand(tensor[b])) :
                 /\ mem' = evaluated(e, t)
                 /\ store' = [c \in Addresses |->
                        IF c \in ToSet(array[n].cell)
                        THEN Meaning(e, array[n])[CHOOSE k \in DOMAIN array[n].cell : array[n].cell[k] = c]
                        ELSE store[c]]
           /\ UNCHANGED <<tensor, live, array>>

\* init_from_expression: a packed tensor of rank 1 where the operands are.
FromExpression(n, a, b) ==
    /\ Fresh(n) /\ Operands(n, a, b)
    /\ tensor[b].numel > 0 /\ CanAllocate
    /\ LET k == tensor[b].numel
           sas == make_contiguous_sas(<<k>>)
           at == base(FreeBlock)
       IN  \E e \in Trees(store_operand(tensor[a]), store_operand(tensor[b])) :
              LET t == recompute_cpu_simd_alignment_state(sas, at, k, infer_expression_placement(e),
                                                          FreeBlock)
                  done == evaluated(e, t)
                  values == [i \in 1 .. k |-> done[at + i - 1]]
              IN  /\ ~MixesDevices(e)
                  /\ Own(n, sas, <<k>>, values, t.device, Meaning(e, NewArray(<<k>>, at)))

\* operator=(scalar) writes through a packed destination; a strided one is refused.
AssignScalar(n, v) ==
    /\ Exists(n) /\ tensor[n].contiguous
    /\ mem' = IF tensor[n].device = "cpu" THEN fill_cpu(v, Target(tensor[n]), mem)
                                          ELSE fill_gpu(v, Target(tensor[n]), mem)
    /\ store' = [c \in Addresses |-> IF c \in ToSet(array[n].cell) THEN v ELSE store[c]]
    /\ UNCHANGED <<tensor, live, array>>

copy_from_host(n, values) ==
    /\ Exists(n) /\ tensor[n].contiguous
    /\ LET t == tensor[n] IN
       mem' = [a \in Addresses |-> IF a \in t.at .. (t.at + t.numel - 1) THEN values[a - t.at + 1] ELSE mem[a]]
    /\ store' = [c \in Addresses |->
                    IF c \in ToSet(array[n].cell)
                    THEN values[CHOOSE k \in DOMAIN array[n].cell : array[n].cell[k] = c] ELSE store[c]]
    /\ UNCHANGED <<tensor, live, array>>

\* A write through one element, at any stride.
Write(n, i, v) ==
    /\ Exists(n) /\ i \in 0 .. (tensor[n].numel - 1)
    /\ mem' = [mem EXCEPT ![tensor[n].at + logical_offset(tensor[n], i)] = v]
    /\ store' = [store EXCEPT ![array[n].cell[i + 1]] = v]
    /\ UNCHANGED <<tensor, live, array>>

-----------------------------------------------------------------------------
(* Programs *)

TensorsInit ==
    /\ tensor = <<>>
    /\ mem = [a \in Addresses |-> IF a >= External THEN a - External + 1 ELSE Garbage]
    /\ live = {}
    /\ array = <<>>
    /\ store = mem

\* A wrapped buffer starts on a boundary of blocks, of registers only, or off both.
Create(n) ==
    \/ \E dims \in Dims, device \in Devices : Make(n, dims, device)
    \/ \E dims \in Dims, shift \in {0, 1, SimdAlign} : Wrap(n, dims, shift)

Derive(n, m) ==
    \/ Copy(n, m) \/ Move(n, m) \/ Clone(n, m) \/ Contiguous(n, m) \/ to_cpu(n, m) \/ Permute(n, m)
    \/ \E dims \in Dims : Reshape(n, m, dims)
    \/ \E dim \in 1 .. 2, start \in -1 .. 1, stop \in {-1, 1, 2}, step \in Strides :
          Slice(n, m, dim, start, stop, step)

Replace(n, m) == CopyAssign(n, m) \/ MoveAssign(n, m)

Change(n) ==
    \/ \E a, b \in Names : Assign(n, a, b)
    \/ AssignScalar(n, 0)
    \/ Exists(n) /\ copy_from_host(n, [k \in 1 .. tensor[n].numel |-> 7 - k])
    \/ Exists(n) /\ Write(n, tensor[n].numel - 1, 0)

TensorsNext ==
    \E n \in Names :
        \/ Create(n)
        \/ \E m \in Names : Derive(n, m) \/ Replace(n, m)
        \/ \E a, b \in Names : FromExpression(n, a, b)
        \/ Change(n)
        \/ Destroy(n)

-----------------------------------------------------------------------------
(* Properties *)

\* What t answers against the numbers of the array it means, a matrix or not.  Without
\* elements there is nothing to compare: two equal extents beside an empty one make the
\* code read past the buffer.
PredicatesHold(t, a) ==
    LET numbers == ToSet(a.content)
        matrix == Len(a.sizes) >= 2 /\ a.sizes[1] = a.sizes[2]
        index == 0 .. (a.sizes[1] - 1)
        x(i, j) == a.content[Flat(a.sizes, [d \in DOMAIN a.sizes |->
                                 CASE d = 1 -> i [] d = 2 -> j [] OTHER -> 0]) + 1]
        mirrored == \A i, j \in index : x(i, j) = x(j, i)
    IN  a.content # <<>> =>
        /\ is_zero(t) <=> numbers = {0}
        /\ non_negative(t) <=> ~\E v \in numbers : v < 0
        /\ positive(t) <=> ~\E v \in numbers : v <= 0
        /\ symmetric(t) <=> matrix /\ mirrored
        /\ identity(t) <=> matrix /\ \A i, j \in index : x(i, j) = (IF i = j THEN 1 ELSE 0)
        /\ is_correlation(t) <=>
               matrix /\ mirrored /\ (\A i \in index : x(i, i) = 1)
                      /\ \A i, j \in index : Magnitude(x(i, j)) <= 1
        /\ matrix => trace(t) = FoldLeft(LAMBDA s, i : s + x(i - 1, i - 1), 0,
                                        [i \in 1 .. a.sizes[1] |-> i])

\* Every element of every tensor is the one its history says, by the flat index, by the
\* multi-index and by the gather that downloads or packs it; a predicate holds of a tensor
\* when it is true of the array it means; and two tensors compare equal exactly when they
\* mean the same array.
ReadsItsElements ==
    /\ \A n \in DOMAIN tensor :
          LET t == tensor[n]
              want == Content(array[n])
          IN  /\ t.numel = Len(want)
              /\ \A k \in 1 .. t.numel :
                    /\ Value(t, k - 1) = want[k]
                    /\ mem[t.at + linearized_index(t, Multi(array[n].sizes, k - 1))] = want[k]
              /\ copy_logical_to_host(t) = want
              /\ PredicatesHold(t, [sizes |-> array[n].sizes, content |-> want])
    /\ \A n, m \in DOMAIN tensor :
          equal(tensor[n], tensor[m]) <=>
              array[n].sizes = array[m].sizes /\ Content(array[n]) = Content(array[m])

\* Every buffer allocated has exactly one owner, and no tensor looks into a freed one.
BuffersOwned ==
    /\ \A b \in live : Cardinality({n \in DOMAIN tensor : Owner(n) = b}) = 1
    /\ \A n \in DOMAIN tensor :
          /\ Owner(n) # 0 => Owner(n) \in live
          /\ tensor[n].numel > 0 => tensor[n].at >= External \/ tensor[n].at \div Span \in live

\* A reduction takes in the elements of the tensor.
ReductionReadsItsElements ==
    \A n \in DOMAIN tensor :
        tensor[n].device = "cpu" =>
            reduce("sum", tensor[n]) = FoldLeft(LAMBDA r, x : r + x, 0, Content(array[n]))
=============================================================================
