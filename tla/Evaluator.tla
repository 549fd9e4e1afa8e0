----------------------------- MODULE Evaluator -----------------------------
(***************************************************************************)
(* Evaluating an expression into a packed buffer, filling one, scattering  *)
(* into one and reducing an expression to a number, on the CPU and on a    *)
(* GPU.                                                                    *)
(*                                                                         *)
(* A loop over a buffer is a plan: the sequence of steps the loops take,   *)
(* each naming the index it starts at, whether it moves a register or one  *)
(* element, and whether its loads and its store demand alignment.  A step  *)
(* reads memory as the steps before it left it, so what an operand that    *)
(* overlaps the destination sees is what the program would see.            *)
(***************************************************************************)
EXTENDS Expressions

CONSTANTS PacketSize,     \* registers of an unrolled round, VECTORIZATION_PACKET_SIZE
          Block,          \* threads of a GPU block
          Huge            \* the largest number of the value type

\* The tree reduction of a block halves it until one element is left.
ASSUME BlockAssumption == \E k \in 0 .. 10 : Block = 2 ^ k
ASSUME PacketAssumption == PacketSize \in Nat \ {0}

-----------------------------------------------------------------------------
(* Where the aligned body of a buffer starts and ends *)

first_aligned(at, n) == Smaller((SimdAlign - (at % SimdAlign)) % SimdAlign, n)

last_aligned(start, n, width) == start + ((n - start) \div width) * width

-----------------------------------------------------------------------------
(* Loops *)

\* for (; i < end; i += stride), as the indices it visits and the index it leaves.
Rounds(i, end, stride) == IF i < end THEN ((end - i) + stride - 1) \div stride ELSE 0
Loop(i, end, stride) == [k \in 1 .. Rounds(i, end, stride) |-> i + (k - 1) * stride]
Past(i, end, stride) == i + Rounds(i, end, stride) * stride

Steps(indices, vector, load, store, slot(_)) ==
    [k \in DOMAIN indices |->
        [at |-> indices[k], vector |-> vector, load |-> load, store |-> store, slot |-> slot(k)]]

Elements(i, end) == Steps(Loop(i, end, 1), FALSE, FALSE, FALSE, LAMBDA k : 0)

\* Registers one by one.
Registers(i, end, load, store) ==
    Steps(Loop(i, end, Length), TRUE, load, store, LAMBDA k : 0)

\* Whole rounds of PacketSize registers, each register with its own slot, then what
\* is left of the range one register at a time.
unroll(i, end, load, store) ==
    LET block == Length * PacketSize
        block_end == i + ((end - i) \div block) * block
        rounds == Rounds(i, block_end, block)
        register(k) == i + ((k - 1) \div PacketSize) * block + ((k - 1) % PacketSize) * Length
    IN  Steps([k \in 1 .. (rounds * PacketSize) |-> register(k)], TRUE, load, store,
              LAMBDA k : (k - 1) % PacketSize)
        \o Registers(Past(i, block_end, block), end, load, store)

\* Scalar prologue up to the aligned start, aligned body, unaligned body, scalar tail.
Peeled(t, body(_, _, _, _), load) ==
    LET cap == t.align_start
        loop_peel2 == t.align_end + ((t.n - t.align_end) \div Length) * Length
    IN  IF cap >= t.n THEN Elements(0, cap)
        ELSE Elements(0, cap)
             \o body(cap, t.align_end, load, TRUE)
             \o body(t.align_end, loop_peel2, FALSE, FALSE)
             \o Elements(loop_peel2, t.n)

\* Mutant: aligned loads although the body starts past the first element.
run_plan_peeled(e, t) == Peeled(t, unroll, expression_operands_aligned(e))

run_plan(e, t) ==
    Peeled(t, unroll, t.align_start = 0 /\ expression_operands_aligned(e))

fill_plan(t) == Peeled(t, Registers, FALSE)

\* A tensor is reduced along its own alignment with aligned loads, any other
\* expression from its first element with unaligned ones.
reduce_plan(e, t) ==
    IF IsView(e) THEN Peeled(t, unroll, TRUE)
    ELSE LET loop_peel == Length * (t.n \div Length)
         IN  unroll(0, loop_peel, FALSE, FALSE) \o Elements(loop_peel, t.n)

\* The addresses a step of a loop over destination t writes.
Written(t, s) == {t.at + s.at + l : l \in IF s.vector THEN Lane ELSE {0}}

-----------------------------------------------------------------------------
(* CPU loops *)

Take(e, t, mem, s) ==
    LET x == evaluate(e, mem, s.at, s.vector)
        y == IF s.vector /\ ~x.packet THEN set(x) ELSE x
    IN  [a \in DOMAIN mem |-> IF a \in Written(t, s) THEN y.lane[a - t.at - s.at] ELSE mem[a]]

run_cpu(e, t, mem) == FoldLeft(LAMBDA m, s : Take(e, t, m, s), mem, run_plan(e, t))

fill_cpu(v, t, mem) == FoldLeft(LAMBDA m, s : Take(Number(v), t, m, s), mem, fill_plan(t))

\* from[i] goes to to[k + i * index]: whole registers through the scatter of the
\* instruction set, the rest element by element.
scatter(from, to, k, index, mem) ==
    LET loop_peel == Length * (from.n \div Length)
        data == to.at + k
        put(m, s) ==
            [a \in DOMAIN m |->
                LET hit == {l \in IF s.vector THEN Lane ELSE {0} : a = data + (s.at + l) * index}
                IN  IF hit # {} THEN m[from.at + s.at + CHOOSE l \in hit : \A j \in hit : j <= l]
                                ELSE m[a]]
    IN  FoldLeft(put, mem, Registers(0, loop_peel, FALSE, FALSE) \o Elements(loop_peel, from.n))

-----------------------------------------------------------------------------
(* Reductions *)

reduce_identity(op) == CASE op = "sum" -> 0 [] op = "min" -> Huge [] op = "max" -> -Huge

reduce_combine(op, a, b) ==
    CASE op = "sum" -> a + b [] op = "min" -> Smaller(a, b) [] op = "max" -> Larger(a, b)

Horizontal(op, lane) ==
    FoldLeft(LAMBDA a, l : reduce_combine(op, a, lane[l]), lane[0], [k \in 1 .. (Length - 1) |-> k])

\* One accumulator register per slot, combined after the last register, beside a
\* scalar accumulator for the prologue and the tail.
reduce_cpu(op, e, t, mem) ==
    LET plan == reduce_plan(e, t)
        scalars == SelectSeq(plan, LAMBDA s : ~s.vector)
        registers == SelectSeq(plan, LAMBDA s : s.vector)
        start == [k \in 0 .. (PacketSize - 1) |-> [l \in Lane |-> reduce_identity(op)]]
        add(x, y) == [l \in Lane |-> reduce_combine(op, x[l], y[l])]
        packet == FoldLeft(LAMBDA p, s :
                      [p EXCEPT ![s.slot] = add(@, evaluate(e, mem, s.at, TRUE).lane)],
                      start, registers)
        combined == FoldLeft(LAMBDA x, k : add(x, packet[k]), packet[0],
                             [k \in 1 .. (PacketSize - 1) |-> k])
    IN  FoldLeft(LAMBDA r, s : reduce_combine(op, r, Denotes(e, mem, s.at)),
                 reduce_combine(op, reduce_identity(op), Horizontal(op, combined)), scalars)

accumulate(e, t, mem) == reduce_cpu("sum", e, t, mem)
hmin(e, t, mem) == reduce_cpu("min", e, t, mem)
hmax(e, t, mem) == reduce_cpu("max", e, t, mem)

\* The device of a reduction is that of the first buffer of the tree; every other
\* buffer must be on it.  The stream is the first buffer's, whatever the others are on.
MixesDevices(e) == \E v, w \in ToSet(Leaves(e)) : v.device # w.device
accumulate_expression_device(e) == IF Leaves(e) = <<>> THEN "cpu" ELSE Leaves(e)[1].device

-----------------------------------------------------------------------------
(* GPU kernels *)

Blocks(n) == (n + Block - 1) \div Block

\* The threads of the grid that have an element.
Threads(n) == {tid \in 0 .. (Blocks(n) * Block - 1) : tid < n}

\* Each thread reads what was there before and writes its own element.
run_gpu(e, t, mem) ==
    [a \in DOMAIN mem |-> IF a - t.at \in Threads(t.n) THEN Denotes(e, mem, a - t.at) ELSE mem[a]]

fill_gpu(v, t, mem) == [a \in DOMAIN mem |-> IF a - t.at \in Threads(t.n) THEN v ELSE mem[a]]

\* The threads below the stride take in their partner, then the stride is halved.
RECURSIVE Halved(_, _, _)
Halved(op, smem, stride) ==
    IF stride = 0 THEN smem[0]
    ELSE Halved(op, [i \in DOMAIN smem |->
                        IF i < stride THEN reduce_combine(op, smem[i], smem[i + stride]) ELSE smem[i]],
                stride \div 2)

\* One partial per block; threads past the end contribute the identity.
gpu_reduce_kernel(op, in, n) ==
    [b \in 0 .. (Blocks(n) - 1) |->
        Halved(op, [i \in 0 .. (Block - 1) |->
                       IF b * Block + i < n THEN in[b * Block + i] ELSE reduce_identity(op)],
               Block \div 2)]

RECURSIVE reduce_gpu_partials(_, _, _)
reduce_gpu_partials(op, buf, n) ==
    IF n > 1 THEN reduce_gpu_partials(op, gpu_reduce_kernel(op, buf, n), Blocks(n))
             ELSE buf[0]

reduce_gpu(op, e, n, mem) ==
    IF n = 0 THEN reduce_identity(op)
    ELSE reduce_gpu_partials(op, gpu_reduce_kernel(op, [i \in 0 .. (n - 1) |-> Denotes(e, mem, i)], n), Blocks(n))
=============================================================================
