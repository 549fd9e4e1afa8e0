---------------------------- MODULE MetalFusion ----------------------------
(***************************************************************************)
(* A whole expression tree compiled to one Metal kernel.  The walk of the  *)
(* tree hands every buffer and every scalar a numbered slot and writes the *)
(* body of the kernel over those slots; the host then binds the buffers,   *)
(* the scalars, the destination and the length to consecutive arguments.   *)
(* A kernel is kept under its source, so a tree of the same shape reuses   *)
(* it with other buffers and other scalars.                                *)
(***************************************************************************)
EXTENDS Evaluator

CONSTANTS MaxSlots        \* buffers, and scalars, a plan has room for: kMaxSlots

\* Arguments a kernel may have: the slots, the destination and the length.
MaxArguments == MaxSlots + 2

\* Operators with a kernel function; the cumulative normal and its inverse have none.
Supported == Unary \cup Arithmetic \cup Comparison \cup Logic \cup {"fma", "if_else"}

RECURSIVE metal_expr_fusable(_)
metal_expr_fusable(e) == is_pure_expression(e) =>
    /\ e.op \in Supported
    /\ \A k \in DOMAIN e.args : metal_expr_fusable(e.args[k])

-----------------------------------------------------------------------------
(* The plan: slots, and the body of the kernel as a term over them *)

metal_fuse_state == [buffers |-> <<>>, scalars |-> <<>>, ok |-> TRUE]

Term(fn, args) == [fn |-> fn, args |-> args]
In(k) == Term("in", <<k>>)
C(k) == Term("c", <<k>>)
Nothing == Term("nothing", <<>>)

metal_fuse_fail(st) == [st |-> [st EXCEPT !.ok = FALSE], body |-> Nothing]

\* What a node writes around the pieces of its operands, in the order written.  A
\* square repeats the piece; a selection names the false value first.
Body(op, piece) == IF op = "sqr" THEN Term("mul", <<piece[1], piece[1]>>)
                   ELSE IF op = "if_else" THEN Term("select", piece)
                   ELSE Term(op, piece)

\* Mutant: a selection is walked in the order of its operands.
Order_straight(e) == [k \in DOMAIN e.args |-> k]

Order(e) == IF e.op = "if_else" THEN <<3, 2, 1>> ELSE [k \in DOMAIN e.args |-> k]

RECURSIVE metal_fuse_emit(_, _)
metal_fuse_emit(e, st) ==
    CASE IsView(e) ->
           IF ~st.ok \/ Len(st.buffers) >= MaxSlots THEN metal_fuse_fail(st)
           ELSE [st |-> [st EXCEPT !.buffers = Append(@, e.at)], body |-> In(Len(st.buffers) + 1)]
      [] IsNumber(e) ->
           IF ~st.ok \/ Len(st.scalars) >= MaxSlots THEN metal_fuse_fail(st)
           ELSE [st |-> [st EXCEPT !.scalars = Append(@, e.value)], body |-> C(Len(st.scalars) + 1)]
      [] OTHER ->
           LET next(acc, k) == LET r == metal_fuse_emit(e.args[k], acc.st)
                               IN  [st |-> r.st, piece |-> Append(acc.piece, r.body)]
               all == FoldLeft(next, [st |-> st, piece |-> <<>>], Order(e))
           IN  [st |-> all.st, body |-> Body(e.op, all.piece)]

metal_fuse_fits(st) == st.ok /\ Len(st.buffers) + Len(st.scalars) + 2 <= MaxArguments

metal_fuse_source(st, body) ==
    [n_buffers |-> Len(st.buffers), n_scalars |-> Len(st.scalars), body |-> body]

-----------------------------------------------------------------------------
(* The kernel *)

\* The function a term names, on the words of its operands.
MslWord(fn, a) == IF fn = "select" THEN (IF a[3] # 0 THEN a[2] ELSE a[1])
                  ELSE functor(fn, [k \in DOMAIN a |-> Scalar(a[k])]).lane[0]

\* Slot k of the buffers is argument k; the scalars follow the buffers.
RECURSIVE Msl(_, _, _, _, _)
Msl(kernel, t, arg, mem, tid) ==
    CASE t.fn = "in" -> mem[arg[t.args[1]] + tid]
      [] t.fn = "c" -> arg[kernel.n_buffers + t.args[1]]
      [] OTHER -> MslWord(t.fn, [k \in DOMAIN t.args |-> Msl(kernel, t.args[k], arg, mem, tid)])

\* The kernel kept under this source, compiled first if there is none.
pipeline_for_fused_source(cache, source) ==
    IF source \in DOMAIN cache THEN cache ELSE cache @@ (source :> source)

Bound(st, out, n) == st.buffers \o st.scalars \o <<out, n>>

dispatch_fused(kernel, arg, mem) ==
    LET out == arg[kernel.n_buffers + kernel.n_scalars + 1]
        n == arg[kernel.n_buffers + kernel.n_scalars + 2]
    IN  [a \in DOMAIN mem |-> IF a \in out .. (out + n - 1)
                              THEN Msl(kernel, kernel.body, arg, mem, a - out) ELSE mem[a]]

-----------------------------------------------------------------------------
(* Evaluation and reduction *)

Refused(e) == ~metal_expr_fusable(e) \/ ~metal_fuse_fits(metal_fuse_emit(e, metal_fuse_state).st)

\* The kernels kept and the memory left by evaluating e into n elements at out.
run_metal(e, out, n, cache, mem) ==
    LET plan == metal_fuse_emit(e, metal_fuse_state)
        source == metal_fuse_source(plan.st, plan.body)
        kept == IF n = 0 THEN cache ELSE pipeline_for_fused_source(cache, source)
    IN  [cache |-> kept,
         mem |-> IF n = 0 THEN mem ELSE dispatch_fused(kept[source], Bound(plan.st, out, n), mem)]

fill_metal(v, t, mem) == [a \in DOMAIN mem |-> IF a \in t.at .. (t.at + t.n - 1) THEN v ELSE mem[a]]

RECURSIVE PowerFrom(_, _)
PowerFrom(p, n) == IF p < n THEN PowerFrom(2 * p, n) ELSE p
next_pow2(n) == PowerFrom(1, n)

reduce_threadgroup_size(n) == IF n < Block THEN next_pow2(n) ELSE Block

\* Pass after pass over the partials of the one before, until one group is left.
RECURSIVE reduce_buffer(_, _, _)
reduce_buffer(op, in, n) ==
    LET tg == reduce_threadgroup_size(n)
        groups == (n + tg - 1) \div tg
        out == [g \in 0 .. (groups - 1) |->
                   Halved(op, [l \in 0 .. (tg - 1) |->
                                  IF g * tg + l < n THEN in[g * tg + l] ELSE reduce_identity(op)],
                          tg \div 2)]
    IN  IF groups = 1 THEN out[0] ELSE reduce_buffer(op, out, groups)

\* A buffer is reduced where it is, a tree through a temporary at tmp.
reduce_metal(op, e, n, tmp, cache, mem) ==
    LET done == run_metal(e, tmp, n, cache, mem)
        buffer == IF IsView(e) THEN [i \in 0 .. (n - 1) |-> mem[e.at + i]]
                  ELSE [i \in 0 .. (n - 1) |-> done.mem[tmp + i]]
    IN  [cache |-> IF IsView(e) THEN cache ELSE done.cache,
         result |-> IF n = 0 THEN reduce_identity(op) ELSE reduce_buffer(op, buffer, n)]
=============================================================================
