--------------------------- MODULE ExpressionRuns ---------------------------
(***************************************************************************)
(* Calls of the evaluator over one memory: a destination and operands laid *)
(* out at any alignment, one of them possibly the destination itself.      *)
(* Every call starts from the same contents, so a state is the last call,  *)
(* what it left, and the Metal kernels compiled so far.                    *)
(***************************************************************************)
EXTENDS MetalFusion

CONSTANTS MaxCount,       \* longest buffer of a call
          Reach           \* addresses set aside for each buffer

VARIABLES call,           \* what was called, with its arguments
          left,           \* the memory it left
          pipelines       \* the Metal kernels kept, by source

runVars == <<call, left, pipelines>>

Contents == [a \in 0 .. (4 * Reach - 1) |-> ((a * 7) % 5) - 2]

-----------------------------------------------------------------------------
(* The trees and the layouts *)

\* A packed CPU buffer of n elements at address at, as the evaluator sees it.
Dense(at, n) == LET start == first_aligned(at, n)
                IN  [at |-> at, n |-> n, align_start |-> start,
                     align_end |-> last_aligned(start, n, Length)]

Shapes == {"view", "diff", "rdiff", "scaled", "rescaled", "chosen", "masked", "fused",
           "mixed", "deep", "wide", "cdf"}

\* a and b are operands.  "rdiff" and "rescaled" have the kernels of "diff" and "scaled"
\* with other buffers and scalars; "wide" and "masked" have more operands than a kernel
\* has arguments, "cdf" an operator no kernel has.
Tree(shape, a, b) ==
    CASE shape = "view" -> a
      [] shape = "diff" -> binary_expression("sub", a, b)
      [] shape = "rdiff" -> binary_expression("sub", b, a)
      [] shape = "scaled" -> binary_expression("sub", Number(3),
             binary_expression("mul", a, Number(2)))
      [] shape = "rescaled" -> binary_expression("sub", Number(1),
             binary_expression("mul", b, Number(5)))
      [] shape = "chosen" -> trinary_expression("if_else", binary_expression("cmpgt", a, b),
             unary_expression("sqr", b), Number(7))
      [] shape = "masked" -> trinary_expression("if_else",
             binary_expression("land", unary_expression("lnot", binary_expression("cmple", a, b)), Number(1)),
             a, unary_expression("neg", b))
      [] shape = "fused" -> trinary_expression("fma", a, Number(2), b)
      [] shape = "mixed" -> trinary_expression("fma", Number(2), Number(3),
             binary_expression("copysign", a, b))
      [] shape = "deep" -> unary_expression("sqr", binary_expression("sub",
             binary_expression("max", a, Number(0)), unary_expression("sqr", b)))
      [] shape = "wide" -> binary_expression("add", binary_expression("add", a, b),
             binary_expression("add", a, binary_expression("mul", b, Number(2))))
      [] shape = "cdf" -> unary_expression("cdf", a)

Shifts == 0 .. (BlockAlign - 1)

\* The destination at shift d of its place; a at a shift of its own or on the
\* destination; b at shift 1 of its place.
Layouts(n) == [d : Shifts, a : Shifts \cup {-1}, n : {n}]
Dest(y) == Dense(y.d, y.n)
OperandA(y) == View(IF y.a = -1 THEN y.d ELSE Reach + y.a, y.n, "cpu", 0)
OperandB(y) == View(2 * Reach + 1 - (y.d % 2), y.n, "cpu", 0)
Expr(shape, y) == Tree(shape, OperandA(y), OperandB(y))

Computed == Shapes \ {"cdf"}
Assigned == Computed \ {"view"}
Reductions == {"sum", "min", "max"}

\* The three reductions walk a tree the same way: min and max take a few.
Reduced(op) == IF op = "sum" THEN Computed ELSE {"view", "diff", "masked"}

\* GPU calls: threads count elements, so alignment plays no part.
GpuLayouts(n) == {y \in Layouts(n) : y.d = 0 /\ y.a \in {-1, 0}}

\* Metal calls: aligned buffers, few lengths, few kernels kept.
MetalLayouts == UNION {GpuLayouts(n) : n \in {0, Block + 1}}
MaxKernels == 2

-----------------------------------------------------------------------------
(* The calls *)

RunInit == call = [kind |-> "idle"] /\ left = Contents /\ pipelines = <<>>

\* A call that keeps no kernel leaves nothing the next one depends on: one is enough.
Host == call.kind = "idle" /\ pipelines = <<>> /\ UNCHANGED pipelines

\* Metal calls follow one another, over the kernels kept.
Metal == call.kind = "idle"

NextCall ==
    /\ call.kind # "idle" /\ pipelines # <<>>
    /\ call' = [kind |-> "idle"] /\ left' = Contents
    /\ UNCHANGED pipelines

Run(shape, y) ==
    /\ Host
    /\ call' = [kind |-> "run", shape |-> shape, layout |-> y]
    /\ left' = run_cpu(Expr(shape, y), Dest(y), Contents)

Fill(v, y) ==
    /\ Host
    /\ call' = [kind |-> "fill", value |-> v, layout |-> y]
    /\ left' = fill_cpu(v, Dest(y), Contents)

Scatter(k, index, y) ==
    /\ Host
    /\ y.a # -1
    /\ call' = [kind |-> "scatter", k |-> k, index |-> index, layout |-> y]
    /\ left' = scatter(OperandA(y), Dest(y), k, index, Contents)

Reduce(op, shape, y) ==
    LET e == Expr(shape, y)
        t == IF IsView(e) THEN Dense(e.at, e.n) ELSE Dest(y)
        result == CASE op = "sum" -> accumulate(e, t, Contents)
                    [] op = "min" -> hmin(e, t, Contents)
                    [] op = "max" -> hmax(e, t, Contents)
    IN  /\ Host
        /\ call' = [kind |-> "reduce", shape |-> shape, layout |-> y, op |-> op,
                    result |-> result]
        /\ left' = Contents

RunGpu(shape, y) ==
    /\ Host
    /\ call' = [kind |-> "run", shape |-> shape, layout |-> y]
    /\ left' = run_gpu(Expr(shape, y), Dest(y), Contents)

FillGpu(v, y) ==
    /\ Host
    /\ call' = [kind |-> "fill", value |-> v, layout |-> y]
    /\ left' = fill_gpu(v, Dest(y), Contents)

ReduceGpu(op, shape, y) ==
    /\ Host
    /\ call' = [kind |-> "reduce", shape |-> shape, layout |-> y, op |-> op,
                result |-> reduce_gpu(op, Expr(shape, y), y.n, Contents)]
    /\ left' = Contents

RunMetal(shape, y) ==
    LET done == run_metal(Expr(shape, y), y.d, y.n, pipelines, Contents)
    IN  /\ Metal /\ ~Refused(Expr(shape, y))
        /\ Cardinality(DOMAIN done.cache) <= MaxKernels
        /\ call' = [kind |-> "run", shape |-> shape, layout |-> y]
        /\ left' = done.mem
        /\ pipelines' = done.cache

RefuseMetal(shape, y) ==
    /\ Host
    /\ Refused(Expr(shape, y))
    /\ call' = [kind |-> "refused", shape |-> shape, layout |-> y]
    /\ left' = Contents

ReduceMetal(op, shape, y) ==
    LET e == Expr(shape, y)
        done == reduce_metal(op, e, y.n, 3 * Reach, pipelines, Contents)
    IN  /\ Metal /\ (IsView(e) \/ ~Refused(e))
        /\ Cardinality(DOMAIN done.cache) <= MaxKernels
        /\ call' = [kind |-> "reduce", shape |-> shape, layout |-> y, op |-> op, result |-> done.result]
        /\ left' = Contents
        /\ pipelines' = done.cache

RunNext ==
    \/ NextCall
    \/ \E y \in UNION {Layouts(n) : n \in 0 .. MaxCount} :
          \/ \E shape \in Assigned : Run(shape, y)
          \/ \E op \in Reductions : \E shape \in Reduced(op) : Reduce(op, shape, y)
          \/ Fill(9, y)
          \/ \E k \in {0, 1}, index \in {1, 2} : Scatter(k, index, y)
    \/ \E y \in UNION {GpuLayouts(n) : n \in 0 .. MaxCount} :
          \/ \E shape \in Assigned : RunGpu(shape, y)
          \/ \E op \in Reductions : \E shape \in Reduced(op) : ReduceGpu(op, shape, y)
          \/ FillGpu(9, y)
    \/ \E y \in MetalLayouts :
          \/ \E shape \in Assigned : RunMetal(shape, y)
          \/ \E shape \in Shapes : RefuseMetal(shape, y)
          \/ \E op \in Reductions : \E shape \in Reduced(op) : ReduceMetal(op, shape, y)

-----------------------------------------------------------------------------
(* Properties *)

Untouched(places) == \A a \in DOMAIN left : a \in places \/ left[a] = Contents[a]
Places(y) == y.d .. (y.d + y.n - 1)

\* Each element of the destination is what the tree denotes there by the scalar helpers,
\* wherever the registers fall and on whichever device, also when an operand is the
\* destination itself; a fill leaves the value, a scatter puts each element at its
\* stride, a reduction takes in every element once.  Nothing else in memory changes.
ComputesEach ==
    LET y == call.layout
    IN  CASE call.kind = "run" ->
               /\ Untouched(Places(y))
               /\ \A i \in 0 .. (y.n - 1) :
                     left[y.d + i] = Denotes(Expr(call.shape, y), Contents, i)
          [] call.kind = "fill" ->
               Untouched(Places(y)) /\ \A a \in Places(y) : left[a] = call.value
          [] call.kind = "scatter" ->
               LET place(i) == y.d + call.k + i * call.index
               IN  /\ Untouched({place(i) : i \in 0 .. (y.n - 1)})
                   /\ \A i \in 0 .. (y.n - 1) : left[place(i)] = Contents[OperandA(y).at + i]
          [] call.kind = "reduce" ->
               call.result = FoldLeft(LAMBDA r, i : reduce_combine(call.op, r,
                                           Denotes(Expr(call.shape, y), Contents, i - 1)),
                                      reduce_identity(call.op), [i \in 1 .. y.n |-> i])
          [] OTHER -> TRUE

\* No step of a loop that promises alignment touches an address off it: its stores in the
\* destination, its loads in every operand of the tree.
AlignedWhereClaimed ==
    LET y == call.layout
        e == Expr(call.shape, y)
        t == IF call.kind = "reduce" /\ IsView(e) THEN Dense(e.at, e.n) ELSE Dest(y)
        plan == CASE call.kind = "run" -> run_plan(e, t)
                  [] call.kind = "fill" -> fill_plan(t)
                  [] call.kind = "reduce" -> reduce_plan(e, t)
        onBoundary(a) == a % SimdAlign = 0
    IN  call.kind \in {"run", "fill", "reduce"} =>
            \A k \in DOMAIN plan :
                /\ plan[k].store => onBoundary(t.at + plan[k].at)
                /\ plan[k].load => \A v \in ToSet(Leaves(e)) : onBoundary(v.at + plan[k].at)
=============================================================================
