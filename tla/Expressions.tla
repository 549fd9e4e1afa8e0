---------------------------- MODULE Expressions ----------------------------
(***************************************************************************)
(* Expression templates: a tree of operators over borrowed buffers and     *)
(* scalars, evaluated one element or one SIMD register at a time.  The     *)
(* same tree is walked by both, so the two must agree lane by lane; where  *)
(* they can differ is in how a comparison is represented (1 and 0 for a    *)
(* scalar, a mask word for a packet) and in how a scalar operand is spread *)
(* over a register.                                                        *)
(*                                                                         *)
(* A buffer is a run of element addresses; memory maps an address to the   *)
(* number stored there.  A value of the evaluation is a record: a packet   *)
(* has one word per lane, a scalar has the single word of lane 0.          *)
(***************************************************************************)
EXTENDS Integers, Sequences, FiniteSets, SequencesExt

CONSTANTS Length,         \* lanes of a register, simd<value_t>::size
          SimdAlign,      \* alignment of a register load, in elements
          BlockAlign,     \* alignment the allocator gives, in elements
          MaskIsPacket    \* masks have the packet's type: AVX and SSE, not AVX-512 and NEON

ASSUME LengthAssumption == Length \in Nat \ {0}
ASSUME AlignAssumption == SimdAlign \in Nat \ {0} /\ BlockAlign % SimdAlign = 0

Lane == 0 .. (Length - 1)

\* The word of a lane whose comparison holds: all bits set, so the sign bit is
\* set and a bitwise "and" with it is the identity.  No number is this word.
AllOnes == -99

Scalar(w) == [packet |-> FALSE, lane |-> [l \in {0} |-> w]]
Packet(f) == [packet |-> TRUE, lane |-> f]
set(x) == Packet([l \in Lane |-> x.lane[0]])

-----------------------------------------------------------------------------
(* Trees *)

\* A borrowed buffer: its first element, its length, the device and stream it is on.
View(at, n, device, stream) ==
    [op |-> "view", at |-> at, n |-> n, device |-> device, stream |-> stream]
Number(v) == [op |-> "number", value |-> v]

\* A node of one, two or three operands; its children are kept by value, buffers as views.
unary_expression(op, x) == [op |-> op, args |-> <<x>>]
binary_expression(op, x, y) == [op |-> op, args |-> <<x, y>>]
trinary_expression(op, x, y, z) == [op |-> op, args |-> <<x, y, z>>]

IsView(e) == e.op = "view"
IsNumber(e) == e.op = "number"
is_pure_expression(e) == ~IsView(e) /\ ~IsNumber(e)
is_expression(e) == ~IsNumber(e)

\* Which operand a node takes its size from: the last one that is an expression
\* of a binary node, the first one of a trinary node.  Nothing compares the others.
RECURSIVE size(_)
size(e) ==
    LET sized == {k \in DOMAIN e.args : is_expression(e.args[k])}
    IN  IF IsView(e) THEN e.n
        ELSE size(e.args[IF Len(e.args) = 2 THEN CHOOSE k \in sized : \A j \in sized : j <= k
                                            ELSE CHOOSE k \in sized : \A j \in sized : k <= j])

is_ptr_aligned(at) == at % BlockAlign = 0

\* The views of a tree, from left to right.
RECURSIVE Leaves(_)
Leaves(e) == CASE IsView(e) -> <<e>>
               [] IsNumber(e) -> <<>>
               [] OTHER -> FlattenSeq([k \in DOMAIN e.args |-> Leaves(e.args[k])])

expression_operands_aligned(e) == \A v \in ToSet(Leaves(e)) : is_ptr_aligned(v.at)

buffers_overlap(a, n, b, m) == n > 0 /\ m > 0 /\ a < b + m /\ b < a + n
expression_aliases_ptr(e, at, n) == \E v \in ToSet(Leaves(e)) : buffers_overlap(v.at, v.n, at, n)

-----------------------------------------------------------------------------
(* Words *)

Larger(a, b) == IF a < b THEN b ELSE a
Smaller(a, b) == IF a < b THEN a ELSE b
Magnitude(a) == IF a < 0 THEN -a ELSE a
WithSignOf(a, b) == IF b < 0 THEN -Magnitude(a) ELSE Magnitude(a)

Compares(op, a, b) ==
    CASE op = "cmpgt" -> a > b
      [] op = "cmplt" -> a < b
      [] op = "cmpge" -> a >= b
      [] op = "cmple" -> a <= b
      [] op = "cmpeq" -> a = b
      [] op = "cmpne" -> a # b

Unary == {"neg", "fabs", "sqr", "lnot"}
Arithmetic == {"add", "sub", "mul", "max", "min", "copysign", "madd", "msub", "mmul"}
Comparison == {"cmpgt", "cmplt", "cmpge", "cmple", "cmpeq", "cmpne"}
Logic == {"land", "lor", "lxor"}

\* Operators of numbers, the same in a lane as in a scalar.
Arith(op, a, b) ==
    CASE op \in {"add", "madd"} -> a + b
      [] op \in {"sub", "msub"} -> a - b
      [] op \in {"mul", "mmul"} -> a * b
      [] op = "max" -> Larger(a, b)
      [] op = "min" -> Smaller(a, b)
      [] op = "copysign" -> WithSignOf(a, b)

Sole(op, a) ==
    CASE op = "neg" -> -a
      [] op = "fabs" -> Magnitude(a)
      [] op = "sqr" -> a * a

\* Bitwise operations on mask words.  A word that is neither all ones nor zero is a
\* number that was spread over a register where a mask was meant.
And(a, b) == IF a = AllOnes THEN b ELSE IF b = AllOnes THEN a ELSE IF a = b THEN a ELSE 0
Or(a, b) == IF a = 0 THEN b ELSE IF b = 0 THEN a ELSE AllOnes
Xor(a, b) == IF a = b THEN 0 ELSE IF a = 0 THEN b ELSE IF b = 0 THEN a ELSE AllOnes
SignBit(w) == w < 0
Truth(b) == IF b THEN 1 ELSE 0

MaskWord(op, a, b) ==
    CASE op = "land" -> And(a, b)
      [] op = "lor" -> Or(a, b)
      [] op = "lxor" -> Xor(a, b)

TruthOf(op, a, b) ==
    CASE op = "land" -> a # 0 /\ b # 0
      [] op = "lor" -> a # 0 \/ b # 0
      [] op = "lxor" -> (a # 0) # (b # 0)

-----------------------------------------------------------------------------
(* Evaluators: a register as soon as an operand is one, the scalar helper  *)
(* otherwise; a scalar beside a register is spread over one.               *)

Spread(x) == IF x.packet THEN x ELSE set(x)

\* A scalar beside a mask: its truth as a mask, except where masks and packets share
\* one type; there the number itself fills the register.
simd_broadcast_mask(x) ==
    CASE x.packet -> x
      [] MaskIsPacket -> set(x)
      [] OTHER -> set(Scalar(IF x.lane[0] # 0 THEN AllOnes ELSE 0))

unary_functor(op, x) ==
    LET word(a) == CASE op # "lnot" -> Sole(op, a)
                     [] x.packet -> Xor(a, AllOnes)
                     [] OTHER -> Truth(a = 0)
    IN  [x EXCEPT !.lane = [l \in DOMAIN x.lane |-> word(x.lane[l])]]

arithmetic_functor(op, x, y) ==
    IF x.packet \/ y.packet
    THEN Packet([l \in Lane |-> Arith(op, Spread(x).lane[l], Spread(y).lane[l])])
    ELSE Scalar(Arith(op, x.lane[0], y.lane[0]))

comparison_functor(op, x, y) ==
    IF x.packet \/ y.packet
    THEN Packet([l \in Lane |->
             IF Compares(op, Spread(x).lane[l], Spread(y).lane[l]) THEN AllOnes ELSE 0])
    ELSE Scalar(Truth(Compares(op, x.lane[0], y.lane[0])))

logic_functor(op, x, y) ==
    IF x.packet \/ y.packet
    THEN Packet([l \in Lane |->
             MaskWord(op, simd_broadcast_mask(x).lane[l], simd_broadcast_mask(y).lane[l])])
    ELSE Scalar(Truth(TruthOf(op, x.lane[0], y.lane[0])))

\* A lane is taken from the true branch where the sign bit of its mask is set.  A scalar
\* condition picks a whole branch.
if_else_functor(mask, x, y) ==
    IF mask.packet
    THEN Packet([l \in Lane |->
             IF SignBit(mask.lane[l]) THEN Spread(x).lane[l] ELSE Spread(y).lane[l]])
    ELSE IF mask.lane[0] # 0 THEN x ELSE y

\* Scalar factors are multiplied before the register is added to.
fma_functor(x, y, z) ==
    CASE x.packet \/ y.packet ->
             Packet([l \in Lane |-> Spread(x).lane[l] * Spread(y).lane[l] + Spread(z).lane[l]])
      [] z.packet ->
             Packet([l \in Lane |-> x.lane[0] * y.lane[0] + z.lane[l]])
      [] OTHER -> Scalar(x.lane[0] * y.lane[0] + z.lane[0])

functor(op, x) ==
    CASE op \in Unary -> unary_functor(op, x[1])
      [] op \in Arithmetic -> arithmetic_functor(op, x[1], x[2])
      [] op \in Comparison -> comparison_functor(op, x[1], x[2])
      [] op \in Logic -> logic_functor(op, x[1], x[2])
      [] op = "if_else" -> if_else_functor(x[1], x[2], x[3])
      [] op = "fma" -> fma_functor(x[1], x[2], x[3])

\* The value of the tree at index i: one element, or the register that starts there.
RECURSIVE evaluate(_, _, _, _)
evaluate(e, mem, i, vectorize) ==
    CASE IsNumber(e) -> Scalar(e.value)
      [] IsView(e) -> IF vectorize THEN Packet([l \in Lane |-> mem[e.at + i + l]])
                                   ELSE Scalar(mem[e.at + i])
      [] OTHER -> functor(e.op, [k \in DOMAIN e.args |-> evaluate(e.args[k], mem, i, vectorize)])

\* What the tree denotes at index i.
Denotes(e, mem, i) == evaluate(e, mem, i, FALSE).lane[0]
=============================================================================
