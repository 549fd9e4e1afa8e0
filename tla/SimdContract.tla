---------------------------- MODULE SimdContract ----------------------------
(* What callers of simd<T> rely on, whatever the instruction set: every      *)
(* operation below is a parameter, and each simd module instantiates this    *)
(* one with its own definitions of the same names.                           *)
EXTENDS Lanes

CONSTANTS size, fma(_, _, _), signcopy(_, _), fabs(_), neg(_),
          accumulate(_), hmax(_), hmin(_),
          gather(_, _), gather_idx(_, _), scatter(_, _, _), scatter_idx(_, _, _),
          if_else(_, _, _), cmp(_, _, _), mask_load(_), mask_store(_),
          not_mask(_), and_mask(_, _), or_mask(_, _), xor_mask(_, _),
          broadcast(_), ptranspose(_)

Lane == 0..(size - 1)
Memory == [a \in 0..(3 * size) |-> 100 + a]
Peaked(p, v) == [k \in Lane |-> IF k = p THEN v ELSE k]
Total(x) == LET upto[k \in Lane] == x[k] + IF k = 0 THEN 0 ELSE upto[k - 1]
            IN  upto[size - 1]

(* One answer from all lanes, each lane counted once. *)
ReducesAllLanes(p) ==
    /\ accumulate(Peaked(p, 50)) = Total(Peaked(p, 50))
    /\ hmax(Peaked(p, 50)) = 50
    /\ hmin(Peaked(p, -50)) = -50

(* Lane k is element k * stride, or element at[k]; a scatter writes nothing  *)
(* else, and where two lanes share an address the higher one is left.        *)
MovesItsElements(stride, at) ==
    LET x == [k \in Lane |-> 7 * k]
        left(address, a) == {k \in Lane : address[k] = a}
        top(S) == CHOOSE k \in S : \A j \in S : j <= k
        written(address) == [a \in DOMAIN Memory |->
            IF left(address, a) = {} THEN Memory[a] ELSE x[top(left(address, a))]]
    IN  /\ gather(Memory, stride) = [k \in Lane |-> Memory[k * stride]]
        /\ gather_idx(Memory, at) = [k \in Lane |-> Memory[at[k]]]
        /\ scatter(x, stride, Memory) = written([k \in Lane |-> k * stride])
        /\ scatter_idx(x, at, Memory) = written(at)

Holds(op, a, b) == IF NaN \in {a, b} THEN op = "neq"
                   ELSE CASE op = "eq" -> a = b [] op = "neq" -> a # b
                          [] op = "gt" -> a > b [] op = "lt" -> a < b
                          [] op = "ge" -> a >= b [] op = "le" -> a <= b
Yes == [k \in Lane |-> {"s", "m"}]
No == [k \in Lane |-> {"e"}]
Chosen(truth) == [k \in Lane |-> IF truth[k] THEN Yes[k] ELSE No[k]]
Operands(p, q) ==
    <<[k \in Lane |-> IF k = q THEN NaN ELSE k], [k \in Lane |-> IF k % 3 = 0 THEN k ELSE p]>>

(* if_else on a mask built from comparisons takes, lane by lane, what the    *)
(* C++ scalar expression takes, NaN included.                                *)
SelectsAsScalars(op1, op2, p, q) ==
    LET x == Operands(p, q)[1]
        y == Operands(p, q)[2]
        m1 == cmp(op1, x, y)
        m2 == cmp(op2, y, x)
        t1(k) == Holds(op1, x[k], y[k])
        t2(k) == Holds(op2, y[k], x[k])
    IN  /\ if_else(m1, Yes, No) = Chosen([k \in Lane |-> t1(k)])
        /\ if_else(not_mask(m1), Yes, No) = Chosen([k \in Lane |-> ~t1(k)])
        /\ if_else(and_mask(m1, m2), Yes, No) = Chosen([k \in Lane |-> t1(k) /\ t2(k)])
        /\ if_else(or_mask(m1, m2), Yes, No) = Chosen([k \in Lane |-> t1(k) \/ t2(k)])
        /\ if_else(xor_mask(m1, m2), Yes, No) = Chosen([k \in Lane |-> t1(k) # t2(k)])

(* A mask stored to integers and loaded back selects as it did, and so does  *)
(* its negation.                                                             *)
MaskSurvivesMemory(op, p, q) ==
    LET m == cmp(op, Operands(p, q)[1], Operands(p, q)[2])
        back == mask_load(mask_store(m))
    IN  /\ if_else(back, Yes, No) = if_else(m, Yes, No)
        /\ if_else(not_mask(back), Yes, No) = if_else(not_mask(m), Yes, No)

(* n rows become, in memory order, the transposed block.                     *)
Transposes(n) ==
    LET x == [r \in 0..(n - 1) |-> [k \in Lane |-> 16 * r + k]]
        flat == Spill(ptranspose(x))
    IN  \A r \in 0..(n - 1), k \in Lane : flat[k * n + r] = x[r][k]

(* Sign tricks touch the sign only, and the multiply-add is one.             *)
SignsOnly(p) ==
    LET x == [k \in Lane |-> IF k = p THEN AllOnes ELSE {"e"}]
        y == [k \in Lane |-> IF k % 2 = 0 THEN {"s", "m"} ELSE {"m"}]
        num == Peaked(p, 5)
    IN  /\ neg(neg(x)) = x /\ fabs(neg(x)) = fabs(x)
        /\ \A k \in Lane : /\ signcopy(x, y)[k] \ SignMask = x[k] \ SignMask
                           /\ signcopy(x, y)[k] \cap SignMask = y[k] \cap SignMask
                           /\ neg(x)[k] \ SignMask = x[k] \ SignMask
                           /\ "s" \notin fabs(x)[k]
        /\ fma(num, Dup(3, size), Dup(2, size)) = [k \in Lane |-> 3 * num[k] + 2]
        /\ broadcast(Memory) = [k \in 0..3 |-> Dup(Memory[k], size)]
=============================================================================
