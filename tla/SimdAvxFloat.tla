---------------------------- MODULE SimdAvxFloat ----------------------------
(* simd<float> on AVX (backend/cpu/avx/float/simd.h): eight lanes in two    *)
(* 128-bit groups, and the four-lane half register.                         *)
EXTENDS Lanes

size == 8
sign_mask == Dup(SignMask, size)

fma(x, y, z) == Add(Mul(x, y), z)
signcopy(x, sign) == Or(And(sign_mask, sign), AndNot(sign_mask, x))
fabs(x) == AndNot(sign_mask, x)
neg(x) == Xor(x, sign_mask)

accumulate(x) ==
    LET t == Add(Extract(x, 1, 4), Extract(x, 0, 4))
        u == Add(t, MoveHL(t, t))
    IN  u[0] + ShufflePs(u, u, 85)[0]
hmax(x) == LET t == MaxL(x, Permute2f128(x, x, 1))
               u == MaxL(t, ShufflePs(t, t, MM_SHUFFLE(1, 0, 3, 2)))
           IN  MaxL(u, ShufflePs(u, u, 1))[0]
hmin(x) == LET t == MinL(x, Permute2f128(x, x, 1))
               u == MinL(t, ShufflePs(t, t, MM_SHUFFLE(1, 0, 3, 2)))
           IN  MinL(u, ShufflePs(u, u, 1))[0]

gather(from, stride) == [k \in 0..7 |-> from[k * stride]]
gather_idx(from, strides) == [k \in 0..7 |-> from[strides[k]]]

(* Lane k of a group of four reaches memory as lane 0 of a shuffle by k. *)
lane(x, k) == LET part == Extract(x, k \div 4, 4) IN ShufflePs(part, part, k % 4)[0]
scatter(from, stride, to) ==
    StoreEach(to, Strided(size, stride), [k \in 0..7 |-> lane(from, k)])
scatter_idx(from, stride, to) == StoreEach(to, stride, [k \in 0..7 |-> lane(from, k)])

if_else(m, y, z) == BlendV(z, y, m)
cmp(op, x, y) ==
    Ones(CASE op = "eq" -> Compare(Eq, FALSE, x, y) [] op = "neq" -> Compare(Neq, TRUE, x, y)
           [] op = "gt" -> Compare(Gt, FALSE, x, y) [] op = "lt" -> Compare(Lt, FALSE, x, y)
           [] op = "ge" -> Compare(Ge, FALSE, x, y) [] op = "le" -> Compare(Le, FALSE, x, y))
mask_load(from) == from
mask_store(m) == m
not_mask(x) == AndNot(x, EqualBits(x))
and_mask(x, y) == And(x, y)
or_mask(x, y) == Or(x, y)
xor_mask(x, y) == Xor(x, y)

broadcast(from) == [k \in 0..3 |-> Dup(from[k], size)]

Unpacked(x, k) == IF k % 2 = 0 THEN UnpackLo(x[k], x[k + 1], 4) ELSE UnpackHi(x[k - 1], x[k], 4)
ptranspose8(x) ==
    LET T(k) == Unpacked(x, k)
        pair(k) == 4 * (k \div 4) + ((k % 4) \div 2)        \* T0 T2, T0 T2, T1 T3, T1 T3, ...
        imm(k) == IF k % 2 = 0 THEN MM_SHUFFLE(1, 0, 1, 0) ELSE MM_SHUFFLE(3, 2, 3, 2)
        S(k) == ShufflePs(T(pair(k)), T(pair(k) + 2), imm(k))
    IN  [k \in 0..7 |-> Permute2f128(S(k % 4), S(4 + (k % 4)), IF k < 4 THEN 32 ELSE 49)]

ptranspose4(x) ==
    LET S(k) == ShufflePs(Unpacked(x, k \div 2), Unpacked(x, 2 + (k \div 2)),
                          IF k % 2 = 0 THEN MM_SHUFFLE(1, 0, 1, 0) ELSE MM_SHUFFLE(3, 2, 3, 2))
    IN  [k \in 0..3 |-> LET p == 2 * (k % 2)
                        IN  Permute2f128(S(p), S(p + 1), IF k < 2 THEN 32 ELSE 49)]
ptranspose(x) == IF LaneCount(x) = 8 THEN ptranspose8(x) ELSE ptranspose4(x)


(* The half register. *)
half == 4
gather_half(from, stride) ==
    SetArgs(<<from[3 * stride], from[2 * stride], from[stride], from[0]>>)
loadu_half(from) == Loadu(from, half)
fma_half(x, y, z) == Add(Mul(x, y), z)
predux_downto4(x) == Add(Extract(x, 0, 4), Extract(x, 1, 4))
scatter_half(from, stride, to) ==
    StoreEach(to, Strided(half, stride), [k \in 0..3 |-> ShufflePs(from, from, k)[0]])

INSTANCE SimdContract
INSTANCE SimdHalfContract
=============================================================================
