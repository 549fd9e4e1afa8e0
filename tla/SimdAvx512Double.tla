-------------------------- MODULE SimdAvx512Double --------------------------
(* simd<double> on AVX-512 (backend/cpu/avx512/double/simd.h): eight lanes, *)
(* masks are bit masks (a truth value per lane), and a four-lane half.      *)
EXTENDS Lanes

size == 8
sign_mask == Dup(SignMask, size)

fma(x, y, z) == Add(Mul(x, y), z)
signcopy(x, sign) == Xor(And(sign_mask, sign), AndNot(sign_mask, x))
fabs(x) == AndNot(sign_mask, x)
neg(x) == Xor(x, sign_mask)

(* _mm512_reduce_*: the halves are combined until one lane is left.         *)
Reduce(F(_, _), x) ==
    LET a == F(Extract(x, 0, 4), Extract(x, 1, 4))
        b == F(Extract(a, 0, 2), Extract(a, 1, 2))
    IN  F(Extract(b, 0, 1), Extract(b, 1, 1))[0]
accumulate(x) == Reduce(Add, x)
hmax(x) == Reduce(MaxL, x)
hmin(x) == Reduce(MinL, x)

stride_multiplier == SetArgs(<<7, 6, 5, 4, 3, 2, 1, 0>>)
gather(from, stride) ==
    LET indices == Mul(Dup(stride, size), stride_multiplier)
    IN  [k \in 0..7 |-> from[indices[k]]]
scatter(from, stride, to) ==
    StoreEach(to, Mul(Dup(stride, size), stride_multiplier), from)
gather_idx(from, strides) == [k \in 0..7 |-> from[strides[k]]]
scatter_idx(from, strides, to) == StoreEach(to, strides, from)

if_else(m, y, z) == MaskMov(z, m, y)
cmp(op, x, y) ==
    CASE op = "eq" -> Compare(Eq, FALSE, x, y) [] op = "neq" -> Compare(Neq, TRUE, x, y)
      [] op = "gt" -> Compare(Gt, FALSE, x, y) [] op = "lt" -> Compare(Lt, FALSE, x, y)
      [] op = "ge" -> Compare(Ge, FALSE, x, y) [] op = "le" -> Compare(Le, FALSE, x, y)
mask_load(from) == [k \in 0..7 |-> from[k] # {}]
mask_store(m) == [k \in 0..7 |-> IF m[k] THEN {"m"} ELSE {}]     \* 2^k, never the sign bit
not_mask(x) == [k \in 0..7 |-> ~x[k]]
and_mask(x, y) == [k \in 0..7 |-> x[k] /\ y[k]]
or_mask(x, y) == [k \in 0..7 |-> x[k] \/ y[k]]
xor_mask(x, y) == [k \in 0..7 |-> x[k] # y[k]]

broadcast(from) == [k \in 0..3 |-> Dup(from[k], size)]

(* PACK_OUTPUT_SQ_D and PACK_OUTPUT_D: two 256-bit halves into one register.*)
Pack(lo, hi) == Insert(Insert(Dup(0, size), lo, 0, 4), hi, 1, 4)
ptranspose8(x) ==
    LET T(k) == IF k % 2 = 0 THEN UnpackLo(x[k], x[k + 1], 2) ELSE UnpackHi(x[k - 1], x[k], 2)
        (* tmp[0..15]: rows 0-3 then rows 4-7, low 256 bits then high, 0x20 then 0x31. *)
        tmp(i) == LET t == 4 * (i \div 8) + (i % 2)
                      part == (i % 8) \div 4
                      imm == IF i % 4 < 2 THEN 32 ELSE 49
                  IN  Permute2f128(Extract(T(t), part, 4), Extract(T(t + 2), part, 4), imm)
    IN  [k \in 0..7 |-> Pack(tmp(k), tmp(k + 8))]
ptranspose4(x) ==
    LET T(k) == ShufflePd(x[2 * (k \div 2)], x[2 * (k \div 2) + 1],
                          IF k % 2 = 0 THEN 0 ELSE 255)
        tmp(i) == LET part == i \div 4
                      imm == IF i % 4 < 2 THEN 32 ELSE 49
                  IN  Permute2f128(Extract(T(i % 2), part, 4), Extract(T(2 + (i % 2)), part, 4), imm)
    IN  [k \in 0..3 |-> Pack(tmp(2 * k), tmp(2 * k + 1))]
ptranspose(x) == IF LaneCount(x) = 8 THEN ptranspose8(x) ELSE ptranspose4(x)


(* The half register: 256 bits. *)
half == 4
predux_downto4(a) == Add(Extract(a, 0, 4), Extract(a, 1, 4))
loadu_half(from) == Loadu(from, half)
fma_half(x, y, z) == Add(Mul(x, y), z)
gather_half(from, stride) ==
    SetArgs(<<from[3 * stride], from[2 * stride], from[stride], from[0]>>)
scatter_half(from, stride, to) ==
    LET part(k) == Extract(from, k \div 2, 2)
        lane(k) == IF k % 2 = 0 THEN part(k)[0] ELSE ShufflePd(part(k), part(k), 1)[0]
    IN  StoreEach(to, Strided(half, stride), [k \in 0..3 |-> lane(k)])

INSTANCE SimdContract
INSTANCE SimdHalfContract
=============================================================================
