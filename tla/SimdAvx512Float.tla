-------------------------- MODULE SimdAvx512Float --------------------------
(* simd<float> on AVX-512 (backend/cpu/avx512/float/simd.h): sixteen lanes, *)
(* bit masks.  The 256-bit halves are moved in and out by macros.           *)
EXTENDS Lanes

size == 16
sign_mask == Dup(SignMask, size)

fma(x, y, z) == Add(Mul(x, y), z)
signcopy(x, sign) == Xor(And(sign_mask, sign), AndNot(sign_mask, x))
fabs(x) == AndNot(sign_mask, x)
neg(x) == Xor(x, sign_mask)

Reduce(F(_, _), x) ==
    LET a == F(Extract(x, 0, 8), Extract(x, 1, 8))
        b == F(Extract(a, 0, 4), Extract(a, 1, 4))
        c == F(Extract(b, 0, 2), Extract(b, 1, 2))
    IN  F(Extract(c, 0, 1), Extract(c, 1, 1))[0]
accumulate(x) == Reduce(Add, x)
hmax(x) == Reduce(MaxL, x)
hmin(x) == Reduce(MinL, x)

stride_multiplier == SetArgs(<<15, 14, 13, 12, 11, 10, 9, 8, 7, 6, 5, 4, 3, 2, 1, 0>>)
gather(from, stride) ==
    LET index == Mul(Dup(stride, size), stride_multiplier)
    IN  [k \in 0..15 |-> from[index[k]]]
scatter(from, stride, to) ==
    StoreEach(to, Mul(Dup(stride, size), stride_multiplier), from)
gather_idx(from, strides) == [k \in 0..15 |-> from[strides[k]]]
scatter_idx(from, strides, to) == StoreEach(to, strides, from)

if_else(m, y, z) == MaskMov(z, m, y)
cmp(op, x, y) ==
    CASE op = "eq" -> Compare(Eq, FALSE, x, y) [] op = "neq" -> Compare(Neq, TRUE, x, y)
      [] op = "gt" -> Compare(Gt, FALSE, x, y) [] op = "lt" -> Compare(Lt, FALSE, x, y)
      [] op = "ge" -> Compare(Ge, FALSE, x, y) [] op = "le" -> Compare(Le, FALSE, x, y)
mask_load(from) == [k \in 0..15 |-> from[k] # {}]
mask_store(m) == [k \in 0..15 |-> IF m[k] THEN {"m"} ELSE {}]    \* 2^k, never the sign bit
not_mask(x) == [k \in 0..15 |-> ~x[k]]
and_mask(x, y) == [k \in 0..15 |-> x[k] /\ y[k]]
or_mask(x, y) == [k \in 0..15 |-> x[k] \/ y[k]]
xor_mask(x, y) == [k \in 0..15 |-> x[k] # y[k]]

broadcast(from) == [k \in 0..3 |-> Dup(from[k], size)]

(* VECTORIZATION_EXTRACT_8f_FROM_16f and VECTORIZATION_INSERT_8f_INTO_16f.  *)
Extract8(x, part) == Extract(x, part, 8)
Pack(lo, hi) == Insert(Insert(Dup(0, size), lo, 0, 8), hi, 1, 8)

Unpacked(x, k) == IF k % 2 = 0 THEN UnpackLo(x[k], x[k + 1], 4) ELSE UnpackHi(x[k - 1], x[k], 4)
Halfway(k) == IF k % 2 = 0 THEN MM_SHUFFLE(1, 0, 1, 0) ELSE MM_SHUFFLE(3, 2, 3, 2)
Shuffled(x, k) ==      \* S0 .. S15
    LET t == 4 * (k \div 4) + ((k % 4) \div 2)
    IN  ShufflePs(Unpacked(x, t), Unpacked(x, t + 2), Halfway(k))

ptranspose16(x) ==
    LET S == [k \in 0..15 |-> Shuffled(x, k)]
        (* tmp[0..31]: rows 0-7 then 8-15, low half then high, 0x20 then 0x31. *)
        tmp(i) == LET s == 8 * (i \div 16) + (i % 4)
                      part == (i % 16) \div 8
                  IN  Permute2f128(Extract8(S[s], part), Extract8(S[s + 4], part),
                                   IF i % 8 < 4 THEN 32 ELSE 49)
    IN  [k \in 0..15 |-> Pack(tmp(k), tmp(k + 16))]
ptranspose4(x) ==
    LET tmp(i) == LET s == 2 * (i % 2)
                      part == i \div 4
                  IN  Permute2f128(Extract8(Shuffled(x, s), part), Extract8(Shuffled(x, s + 1), part),
                                   IF i % 4 < 2 THEN 32 ELSE 49)
    IN  [k \in 0..3 |-> Pack(tmp(2 * k), tmp(2 * k + 1))]
ptranspose(x) == IF LaneCount(x) = 16 THEN ptranspose16(x) ELSE ptranspose4(x)

INSTANCE SimdContract
=============================================================================
