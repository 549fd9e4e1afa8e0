--------------------------- MODULE SimdAvxDouble ---------------------------
(* simd<double> on AVX (backend/cpu/avx/double/simd.h): four lanes, masks   *)
(* are registers of all-ones or zero lanes.                                 *)
EXTENDS Lanes

size == 4
sign_mask == Dup(SignMask, size)

fma(x, y, z) == Add(Mul(x, y), z)
signcopy(x, sign) == Or(And(sign_mask, sign), AndNot(sign_mask, x))
fabs(x) == AndNot(sign_mask, x)
neg(x) == Xor(x, sign_mask)

accumulate(x) ==
    LET t1 == Add(Extract(x, 1, 2), Extract(x, 0, 2))
        t2 == UnpackHi(t1, t1, 2)
    IN  t1[0] + t2[0]
hmax(x) == LET t == MaxL(x, Permute2f128(x, x, 1))
           IN  MaxL(t, ShufflePd(t, t, 5))[0]
hmin(x) == LET t == MinL(x, Permute2f128(x, x, 1))
           IN  MinL(t, ShufflePd(t, t, 5))[0]

gather(from, stride) ==
    SetArgs(<<from[3 * stride], from[2 * stride], from[stride], from[0]>>)
gather_idx(from, strides) ==
    SetArgs(<<from[strides[3]], from[strides[2]], from[strides[1]], from[strides[0]]>>)

(* Odd lanes of each 128-bit half are swapped down to lane 0 first. *)
lane(x, k) == LET half == Extract(x, k \div 2, 2)
              IN  IF k % 2 = 0 THEN half[0] ELSE ShufflePd(half, half, 1)[0]
scatter(from, stride, to) ==
    StoreEach(to, Strided(size, stride), [k \in 0..3 |-> lane(from, k)])
scatter_idx(from, stride, to) == StoreEach(to, stride, [k \in 0..3 |-> lane(from, k)])

if_else(m, y, z) == BlendV(z, y, m)
cmp(op, x, y) ==
    Ones(CASE op = "eq" -> Compare(Eq, FALSE, x, y) [] op = "neq" -> Compare(Neq, TRUE, x, y)
           [] op = "gt" -> Compare(Gt, FALSE, x, y) [] op = "lt" -> Compare(Lt, FALSE, x, y)
           [] op = "ge" -> Compare(Ge, FALSE, x, y) [] op = "le" -> Compare(Le, FALSE, x, y))
mask_load(from) == CvtIntToDouble(from)
mask_store(m) == CvtDoubleToInt(m)
not_mask(x) == AndNot(x, EqualBits(x))
and_mask(x, y) == And(x, y)
or_mask(x, y) == Or(x, y)
xor_mask(x, y) == Xor(x, y)

broadcast(from) == [k \in 0..3 |-> Dup(from[k], size)]
ptranspose(x) ==
    LET T0 == ShufflePd(x[0], x[1], 15)
        T1 == ShufflePd(x[0], x[1], 0)
        T2 == ShufflePd(x[2], x[3], 15)
        T3 == ShufflePd(x[2], x[3], 0)
    IN  [k \in 0..3 |-> CASE k = 0 -> Permute2f128(T1, T3, 32)
                          [] k = 1 -> Permute2f128(T0, T2, 32)
                          [] k = 2 -> Permute2f128(T1, T3, 49)
                          [] k = 3 -> Permute2f128(T0, T2, 49)]

INSTANCE SimdContract
=============================================================================
