--------------------------- MODULE SimdSseDouble ---------------------------
(* simd<double> on SSE (backend/cpu/sse/double/simd.h over sse/intrinsics.h)*)
(* two lanes.  The -msse2 build has no blend: SSE4_1 says whether the       *)
(* compiler was given more.                                                 *)
EXTENDS Lanes

CONSTANT SSE4_1        \* whether __SSE4_1__ is defined

size == 2
sign_mask == Dup(SignMask, size)

fma(x, y, z) == Add(Mul(x, y), z)
signcopy(x, sign) == Or(And(sign, sign_mask), AndNot(sign_mask, x))
fabs(x) == AndNot(sign_mask, x)
neg(x) == Xor(x, sign_mask)


accumulate(x) == x[0] + UnpackHi(x, x, 2)[0]
hmax(x) == MaxL(x, UnpackHi(x, x, 2))[0]
hmin(x) == MinL(x, UnpackHi(x, x, 2))[0]

gather(from, stride) == SetArgs(<<from[stride], from[0]>>)
gather_idx(from, idxs) == SetArgs(<<from[idxs[1]], from[idxs[0]]>>)
lane(x, k) == IF k = 0 THEN x[0] ELSE ShufflePd(x, x, 1)[0]
scatter(from, stride, to) == StoreEach(to, Strided(size, stride), [k \in 0..1 |-> lane(from, k)])
scatter_idx(from, stride, to) == StoreEach(to, stride, [k \in 0..1 |-> lane(from, k)])

if_else(m, y, z) == IF SSE4_1 THEN BlendV(z, y, m) ELSE Or(AndNot(m, z), And(m, y))
cmp(op, x, y) ==
    Ones(CASE op = "eq" -> Compare(Eq, FALSE, x, y) [] op = "neq" -> Compare(Neq, TRUE, x, y)
           [] op = "gt" -> Compare(Gt, FALSE, x, y) [] op = "lt" -> Compare(Lt, FALSE, x, y)
           [] op = "ge" -> Compare(Ge, FALSE, x, y) [] op = "le" -> Compare(Le, FALSE, x, y))
mask_load(from) == CvtIntToDouble([k \in 0..1 |-> from[k]])     \* of {f0, f1, 0, 0}
mask_store(m) == CvtDoubleToInt(m)
not_mask(x) == AndNot(x, EqualBits(x))
and_mask(x, y) == And(x, y)
or_mask(x, y) == Or(x, y)
xor_mask(x, y) == Xor(x, y)

broadcast(from) == [k \in 0..3 |-> Dup(from[k], size)]

(* Two rows by shuffles; four or eight through memory, out[j][i] = buf[i][j]*)
(* and out reloaded row by row.                                             *)
Through(x) ==
    LET buf == Spill(x)
        n == LaneCount(x)
        out == [a \in DOMAIN buf |-> buf[size * (a % n) + (a \div n)]]
    IN  Reload(out, size)
ptranspose(x) ==
    IF LaneCount(x) = 2
    THEN [k \in 0..1 |-> ShufflePd(x[0], x[1], IF k = 0 THEN 0 ELSE 3)]
    ELSE Through(x)

INSTANCE SimdContract
=============================================================================
