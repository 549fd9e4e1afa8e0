--------------------------- MODULE SimdNeonFloat ---------------------------
(* simd<float> on NEON (backend/cpu/neon/float/simd.h): four lanes in two   *)
(* 64-bit halves; masks are 32-bit words used as they are in memory.        *)
EXTENDS Lanes

size == 4
sign_mask == Dup(SignMask, size)

fma(x, y, z) == Add(Mul(x, y), z)
signcopy(x, sign) == Or(And(sign_mask, sign), AndNot(sign_mask, x))
fabs(x) == AndNot(sign_mask, x)
neg(x) == Xor(x, sign_mask)

(* vget_high and vget_low combined, then a pairwise step. *)
accumulate(x) == LET t == Add(High(x), Low(x)) IN t[0] + t[1]
hmax(x) == LET t == MaxL(High(x), Low(x)) IN MaxL(t, [k \in 0..1 |-> t[1 - k]])[0]
hmin(x) == LET t == MinL(High(x), Low(x)) IN MinL(t, [k \in 0..1 |-> t[1 - k]])[0]

gather(from, stride) == [k \in 0..3 |-> from[k * stride]]
gather_idx(from, strides) == [k \in 0..3 |-> from[strides[k]]]
scatter_once(from, stride, to) ==   \* mutant: the fourth lane is stored at 2 * stride again
    StoreEach(to, [k \in 0..3 |-> (IF k = 3 THEN 2 ELSE k) * stride], from)
scatter(from, stride, to) == StoreEach(to, Strided(size, stride), from)
scatter_idx(from, stride, to) == StoreEach(to, stride, from)

if_else(m, y, z) == BitSelect(m, y, z)
cmp(op, x, y) ==
    CASE op = "eq" -> Ones(Compare(Eq, FALSE, x, y))
      [] op = "neq" -> Xor(Ones(Compare(Eq, FALSE, x, y)), Dup(AllOnes, size))
      [] op = "gt" -> Ones(Compare(Gt, FALSE, x, y)) [] op = "lt" -> Ones(Compare(Lt, FALSE, x, y))
      [] op = "ge" -> Ones(Compare(Ge, FALSE, x, y)) [] op = "le" -> Ones(Compare(Le, FALSE, x, y))
mask_load(from) == from
mask_store(m) == m
not_mask(x) == Xor(x, Dup(AllOnes, size))
and_mask(x, y) == And(x, y)
or_mask(x, y) == Or(x, y)
xor_mask(x, y) == Xor(x, y)

broadcast(from) == [k \in 0..3 |-> Dup(from[k], size)]

(* Four rows by vtrnq and vcombine, more through memory.                     *)
ptranspose4(x) ==
    LET t(pair, odd) == Trn(x[2 * pair], x[2 * pair + 1], odd)
    IN  [k \in 0..3 |-> IF k < 2 THEN Join(Low(t(0, k)), Low(t(1, k)))
                                 ELSE Join(High(t(0, k - 2)), High(t(1, k - 2)))]
Through(x) ==
    LET buf == Spill(x)
        n == LaneCount(x)
        out == [a \in DOMAIN buf |-> buf[size * (a % n) + (a \div n)]]
    IN  Reload(out, size)
ptranspose(x) == IF LaneCount(x) = 4 THEN ptranspose4(x) ELSE Through(x)

(* The half register: two lanes. *)
half == 2
gather_half(from, stride) == [k \in 0..1 |-> from[k * stride]]
loadu_half(from) == Loadu(from, half)
fma_half(x, y, z) == Add(Mul(x, y), z)
predux_downto4(x) == Add(High(x), Low(x))
scatter_half(from, stride, to) == StoreEach(to, Strided(half, stride), from)

INSTANCE SimdContract
INSTANCE SimdHalfContract
=============================================================================
