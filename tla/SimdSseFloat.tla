---------------------------- MODULE SimdSseFloat ----------------------------
(* simd<float> on SSE (backend/cpu/sse/float/simd.h over sse/intrinsics.h): *)
(* four lanes; the half register is the low two lanes of a full one.        *)
EXTENDS Lanes

CONSTANT SSE4_1        \* whether __SSE4_1__ is defined

size == 4
sign_mask == Dup(SignMask, size)

fma(x, y, z) == Add(Mul(x, y), z)
signcopy(x, sign) == Or(And(sign, sign_mask), AndNot(sign_mask, x))
fabs(x) == AndNot(sign_mask, x)
neg(x) == Xor(x, sign_mask)

accumulate(x) == LET t == Add(x, MoveHL(x, x)) IN t[0] + ShufflePs(t, t, 1)[0]
hmax(x) == LET max2 == MaxL(x, ShufflePs(x, x, MM_SHUFFLE(0, 0, 3, 2)))
           IN  MaxL(max2, ShufflePs(max2, max2, MM_SHUFFLE(0, 0, 0, 1)))[0]
hmin(x) == LET min2 == MinL(x, ShufflePs(x, x, MM_SHUFFLE(0, 0, 3, 2)))
           IN  MinL(min2, ShufflePs(min2, min2, MM_SHUFFLE(0, 0, 0, 1)))[0]

gather(from, stride) ==
    SetArgs(<<from[3 * stride], from[2 * stride], from[stride], from[0]>>)
gather_idx(from, idxs) ==
    SetArgs(<<from[idxs[3]], from[idxs[2]], from[idxs[1]], from[idxs[0]]>>)
lane(x, k) == ShufflePs(x, x, k)[0]
scatter(from, stride, to) == StoreEach(to, Strided(size, stride), [k \in 0..3 |-> lane(from, k)])
scatter_idx(from, stride, to) == StoreEach(to, stride, [k \in 0..3 |-> lane(from, k)])

if_else(m, y, z) == IF SSE4_1 THEN BlendV(z, y, m) ELSE Or(AndNot(m, z), And(m, y))
cmp(op, x, y) ==
    Ones(CASE op = "eq" -> Compare(Eq, FALSE, x, y) [] op = "neq" -> Compare(Neq, TRUE, x, y)
           [] op = "gt" -> Compare(Gt, FALSE, x, y) [] op = "lt" -> Compare(Lt, FALSE, x, y)
           [] op = "ge" -> Compare(Ge, FALSE, x, y) [] op = "le" -> Compare(Le, FALSE, x, y))
mask_load(from) == from
mask_store(m) == m
not_mask(x) == AndNot(x, EqualBits(x))
and_mask(x, y) == And(x, y)
or_mask(x, y) == Or(x, y)
xor_mask(x, y) == Xor(x, y)

broadcast(from) == [k \in 0..3 |-> Dup(from[k], size)]

(* _MM_TRANSPOSE4_PS. *)
transpose_4x4_ps(x) ==
    LET t0 == UnpackLo(x[0], x[1], 4)
        t1 == UnpackLo(x[2], x[3], 4)
        t2 == UnpackHi(x[0], x[1], 4)
        t3 == UnpackHi(x[2], x[3], 4)
    IN  [k \in 0..3 |-> CASE k = 0 -> Join(Low(t0), Low(t1)) [] k = 1 -> MoveHL(t1, t0)
                          [] k = 2 -> Join(Low(t2), Low(t3)) [] k = 3 -> MoveHL(t3, t2)]
(* Eight or sixteen rows go through memory: out[j][i] = buf[i][j].           *)
Through(x) ==
    LET buf == Spill(x)
        n == LaneCount(x)
        out == [a \in DOMAIN buf |-> buf[size * (a % n) + (a \div n)]]
    IN  Reload(out, size)
ptranspose(x) == IF LaneCount(x) = 4 THEN transpose_4x4_ps(x) ELSE Through(x)

(* The half register: lanes 0 and 1 of four.                                *)
half == 2
gather_half(from, stride) == SetArgs(<<0, 0, from[stride], from[0]>>)
loadu_half(from) == LET lo == SetArgs(<<0, 0, 0, from[0]>>)
                        hi == SetArgs(<<0, 0, 0, from[1]>>)
                    IN  UnpackLo(lo, hi, 4)
fma_half(x, y, z) == Add(Mul(x, y), z)
predux_downto4(x) == Add(x, MoveHL(x, x))
scatter_half(from, stride, to) == StoreEach(to, Strided(half, stride), [k \in 0..1 |-> lane(from, k)])

INSTANCE SimdContract
INSTANCE SimdHalfContract
=============================================================================
