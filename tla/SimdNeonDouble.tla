--------------------------- MODULE SimdNeonDouble ---------------------------
(* simd<double> on NEON (backend/cpu/neon/double/simd.h): two lanes, masks   *)
(* are 64-bit words widened from and narrowed to 32-bit integers.            *)
EXTENDS Lanes

size == 2
sign_mask == Dup(SignMask, size)

fma(x, y, z) == Add(Mul(x, y), z)
signcopy(x, sign) == Or(And(sign_mask, sign), AndNot(sign_mask, x))
fabs(x) == AndNot(sign_mask, x)
neg(x) == Xor(x, sign_mask)

accumulate(x) == x[0] + x[1]
hmax(x) == IF x[0] < x[1] THEN x[1] ELSE x[0]
hmin(x) == IF x[1] < x[0] THEN x[1] ELSE x[0]

gather(from, stride) == [k \in 0..1 |-> from[k * stride]]
gather_idx(from, strides) == [k \in 0..1 |-> from[strides[k]]]
scatter(from, stride, to) == StoreEach(to, Strided(size, stride), from)
scatter_idx(from, stride, to) == StoreEach(to, stride, from)

if_else(m, y, z) == BitSelect(m, y, z)
cmp(op, x, y) ==
    CASE op = "eq" -> Ones(Compare(Eq, FALSE, x, y))
      [] op = "neq" -> Xor(Ones(Compare(Eq, FALSE, x, y)), Dup(AllOnes, size))
      [] op = "gt" -> Ones(Compare(Gt, FALSE, x, y)) [] op = "lt" -> Ones(Compare(Lt, FALSE, x, y))
      [] op = "ge" -> Ones(Compare(Ge, FALSE, x, y)) [] op = "le" -> Ones(Compare(Le, FALSE, x, y))
mask_load_cast(from) == from   \* mutant: u32_mask_to_u64 only widens
mask_load(from) == [k \in 0..1 |-> IF from[k] # {} THEN AllOnes ELSE {}]   \* u32_mask_to_u64
mask_store(m) == [k \in 0..1 |-> IF m[k] # {} THEN {"m"} ELSE {}]          \* 1u
not_mask(x) == Xor(x, Dup(AllOnes, size))
and_mask(x, y) == And(x, y)
or_mask(x, y) == Or(x, y)
xor_mask(x, y) == Xor(x, y)

broadcast(from) == [k \in 0..3 |-> Dup(from[k], size)]
Through(x) ==
    LET buf == Spill(x)
        n == LaneCount(x)
        out == [a \in DOMAIN buf |-> buf[size * (a % n) + (a \div n)]]
    IN  Reload(out, size)
ptranspose(x) == IF LaneCount(x) = 2 THEN [k \in 0..1 |-> Zip(x[0], x[1], k)] ELSE Through(x)

INSTANCE SimdContract
=============================================================================
