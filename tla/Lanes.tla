------------------------------- MODULE Lanes -------------------------------
(***************************************************************************)
(* Registers as functions from lane numbers 0 .. n - 1, and the intrinsics *)
(* (Intel, Arm) that the simd<T> specialisations of                        *)
(* Vectorization/backend/cpu are written with: external, modelled by what  *)
(* their vendors document about lanes.  Lane 0 is the lowest address.      *)
(*                                                                         *)
(* A word seen bit by bit is a set of bits: "s" the sign, "e" an exponent  *)
(* bit, "m" a mantissa bit; all ones is AllOnes and zero is {}.            *)
(***************************************************************************)
EXTENDS Integers, Sequences

AllOnes == {"s", "e", "m"}
SignMask == {"s"}
NaN == 1000000          \* an unordered operand of a comparison

LaneCount(x) == CHOOSE n \in 1..128 : DOMAIN x = 0..(n - 1)

Dup(v, n) == [k \in 0..(n - 1) |-> v]
SetArgs(s) == [k \in 0..(Len(s) - 1) |-> s[Len(s) - k]]    \* _mm_set_*: highest lane first
Loadu(from, n) == [k \in 0..(n - 1) |-> from[k]]
(* Scalar stores to[at[0]] = v[0]; to[at[1]] = v[1]; ...: the last one wins. *)
StoreEach(to, at, v) ==
    LET last(a) == CHOOSE k \in DOMAIN at :
                       at[k] = a /\ \A j \in DOMAIN at : at[j] = a => j <= k
    IN  [a \in DOMAIN to |-> IF \E k \in DOMAIN at : at[k] = a THEN v[last(a)] ELSE to[a]]
Strided(n, stride) == [k \in 0..(n - 1) |-> k * stride]

(* Lanewise arithmetic. *)
Add(x, y) == [k \in DOMAIN x |-> x[k] + y[k]]
Mul(x, y) == [k \in DOMAIN x |-> x[k] * y[k]]
MaxL(x, y) == [k \in DOMAIN x |-> IF x[k] > y[k] THEN x[k] ELSE y[k]]
MinL(x, y) == [k \in DOMAIN x |-> IF x[k] < y[k] THEN x[k] ELSE y[k]]

(* Lanewise bits. *)
And(x, y) == [k \in DOMAIN x |-> x[k] \cap y[k]]
Or(x, y) == [k \in DOMAIN x |-> x[k] \cup y[k]]
Xor(x, y) == [k \in DOMAIN x |-> (x[k] \ y[k]) \cup (y[k] \ x[k])]
AndNot(x, y) == [k \in DOMAIN x |-> y[k] \ x[k]]           \* ~x & y

(* A comparison whose predicate is P and whose answer on a NaN is nan. *)
Compare(P(_, _), nan, x, y) ==
    [k \in DOMAIN x |-> IF NaN \in {x[k], y[k]} THEN nan ELSE P(x[k], y[k])]
Eq(a, b) == a = b
Neq(a, b) == a # b
Gt(a, b) == a > b
Lt(a, b) == a < b
Ge(a, b) == a >= b
Le(a, b) == a <= b
Ones(truth) == [k \in DOMAIN truth |-> IF truth[k] THEN AllOnes ELSE {}]
EqualBits(x) == [k \in DOMAIN x |->            \* cmp_eq(x, x): false on a NaN pattern
                    IF x[k] \in {{"e", "m"}, AllOnes} THEN {} ELSE AllOnes]

(* Selection. *)
BlendV(z, y, m) == [k \in DOMAIN z |-> IF "s" \in m[k] THEN y[k] ELSE z[k]]
BitSelect(m, y, z) == [k \in DOMAIN z |-> (m[k] \cap y[k]) \cup (z[k] \ m[k])]
MaskMov(z, m, y) == [k \in DOMAIN z |-> IF m[k] THEN y[k] ELSE z[k]]

(* 32-bit integers to doubles and back.  A NaN and anything out of range    *)
(* become the integer 0x80000000; a zero exponent is zero.                  *)
CvtIntToDouble(w) == [k \in DOMAIN w |-> IF w[k] = {} THEN {}
                                         ELSE {"e"} \cup (w[k] \cap SignMask)]
CvtDoubleToInt(x) == [k \in DOMAIN x |-> CASE "e" \notin x[k] -> {}
                                          [] {"e", "m"} \subseteq x[k] -> SignMask
                                          [] "s" \in x[k] -> SignMask
                                          [] OTHER -> {"m"}]

(* Parts of a register, w lanes each. *)
Extract(x, g, w) == [k \in 0..(w - 1) |-> x[g * w + k]]
Insert(x, part, g, w) == [k \in DOMAIN x |-> IF k \div w = g THEN part[k % w] ELSE x[k]]
Join(lo, hi) == LET w == LaneCount(lo)
                IN  [k \in 0..(2 * w - 1) |-> IF k < w THEN lo[k] ELSE hi[k - w]]

(* Shuffles inside groups of w lanes of 128 bits (w = 2 doubles, 4 floats). *)
UnpackLo(x, y, w) == [k \in DOMAIN x |->
    (IF k % 2 = 0 THEN x ELSE y)[(k \div w) * w + ((k % w) \div 2)]]
UnpackHi(x, y, w) == [k \in DOMAIN x |->
    (IF k % 2 = 0 THEN x ELSE y)[(k \div w) * w + (w \div 2) + ((k % w) \div 2)]]
ShufflePd(x, y, imm) == [k \in DOMAIN x |->
    (IF k % 2 = 0 THEN x ELSE y)[2 * (k \div 2) + ((imm \div 2^k) % 2)]]
ShufflePs(x, y, imm) == [k \in DOMAIN x |->
    (IF k % 4 < 2 THEN x ELSE y)[4 * (k \div 4) + ((imm \div 4^(k % 4)) % 4)]]
MM_SHUFFLE(d, c, b, a) == 64 * d + 16 * c + 4 * b + a
MoveHL(x, y) == [k \in 0..3 |-> IF k < 2 THEN y[k + 2] ELSE x[k]]

(* _mm256_permute2f128: each half of the result is one of the four halves.  *)
Permute2f128(x, y, imm) ==
    LET w == LaneCount(x) \div 2
        half(n) == Extract(IF n < 2 THEN x ELSE y, n % 2, w)
    IN  Join(half(imm % 16), half(imm \div 16))

(* Arm: vtrnq, vcombine, vpadd and the like on two-lane vectors. *)
Trn(x, y, odd) == [k \in DOMAIN x |-> IF k % 2 = 0 THEN x[k + odd] ELSE y[k - 1 + odd]]
Low(x) == Extract(x, 0, LaneCount(x) \div 2)
High(x) == Extract(x, 1, LaneCount(x) \div 2)
Zip(x, y, k) == [j \in 0..1 |-> IF j = 0 THEN x[k] ELSE y[k]]

(* A block of rows written to memory one register after another, and back.  *)
Spill(rows) == LET w == LaneCount(rows[0])
               IN  [a \in 0..(w * LaneCount(rows) - 1) |-> rows[a \div w][a % w]]
Reload(flat, w) == [r \in 0..(LaneCount(flat) \div w - 1) |-> Extract(flat, r, w)]
=============================================================================
