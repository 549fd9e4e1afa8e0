-------------------------- MODULE SimdHalfContract --------------------------
(* What callers rely on of half registers and of folding a full one onto one, *)
(* on the instruction sets that have them.                                    *)
EXTENDS Lanes

CONSTANTS size, half, gather_half(_, _), loadu_half(_), fma_half(_, _, _),
          predux_downto4(_), scatter_half(_, _, _)

HalfLane == 0..(half - 1)
HalfMemory == [a \in 0..(3 * size) |-> 100 + a]
FirstHalf(x) == [k \in HalfLane |-> x[k]]

(* The half register holds and stores half the lanes; folding a full one     *)
(* onto it adds lane k and lane k + half.                                    *)
HalvesRight(p, stride) ==
    LET x == [k \in 0..(size - 1) |-> IF k = p THEN 50 ELSE k]
        y == gather_half(HalfMemory, stride)
        z == loadu_half(HalfMemory)
        address == [k \in HalfLane |-> k * stride]
    IN  /\ FirstHalf(y) = [k \in HalfLane |-> HalfMemory[k * stride]]
        /\ FirstHalf(z) = [k \in HalfLane |-> HalfMemory[k]]
        /\ FirstHalf(predux_downto4(x)) = [k \in HalfLane |-> x[k] + x[k + half]]
        /\ FirstHalf(fma_half(y, z, z)) = [k \in HalfLane |-> y[k] * z[k] + z[k]]
        /\ scatter_half(predux_downto4(x), stride, HalfMemory) =
               StoreEach(HalfMemory, address, FirstHalf(predux_downto4(x)))
=============================================================================
