--------------------------- MODULE MCVectorization ---------------------------
(***************************************************************************)
(* The layers of the vectorization library, one at a time: the shapes of   *)
(* tensors, the registers of every instruction set, the evaluator over one *)
(* call, and tensors over a program of MaxCalls calls.                     *)
(***************************************************************************)
EXTENDS Tensors, ExpressionRuns, SizesAndStrides, TLC

CONSTANTS MaxCalls,             \* bound: calls of a tensor program
          ten1, ten2, ten3,     \* names of tensors
          shape1, shape2        \* objects that hold a shape

VARIABLES part,           \* the layer of this behavior
          calls,          \* tensor calls made
          probe           \* where a register is probed, <<-1, -1>> in the other layers

AvxD == INSTANCE SimdAvxDouble
AvxF == INSTANCE SimdAvxFloat
Avx512D == INSTANCE SimdAvx512Double
Avx512F == INSTANCE SimdAvx512Float
SseD == INSTANCE SimdSseDouble WITH SSE4_1 <- FALSE
Sse41D == INSTANCE SimdSseDouble WITH SSE4_1 <- TRUE
SseF == INSTANCE SimdSseFloat WITH SSE4_1 <- FALSE
Sse41F == INSTANCE SimdSseFloat WITH SSE4_1 <- TRUE
NeonD == INSTANCE SimdNeonDouble
NeonF == INSTANCE SimdNeonFloat

MCDims == {<<4>>, <<2, 1, 2>>}
MCStrides == {1, 2}
NameSymmetry == Permutations(Names) \cup Permutations(Obj)

Probes == (0 .. 15) \X (0 .. 15)

Init ==
    /\ part \in {"shapes", "registers", "calls", "tensors"}
    /\ TensorsInit /\ calls = 0
    /\ RunInit
    /\ SasInit
    /\ probe = <<-1, -1>>

Next ==
    /\ UNCHANGED part
    /\ \/ /\ part = "shapes" /\ SasNext
          /\ UNCHANGED <<tensorVars, runVars, calls, probe>>
       \/ /\ part = "registers" /\ probe = <<-1, -1>>
          /\ probe' \in Probes
          /\ UNCHANGED <<tensorVars, runVars, calls, sasVars>>
       \/ /\ part = "calls" /\ RunNext
          /\ UNCHANGED <<tensorVars, calls, sasVars, probe>>
       \/ /\ part = "tensors" /\ calls < MaxCalls /\ calls' = calls + 1 /\ TensorsNext
          /\ UNCHANGED <<runVars, sasVars, probe>>

Spec == Init /\ [][Next]_<<part, calls, tensorVars, runVars, sasVars, probe>>

-----------------------------------------------------------------------------

Probed == probe # <<-1, -1>>
p == probe[1]
q == probe[2]
ops == {"eq", "neq", "gt", "lt", "ge", "le"}

\* Offsets of an indexed gather, some equal, some out of order.
At(n) == [k \in 0 .. (n - 1) |-> (k * p + q) % (3 * n)]

\* A register of w lanes is probed at its own lanes only, once each.
AtLane(w) == p < w /\ q = 0
AtLanes(w, v) == p < w /\ q < v

Reduces ==
    /\ AtLane(2) => SseD!ReducesAllLanes(p) /\ NeonD!ReducesAllLanes(p)
    /\ AtLane(4) => AvxD!ReducesAllLanes(p) /\ SseF!ReducesAllLanes(p) /\ NeonF!ReducesAllLanes(p)
    /\ AtLane(8) => AvxF!ReducesAllLanes(p) /\ Avx512D!ReducesAllLanes(p)
    /\ AtLane(16) => Avx512F!ReducesAllLanes(p)

Moves ==
    /\ AvxD!MovesItsElements(q % 4, At(4)) /\ AvxF!MovesItsElements(q % 4, At(8))
    /\ Avx512D!MovesItsElements(q % 4, At(8)) /\ Avx512F!MovesItsElements(q % 4, At(16))
    /\ SseD!MovesItsElements(q % 4, At(2)) /\ SseF!MovesItsElements(q % 4, At(4))
    /\ NeonD!MovesItsElements(q % 4, At(2)) /\ NeonF!MovesItsElements(q % 4, At(4))

Signs ==
    /\ AtLane(2) => SseD!SignsOnly(p) /\ NeonD!SignsOnly(p)
    /\ AtLane(4) => AvxD!SignsOnly(p) /\ SseF!SignsOnly(p) /\ NeonF!SignsOnly(p)
    /\ AtLane(8) => AvxF!SignsOnly(p) /\ Avx512D!SignsOnly(p)
    /\ AtLane(16) => Avx512F!SignsOnly(p)

Halves ==
    /\ AtLanes(4, 4) => SseF!HalvesRight(p, q) /\ NeonF!HalvesRight(p, q)
    /\ AtLanes(8, 4) => AvxF!HalvesRight(p, q) /\ Avx512D!HalvesRight(p, q)

Transposed ==
    /\ AvxD!Transposes(4) /\ \A n \in {4, 8} : AvxF!Transposes(n) /\ Avx512D!Transposes(n)
    /\ \A n \in {4, 16} : Avx512F!Transposes(n)
    /\ \A n \in {2, 4, 8} : SseD!Transposes(n) /\ NeonD!Transposes(n)
    /\ \A n \in {4, 8, 16} : SseF!Transposes(n) /\ NeonF!Transposes(n)

\* On every instruction set a horizontal reduction takes in each lane once, whatever the
\* order of its shuffles; a gather and a scatter move each element to and from its own
\* place; a transpose of n registers of a block really transposes it; a sign operation
\* changes the sign alone; and a half register is the lower half (backend/cpu/*/simd.h).
LanesRight ==
    Probed => Reduces /\ Moves /\ Signs /\ Halves /\ (probe = <<0, 0>> => Transposed)

\* A selection by a combination of two comparisons picks what the scalar code would pick,
\* and a mask stored and loaded again selects the same lanes, whichever of the four
\* representations of a mask the instruction set has.
MasksAgree ==
    Probed =>
        /\ \A o, r \in ops :
              /\ AtLanes(2, 2) => /\ SseD!SelectsAsScalars(o, r, p, q) /\ Sse41D!SelectsAsScalars(o, r, p, q)
                                 /\ NeonD!SelectsAsScalars(o, r, p, q)
              /\ AtLanes(4, 4) => /\ SseF!SelectsAsScalars(o, r, p, q) /\ Sse41F!SelectsAsScalars(o, r, p, q)
                                 /\ AvxD!SelectsAsScalars(o, r, p, q) /\ NeonF!SelectsAsScalars(o, r, p, q)
              /\ AtLanes(8, 8) => AvxF!SelectsAsScalars(o, r, p, q) /\ Avx512D!SelectsAsScalars(o, r, p, q)
              /\ Avx512F!SelectsAsScalars(o, r, p, q)
        /\ \A o \in ops :
              /\ AtLanes(2, 2) => Sse41D!MaskSurvivesMemory(o, p, q) /\ NeonD!MaskSurvivesMemory(o, p, q)
              /\ AtLanes(4, 4) => /\ SseF!MaskSurvivesMemory(o, p, q) /\ Sse41F!MaskSurvivesMemory(o, p, q)
                                 /\ AvxD!MaskSurvivesMemory(o, p, q) /\ NeonF!MaskSurvivesMemory(o, p, q)
              /\ AtLanes(8, 8) => AvxF!MaskSurvivesMemory(o, p, q) /\ Avx512D!MaskSurvivesMemory(o, p, q)
              /\ Avx512F!MaskSurvivesMemory(o, p, q)
=============================================================================
