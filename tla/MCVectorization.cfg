SPECIFICATION Spec
CONSTANTS
  shape1 = shape1
  shape2 = shape2
  Obj = {shape1, shape2}
  MaxInline = 1
  MaxRank = 3
  Extent = {1}
  Length = 2
  SimdAlign = 2
  BlockAlign = 4
  MaskIsPacket = FALSE
  PacketSize = 2
  Block = 4
  Huge = 1000
  MaxSlots = 4
  MaxCount = 8
  Reach = 20
  ten1 = ten1
  ten2 = ten2
  ten3 = ten3
  Names = {ten1, ten2, ten3}
  MaxBlocks = 2
  Span = 8
  Dims <- MCDims
  Strides <- MCStrides
  Devices = {"cpu", "gpu"}
  MaxCalls = 4
SYMMETRY NameSymmetry
INVARIANTS
  ShapesSurvive
  LanesRight
  MasksAgree
  ComputesEach
  AlignedWhereClaimed
  ReadsItsElements
  BuffersOwned
CHECK_DEADLOCK FALSE
