SPECIFICATION Spec
CONSTANTS
  Thread = {t1, t2}
  NoThread = NoThread
  Stream = {s1}
  DefaultStream = DefaultStream
  AddrLimit = 7
  Base = {0, 3}
  Sizes = {1, 2}
  CapChoices = {1}
  MaxChoices = {}
  Unlimited = 99
  MaxKernels = 0
  HasCallback = FALSE
  Faults = {}
  kMinBlockSize = 1
  kSmallSize = 1
  kSmallBuffer = 3
  kMinLargeAlloc = 4
  kLargeBuffer = 4
  kRoundLarge = 2
SYMMETRY Symmetry
INVARIANTS Tiled Coalesced Accounted CapHeld
