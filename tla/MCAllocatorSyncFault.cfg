SPECIFICATION Spec
CONSTANTS
  Thread = {t1}
  NoThread = NoThread
  Stream = {s1, s2}
  DefaultStream = DefaultStream
  AddrLimit = 2
  Base = {0}
  Sizes = {1}
  CapChoices = {}
  MaxChoices = {}
  Unlimited = 99
  MaxKernels = 1
  HasCallback = FALSE
  Faults = {"sync"}
  kMinBlockSize = 1
  kSmallSize = 1
  kSmallBuffer = 2
  kMinLargeAlloc = 4
  kLargeBuffer = 4
  kRoundLarge = 2
SYMMETRY Symmetry
INVARIANTS Sorted
