SPECIFICATION Spec
CONSTANTS
  Thread = {t1}
  NoThread = NoThread
  Stream = {s1, s2}
  DefaultStream = DefaultStream
  AddrLimit = 3
  Base = {0}
  Sizes = {1}
  CapChoices = {0}
  MaxChoices = {3}
  Unlimited = 99
  MaxKernels = 1
  HasCallback = FALSE
  Faults = {"free", "device", "device_late"}
  kMinBlockSize = 1
  kSmallSize = 1
  kSmallBuffer = 3
  kMinLargeAlloc = 4
  kLargeBuffer = 4
  kRoundLarge = 2
SYMMETRY Symmetry
PROPERTIES ImplementsStreamHeap
