SPECIFICATION Spec
CONSTANTS
  Thread = {t1, t2}
  NoThread = NoThread
  Stream = {s1}
  DefaultStream = DefaultStream
  AddrLimit = 4
  Base = {0, 2}
  Sizes = {1}
  CapChoices = {}
  MaxChoices = {3}
  Unlimited = 99
  MaxKernels = 0
  HasCallback = FALSE
  Faults = {}
  kMinBlockSize = 1
  kSmallSize = 1
  kSmallBuffer = 2
  kMinLargeAlloc = 4
  kLargeBuffer = 4
  kRoundLarge = 2
SYMMETRY Symmetry
PROPERTIES FractionHeld
