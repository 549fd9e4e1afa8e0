SPECIFICATION FairSpec
CONSTANTS
  Thread = {t1, t2}
  NoThread = NoThread
  Stream = {s1, s2, s3}
  DefaultStream = DefaultStream
  AddrLimit = 1
  Base = {0}
  Sizes = {1}
  CapChoices = {}
  MaxChoices = {}
  Unlimited = 99
  MaxKernels = 0
  HasCallback = TRUE
  Faults = {"oom", "malloc", "query", "record", "sync", "free", "device", "device_late"}
  kMinBlockSize = 1
  kSmallSize = 1
  kSmallBuffer = 1
  kMinLargeAlloc = 4
  kLargeBuffer = 4
  kRoundLarge = 2
INVARIANTS NothingLost
PROPERTIES CallsReturn
