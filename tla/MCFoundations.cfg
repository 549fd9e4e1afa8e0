SPECIFICATION MCSpec
CONSTANTS
  Handle <- MCHandle
  HashKey <- MCHashKey
  Value <- MCValue
  Kind <- MCKind
  Load <- MCLoad
  Buckets <- MCBuckets
  MaxLoop = 3
  HashWord = 5
  Multiplier = 19
  Config <- MCConfig
  Base <- MCBase
  Unlimited = 99
  kMinBlockSize = 1
  kSmallSize = 1
  kSmallBuffer = 3
  kMinLargeAlloc = 4
  kLargeBuffer = 4
  kRoundLarge = 2
  kSmallHeapBytes = 6
  kLargeHeapBytes = 8
  Stamp = {0, 1, 2}
  Node <- MCNode
  Edge <- MCEdge
  From <- MCFrom
  To <- MCTo
  Priority <- MCPriority
INVARIANTS
  CountsExact
  DeleterIsLast
  NoLeak
  AgreesWithMap
  LoopMeetsEachOnce
  HeapSound
  Flushed
  DiagnosticsTrue
  CacheCurrent
  SuccessIsFull
  OnlyAffectedRecompute
PROPERTY DeadStaysDead

