SPECIFICATION LibrarySpec
CONSTANTS
  Worker = {w1, w2}
  Caller = caller
  Nobody = nobody
  NoNode = NoNode
  Outside = {stranger}
  Shape = "diamond"
  Modes = {"run", "run_to", "run_incremental", "run_async"}
  Node <- MCNode
  Edge <- MCEdge
  From <- MCFrom
  To <- MCTo
  Priority <- MCPriority
  MaxNodes = 3
  MaxEdges = 3
  Version = {0, 1}
  Recipe <- MCRecipe
  MaxAsks = 2
SYMMETRY WorkerSymmetry
INVARIANTS
  InputsReady
  ExecutedOnce
  FailuresReported
  ReadyNodeHasWorker
  ReturnsAfterAll
  IntermediatesFreed
  CacheNotPoisoned
  PriorityIsLongestChain
  GraphFitsExecutor
  PrunedFaithfully
  KeyedGraphRight
PROPERTY VerdictRight
