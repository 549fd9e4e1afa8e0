SPECIFICATION FairSpec
CONSTANTS
  Worker = {w1, w2}
  Caller = caller
  Nobody = nobody
  NoNode = NoNode
  Outside = {stranger}
  Shape = "doubled"
  Modes = {"run", "run_to", "run_incremental", "run_async"}
  Node <- MCNode
  Edge <- MCEdge
  From <- MCFrom
  To <- MCTo
  Priority <- MCPriority
PROPERTIES
  RunReturns
  ImplementsGraphRun
