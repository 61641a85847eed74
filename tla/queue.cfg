\* A Blueprint and a production in the queue, one stop, failures, and a
\* shutdown or a crash; the provider may never answer.
CONSTANTS
  Runs <- QueueRuns
  Kind <- QueueKind
  Queued = {1, 2}
  Nodes <- QueueNodes
  NodesOf <- QueueNodesOf
  Stage <- QueueStage
  Budgets = {1, 2}
  Actions = {"stop"}
  MaxCommands = 1
  MaxCalls = 3
  MaxAttempts = 2
  MaxCrashes = 1
SPECIFICATION SilentSpec
INVARIANT NoStrandedRun
PROPERTIES RunsComeToRest StopEndsExecution
CHECK_DEADLOCK FALSE
