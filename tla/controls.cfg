\* Every control on a Blueprint run with a parallel super-step and the child a
\* retry queues, and on a production run with a crash, a shutdown and retries.
CONSTANTS
  Runs <- ControlRuns
  Kind <- ControlKind
  Queued = {1}
  Nodes <- MCNodes
  NodesOf <- MCNodesOf
  Stage <- MCStage
  Budgets = {1, 3}
  Actions = {"pause", "stop", "resume", "retry", "budget"}
  MaxCommands = 2
  MaxCalls = 3
  MaxAttempts = 2
  MaxCrashes = 1
SPECIFICATION ControlsSpec
INVARIANTS
  TypeOK
  WorkFollowsGraph
  CheckpointHasEvidence
  FinishedMeansComplete
  SequentialBudget
  
CHECK_DEADLOCK FALSE
