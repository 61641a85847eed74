\* A stop that is overwritten: the run is claimed again.
CONSTANTS
  Runs <- ProductionRuns
  Kind <- ProductionKind
  Queued = {1}
  Nodes <- MCNodes
  NodesOf <- MCNodesOf
  Stage <- MCStage
  Budgets = {1, 3}
  Actions = {"stop"}
  MaxCommands = 1
  MaxCalls = 4
  MaxAttempts = 1
  MaxCrashes = 0
SPECIFICATION SilentSpec
PROPERTY StopIsFinal
CHECK_DEADLOCK FALSE
