\* A pause that was applied and then overwritten by the start of a node.
CONSTANTS
  Runs <- ProductionRuns
  Kind <- ProductionKind
  Queued = {1}
  Nodes <- MCNodes
  NodesOf <- MCNodesOf
  Stage <- MCStage
  Budgets = {1, 3}
  Actions = {"pause"}
  MaxCommands = 1
  MaxCalls = 4
  MaxAttempts = 1
  MaxCrashes = 0
SPECIFICATION SilentSpec
PROPERTY PauseHolds
CHECK_DEADLOCK FALSE
