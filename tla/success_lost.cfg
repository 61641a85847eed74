\* A shutdown that fails a call whose outputs are committed.
CONSTANTS
  Runs <- BlueprintRuns
  Kind <- BlueprintKind
  Queued = {1}
  Nodes <- MCNodes
  NodesOf <- MCNodesOf
  Stage <- MCStage
  Budgets = {2}
  Actions = {}
  MaxCommands = 0
  MaxCalls = 3
  MaxAttempts = 1
  MaxCrashes = 1
SPECIFICATION SilentSpec
PROPERTY SuccessPreserved
CHECK_DEADLOCK FALSE
