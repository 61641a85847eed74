-------------------------- MODULE MCWorkflowRuntime --------------------------
(* Instances of WorkflowRuntime for TLC.                                    *)
EXTENDS WorkflowRuntime

(* The graphs: the Blueprint graph cut to its parallel pair and the node    *)
(* that joins it, and two steps of a production.                            *)
MCNodes == {"world", "character", "integration", "draft", "continuity"}
MCNodesOf == [blueprint |-> {"world", "character", "integration"},
              production |-> {"draft", "continuity"}]
MCStage == [world |-> 1, character |-> 1, integration |-> 2, draft |-> 1, continuity |-> 2]

(* One Blueprint and the child a retry may queue.                           *)
BlueprintRuns == 1 .. 2
BlueprintKind == [r \in BlueprintRuns |-> "blueprint"]

ProductionRuns == {1}
ProductionKind == [r \in ProductionRuns |-> "production"]

(* A Blueprint and a production in one queue, with one node each.           *)
QueueNodes == {"integration", "draft"}
QueueNodesOf == [blueprint |-> {"integration"}, production |-> {"draft"}]
QueueStage == [integration |-> 1, draft |-> 1]
QueueRuns == 1 .. 2
QueueKind == <<"production", "blueprint">>

(* Every control on one Blueprint and the child a retry may queue, in a     *)
(* process that no longer crashes and with a budget that lets one call      *)
(* start, or on one production, with a crash.                               *)
ControlRuns == 1 .. 3
ControlKind == <<"blueprint", "blueprint", "production">>
OfBlueprint == INSTANCE WorkflowRuntime WITH Queued <- {1}
OfProduction == INSTANCE WorkflowRuntime WITH Queued <- {3}

ControlsInit ==
  /\ \/ OfBlueprint!StoreInit /\ rows[3].budget = 1 /\ crashes = MaxCrashes
     \/ OfProduction!StoreInit /\ crashes = 0
  /\ \A r \in 1 .. 2 : rows[r].budget = 1
  /\ proc = "up" /\ exec = Idle /\ task = NoTasks /\ orphans = {} /\ cancels = {}
ControlsSpec == ControlsInit /\ [][Next]_vars
=============================================================================
