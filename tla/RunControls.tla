----------------------------- MODULE RunControls -----------------------------
(***************************************************************************)
(* The durable side of run control: the workflow_runs rows, the append-only *)
(* workflow_run_controls rows, the agent_invocations rows and the           *)
(* transactions of RunControlStore over them.  One action is one            *)
(* `session_factory.begin()` block.  The worker that executes the runs is   *)
(* module WorkflowRuntime, which extends this one.                          *)
(*                                                                          *)
(* Usage is the number of model calls; the other budget dimensions (tokens, *)
(* cost, graph steps, wall clock) have the same check and are left out.     *)
(***************************************************************************)
EXTENDS Integers, Sequences, FiniteSets

CONSTANTS
  Runs,         \* ids of workflow runs, numbered in creation order
  Kind,         \* [Runs -> {"blueprint", "production"}]
  Queued,       \* the runs that exist at first; the others are retry children
  Nodes,        \* model-backed graph nodes
  NodesOf,      \* [kind -> set of nodes of that graph]
  Stage,        \* [Nodes -> Nat], the super-step a node belongs to
  Budgets,      \* the values a max_model_calls budget may take
  Actions,      \* the control actions clients send in this instance
  MaxCommands,  \* bound: commands recorded
  MaxCalls      \* bound: model calls of one run

Kinds == {"blueprint", "production"}
Statuses == {"PENDING", "RUNNING", "PAUSED", "SUCCEEDED", "FAILED", "CANCELLED"}
NoReason == "none"
Reasons == {NoReason, "USER", "BUDGET", "HUMAN_APPROVAL"}
CallStatuses == {"RUNNING", "SUCCEEDED", "FAILED", "CANCELLED"}
NoRun == 0
Unset == "unset"        \* current_node of a run no node of which was entered
Approval == "approval"  \* current_node of a Blueprint that awaits its decision

ASSUME RunsAssumption ==
  /\ Runs \subseteq Nat \ {0}
  /\ Kind \in [Runs -> Kinds]
  /\ Queued \subseteq Runs
ASSUME GraphAssumption ==
  /\ {Unset, Approval} \cap Nodes = {}
  /\ NodesOf \in [Kinds -> SUBSET Nodes]
  /\ Stage \in [Nodes -> Nat]
ASSUME BoundsAssumption ==
  Budgets \subseteq Nat /\ MaxCommands \in Nat /\ MaxCalls \in Nat

VARIABLES
  rows,         \* [Runs -> record]: the workflow_runs row of a run
  done,         \* [Runs -> set of nodes]: nodes in the LangGraph checkpoint
  invocations,  \* agent_invocations, in creation order (the index is the id)
  controls      \* workflow_run_controls, in creation order (the index is the id)

durable == <<rows, done, invocations, controls>>

Row == [exists : BOOLEAN, status : Statuses, reason : Reasons,
        node : Nodes \cup {Unset, Approval}, budget : Nat,
        synced : BOOLEAN,            \* checkpoint_id is set
        seeded : SUBSET Nodes,       \* nodes whose artifacts a retry inherited
        skipped : SUBSET Nodes]      \* nodes a retry passes over without artifacts
Invocation == [run : Runs, node : Nodes, status : CallStatuses]
Control == [run : Runs, action : {"pause", "stop", "budget", "resume", "retry"},
            status : {"PENDING", "APPLIED", "FAILED"},
            target : Nodes \cup {Unset}, result : Runs \cup {NoRun}]

StoreTypeOK ==
  /\ rows \in [Runs -> Row]
  /\ done \in [Runs -> SUBSET Nodes]
  /\ invocations \in Seq(Invocation)
  /\ controls \in Seq(Control)

StoreInit ==
  /\ \E b \in [Runs -> Budgets] :
       rows = [r \in Runs |-> [exists |-> r \in Queued, status |-> "PENDING",
                               reason |-> NoReason, node |-> Unset, budget |-> b[r],
                               synced |-> FALSE, seeded |-> {}, skipped |-> {}]]
  /\ done = [r \in Runs |-> {}]
  /\ invocations = << >>
  /\ controls = << >>

-----------------------------------------------------------------------------
(* Reading the rows.                                                        *)

CallsOf(r) == {i \in DOMAIN invocations : invocations[i].run = r}
Usage(r) == Cardinality(CallsOf(r))

Earlier(k, n) == {m \in NodesOf[k] : Stage[m] < Stage[n]}

(* The nodes whose artifacts the checkpoint of r holds.                     *)
Available(r) == done[r] \ rows[r].skipped

Stopped(r) == rows[r].status = "CANCELLED"
PausedByControl(r) == rows[r].status = "PAUSED" /\ rows[r].reason \in {"USER", "BUDGET"}

PendingPauses(r) ==
  {c \in DOMAIN controls : /\ controls[c].run = r
                           /\ controls[c].action = "pause"
                           /\ controls[c].status = "PENDING"}
Oldest(c, S) == c \in S /\ \A d \in S : c <= d

(* The retry command whose child is r, if r was queued by one.              *)
QueuedRetry(r) ==
  {c \in DOMAIN controls : /\ controls[c].action = "retry"
                           /\ controls[c].result = r
                           /\ controls[c].run # r}

Record(r, action, status, target) ==
  [run |-> r, action |-> action, status |-> status, target |-> target, result |-> NoRun]

-----------------------------------------------------------------------------
(* Writing the rows.                                                        *)

SetStatus(r, status, reason) ==
  rows' = [rows EXCEPT ![r] = [@ EXCEPT !.status = status, !.reason = reason]]

(* A rejected command rolls its record back, so it leaves no trace and is   *)
(* no action here; a command id delivered again only reads the record.      *)
Accept(r, action, status, target) ==
  /\ action \in Actions
  /\ rows[r].exists
  /\ Len(controls) < MaxCommands
  /\ controls' = Append(controls, Record(r, action, status, target))

RequestPause(r) ==
  \/ /\ rows[r].status = "PENDING"
     /\ Accept(r, "pause", "APPLIED", Unset)
     /\ SetStatus(r, "PAUSED", "USER")
     /\ UNCHANGED <<done, invocations>>
  \/ /\ rows[r].status = "RUNNING"
     /\ Accept(r, "pause", "PENDING", Unset)
     /\ UNCHANGED <<rows, done, invocations>>

Stop(r) ==
  /\ rows[r].status \notin {"SUCCEEDED", "CANCELLED"}
  /\ Accept(r, "stop", "APPLIED", Unset)
  /\ SetStatus(r, "CANCELLED", NoReason)
  /\ invocations' = [i \in DOMAIN invocations |->
                       IF i \in CallsOf(r) /\ invocations[i].status = "RUNNING"
                       THEN [invocations[i] EXCEPT !.status = "CANCELLED"]
                       ELSE invocations[i]]
  /\ UNCHANGED done

UpdateBudget(r, b) ==
  /\ rows[r].status \notin {"SUCCEEDED", "CANCELLED"}
  /\ Usage(r) <= b
  /\ Accept(r, "budget", "APPLIED", Unset)
  /\ rows' = [rows EXCEPT ![r].budget = b]
  /\ UNCHANGED <<done, invocations>>

BeginResume(r) ==
  /\ PausedByControl(r)
  /\ Accept(r, "resume", "APPLIED", Unset)
  /\ SetStatus(r, "PENDING", NoReason)
  /\ UNCHANGED <<done, invocations>>

BeginRetry(r, target) ==
  /\ rows[r].status \notin {"PENDING", "RUNNING"}
  /\ Accept(r, "retry", "PENDING", target)
  /\ UNCHANGED <<rows, done, invocations>>

(* Mutant: a settled command is given the status of a run.                  *)
SetCommandAsRun(c, status, result) ==
  controls' = [controls EXCEPT ![c].status = IF status = "APPLIED" THEN "SUCCEEDED"
                                             ELSE status,
                               ![c].result = result]

SetCommand(c, status, result) ==
  controls' = [controls EXCEPT ![c].status = status, ![c].result = result]

CheckpointRetryAllowed(c) ==
  LET row == rows[controls[c].run]
  IN  row.status = "FAILED" /\ row.synced /\ row.node = controls[c].target

(* The production retry: requeue the same run at its failed node, or fail   *)
(* the command.  A redelivered command comes here again while it has no     *)
(* resulting run.                                                           *)
CompleteCheckpointRetry(c) ==
  LET r == controls[c].run
  IN  /\ controls[c].action = "retry" /\ controls[c].result = NoRun
      /\ Kind[r] = "production"
      /\ \/ /\ CheckpointRetryAllowed(c)
            /\ SetStatus(r, "PENDING", NoReason)
            /\ SetCommand(c, "APPLIED", r)
         \/ /\ ~ CheckpointRetryAllowed(c)
            /\ SetCommand(c, "FAILED", NoRun)
            /\ UNCHANGED rows
      /\ UNCHANGED <<done, invocations>>

(* The Blueprint retry: a new queued run that enters the graph at the       *)
(* target, with the artifacts the source has of the other nodes that are    *)
(* not after it.  Only the inputs of the target itself are required, and    *)
(* the status of the source is not read again after begin_retry.            *)
QueueRetryChild(c, child) ==
  LET r == controls[c].run
      target == controls[c].target
      passed == {n \in NodesOf["blueprint"] \ {target} : Stage[n] <= Stage[target]}
  IN  /\ controls[c].action = "retry" /\ controls[c].result = NoRun
      /\ Kind[r] = "blueprint"
      /\ Oldest(child, {d \in Runs : Kind[d] = "blueprint" /\ ~ rows[d].exists})
      /\ Earlier("blueprint", target) \subseteq Available(r)
      /\ rows' = [q \in Runs |->
                    IF q = child
                    THEN [rows[q] EXCEPT !.exists = TRUE, !.budget = rows[r].budget,
                                         !.seeded = passed \cap Available(r),
                                         !.skipped = passed \ Available(r)]
                    ELSE IF q = r /\ rows[q].status = "PAUSED"
                    THEN [rows[q] EXCEPT !.status = "CANCELLED", !.reason = NoReason]
                    ELSE rows[q]]
      /\ done' = [done EXCEPT ![child] = passed]
      /\ SetCommand(c, controls[c].status, child)
      /\ UNCHANGED invocations

-----------------------------------------------------------------------------
(* before_node: what the start of a node finds, and does, in the store.     *)
BeforeNode(r, n, verdict) ==
  /\ \/ /\ Stopped(r)
        /\ verdict = "stopped"
        /\ UNCHANGED <<rows, controls>>
     \/ /\ PausedByControl(r)
        /\ verdict = "paused"
        /\ UNCHANGED <<rows, controls>>
     \/ /\ ~ Stopped(r) /\ ~ PausedByControl(r)
        /\ verdict = "paused"
        /\ \E c \in PendingPauses(r) :
             /\ Oldest(c, PendingPauses(r))
             /\ rows' = [rows EXCEPT ![r] = [@ EXCEPT !.status = "PAUSED",
                                                      !.reason = "USER", !.node = n]]
             /\ SetCommand(c, "APPLIED", NoRun)
     \/ /\ ~ Stopped(r) /\ ~ PausedByControl(r) /\ PendingPauses(r) = {}
        /\ Usage(r) + 1 > rows[r].budget
        /\ verdict = "paused"
        /\ rows' = [rows EXCEPT ![r] = [@ EXCEPT !.status = "PAUSED",
                                                 !.reason = "BUDGET", !.node = n]]
        /\ UNCHANGED controls
     \/ /\ ~ Stopped(r) /\ ~ PausedByControl(r) /\ PendingPauses(r) = {}
        /\ Usage(r) + 1 <= rows[r].budget
        /\ verdict = "go"
        /\ UNCHANGED <<rows, controls>>
  /\ UNCHANGED <<done, invocations>>
=============================================================================
