--------------------------- MODULE WorkflowRuntime ---------------------------
(***************************************************************************)
(* The one process that serves the control API and runs the workflow        *)
(* worker: the claiming loop, the execution of one claimed run by the       *)
(* Blueprint or the production service, the graph nodes of its super-step,  *)
(* and the database threads they await.                                     *)
(*                                                                          *)
(* Every database transaction runs in a thread.  When the task that awaits  *)
(* the thread is cancelled the thread goes on: it is then an orphan, whose  *)
(* transaction commits later, or never if no thread had picked it up.       *)
(***************************************************************************)
EXTENDS RunControls

CONSTANTS
  MaxAttempts,  \* attempts of a node per execution (the graph's RetryPolicy)
  MaxCrashes    \* bound: process losses and shutdowns

ASSUME AttemptsAssumption == MaxAttempts \in Nat \ {0} /\ MaxCrashes \in Nat

VARIABLES
  proc,     \* "up", "stopping" (shutdown awaits the active task) or "down"
  exec,     \* the execution task the worker awaits
  task,     \* [Nodes -> record]: the graph task of each node of that execution
  orphans,  \* transactions whose awaiting task was cancelled
  cancels,  \* runs whose stop committed; cancel_active_run is still to come
  crashes   \* process losses so far

volatile == <<proc, exec, task, orphans, cancels, crashes>>
vars == <<durable, volatile>>

(* The steps of an execution; the phases in Transactions are those that     *)
(* await a database thread.                                                 *)
Phases == {"idle", "begin", "recover", "graph", "boundary", "sync", "finish",
           "signal", "error", "failed", "settle", "cancelled"}
(* A node task: idle; check and start (node_started's two transactions);    *)
(* call (start_invocation); open (the provider call); save and saved        *)
(* (complete_invocation before and after its commit); fail (fail_invocation *)
(* after an error); abort (fail_invocation after a cancellation); output    *)
(* (results in hand); and the three ways of raising.                        *)
Raised == {"paused", "stopped", "error"}
Pcs == {"idle", "check", "start", "call", "open", "save", "saved", "fail", "abort",
        "output"} \cup Raised
ThreadPcs == {"check", "start", "call", "save", "fail"}
Orphan == [run : Runs, txn : ThreadPcs \cup {"recover", "finish", "error"},
           node : Nodes \cup {Unset}, call : Nat]

Idle == [run |-> NoRun, phase |-> "idle", ok |-> TRUE, cancelling |-> FALSE]
NoTask == [pc |-> "idle", call |-> 0, tries |-> 0]
NoTasks == [n \in Nodes |-> NoTask]

RuntimeTypeOK ==
  /\ proc \in {"up", "stopping", "down"}
  /\ exec \in [run : Runs \cup {NoRun}, phase : Phases, ok : BOOLEAN, cancelling : BOOLEAN]
  /\ task \in [Nodes -> [pc : Pcs, call : Nat, tries : Nat]]
  /\ orphans \subseteq Orphan
  /\ cancels \subseteq Runs
  /\ crashes \in Nat

TypeOK == StoreTypeOK /\ RuntimeTypeOK

Init ==
  /\ StoreInit
  /\ proc = "up"
  /\ exec = Idle
  /\ task = NoTasks
  /\ orphans = {}
  /\ cancels = {}
  /\ crashes = 0

Phase(p) == exec.phase = p
ToPhase(p) == exec' = [exec EXCEPT !.phase = p]
Pc(n) == task[n].pc
ToPc(n, pc) == task' = [task EXCEPT ![n].pc = pc]

(* The specialist calls still being closed; the service waits for them.     *)
Joined == \A n \in Nodes : Pc(n) # "abort"

(* A queued retry child settles its command after its execution returns.    *)
AfterInvoke(r, ok) ==
  IF QueuedRetry(r) = {} THEN Idle
  ELSE [exec EXCEPT !.phase = "settle", !.ok = ok]

-----------------------------------------------------------------------------
(* The worker loop.                                                         *)

Claimable(k) == {r \in Runs : /\ rows[r].exists
                              /\ Kind[r] = k
                              /\ rows[r].status = "PENDING"}

(* One conditional update makes the run RUNNING.  Blueprints go first, then *)
(* production runs, each in creation order.                                 *)
Claim(r) ==
  /\ proc = "up" /\ Phase("idle")
  /\ \/ Oldest(r, Claimable("blueprint"))
     \/ Claimable("blueprint") = {} /\ Oldest(r, Claimable("production"))
  /\ rows' = [rows EXCEPT ![r].status = "RUNNING"]
  /\ exec' = [Idle EXCEPT !.run = r, !.phase = "begin"]
  /\ UNCHANGED <<done, invocations, controls, proc, task, orphans, cancels, crashes>>

(* Mutant: forgets that the claim has made the run RUNNING.                 *)
BeginOnlyPending ==
  /\ Phase("begin")
  /\ \/ rows[exec.run].status = "PENDING" /\ ToPhase("graph")
     \/ rows[exec.run].status # "PENDING" /\ exec' = Idle
  /\ UNCHANGED <<durable, proc, task, orphans, cancels, crashes>>

(* execute() reads the status once and decides.                             *)
Begin ==
  LET r == exec.run
  IN  /\ Phase("begin")
      /\ \/ rows[r].status \in {"RUNNING", "FAILED"} /\ ToPhase("recover")
         \/ rows[r].status = "PENDING" /\ ToPhase("graph")
         \/ rows[r].status \notin {"RUNNING", "FAILED", "PENDING"} /\ exec' = Idle
      /\ UNCHANGED <<durable, proc, task, orphans, cancels, crashes>>

(* Mutant: the calls of the run become FAILED whatever their status is.     *)
RecoverRowsOfAllCalls(r) ==
  /\ invocations' = [i \in DOMAIN invocations |->
                       IF i \in CallsOf(r) THEN [invocations[i] EXCEPT !.status = "FAILED"]
                       ELSE invocations[i]]
  /\ UNCHANGED <<rows, done, controls>>

(* _recover_interrupted_run: calls left RUNNING become FAILED; production   *)
(* also puts the run back to PENDING, whatever its status is by now.        *)
RecoverRows(r) ==
  /\ invocations' = [i \in DOMAIN invocations |->
                       IF i \in CallsOf(r) /\ invocations[i].status = "RUNNING"
                       THEN [invocations[i] EXCEPT !.status = "FAILED"]
                       ELSE invocations[i]]
  /\ IF Kind[r] = "production"
     THEN rows' = [rows EXCEPT ![r].status = "PENDING"]
     ELSE UNCHANGED rows
  /\ UNCHANGED <<done, controls>>

Recover ==
  /\ Phase("recover")
  /\ RecoverRows(exec.run)
  /\ ToPhase("graph")
  /\ UNCHANGED <<proc, task, orphans, cancels, crashes>>

-----------------------------------------------------------------------------
(* The graph: the super-steps of one invocation of the compiled graph.      *)

InGraph(n) == Phase("graph") /\ n \in NodesOf[Kind[exec.run]]

Ready(n) == /\ n \notin done[exec.run]
            /\ Earlier(Kind[exec.run], n) \subseteq done[exec.run]

(* The nodes of the next super-step start together.                         *)
Launch ==
  LET ready == {n \in NodesOf[Kind[exec.run]] : Ready(n)}
  IN  /\ Phase("graph")
      /\ task = NoTasks
      /\ IF ready = {}
         THEN ToPhase("boundary") /\ UNCHANGED task
         ELSE /\ task' = [n \in Nodes |-> IF n \in ready
                                          THEN [pc |-> "check", call |-> 0, tries |-> 1]
                                          ELSE NoTask]
              /\ UNCHANGED exec
      /\ UNCHANGED <<durable, proc, orphans, cancels, crashes>>

(* node_started, first transaction.                                         *)
CheckNode(n) ==
  /\ InGraph(n) /\ Pc(n) = "check"
  /\ \E verdict \in {"go", "paused", "stopped"} :
       /\ BeforeNode(exec.run, n, verdict)
       /\ ToPc(n, IF verdict = "go" THEN "start" ELSE verdict)
  /\ UNCHANGED <<proc, exec, orphans, cancels, crashes>>

(* node_started, second transaction: it reads nothing the first one read.   *)
StartRows(r, n) ==
  /\ rows' = [rows EXCEPT ![r] =
                [@ EXCEPT !.status = "RUNNING", !.node = n,
                          !.reason = IF Kind[r] = "blueprint" THEN NoReason
                                     ELSE rows[r].reason]]
  /\ UNCHANGED <<done, invocations, controls>>

StartNode(n) ==
  /\ InGraph(n) /\ Pc(n) = "start"
  /\ StartRows(exec.run, n)
  /\ ToPc(n, "call")
  /\ UNCHANGED <<proc, exec, orphans, cancels, crashes>>

(* Mutant: only what the checkpoint lists is replayed.                      *)
ReplayableFromCheckpoint(r, n) == n \in done[r]

(* The executor reuses the outputs of a call of this task that succeeded.   *)
Replayable(r, n) ==
  \E i \in CallsOf(r) : invocations[i].node = n /\ invocations[i].status = "SUCCEEDED"

StartCallRows(r, n) ==
  /\ Usage(r) < MaxCalls
  /\ invocations' = Append(invocations, [run |-> r, node |-> n, status |-> "RUNNING"])
  /\ UNCHANGED <<rows, done, controls>>

HasInputs(r, n) == Earlier(Kind[r], n) \subseteq Available(r)

MissingInputs(n) ==
  /\ InGraph(n) /\ Pc(n) = "call"
  /\ ~ HasInputs(exec.run, n)
  /\ ToPc(n, "error")
  /\ UNCHANGED <<durable, proc, exec, orphans, cancels, crashes>>

Replay(n) ==
  /\ InGraph(n) /\ Pc(n) = "call"
  /\ HasInputs(exec.run, n) /\ Replayable(exec.run, n)
  /\ ToPc(n, "output")
  /\ UNCHANGED <<durable, proc, exec, orphans, cancels, crashes>>

(* Mutant: the inputs are selected without requiring them.                  *)
StartCallUnchecked(n) ==
  /\ InGraph(n) /\ Pc(n) = "call" /\ ~ Replayable(exec.run, n)
  /\ StartCallRows(exec.run, n)
  /\ task' = [task EXCEPT ![n].pc = "open", ![n].call = Len(invocations) + 1]
  /\ UNCHANGED <<proc, exec, orphans, cancels, crashes>>

StartCall(n) ==
  /\ InGraph(n) /\ Pc(n) = "call"
  /\ HasInputs(exec.run, n) /\ ~ Replayable(exec.run, n)
  /\ StartCallRows(exec.run, n)
  /\ task' = [task EXCEPT ![n].pc = "open", ![n].call = Len(invocations) + 1]
  /\ UNCHANGED <<proc, exec, orphans, cancels, crashes>>

(* The provider answers with a valid result, or the call fails.             *)
Answer(n) ==
  /\ InGraph(n) /\ Pc(n) = "open"
  /\ \E pc \in {"save", "fail"} : ToPc(n, pc)
  /\ UNCHANGED <<durable, proc, exec, orphans, cancels, crashes>>

CallRows(i, status) ==
  /\ invocations' = [invocations EXCEPT ![i].status = status]
  /\ UNCHANGED <<rows, done, controls>>

(* _complete_invocation persists the outputs whatever the call's status is. *)
SaveCall(n) ==
  /\ InGraph(n) /\ Pc(n) = "save"
  /\ CallRows(task[n].call, "SUCCEEDED")
  /\ ToPc(n, "saved")
  /\ UNCHANGED <<proc, exec, orphans, cancels, crashes>>

ReceiveOutput(n) ==
  /\ InGraph(n) /\ Pc(n) = "saved"
  /\ ToPc(n, "output")
  /\ UNCHANGED <<durable, proc, exec, orphans, cancels, crashes>>

(* Mutant: the call alone is retried, behind the budget check.              *)
FailCallRetriesCall(n) ==
  /\ InGraph(n) /\ Pc(n) = "fail"
  /\ CallRows(task[n].call, "FAILED")
  /\ \/ /\ task[n].tries < MaxAttempts
        /\ task' = [task EXCEPT ![n] = [pc |-> "call", call |-> 0, tries |-> @.tries + 1]]
     \/ ToPc(n, "error")
  /\ UNCHANGED <<proc, exec, orphans, cancels, crashes>>

(* A retryable failure runs the whole node again, its check included.       *)
FailCall(n) ==
  /\ InGraph(n) /\ Pc(n) = "fail"
  /\ CallRows(task[n].call, "FAILED")
  /\ \/ /\ task[n].tries < MaxAttempts
        /\ task' = [task EXCEPT ![n] = [pc |-> "check", call |-> 0, tries |-> @.tries + 1]]
     \/ ToPc(n, "error")
  /\ UNCHANGED <<proc, exec, orphans, cancels, crashes>>

(* node_completed, and the node's write to the checkpoint.                  *)
CompleteNode(n) ==
  /\ InGraph(n) /\ Pc(n) = "output"
  /\ done' = [done EXCEPT ![exec.run] = @ \cup {n}]
  /\ task' = [task EXCEPT ![n] = NoTask]
  /\ UNCHANGED <<rows, invocations, controls, proc, exec, orphans, cancels, crashes>>

-----------------------------------------------------------------------------
(* Leaving the graph: a node raised, or the execution task was cancelled.   *)

(* Cancelled tasks leave the thread they awaited behind; a specialist call  *)
(* that was recorded is closed before the execution goes on.                *)
CancelledTasks ==
  [n \in Nodes |-> CASE Pc(n) \in {"open", "save", "saved"} -> [task[n] EXCEPT !.pc = "abort"]
                     [] Pc(n) = "abort" -> task[n]
                     [] OTHER -> NoTask]
LeftThreads(r) ==
  {[run |-> r, txn |-> Pc(n), node |-> n, call |-> task[n].call] :
     n \in {m \in Nodes : /\ Pc(m) \in ThreadPcs
                          /\ Pc(m) = "call" => HasInputs(r, m) /\ ~ Replayable(r, m)}}

(* The first exception ends the super-step and cancels the sibling nodes.   *)
Raise(n) ==
  /\ InGraph(n) /\ Pc(n) \in Raised
  /\ ToPhase(IF Pc(n) = "error" THEN "error" ELSE "signal")
  /\ task' = CancelledTasks
  /\ orphans' = orphans \cup LeftThreads(exec.run)
  /\ UNCHANGED <<durable, proc, cancels, crashes>>

AbortCall(n) ==
  /\ Pc(n) = "abort"
  /\ CallRows(task[n].call, "FAILED")
  /\ task' = [task EXCEPT ![n] = NoTask]
  /\ UNCHANGED <<proc, exec, orphans, cancels, crashes>>

(* task.cancel() on the execution.  While it joins specialist calls the     *)
(* cancellation is swallowed and the first exception goes on.               *)
CancelExecution ==
  LET thread == IF exec.phase \in {"recover", "finish", "error"}
                THEN {[run |-> exec.run, txn |-> exec.phase, node |-> Unset, call |-> 0]}
                ELSE {}
  IN  IF Joined
      THEN /\ exec' = [exec EXCEPT !.phase = "cancelled", !.cancelling = TRUE]
           /\ task' = CancelledTasks
           /\ orphans' = orphans \cup LeftThreads(exec.run) \cup thread
      ELSE /\ exec' = [exec EXCEPT !.cancelling = TRUE]
           /\ UNCHANGED <<task, orphans>>

Cancelled ==
  /\ Phase("cancelled") /\ Joined
  /\ exec' = Idle
  /\ UNCHANGED <<durable, proc, task, orphans, cancels, crashes>>

ExecutionBoundary ==
  /\ Phase("boundary")
  /\ ToPhase(IF Stopped(exec.run) \/ PausedByControl(exec.run) THEN "signal" ELSE "sync")
  /\ UNCHANGED <<durable, proc, task, orphans, cancels, crashes>>

(* Mutant: a pause or stop signal goes on to the end of the run.            *)
SyncCheckpointFinishes ==
  /\ \/ Phase("sync") /\ ToPhase("finish")
     \/ Phase("signal") /\ Joined /\ ToPhase("finish")
     \/ Phase("failed") /\ exec' = AfterInvoke(exec.run, FALSE)
  /\ rows' = [rows EXCEPT ![exec.run].synced = TRUE]
  /\ UNCHANGED <<done, invocations, controls, proc, task, orphans, cancels, crashes>>

SyncCheckpoint ==
  /\ \/ Phase("sync") /\ ToPhase("finish")
     \/ Phase("signal") /\ Joined /\ exec' = AfterInvoke(exec.run, TRUE)
     \/ Phase("failed") /\ exec' = AfterInvoke(exec.run, FALSE)
  /\ rows' = [rows EXCEPT ![exec.run].synced = TRUE]
  /\ UNCHANGED <<done, invocations, controls, proc, task, orphans, cancels, crashes>>

(* _awaiting_approval and _complete_run.                                    *)
FinishRows(r) ==
  /\ IF Kind[r] = "blueprint"
     THEN rows' = [rows EXCEPT ![r] = [@ EXCEPT !.status = "PAUSED", !.node = Approval,
                                                !.reason = "HUMAN_APPROVAL"]]
     ELSE SetStatus(r, "SUCCEEDED",
                    IF rows[r].status = "SUCCEEDED" THEN rows[r].reason ELSE NoReason)
  /\ UNCHANGED <<done, invocations, controls>>

Finish ==
  /\ Phase("finish")
  /\ FinishRows(exec.run)
  /\ exec' = AfterInvoke(exec.run, TRUE)
  /\ UNCHANGED <<proc, task, orphans, cancels, crashes>>

FailRows(r) ==
  /\ SetStatus(r, "FAILED", NoReason)
  /\ UNCHANGED <<done, invocations, controls>>

FailRun ==
  /\ Phase("error") /\ Joined
  /\ FailRows(exec.run)
  /\ ToPhase("failed")
  /\ UNCHANGED <<proc, task, orphans, cancels, crashes>>

(* complete_retry or fail_command, for the command that queued this child.  *)
Settle ==
  /\ Phase("settle")
  /\ \E c \in QueuedRetry(exec.run) :
       SetCommand(c, IF exec.ok THEN "APPLIED" ELSE "FAILED", exec.run)
  /\ exec' = Idle
  /\ UNCHANGED <<rows, done, invocations, proc, task, orphans, cancels, crashes>>

-----------------------------------------------------------------------------
(* Orphaned threads.                                                        *)

OrphanCommit(o) ==
  /\ o \in orphans
  /\ \/ /\ o.txn = "check"
        /\ \E verdict \in {"go", "paused", "stopped"} :
             /\ BeforeNode(o.run, o.node, verdict)
             /\ orphans' = (orphans \ {o}) \cup
                           (IF verdict = "go" THEN {[o EXCEPT !.txn = "start"]} ELSE {})
     \/ /\ \/ o.txn = "start" /\ StartRows(o.run, o.node)
           \/ o.txn = "call" /\ StartCallRows(o.run, o.node)
           \/ o.txn = "save" /\ CallRows(o.call, "SUCCEEDED")
           \/ o.txn = "fail" /\ CallRows(o.call, "FAILED")
           \/ o.txn = "recover" /\ RecoverRows(o.run)
           \/ o.txn = "finish" /\ FinishRows(o.run)
           \/ o.txn = "error" /\ FailRows(o.run)
        /\ orphans' = orphans \ {o}
  /\ UNCHANGED <<proc, exec, task, cancels, crashes>>

OrphanNeverRan(o) ==
  /\ o \in orphans /\ o.txn # "start"
  /\ orphans' = orphans \ {o}
  /\ UNCHANGED <<durable, proc, exec, task, cancels, crashes>>

-----------------------------------------------------------------------------
(* The control API: a store transaction, then a call on the worker.         *)

Api == proc = "up"

ApiPause(r) == Api /\ RequestPause(r) /\ UNCHANGED volatile
ApiStop(r) ==
  /\ Api /\ Stop(r)
  /\ cancels' = cancels \cup {r}
  /\ UNCHANGED <<proc, exec, task, orphans, crashes>>
ApiRedeliverStop(r) ==
  /\ Api
  /\ \E c \in DOMAIN controls : controls[c].run = r /\ controls[c].action = "stop"
  /\ cancels' = cancels \cup {r}
  /\ UNCHANGED <<durable, proc, exec, task, orphans, crashes>>
ApiUpdateBudget(r, b) == Api /\ UpdateBudget(r, b) /\ UNCHANGED volatile
ApiResume(r) == Api /\ BeginResume(r) /\ UNCHANGED volatile
ApiBeginRetry(r, target) == Api /\ BeginRetry(r, target) /\ UNCHANGED volatile
ApiCheckpointRetry(c) == Api /\ CompleteCheckpointRetry(c) /\ UNCHANGED volatile
ApiQueueRetryChild(c, child) == Api /\ QueueRetryChild(c, child) /\ UNCHANGED volatile

(* Mutant: the stop only changes the row; the task is not cancelled.        *)
CancelActiveRunIgnored(r) ==
  /\ Api /\ r \in cancels
  /\ cancels' = cancels \ {r}
  /\ UNCHANGED <<durable, proc, exec, task, orphans, crashes>>

(* cancel_active_run, on the event loop, after a stop committed.            *)
CancelActiveRun(r) ==
  /\ Api /\ r \in cancels
  /\ cancels' = cancels \ {r}
  /\ IF exec.run = r /\ ~ exec.cancelling
     THEN CancelExecution
     ELSE UNCHANGED <<exec, task, orphans>>
  /\ UNCHANGED <<durable, proc, crashes>>

-----------------------------------------------------------------------------
(* The process.                                                             *)

Shutdown ==
  /\ proc = "up" /\ cancels = {} /\ crashes < MaxCrashes
  /\ proc' = "stopping"
  /\ crashes' = crashes + 1
  /\ IF exec.run # NoRun /\ ~ exec.cancelling
     THEN CancelExecution
     ELSE UNCHANGED <<exec, task, orphans>>
  /\ UNCHANGED <<durable, cancels>>

Exit ==
  /\ proc = "stopping" /\ Phase("idle") /\ orphans = {}
  /\ proc' = "down"
  /\ UNCHANGED <<durable, exec, task, orphans, cancels, crashes>>

Crash ==
  /\ proc # "down" /\ crashes < MaxCrashes
  /\ proc' = "down"
  /\ exec' = Idle /\ task' = NoTasks
  /\ orphans' = {} /\ cancels' = {}
  /\ crashes' = crashes + 1
  /\ UNCHANGED durable

(* Mutant: start() does not look for interrupted runs.                      *)
RestartWithoutRecovery ==
  /\ proc = "down"
  /\ proc' = "up"
  /\ UNCHANGED <<durable, exec, task, orphans, cancels, crashes>>

(* start(): every run left RUNNING is queued again.                         *)
Restart ==
  /\ proc = "down"
  /\ proc' = "up"
  /\ rows' = [r \in Runs |-> IF rows[r].status = "RUNNING"
                             THEN [rows[r] EXCEPT !.status = "PENDING"]
                             ELSE rows[r]]
  /\ UNCHANGED <<done, invocations, controls, exec, task, orphans, cancels, crashes>>

-----------------------------------------------------------------------------

OwnStep(n) ==
  \/ CheckNode(n) \/ StartNode(n) \/ MissingInputs(n) \/ Replay(n) \/ StartCall(n)
  \/ SaveCall(n) \/ ReceiveOutput(n) \/ FailCall(n) \/ CompleteNode(n)
  \/ Raise(n) \/ AbortCall(n)
NodeStep(n) == OwnStep(n) \/ Answer(n)

ExecutionStep ==
  \/ Begin \/ Recover \/ Launch \/ Cancelled \/ ExecutionBoundary
  \/ SyncCheckpoint \/ Finish \/ FailRun \/ Settle

ApiStep ==
  \/ \E r \in Runs :
       \/ ApiPause(r) \/ ApiStop(r) \/ ApiRedeliverStop(r) \/ ApiResume(r)
       \/ CancelActiveRun(r)
       \/ \E b \in Budgets : ApiUpdateBudget(r, b)
       \/ \E n \in NodesOf[Kind[r]] : ApiBeginRetry(r, n)
  \/ \E c \in DOMAIN controls :
       \/ ApiCheckpointRetry(c)
       \/ \E child \in Runs : ApiQueueRetryChild(c, child)

ProcessStep == Shutdown \/ Exit \/ Crash \/ Restart

Next ==
  \/ \E r \in Runs : Claim(r)
  \/ ExecutionStep
  \/ \E n \in Nodes : NodeStep(n)
  \/ \E o \in orphans : OrphanCommit(o) \/ OrphanNeverRan(o)
  \/ ApiStep
  \/ ProcessStep

(* The worker loop, the event loop and the thread pool keep running while   *)
(* the process is up, and the supervisor starts the process again.  Clients *)
(* and faults owe nothing.                                                  *)
Fairness ==
  /\ \A r \in Runs : WF_vars(Claim(r)) /\ WF_vars(CancelActiveRun(r))
  /\ WF_vars(ExecutionStep)
  /\ \A n \in Nodes : WF_vars(OwnStep(n))
  /\ WF_vars(\E o \in orphans : OrphanCommit(o) \/ OrphanNeverRan(o))
  /\ WF_vars(Exit) /\ WF_vars(Restart)

(* A provider call ends: the node has a timeout.                            *)
Answers == \A n \in Nodes : WF_vars(Answer(n))

Spec == Init /\ [][Next]_vars
SilentSpec == Spec /\ Fairness

-----------------------------------------------------------------------------
(* Safety.                                                                  *)

StopApplied(r) ==
  \E c \in DOMAIN controls : controls[c].run = r /\ controls[c].action = "stop"

(* A model call is recorded only for a node whose inputs, the artifacts of  *)
(* every earlier super-step, are in the checkpoint of its run: no           *)
(* interleaving of cancelled threads, resumes, retries and restarts makes   *)
(* the graph (build_blueprint_graph's edges) run ahead of itself.           *)
WorkFollowsGraph ==
  \A i \in DOMAIN invocations : HasInputs(invocations[i].run, invocations[i].node)

(* A node in the checkpoint has a succeeded call, with its immutable        *)
(* outputs, in the same run, or came with a retry's seed artifacts: a late  *)
(* _fail_invocation or a stop never takes the evidence of finished work.    *)
CheckpointHasEvidence ==
  \A r \in Runs : \A n \in Available(r) \ rows[r].seeded : Replayable(r, n)

(* Only a run whose every node is checkpointed is SUCCEEDED or asks for the *)
(* human approval of its Blueprint (_complete_run, _awaiting_approval).     *)
FinishedMeansComplete ==
  \A r \in Runs :
    rows[r].status = "SUCCEEDED" \/ rows[r].reason = "HUMAN_APPROVAL"
      => NodesOf[Kind[r]] \subseteq done[r]

(* When super-steps have one node, a run that was not stopped exceeds its   *)
(* model-call budget by at most the one call that was past its check when   *)
(* the budget was lowered: attempts, retries and restarts each pass         *)
(* before_node again.  The threads a stop leaves behind may add one each.   *)
Sequential(k) == \A m, n \in NodesOf[k] : Stage[m] = Stage[n] => m = n
SequentialBudget ==
  \A r \in Runs :
    Sequential(Kind[r]) /\ ~ StopApplied(r) => Usage(r) <= rows[r].budget + 1

(* When super-steps have one node and the run was not stopped, no task of   *)
(* it succeeds twice: the persisted result is replayed after a failure, a   *)
(* pause, a shutdown or a crash between the two commits (_replay).          *)
SuccessIsUnique ==
  \A i, j \in DOMAIN invocations :
    /\ invocations[i].status = "SUCCEEDED" /\ invocations[j].status = "SUCCEEDED"
    /\ invocations[i].run = invocations[j].run /\ invocations[i].node = invocations[j].node
    /\ Sequential(Kind[invocations[i].run]) /\ ~ StopApplied(invocations[i].run)
    => i = j

(* When super-steps have one node, a run that is RUNNING and was not        *)
(* stopped is being executed, or is about to be queued again by the next    *)
(* start: neither failures, shutdowns nor a stop of another run leave it    *)
(* behind.  The sibling of a failed parallel node may do so, if its         *)
(* node_started commits late.                                               *)
NoStrandedRun ==
  \A r \in Runs :
    /\ rows[r].status = "RUNNING" /\ Sequential(Kind[r]) /\ ~ StopApplied(r)
    => exec.run = r \/ proc # "up"

-----------------------------------------------------------------------------
(* What the repository says of the controls, and the code does not keep.    *)

(* "respect a durable user stop": a stopped run is never executed again.    *)
StopIsFinal == [][\A r \in Runs : StopApplied(r) => ~ Claim(r)]_vars

(* A run paused by the user or by its budget stays paused until a command   *)
(* moves it.                                                                *)
PauseHolds ==
  [][\A r \in Runs : PausedByControl(r) /\ ~ PausedByControl(r)' =>
       Len(controls') > Len(controls) \/ rows[r]'.status = "CANCELLED"]_vars

(* Successful invocations are preserved.                                    *)
SuccessPreserved ==
  [][\A i \in DOMAIN invocations :
       invocations[i].status = "SUCCEEDED" => invocations'[i].status = "SUCCEEDED"]_vars

-----------------------------------------------------------------------------
(* Liveness.                                                                *)

(* Under SilentSpec: once a stop has committed, the execution it finds ends *)
(* even if the provider never answers; joining the specialist calls, or a   *)
(* cancellation that this join swallows, does not hold it up.               *)
StopEndsExecution == \A r \in Runs : r \in cancels /\ exec.run = r ~> exec.run # r

(* When calls end: every queued run that is not stopped is served by the    *)
(* one worker and comes to rest for good, whatever fails, shuts down,       *)
(* crashes or is stopped beside it.                                         *)
AtRest(r) == rows[r].status \notin {"PENDING", "RUNNING"} /\ exec.run # r
RunsComeToRest ==
  Answers => \A r \in Runs : [](~ StopApplied(r)) => (rows[r].exists ~> []AtRest(r))
=============================================================================
