------------------------ MODULE WorkflowRuntimeProofs ------------------------
(***************************************************************************)
(* Proofs about WorkflowRuntime, for every set of runs, graph, budget and   *)
(* bound.  Three inductive invariants, each resting on the one before:      *)
(*   IInv         types, and which execution, task and late thread may be   *)
(*                where: calls follow the graph, finished runs are complete *)
(*   EvidenceInv  which call each task and late thread works on: a node in  *)
(*                a checkpoint has a succeeded call                         *)
(*   LoneRunsInv  the late threads of runs that were not stopped: their     *)
(*                budget holds, and no task of them succeeds twice          *)
(***************************************************************************)
EXTENDS WorkflowRuntime, TLAPS, SequenceTheorems, WellFoundedInduction, FiniteSetTheorems

-----------------------------------------------------------------------------
(* Types of what the transactions write.                                    *)

(* A call with another status is a call.                                    *)
LEMMA CallType ==
  ASSUME NEW call \in Invocation, NEW status \in CallStatuses
  PROVE  [call EXCEPT !.status = status] \in Invocation
  BY DEF Invocation

(* Closing some of the calls leaves well-typed invocations.                 *)
LEMMA CloseCallsType ==
  ASSUME NEW s \in Seq(Invocation), NEW C, NEW status \in CallStatuses
  PROVE  [i \in DOMAIN s |-> IF i \in C /\ s[i].status = "RUNNING"
                             THEN [s[i] EXCEPT !.status = status]
                             ELSE s[i]] \in Seq(Invocation)
<1> DEFINE t == [i \in DOMAIN s |-> IF i \in C /\ s[i].status = "RUNNING"
                                    THEN [s[i] EXCEPT !.status = status]
                                    ELSE s[i]]
<1>1. DOMAIN s = 1 .. Len(s) /\ Len(s) \in Nat
  OBVIOUS
<1>2. ASSUME NEW i \in 1 .. Len(s) PROVE t[i] \in Invocation
  <2>1. s[i] \in Invocation
    BY ElementOfSeq
  <2>2. [s[i] EXCEPT !.status = status] \in Invocation
    BY <2>1, CallType
  <2> QED
    BY <1>1, <2>1, <2>2
<1>3. t = [i \in 1 .. Len(s) |-> t[i]]
  BY <1>1
<1>4. [i \in 1 .. Len(s) |-> t[i]] \in Seq(Invocation)
  <2> HIDE DEF t
  <2> QED
    BY <1>1, <1>2, IsASeq
<1> QED
  BY <1>3, <1>4

(* So does setting the status of one call.                                  *)
LEMMA CallStatusType ==
  ASSUME NEW s \in Seq(Invocation), NEW i, NEW status \in CallStatuses
  PROVE  [s EXCEPT ![i].status = status] \in Seq(Invocation)
<1>1. CASE i \in DOMAIN s
  <2>1. [s[i] EXCEPT !.status = status] \in Invocation
    BY <1>1, ElementOfSeq, CallType
  <2>2. [s EXCEPT ![i] = [s[i] EXCEPT !.status = status]] \in Seq(Invocation)
    BY <1>1, <2>1, ExceptSeq
  <2> QED
    BY <2>2
<1>2. CASE i \notin DOMAIN s
  <2>1. [s EXCEPT ![i].status = status] = s
    BY <1>2
  <2> QED
    BY <2>1
<1> QED
  BY <1>1, <1>2

(* Settling a command leaves well-typed commands.                           *)
LEMMA SetCommandType ==
  ASSUME controls \in Seq(Control), NEW c \in DOMAIN controls,
         NEW status \in {"PENDING", "APPLIED", "FAILED"}, NEW result \in Runs \cup {NoRun},
         SetCommand(c, status, result)
  PROVE  controls' \in Seq(Control)
<1> DEFINE control == [controls[c] EXCEPT !.status = status, !.result = result]
<1>1. controls[c] \in Control
  BY ElementOfSeq
<1>2. control \in Control
  BY <1>1 DEF Control
<1>3. controls' = [controls EXCEPT ![c] = control]
  BY DEF SetCommand
<1> HIDE DEF control
<1> QED
  BY <1>2, <1>3, ExceptSeq

(* So does recording a new one.                                             *)
LEMMA AcceptType ==
  ASSUME controls \in Seq(Control), NEW r \in Runs, NEW target \in Nodes \cup {Unset},
         NEW action \in {"pause", "stop", "budget", "resume", "retry"},
         NEW status \in {"PENDING", "APPLIED", "FAILED"},
         Accept(r, action, status, target)
  PROVE  controls' \in Seq(Control)
<1>1. Record(r, action, status, target) \in Control
  BY DEF Record, Control
<1> QED
  BY <1>1, AppendProperties DEF Accept

(* Setting the status and pause reason of a run leaves well-typed rows.     *)
LEMMA SetStatusType ==
  ASSUME rows \in [Runs -> Row], NEW r \in Runs, NEW status \in Statuses,
         NEW reason \in Reasons, SetStatus(r, status, reason)
  PROVE  rows' \in [Runs -> Row]
<1>1. [rows[r] EXCEPT !.status = status, !.reason = reason] \in Row
  BY DEF Row
<1> QED
  BY <1>1 DEF SetStatus

-----------------------------------------------------------------------------
(* The inductive invariant.  A run that is not queued yet is untouched, so  *)
(* a node that is once done, and the artifacts that are once available, are *)
(* so for ever: what was established before a thread was orphaned or a task *)
(* left the graph still holds when it commits.                              *)

Finished(r) == rows[r].status = "SUCCEEDED" \/ rows[r].reason = "HUMAN_APPROVAL"
AllDone(r) == NodesOf[Kind[r]] \subseteq done[r]

UnbornUntouched ==
  \A r \in Runs : ~ rows[r].exists => rows[r].status = "PENDING" /\ rows[r].reason = NoReason
CallsHaveRuns == \A i \in DOMAIN invocations : rows[invocations[i].run].exists

StoreInv ==
  /\ StoreTypeOK
  /\ UnbornUntouched
  /\ CallsHaveRuns
  /\ WorkFollowsGraph
  /\ FinishedMeansComplete

Follows(o) ==
  /\ o.run \in Runs /\ rows[o.run].exists
  /\ o.txn \in ThreadPcs => o.node \in Nodes
  /\ o.txn = "call" => HasInputs(o.run, o.node)
  /\ o.txn = "finish" => AllDone(o.run)
OrphansFollow == \A o \in orphans : Follows(o)
AtEnd == {"boundary", "sync", "finish"}
ExecutionFollows ==
  /\ exec.phase = "idle" => exec.run = NoRun
  /\ exec.phase # "idle" => /\ exec.run \in Runs /\ rows[exec.run].exists
                            /\ exec.phase \in AtEnd => AllDone(exec.run)

RuntimeInv == RuntimeTypeOK /\ OrphansFollow /\ ExecutionFollows

IInv == StoreInv /\ RuntimeInv

(* What a transaction may do to the store.                                  *)
RowsStep ==
  /\ rows' \in [Runs -> Row] /\ done' \in [Runs -> SUBSET Nodes]
  /\ \A r \in Runs : rows[r].exists => /\ rows'[r].exists
                                       /\ rows'[r].skipped = rows[r].skipped
                                       /\ done[r] \subseteq done'[r]
  /\ \A r \in Runs : ~ rows[r].exists => /\ rows'[r].status = rows[r].status
                                         /\ rows'[r].reason = rows[r].reason
  /\ \A r \in Runs : rows'[r].status = "SUCCEEDED" \/ rows'[r].reason = "HUMAN_APPROVAL"
                       => Finished(r) \/ AllDone(r)
CallsStep ==
  /\ invocations' \in Seq(Invocation)
  /\ \A i \in DOMAIN invocations' :
       /\ rows[invocations'[i].run].exists
       /\ HasInputs(invocations'[i].run, invocations'[i].node)
StoreStep == RowsStep /\ CallsStep /\ controls' \in Seq(Control)

(* Available artifacts stay available.                                      *)
LEMMA InputsStay ==
  ASSUME RowsStep, NEW r \in Runs, NEW n, rows[r].exists, HasInputs(r, n)
  PROVE  HasInputs(r, n)'
  BY DEF RowsStep, HasInputs, Available, Earlier

(* A graph that is wholly checkpointed stays so.                            *)
LEMMA DoneStays ==
  ASSUME RowsStep, NEW r \in Runs, rows[r].exists, AllDone(r)
  PROVE  AllDone(r)'
  BY DEF RowsStep, AllDone

(* A store step keeps the invariant of the store.                           *)
LEMMA StoreStepKeepsInv ==
  ASSUME StoreInv, StoreStep
  PROVE  StoreInv'
<1> USE DEF StoreStep
<1>1. StoreTypeOK'
  BY DEF RowsStep, CallsStep, StoreTypeOK
<1>2. UnbornUntouched'
  BY DEF RowsStep, StoreInv, UnbornUntouched
<1>3. \A i \in DOMAIN invocations' : invocations'[i].run \in Runs
  <2>1. \A i \in DOMAIN invocations' : invocations'[i] \in Invocation
    BY ElementOfSeq DEF CallsStep
  <2> QED
    BY <2>1 DEF Invocation
<1>4. CallsHaveRuns'
  BY <1>3 DEF CallsStep, CallsHaveRuns, RowsStep
<1>5. WorkFollowsGraph'
  <2>1. ASSUME NEW i \in DOMAIN invocations'
        PROVE  HasInputs(invocations[i].run, invocations[i].node)'
    <3>1. /\ rows[invocations'[i].run].exists
          /\ HasInputs(invocations'[i].run, invocations'[i].node)
      BY DEF CallsStep
    <3> QED
      BY <1>3, <3>1 DEF RowsStep, HasInputs, Available, Earlier
  <2> QED
    BY <2>1 DEF WorkFollowsGraph
<1>6. FinishedMeansComplete'
  <2> SUFFICES ASSUME NEW r \in Runs,
                      rows'[r].status = "SUCCEEDED" \/ rows'[r].reason = "HUMAN_APPROVAL"
               PROVE  AllDone(r)'
    BY DEF FinishedMeansComplete, AllDone
  <2>1. Finished(r) \/ AllDone(r)
    BY DEF RowsStep
  <2>2. rows[r].exists
    BY DEF RowsStep, StoreInv, UnbornUntouched, NoReason
  <2>3. AllDone(r)
    BY <2>1 DEF StoreInv, FinishedMeansComplete, Finished, AllDone
  <2> QED
    BY <2>2, <2>3, DoneStays
<1> QED
  BY <1>1, <1>2, <1>4, <1>5, <1>6 DEF StoreInv

(* The calls.                                                               *)
LEMMA CallsSame ==
  ASSUME StoreInv, invocations' = invocations
  PROVE  CallsStep
  BY DEF StoreInv, StoreTypeOK, CallsHaveRuns, WorkFollowsGraph, CallsStep

(* Calls that keep their run and node still follow the graph.               *)
LEMMA CallsUpdated ==
  ASSUME StoreInv, invocations' \in Seq(Invocation),
         DOMAIN invocations' = DOMAIN invocations,
         \A i \in DOMAIN invocations : /\ invocations'[i].run = invocations[i].run
                                       /\ invocations'[i].node = invocations[i].node
  PROVE  CallsStep
  BY DEF StoreInv, StoreTypeOK, CallsHaveRuns, WorkFollowsGraph, CallsStep

(* Closing the running calls of a run is such an update.                    *)
LEMMA CallsClosed ==
  ASSUME StoreInv, NEW C, NEW status \in CallStatuses,
         invocations' = [i \in DOMAIN invocations |->
                           IF i \in C /\ invocations[i].status = "RUNNING"
                           THEN [invocations[i] EXCEPT !.status = status]
                           ELSE invocations[i]]
  PROVE  CallsStep
<1>1. invocations \in Seq(Invocation)
  BY DEF StoreInv, StoreTypeOK
<1>2. invocations' \in Seq(Invocation)
  BY <1>1, CloseCallsType
<1>3. \A i \in DOMAIN invocations : invocations[i] \in Invocation
  BY <1>1, ElementOfSeq
<1>4. ASSUME NEW i \in DOMAIN invocations
      PROVE  /\ invocations'[i].run = invocations[i].run
             /\ invocations'[i].node = invocations[i].node
  BY <1>3 DEF Invocation
<1> QED
  BY <1>2, <1>4, CallsUpdated

(* Setting the status of one call is such an update.                        *)
LEMMA CallsSet ==
  ASSUME StoreInv, NEW i, NEW status \in CallStatuses,
         invocations' = [invocations EXCEPT ![i].status = status]
  PROVE  CallsStep
<1>1. invocations \in Seq(Invocation)
  BY DEF StoreInv, StoreTypeOK
<1>2. invocations' \in Seq(Invocation)
  BY <1>1, CallStatusType
<1>3. \A j \in DOMAIN invocations : invocations[j] \in Invocation
  BY <1>1, ElementOfSeq
<1>4. ASSUME NEW j \in DOMAIN invocations
      PROVE  /\ invocations'[j].run = invocations[j].run
             /\ invocations'[j].node = invocations[j].node
  BY <1>3 DEF Invocation
<1> QED
  BY <1>2, <1>4, CallsUpdated

(* A new call follows the graph when its node has its inputs.               *)
LEMMA CallsAdded ==
  ASSUME StoreInv, NEW r \in Runs, NEW n \in Nodes, rows[r].exists, HasInputs(r, n),
         invocations' = Append(invocations, [run |-> r, node |-> n, status |-> "RUNNING"])
  PROVE  CallsStep
<1> DEFINE call == [run |-> r, node |-> n, status |-> "RUNNING"]
<1>1. call \in Invocation
  BY DEF Invocation, CallStatuses
<1>2. invocations \in Seq(Invocation)
  BY DEF StoreInv, StoreTypeOK
<1>3. /\ invocations' \in Seq(Invocation)
      /\ DOMAIN invocations' = 1 .. Len(invocations) + 1
      /\ \A i \in 1 .. Len(invocations) : invocations'[i] = invocations[i]
      /\ invocations'[Len(invocations) + 1] = call
  BY <1>1, <1>2, AppendProperties
<1>4. call.run = r /\ call.node = n
  OBVIOUS
<1>5. DOMAIN invocations = 1 .. Len(invocations) /\ Len(invocations) \in Nat
  BY <1>2
<1> HIDE DEF call
<1>6. ASSUME NEW i \in DOMAIN invocations'
      PROVE  /\ rows[invocations'[i].run].exists
             /\ HasInputs(invocations'[i].run, invocations'[i].node)
  <2>1. CASE i = Len(invocations) + 1
    BY <2>1, <1>3, <1>4
  <2>2. CASE i # Len(invocations) + 1
    <3>1. i \in DOMAIN invocations /\ invocations'[i] = invocations[i]
      BY <2>2, <1>3, <1>5
    <3> QED
      BY <3>1 DEF StoreInv, CallsHaveRuns, WorkFollowsGraph
  <2> QED
    BY <2>1, <2>2
<1> QED
  BY <1>3, <1>6 DEF CallsStep

(* The rows.                                                                *)
LEMMA RowsSame ==
  ASSUME StoreInv, UNCHANGED <<rows, done>>
  PROVE  RowsStep
  BY DEF StoreInv, StoreTypeOK, RowsStep, Finished

(* Writing one row that finishes only what is complete.                     *)
LEMMA RowWritten ==
  ASSUME StoreInv, NEW r \in Runs, rows[r].exists, NEW row \in Row,
         rows' = [rows EXCEPT ![r] = row], done' = done,
         row.exists, row.skipped = rows[r].skipped,
         row.status = "SUCCEEDED" \/ row.reason = "HUMAN_APPROVAL" => Finished(r) \/ AllDone(r)
  PROVE  RowsStep
  BY DEF StoreInv, StoreTypeOK, RowsStep, Finished

(* SetStatus writes such a row.                                             *)
LEMMA StatusSet ==
  ASSUME StoreInv, NEW r \in Runs, rows[r].exists, done' = done,
         NEW status \in Statuses, NEW reason \in Reasons, SetStatus(r, status, reason),
         status = "SUCCEEDED" \/ reason = "HUMAN_APPROVAL" => Finished(r) \/ AllDone(r)
  PROVE  RowsStep
<1> DEFINE row == [rows[r] EXCEPT !.status = status, !.reason = reason]
<1>1. rows[r] \in Row
  BY DEF StoreInv, StoreTypeOK
<1>2. /\ row \in Row /\ row.exists /\ row.skipped = rows[r].skipped
      /\ row.status = status /\ row.reason = reason
  BY <1>1 DEF Row
<1>3. rows' = [rows EXCEPT ![r] = row]
  BY DEF SetStatus
<1> HIDE DEF row
<1> QED
  BY <1>2, <1>3, RowWritten

-----------------------------------------------------------------------------
(* Every transaction is a StoreStep.                                        *)

(* An action that leaves the store alone.                                   *)
LEMMA StoreUnchanged ==
  ASSUME StoreInv, UNCHANGED durable
  PROVE  StoreStep
<1>1. UNCHANGED <<rows, done, invocations, controls>>
  BY DEF durable
<1>2. controls' \in Seq(Control)
  BY <1>1 DEF StoreInv, StoreTypeOK
<1> QED
  BY <1>1, <1>2, RowsSame, CallsSame DEF StoreStep

(* request_pause.                                                           *)
LEMMA RequestPauseStep ==
  ASSUME StoreInv, NEW r \in Runs, RequestPause(r)
  PROVE  StoreStep
<1> USE DEF StoreInv, StoreTypeOK
<1>1. CallsStep
  BY CallsSame DEF RequestPause
<1>2. rows[r].exists
  BY DEF RequestPause, Accept
<1>3. RowsStep
  <2>1. CASE UNCHANGED rows
    BY <2>1, RowsSame DEF RequestPause
  <2>2. CASE SetStatus(r, "PAUSED", "USER")
    BY <1>2, <2>2, StatusSet DEF RequestPause, Statuses, Reasons
  <2> QED
    BY <2>1, <2>2 DEF RequestPause
<1>4. controls' \in Seq(Control)
  BY AcceptType DEF RequestPause
<1> QED
  BY <1>1, <1>3, <1>4 DEF StoreStep

(* stop.                                                                    *)
LEMMA StopStep ==
  ASSUME StoreInv, NEW r \in Runs, Stop(r)
  PROVE  StoreStep
<1>1. CallsStep
  BY CallsClosed DEF Stop, CallStatuses
<1>2. RowsStep
  BY StatusSet DEF Stop, Accept, Statuses, Reasons, NoReason
<1>3. controls' \in Seq(Control)
  BY AcceptType DEF Stop, StoreInv, StoreTypeOK
<1> QED
  BY <1>1, <1>2, <1>3 DEF StoreStep

(* update_budget.                                                           *)
LEMMA UpdateBudgetStep ==
  ASSUME StoreInv, NEW r \in Runs, NEW b \in Budgets, UpdateBudget(r, b)
  PROVE  StoreStep
<1> DEFINE row == [rows[r] EXCEPT !.budget = b]
<1>1. rows[r] \in Row
  BY DEF StoreInv, StoreTypeOK
<1>2. b \in Nat
  BY BoundsAssumption
<1>3. /\ row \in Row /\ row.exists = rows[r].exists /\ row.skipped = rows[r].skipped
      /\ row.status = rows[r].status /\ row.reason = rows[r].reason
  BY <1>1, <1>2 DEF Row
<1>4. rows' = [rows EXCEPT ![r] = row] /\ rows[r].exists /\ done' = done
  BY DEF UpdateBudget, Accept
<1> HIDE DEF row
<1>5. RowsStep
  BY <1>3, <1>4, RowWritten DEF Finished
<1>6. CallsStep
  BY CallsSame DEF UpdateBudget
<1>7. controls' \in Seq(Control)
  BY AcceptType DEF UpdateBudget, StoreInv, StoreTypeOK
<1> QED
  BY <1>5, <1>6, <1>7 DEF StoreStep

(* begin_resume.                                                            *)
LEMMA BeginResumeStep ==
  ASSUME StoreInv, NEW r \in Runs, BeginResume(r)
  PROVE  StoreStep
<1>1. CallsStep
  BY CallsSame DEF BeginResume
<1>2. RowsStep
  BY StatusSet DEF BeginResume, Accept, Statuses, Reasons, NoReason
<1>3. controls' \in Seq(Control)
  BY AcceptType DEF BeginResume, StoreInv, StoreTypeOK
<1> QED
  BY <1>1, <1>2, <1>3 DEF StoreStep

(* begin_retry.                                                             *)
LEMMA BeginRetryStep ==
  ASSUME StoreInv, NEW r \in Runs, NEW n \in Nodes, BeginRetry(r, n)
  PROVE  StoreStep
<1>1. CallsStep /\ RowsStep
  BY CallsSame, RowsSame DEF BeginRetry
<1>2. controls' \in Seq(Control)
  BY AcceptType DEF BeginRetry, StoreInv, StoreTypeOK
<1> QED
  BY <1>1, <1>2 DEF StoreStep

(* complete_checkpoint_retry.                                               *)
LEMMA CheckpointRetryStep ==
  ASSUME StoreInv, NEW c \in DOMAIN controls, CompleteCheckpointRetry(c)
  PROVE  StoreStep
<1> DEFINE r == controls[c].run
<1>1. controls \in Seq(Control) /\ r \in Runs /\ r \in Runs \cup {NoRun}
  <2>1. controls \in Seq(Control)
    BY DEF StoreInv, StoreTypeOK
  <2>2. controls[c] \in Control
    BY <2>1, ElementOfSeq
  <2> QED
    BY <2>1, <2>2 DEF Control
<1>2. CallsStep
  BY CallsSame DEF CompleteCheckpointRetry
<1> USE DEF CompleteCheckpointRetry
<1>3. CASE CheckpointRetryAllowed(c)
  <2>1. rows[r].exists
    BY <1>1, <1>3 DEF CheckpointRetryAllowed, StoreInv, UnbornUntouched
  <2>2. RowsStep
    BY <1>1, <1>3, <2>1, StatusSet DEF Statuses, Reasons, NoReason
  <2>3. controls' \in Seq(Control)
    BY <1>1, <1>3, SetCommandType
  <2> QED
    BY <1>2, <2>2, <2>3 DEF StoreStep
<1>4. CASE ~ CheckpointRetryAllowed(c)
  <2>1. RowsStep
    BY <1>4, RowsSame
  <2>2. controls' \in Seq(Control)
    BY <1>1, <1>4, SetCommandType
  <2> QED
    BY <1>2, <2>1, <2>2 DEF StoreStep
<1> QED
  BY <1>3, <1>4

(* queue_retry_from_node: the child is untouched before, the source survives.*)
LEMMA QueueRetryChildStep ==
  ASSUME StoreInv, NEW c \in DOMAIN controls, NEW child \in Runs, QueueRetryChild(c, child)
  PROVE  StoreStep
<1> DEFINE r == controls[c].run
           target == controls[c].target
           passed == {n \in NodesOf["blueprint"] \ {target} : Stage[n] <= Stage[target]}
           source == IF rows[r].status = "PAUSED"
                     THEN [rows[r] EXCEPT !.status = "CANCELLED", !.reason = NoReason]
                     ELSE rows[r]
           born == [rows[child] EXCEPT !.exists = TRUE, !.budget = rows[r].budget,
                                       !.seeded = passed \cap Available(r),
                                       !.skipped = passed \ Available(r)]
<1>1. /\ controls \in Seq(Control) /\ controls[c] \in Control
      /\ rows \in [Runs -> Row] /\ done \in [Runs -> SUBSET Nodes]
  BY ElementOfSeq DEF StoreInv, StoreTypeOK
<1>2. r \in Runs /\ r \in Runs \cup {NoRun}
  BY <1>1 DEF Control
<1>3. passed \subseteq Nodes
  BY GraphAssumption DEF Kinds
<1>4. ~ rows[child].exists
  BY DEF QueueRetryChild, Oldest
<1>5. rows[r] \in Row /\ rows[child] \in Row
  BY <1>1, <1>2
<1>6. /\ born \in Row /\ born.exists
      /\ born.status = rows[child].status /\ born.reason = rows[child].reason
  <2>1. rows[r].budget \in Nat /\ passed \cap Available(r) \in SUBSET Nodes
                               /\ passed \ Available(r) \in SUBSET Nodes
    BY <1>3, <1>5 DEF Row
  <2> HIDE DEF passed, r
  <2> QED
    BY <1>5, <2>1 DEF Row
<1>7. /\ source \in Row /\ source.exists = rows[r].exists
      /\ source.skipped = rows[r].skipped
      /\ source = rows[r] \/ (rows[r].status = "PAUSED" /\ source.status = "CANCELLED"
                                                         /\ source.reason = "none")
  <2> HIDE DEF r
  <2> QED
    BY <1>5 DEF Row, Statuses, Reasons, NoReason
<1>8. rows[child].status = "PENDING"
  BY <1>4 DEF StoreInv, UnbornUntouched
<1>9. ASSUME NEW q \in Runs
      PROVE  rows'[q] = IF q = child THEN born ELSE IF q = r THEN source ELSE rows[q]
  BY DEF QueueRetryChild
<1>10. rows' \in [Runs -> Row]
  <2>1. DOMAIN rows' = Runs
    BY <1>1 DEF QueueRetryChild
  <2>2. \A q \in Runs : rows'[q] \in Row
    <3> HIDE DEF born, source, r
    <3> QED
      BY <1>1, <1>6, <1>7, <1>9
  <2>3. rows' = [q \in Runs |-> rows'[q]]
    BY <2>1 DEF QueueRetryChild
  <2> QED
    BY <2>2, <2>3
<1>11. /\ done' = [done EXCEPT ![child] = passed]
       /\ done' \in [Runs -> SUBSET Nodes]
  <2>1. done' = [done EXCEPT ![child] = passed]
    BY DEF QueueRetryChild
  <2> HIDE DEF passed
  <2> QED
    BY <1>1, <1>3, <2>1
<1>12. RowsStep
  <2> HIDE DEF born, source, r, passed
  <2>1. ASSUME NEW q \in Runs, rows[q].exists
        PROVE  /\ rows'[q].exists /\ rows'[q].skipped = rows[q].skipped
               /\ done[q] \subseteq done'[q]
    BY <1>1, <1>4, <1>7, <1>9, <1>11, <2>1
  <2>2. ASSUME NEW q \in Runs, ~ rows[q].exists
        PROVE  rows'[q].status = rows[q].status /\ rows'[q].reason = rows[q].reason
    BY <1>6, <1>7, <1>9, <2>2 DEF StoreInv, UnbornUntouched
  <2>3. ASSUME NEW q \in Runs,
               rows'[q].status = "SUCCEEDED" \/ rows'[q].reason = "HUMAN_APPROVAL"
        PROVE  Finished(q) \/ AllDone(q)
    BY <1>6, <1>7, <1>9, <2>3 DEF Finished
  <2> QED
    BY <1>10, <1>11, <2>1, <2>2, <2>3 DEF RowsStep
<1>13. CallsStep
  BY CallsSame DEF QueueRetryChild
<1>14. controls' \in Seq(Control)
  <2>1. SetCommand(c, controls[c].status, child)
    BY DEF QueueRetryChild
  <2>2. controls[c].status \in {"PENDING", "APPLIED", "FAILED"}
    BY <1>1 DEF Control
  <2> QED
    BY <1>1, <2>1, <2>2, SetCommandType
<1> QED
  BY <1>12, <1>13, <1>14 DEF StoreStep

(* before_node.                                                             *)
LEMMA BeforeNodeStep ==
  ASSUME StoreInv, NEW r \in Runs, NEW n \in Nodes, NEW verdict, rows[r].exists,
         BeforeNode(r, n, verdict)
  PROVE  StoreStep
<1>1. rows[r] \in Row /\ controls \in Seq(Control)
  BY DEF StoreInv, StoreTypeOK
<1>2. CallsStep
  BY CallsSame DEF BeforeNode
<1>3. ASSUME NEW reason \in {"USER", "BUDGET"},
             rows' = [rows EXCEPT ![r] = [@ EXCEPT !.status = "PAUSED",
                                                   !.reason = reason, !.node = n]]
      PROVE  RowsStep
  <2> DEFINE row == [rows[r] EXCEPT !.status = "PAUSED", !.reason = reason, !.node = n]
  <2>1. /\ row \in Row /\ row.exists = rows[r].exists /\ row.skipped = rows[r].skipped
        /\ row.status = "PAUSED" /\ row.reason = reason
    BY <1>1 DEF Row, Statuses, Reasons
  <2>2. rows' = [rows EXCEPT ![r] = row] /\ done' = done
    BY <1>3 DEF BeforeNode
  <2> HIDE DEF row
  <2> QED
    BY <2>1, <2>2, RowWritten
<1>4. RowsStep
  <2>1. CASE UNCHANGED rows
    BY <2>1, RowsSame DEF BeforeNode
  <2>2. CASE ~ UNCHANGED rows
    BY <1>3, <2>2 DEF BeforeNode
  <2> QED
    BY <2>1, <2>2
<1>5. controls' \in Seq(Control)
  <2>1. CASE UNCHANGED controls
    BY <1>1, <2>1
  <2>2. CASE \E c \in PendingPauses(r) : SetCommand(c, "APPLIED", NoRun)
    BY <1>1, <2>2, SetCommandType DEF PendingPauses
  <2> QED
    BY <2>1, <2>2 DEF BeforeNode
<1> QED
  BY <1>2, <1>4, <1>5 DEF StoreStep

(* _recover_interrupted_run.                                                *)
LEMMA RecoverRowsStep ==
  ASSUME StoreInv, NEW r \in Runs, rows[r].exists, RecoverRows(r)
  PROVE  StoreStep
<1>1. CallsStep
  BY CallsClosed DEF RecoverRows, CallStatuses
<1>2. CASE Kind[r] = "production"
  <2> DEFINE row == [rows[r] EXCEPT !.status = "PENDING"]
  <2>1. rows[r] \in Row
    BY DEF StoreInv, StoreTypeOK
  <2>2. /\ row \in Row /\ row.exists = rows[r].exists /\ row.skipped = rows[r].skipped
        /\ row.status = "PENDING" /\ row.reason = rows[r].reason
    BY <2>1 DEF Row, Statuses
  <2>3. rows' = [rows EXCEPT ![r] = row] /\ done' = done
    BY <1>2 DEF RecoverRows
  <2> HIDE DEF row
  <2>4. RowsStep
    BY <2>2, <2>3, RowWritten DEF Finished
  <2> QED
    BY <1>1, <2>4 DEF StoreStep, RecoverRows, StoreInv, StoreTypeOK
<1>3. CASE Kind[r] # "production"
  BY <1>1, <1>3, RowsSame DEF StoreStep, RecoverRows, StoreInv, StoreTypeOK
<1> QED
  BY <1>2, <1>3

(* _node_started.                                                           *)
LEMMA StartRowsStep ==
  ASSUME StoreInv, NEW r \in Runs, NEW n \in Nodes, rows[r].exists, StartRows(r, n)
  PROVE  StoreStep
<1> DEFINE reason == IF Kind[r] = "blueprint" THEN NoReason ELSE rows[r].reason
           row == [rows[r] EXCEPT !.status = "RUNNING", !.node = n, !.reason = reason]
<1>1. rows[r] \in Row
  BY DEF StoreInv, StoreTypeOK
<1>2. reason \in Reasons /\ (reason = rows[r].reason \/ reason = "none")
  BY <1>1 DEF Row, Reasons, NoReason
<1>3. rows' = [rows EXCEPT ![r] = row] /\ done' = done
  BY DEF StartRows
<1> HIDE DEF reason
<1>4. /\ row \in Row /\ row.exists = rows[r].exists /\ row.skipped = rows[r].skipped
      /\ row.status = "RUNNING" /\ row.reason = reason
  BY <1>1, <1>2 DEF Row, Statuses
<1> HIDE DEF row
<1>5. RowsStep
  BY <1>2, <1>3, <1>4, RowWritten DEF Finished
<1> QED
  BY <1>5, CallsSame DEF StoreStep, StartRows, StoreInv, StoreTypeOK

(* _start_invocation of a node that has its inputs.                         *)
LEMMA StartCallRowsStep ==
  ASSUME StoreInv, NEW r \in Runs, NEW n \in Nodes, rows[r].exists, HasInputs(r, n),
         StartCallRows(r, n)
  PROVE  StoreStep
  BY CallsAdded, RowsSame DEF StoreStep, StartCallRows, StoreInv, StoreTypeOK

(* _complete_invocation and _fail_invocation.                               *)
LEMMA CallRowsStep ==
  ASSUME StoreInv, NEW i, NEW status \in CallStatuses, CallRows(i, status)
  PROVE  StoreStep
  BY CallsSet, RowsSame DEF StoreStep, CallRows, StoreInv, StoreTypeOK

(* _awaiting_approval and _complete_run, once every node is checkpointed.   *)
LEMMA FinishRowsStep ==
  ASSUME StoreInv, NEW r \in Runs, rows[r].exists, AllDone(r), FinishRows(r)
  PROVE  StoreStep
<1>1. rows[r] \in Row
  BY DEF StoreInv, StoreTypeOK
<1>2. CASE Kind[r] = "blueprint"
  <2> DEFINE row == [rows[r] EXCEPT !.status = "PAUSED", !.node = Approval,
                                    !.reason = "HUMAN_APPROVAL"]
  <2>1. row \in Row /\ row.exists = rows[r].exists /\ row.skipped = rows[r].skipped
    BY <1>1 DEF Row, Statuses, Reasons
  <2>2. rows' = [rows EXCEPT ![r] = row] /\ done' = done
    BY <1>2 DEF FinishRows
  <2> HIDE DEF row
  <2>3. RowsStep
    BY <2>1, <2>2, RowWritten
  <2> QED
    BY <2>3, CallsSame DEF StoreStep, FinishRows, StoreInv, StoreTypeOK
<1>3. CASE Kind[r] # "blueprint"
  <2> DEFINE reason == IF rows[r].status = "SUCCEEDED" THEN rows[r].reason ELSE NoReason
  <2>1. reason \in Reasons
    BY <1>1 DEF Row, Reasons, NoReason
  <2>2. SetStatus(r, "SUCCEEDED", reason) /\ done' = done
    BY <1>3 DEF FinishRows
  <2> HIDE DEF reason
  <2>3. RowsStep
    BY <2>1, <2>2, StatusSet DEF Statuses
  <2> QED
    BY <2>3, CallsSame DEF StoreStep, FinishRows, StoreInv, StoreTypeOK
<1> QED
  BY <1>2, <1>3

(* _workflow_failed and _fail_run.                                          *)
LEMMA FailRowsStep ==
  ASSUME StoreInv, NEW r \in Runs, rows[r].exists, FailRows(r)
  PROVE  StoreStep
<1>1. RowsStep
  BY StatusSet DEF FailRows, Statuses, Reasons, NoReason
<1> QED
  BY <1>1, CallsSame DEF StoreStep, FailRows, StoreInv, StoreTypeOK

-----------------------------------------------------------------------------
(* The writes that an action adds to a transaction of its own.              *)

(* Setting a status that ends nothing, or the checkpoint flag, of one row.  *)
LEMMA RowKept ==
  ASSUME StoreInv, NEW r \in Runs, rows[r].exists, NEW row \in Row,
         rows' = [rows EXCEPT ![r] = row],
         row.exists, row.skipped = rows[r].skipped, row.reason = rows[r].reason,
         row.status = rows[r].status \/ row.status # "SUCCEEDED",
         UNCHANGED <<done, invocations, controls>>
  PROVE  StoreStep
<1>1. RowsStep
  BY RowWritten DEF Finished
<1> QED
  BY <1>1, CallsSame DEF StoreStep, StoreInv, StoreTypeOK

(* _claim_pending_run.                                                      *)
LEMMA ClaimRows ==
  ASSUME StoreInv, NEW r \in Runs, Claim(r)
  PROVE  rows[r].exists /\ StoreStep
<1> DEFINE row == [rows[r] EXCEPT !.status = "RUNNING"]
<1>1. rows[r] \in Row
  BY DEF StoreInv, StoreTypeOK
<1>2. rows[r].exists
  BY DEF Claim, Claimable, Oldest
<1>3. /\ row \in Row /\ row.exists = rows[r].exists /\ row.skipped = rows[r].skipped
      /\ row.reason = rows[r].reason /\ row.status = "RUNNING"
  BY <1>1 DEF Row, Statuses
<1>4. rows' = [rows EXCEPT ![r] = row]
  BY DEF Claim
<1>5. UNCHANGED <<done, invocations, controls>>
  BY DEF Claim
<1> HIDE DEF row
<1> QED
  BY <1>2, <1>3, <1>4, <1>5, RowKept

(* _sync_checkpoint.                                                        *)
LEMMA SyncRows ==
  ASSUME StoreInv, exec.run \in Runs, rows[exec.run].exists, SyncCheckpoint
  PROVE  StoreStep
<1> DEFINE r == exec.run
           row == [rows[r] EXCEPT !.synced = TRUE]
<1>1. rows[r] \in Row
  BY DEF StoreInv, StoreTypeOK
<1>3. /\ row \in Row /\ row.exists = rows[r].exists /\ row.skipped = rows[r].skipped
      /\ row.reason = rows[r].reason /\ row.status = rows[r].status
  BY <1>1 DEF Row
<1>4. rows' = [rows EXCEPT ![r] = row]
  BY DEF SyncCheckpoint
<1>5. UNCHANGED <<done, invocations, controls>>
  BY DEF SyncCheckpoint
<1> HIDE DEF row
<1> QED
  BY <1>3, <1>4, <1>5, RowKept

(* _recover_interrupted_runs.                                               *)
LEMMA RestartRows ==
  ASSUME StoreInv, Restart
  PROVE  StoreStep
<1>1. rows \in [Runs -> Row]
  BY DEF StoreInv, StoreTypeOK
<1>2. ASSUME NEW r \in Runs
      PROVE  /\ rows'[r] \in Row /\ rows'[r].exists = rows[r].exists
             /\ rows'[r].skipped = rows[r].skipped /\ rows'[r].reason = rows[r].reason
             /\ \/ rows'[r].status = rows[r].status
                \/ rows[r].status = "RUNNING" /\ rows'[r].status = "PENDING"
  <2> DEFINE row == [rows[r] EXCEPT !.status = "PENDING"]
  <2>1. /\ row \in Row /\ row.exists = rows[r].exists /\ row.skipped = rows[r].skipped
        /\ row.reason = rows[r].reason /\ row.status = "PENDING"
    BY <1>1 DEF Row, Statuses
  <2>2. rows'[r] = IF rows[r].status = "RUNNING" THEN row ELSE rows[r]
    BY DEF Restart
  <2> HIDE DEF row
  <2> QED
    BY <1>1, <2>1, <2>2
<1>3. rows' \in [Runs -> Row]
  <2>1. rows' = [r \in Runs |-> rows'[r]]
    BY DEF Restart
  <2> QED
    BY <1>2, <2>1
<1>4. RowsStep
  BY <1>2, <1>3 DEF RowsStep, Restart, Finished, StoreInv, StoreTypeOK, UnbornUntouched
<1> QED
  BY <1>4, CallsSame DEF StoreStep, Restart, StoreInv, StoreTypeOK

(* complete_retry and fail_command.                                         *)
LEMMA SettleControls ==
  ASSUME StoreInv, exec.run \in Runs, Settle
  PROVE  StoreStep
<1>1. controls' \in Seq(Control)
  BY SetCommandType DEF Settle, QueuedRetry, StoreInv, StoreTypeOK
<1> QED
  BY <1>1, RowsSame, CallsSame DEF StoreStep, Settle

(* A node's write to the checkpoint.                                        *)
LEMMA CheckpointStep ==
  ASSUME StoreInv, exec.run \in Runs, rows[exec.run].exists, NEW n \in Nodes, CompleteNode(n)
  PROVE  StoreStep
<1>1. RowsStep
  BY DEF CompleteNode, RowsStep, Finished, StoreInv, StoreTypeOK
<1> QED
  BY <1>1, CallsSame DEF StoreStep, CompleteNode, StoreInv, StoreTypeOK

-----------------------------------------------------------------------------
(* The volatile state.                                                      *)

Tasks == [Nodes -> [pc : Pcs, call : Nat, tries : Nat]]
Executions == [run : Runs \cup {NoRun}, phase : Phases, ok : BOOLEAN, cancelling : BOOLEAN]

(* Types of what the runtime writes: no tasks,                              *)
LEMMA NoTasksType == NoTasks \in Tasks
  BY DEF NoTasks, NoTask, Tasks, Pcs

(* a task at another point,                                                 *)
LEMMA ToPcType ==
  ASSUME task \in Tasks, NEW n \in Nodes, NEW pc \in Pcs, ToPc(n, pc)
  PROVE  task' \in Tasks
<1> DEFINE t == [task[n] EXCEPT !.pc = pc]
<1>1. t \in [pc : Pcs, call : Nat, tries : Nat]
  BY DEF Tasks
<1>2. task' = [task EXCEPT ![n] = t]
  BY DEF ToPc, Tasks
<1> HIDE DEF t
<1> QED
  BY <1>1, <1>2 DEF Tasks

(* an execution in another phase,                                           *)
LEMMA ToPhaseType ==
  ASSUME exec \in Executions, NEW p \in Phases, ToPhase(p)
  PROVE  exec' \in Executions /\ exec'.phase = p /\ exec'.run = exec.run
  BY DEF ToPhase, Executions

(* no execution,                                                            *)
LEMMA IdleType == Idle \in Executions /\ Idle.phase = "idle" /\ Idle.run = NoRun
  BY DEF Idle, Executions, Phases

(* and what follows the return of the service.                              *)
LEMMA AfterInvokeType ==
  ASSUME exec \in Executions, NEW r, NEW ok \in BOOLEAN, exec' = AfterInvoke(r, ok)
  PROVE  /\ exec' \in Executions
         /\ \/ exec'.phase = "idle" /\ exec'.run = NoRun
            \/ exec'.phase = "settle" /\ exec'.run = exec.run
<1>1. CASE exec' = Idle
  BY <1>1, IdleType
<1>2. CASE exec' = [exec EXCEPT !.phase = "settle", !.ok = ok]
  BY <1>2 DEF Executions, Phases
<1> QED
  BY <1>1, <1>2 DEF AfterInvoke

(* What is left to show of an action once its writes are a StoreStep: N are *)
(* the transactions it orphans.                                             *)
LEMMA IInvKept ==
  ASSUME IInv, StoreStep,
         proc' \in {"up", "stopping", "down"}, cancels' \subseteq Runs, crashes' \in Nat,
         task' \in Tasks, exec' \in Executions, exec'.phase = "idle" => exec'.run = NoRun,
         exec'.phase # "idle" =>
           /\ exec'.run \in Runs /\ rows[exec'.run].exists
           /\ exec'.phase \in AtEnd => NodesOf[Kind[exec'.run]] \subseteq done[exec'.run],
         NEW N, N \subseteq Orphan, \A o \in N : Follows(o), orphans' \subseteq orphans \cup N
  PROVE  IInv'
<1>1. StoreInv'
  BY StoreStepKeepsInv DEF IInv
<1>2. RowsStep
  BY DEF StoreStep
<1>3. RuntimeTypeOK'
  BY DEF RuntimeTypeOK, IInv, RuntimeInv, Tasks, Executions
<1>4. OrphansFollow'
  <2>1. ASSUME NEW o \in orphans' PROVE Follows(o)'
    <3>1. Follows(o)
      BY DEF IInv, RuntimeInv, OrphansFollow
    <3>2. o.run \in Runs /\ rows[o.run].exists
      BY <3>1 DEF Follows
    <3>3. rows'[o.run].exists
      BY <1>2, <3>2 DEF RowsStep
    <3>4. HasInputs(o.run, o.node) => HasInputs(o.run, o.node)'
      BY <1>2, <3>2, InputsStay
    <3>5. AllDone(o.run) => AllDone(o.run)'
      BY <1>2, <3>2, DoneStays
    <3> QED
      BY <3>1, <3>3, <3>4, <3>5 DEF Follows
  <2> QED
    BY <2>1 DEF OrphansFollow
<1>5. ExecutionFollows'
  BY <1>2 DEF ExecutionFollows, RowsStep, AllDone
<1> QED
  BY <1>1, <1>3, <1>4, <1>5 DEF IInv, RuntimeInv

(* What the invariant says of the volatile state.                           *)
LEMMA IInvTypes ==
  ASSUME IInv
  PROVE  /\ StoreInv
         /\ proc \in {"up", "stopping", "down"} /\ cancels \subseteq Runs /\ crashes \in Nat
         /\ task \in Tasks /\ exec \in Executions /\ orphans \subseteq Orphan
         /\ exec.phase = "idle" => exec.run = NoRun
         /\ exec.phase # "idle" => exec.run \in Runs /\ rows[exec.run].exists
         /\ exec.phase \in AtEnd => NodesOf[Kind[exec.run]] \subseteq done[exec.run]
  BY DEF IInv, RuntimeInv, RuntimeTypeOK, Tasks, Executions, ExecutionFollows, AllDone, AtEnd

(* Actions that move the task of one node and nothing else of the process.  *)
LEMMA NodeKept ==
  ASSUME IInv, StoreStep, task' \in Tasks, UNCHANGED <<proc, exec, orphans, cancels, crashes>>
  PROVE  IInv'
<1> DEFINE N == {}
<1>1. /\ N \subseteq Orphan /\ \A o \in N : Follows(o)
      /\ orphans' \subseteq orphans \cup N
  OBVIOUS
<1>2. /\ proc' \in {"up", "stopping", "down"} /\ cancels' \subseteq Runs /\ crashes' \in Nat
      /\ task' \in Tasks /\ exec' \in Executions
      /\ exec'.phase = "idle" => exec'.run = NoRun
  BY IInvTypes
<1>3. exec'.phase # "idle" =>
        /\ exec'.run \in Runs /\ rows[exec'.run].exists
        /\ exec'.phase \in AtEnd => NodesOf[Kind[exec'.run]] \subseteq done[exec'.run]
  BY IInvTypes
<1> HIDE DEF N
<1> QED
  BY <1>1, <1>2, <1>3, IInvKept

(* Actions that move the execution and nothing else of the process.         *)
LEMMA ExecutionKept ==
  ASSUME IInv, StoreStep, exec' \in Executions, exec.phase # "idle",
         IF exec'.phase = "idle" THEN exec'.run = NoRun ELSE exec'.run = exec.run,
         exec'.phase \in AtEnd => NodesOf[Kind[exec.run]] \subseteq done[exec.run],
         UNCHANGED <<proc, task, orphans, cancels, crashes>>
  PROVE  IInv'
<1> DEFINE N == {}
<1>1. /\ N \subseteq Orphan /\ \A o \in N : Follows(o)
      /\ orphans' \subseteq orphans \cup N
  OBVIOUS
<1>2. /\ proc' \in {"up", "stopping", "down"} /\ cancels' \subseteq Runs /\ crashes' \in Nat
      /\ task' \in Tasks /\ exec' \in Executions
      /\ exec'.phase = "idle" => exec'.run = NoRun
  BY IInvTypes
<1>3. exec'.phase # "idle" =>
        /\ exec'.run \in Runs /\ rows[exec'.run].exists
        /\ exec'.phase \in AtEnd => NodesOf[Kind[exec'.run]] \subseteq done[exec'.run]
  BY IInvTypes
<1> HIDE DEF N
<1> QED
  BY <1>1, <1>2, <1>3, IInvKept

-----------------------------------------------------------------------------
(* The steps of the execution keep the invariant.                           *)

(* The claim of a run.                                                      *)
LEMMA ClaimKeeps ==
  ASSUME IInv, NEW r \in Runs, Claim(r)
  PROVE  IInv'
<1> DEFINE N == {}
<1>1. rows[r].exists /\ StoreStep
  BY IInvTypes, ClaimRows
<1>2. exec' \in Executions /\ exec'.run = r /\ exec'.phase = "begin"
  BY DEF Claim, Idle, Executions, Phases
<1>3. /\ N \subseteq Orphan /\ \A o \in N : Follows(o)
      /\ orphans' \subseteq orphans \cup N
  BY DEF Claim
<1>4. UNCHANGED <<proc, task, cancels, crashes>>
  BY DEF Claim
<1>5. /\ proc' \in {"up", "stopping", "down"} /\ cancels' \subseteq Runs /\ crashes' \in Nat
      /\ task' \in Tasks
  BY <1>4, IInvTypes
<1> HIDE DEF N
<1> QED
  BY <1>1, <1>2, <1>3, <1>5, IInvKept DEF AtEnd

(* The decision of execute().                                               *)
LEMMA BeginKeeps ==
  ASSUME IInv, Begin
  PROVE  IInv'
<1>1. StoreStep
  BY IInvTypes, StoreUnchanged DEF Begin
<1>2. /\ exec' \in Executions /\ exec'.phase \in {"recover", "graph", "idle"}
      /\ IF exec'.phase = "idle" THEN exec'.run = NoRun ELSE exec'.run = exec.run
  BY IInvTypes, IdleType, ToPhaseType DEF Begin, Phases
<1> QED
  BY <1>1, <1>2, ExecutionKept DEF Begin, Phase, AtEnd

(* The recovery of an interrupted run.                                      *)
LEMMA RecoverKeeps ==
  ASSUME IInv, Recover
  PROVE  IInv'
<1>1. exec.run \in Runs /\ rows[exec.run].exists /\ StoreInv /\ exec \in Executions
  BY IInvTypes DEF Recover, Phase
<1>2. StoreStep
  BY <1>1, RecoverRowsStep DEF Recover
<1>3. exec' \in Executions /\ exec'.phase = "graph" /\ exec'.run = exec.run
  BY <1>1, ToPhaseType DEF Recover, Phases
<1> QED
  BY <1>2, <1>3, ExecutionKept DEF Recover, Phase, AtEnd

(* Of a set of natural numbers one is the least.                            *)
LEMMA LeastNat ==
  ASSUME NEW S \in SUBSET Nat, S # {}
  PROVE  \E m \in S : \A k \in S : m <= k
<1>1. PICK m \in S : \A k \in S : ~ (<<k, m>> \in OpToRel(<, Nat))
  BY NatLessThanWellFounded, WFMin
<1>2. ASSUME NEW k \in S, k < m PROVE FALSE
  <2>1. <<k, m>> \in Nat \X Nat /\ <<k, m>>[1] < <<k, m>>[2]
    BY <1>2
  <2>2. <<k, m>> \in OpToRel(<, Nat)
    BY <2>1, Zenon DEF OpToRel
  <2> QED
    BY <1>1, <2>2
<1> QED
  BY <1>2

(* When no node is ready every node is done: the graph never stalls.        *)
LEMMA NothingReady ==
  ASSUME exec.run \in Runs, \A n \in NodesOf[Kind[exec.run]] : ~ Ready(n)
  PROVE  NodesOf[Kind[exec.run]] \subseteq done[exec.run]
<1> DEFINE G == NodesOf[Kind[exec.run]]
           left == {n \in G : n \notin done[exec.run]}
           stages == {Stage[n] : n \in left}
<1>1. SUFFICES ASSUME left # {} PROVE FALSE
  OBVIOUS
<1>2. G \subseteq Nodes
  BY RunsAssumption, GraphAssumption
<1>3. stages \in SUBSET Nat /\ stages # {}
  BY <1>1, <1>2, GraphAssumption
<1> HIDE DEF stages
<1>4. PICK m \in stages : \A k \in stages : m <= k
  BY <1>3, LeastNat
<1>5. PICK n \in left : Stage[n] = m
  BY <1>4 DEF stages
<1>6. ASSUME NEW e \in Earlier(Kind[exec.run], n), e \notin done[exec.run]
      PROVE  FALSE
  <2>1. e \in left /\ Stage[e] < Stage[n]
    BY <1>6 DEF Earlier
  <2>2. Stage[n] <= Stage[e]
    BY <2>1, <1>4, <1>5 DEF stages
  <2>3. Stage[n] \in Nat /\ Stage[e] \in Nat
    BY <1>2, <2>1, GraphAssumption
  <2> QED
    BY <2>1, <2>2, <2>3
<1> QED
  BY <1>5, <1>6 DEF Ready

(* The start of a super-step, or the end of the graph: then all is done.    *)
LEMMA LaunchKeeps ==
  ASSUME IInv, Launch
  PROVE  IInv'
<1> DEFINE ready == {n \in NodesOf[Kind[exec.run]] : Ready(n)}
<1>1. exec.run \in Runs /\ exec \in Executions /\ exec.phase = "graph"
  BY IInvTypes DEF Launch, Phase
<1>2. StoreStep
  BY IInvTypes, StoreUnchanged DEF Launch
<1>3. CASE ready = {}
  <2>1. exec' \in Executions /\ exec'.phase = "boundary" /\ exec'.run = exec.run
    BY <1>1, <1>3, ToPhaseType DEF Launch, Phases
  <2>2. NodesOf[Kind[exec.run]] \subseteq done[exec.run]
    BY <1>1, <1>3, NothingReady
  <2> QED
    BY <1>1, <1>2, <1>3, <2>1, <2>2, ExecutionKept DEF Launch
<1>4. CASE ready # {}
  <2>1. task' = [n \in Nodes |-> IF n \in ready
                                 THEN [pc |-> "check", call |-> 0, tries |-> 1]
                                 ELSE NoTask]
    BY <1>4 DEF Launch
  <2>2. task' \in Tasks
    BY <2>1 DEF Tasks, NoTask, Pcs
  <2> QED
    BY <1>2, <1>4, <2>2, NodeKept DEF Launch
<1> QED
  BY <1>3, <1>4

(* The last look at the controls.                                           *)
LEMMA BoundaryKeeps ==
  ASSUME IInv, ExecutionBoundary
  PROVE  IInv'
<1>1. exec \in Executions /\ exec.phase = "boundary"
      /\ NodesOf[Kind[exec.run]] \subseteq done[exec.run]
  BY IInvTypes DEF ExecutionBoundary, Phase, AtEnd
<1>2. StoreStep
  BY IInvTypes, StoreUnchanged DEF ExecutionBoundary
<1>3. exec' \in Executions /\ exec'.run = exec.run /\ exec'.phase # "idle"
  BY <1>1, ToPhaseType DEF ExecutionBoundary, Phases
<1> QED
  BY <1>1, <1>2, <1>3, ExecutionKept DEF ExecutionBoundary

(* The recording of the checkpoint.                                         *)
LEMMA SyncKeeps ==
  ASSUME IInv, SyncCheckpoint
  PROVE  IInv'
<1>1. exec \in Executions /\ exec.phase \in {"sync", "signal", "failed"}
  BY IInvTypes DEF SyncCheckpoint, Phase
<1>2. StoreStep
  BY <1>1, IInvTypes, SyncRows
<1>3. /\ exec' \in Executions
      /\ IF exec'.phase = "idle" THEN exec'.run = NoRun ELSE exec'.run = exec.run
      /\ exec'.phase \in {"finish", "settle", "idle"}
      /\ exec'.phase = "finish" => exec.phase = "sync"
  <2>1. CASE Phase("sync") /\ ToPhase("finish")
    BY <1>1, <2>1, ToPhaseType DEF Phases, Phase
  <2>2. CASE exec' = AfterInvoke(exec.run, TRUE)
    BY <1>1, <2>2, AfterInvokeType
  <2>3. CASE exec' = AfterInvoke(exec.run, FALSE)
    BY <1>1, <2>3, AfterInvokeType
  <2> QED
    BY <2>1, <2>2, <2>3 DEF SyncCheckpoint
<1>4. exec'.phase \in AtEnd => NodesOf[Kind[exec.run]] \subseteq done[exec.run]
  BY <1>3, IInvTypes DEF AtEnd
<1> QED
  BY <1>1, <1>2, <1>3, <1>4, ExecutionKept DEF SyncCheckpoint

(* The end of a run, only reached with every node done.                     *)
LEMMA FinishKeeps ==
  ASSUME IInv, Finish
  PROVE  IInv'
<1>1. exec.phase = "finish" /\ exec \in Executions /\ StoreInv
      /\ exec.run \in Runs /\ rows[exec.run].exists /\ AllDone(exec.run)
  BY IInvTypes DEF Finish, Phase, AtEnd, AllDone
<1>2. StoreStep
  BY <1>1, FinishRowsStep DEF Finish
<1>3. /\ exec' \in Executions
      /\ \/ exec'.phase = "idle" /\ exec'.run = NoRun
         \/ exec'.phase = "settle" /\ exec'.run = exec.run
  BY <1>1, AfterInvokeType DEF Finish
<1> QED
  BY <1>1, <1>2, <1>3, ExecutionKept DEF Finish, AtEnd

(* The failure of a run.                                                    *)
LEMMA FailRunKeeps ==
  ASSUME IInv, FailRun
  PROVE  IInv'
<1>1. exec.phase = "error" /\ exec \in Executions /\ StoreInv
      /\ exec.run \in Runs /\ rows[exec.run].exists
  BY IInvTypes DEF FailRun, Phase
<1>2. StoreStep
  BY <1>1, FailRowsStep DEF FailRun
<1>3. exec' \in Executions /\ exec'.phase = "failed" /\ exec'.run = exec.run
  BY <1>1, ToPhaseType DEF FailRun, Phases
<1> QED
  BY <1>1, <1>2, <1>3, ExecutionKept DEF FailRun, AtEnd

(* The settling of a queued retry.                                          *)
LEMMA SettleKeeps ==
  ASSUME IInv, Settle
  PROVE  IInv'
<1>1. exec.phase = "settle" /\ StoreInv /\ exec.run \in Runs
  BY IInvTypes DEF Settle, Phase
<1>2. StoreStep
  BY <1>1, SettleControls
<1> QED
  BY <1>1, <1>2, IdleType, ExecutionKept DEF Settle, AtEnd

(* The end of a cancelled execution.                                        *)
LEMMA CancelledKeeps ==
  ASSUME IInv, Cancelled
  PROVE  IInv'
<1>1. StoreStep
  BY IInvTypes, StoreUnchanged DEF Cancelled
<1> QED
  BY <1>1, IdleType, ExecutionKept DEF Cancelled, Phase, AtEnd

-----------------------------------------------------------------------------
(* The steps of a node keep the invariant.                                  *)

(* A node that steps belongs to an execution of an existing run.            *)
LEMMA InGraphFacts ==
  ASSUME IInv, NEW n \in Nodes, InGraph(n)
  PROVE  /\ StoreInv /\ task \in Tasks
         /\ exec.run \in Runs /\ rows[exec.run].exists
         /\ task[n] \in [pc : Pcs, call : Nat, tries : Nat]
  BY IInvTypes DEF InGraph, Phase, Tasks

(* Replacing a task leaves well-typed tasks.                                *)
LEMMA TaskSetType ==
  ASSUME task \in Tasks, NEW n \in Nodes, NEW t \in [pc : Pcs, call : Nat, tries : Nat],
         task' = [task EXCEPT ![n] = t]
  PROVE  task' \in Tasks
  BY DEF Tasks

(* The first transaction of node_started.                                   *)
LEMMA CheckNodeKeeps ==
  ASSUME IInv, NEW n \in Nodes, CheckNode(n)
  PROVE  IInv'
<1>1. /\ StoreInv /\ task \in Tasks /\ exec.run \in Runs /\ rows[exec.run].exists
  BY InGraphFacts DEF CheckNode
<1>2. PICK verdict \in {"go", "paused", "stopped"} :
        /\ BeforeNode(exec.run, n, verdict)
        /\ ToPc(n, IF verdict = "go" THEN "start" ELSE verdict)
  BY DEF CheckNode
<1>3. StoreStep
  BY <1>1, <1>2, BeforeNodeStep
<1>4. task' \in Tasks
  BY <1>1, <1>2, ToPcType DEF Pcs, Raised
<1> QED
  BY <1>3, <1>4, NodeKept DEF CheckNode

(* The second transaction of node_started.                                  *)
LEMMA StartNodeKeeps ==
  ASSUME IInv, NEW n \in Nodes, StartNode(n)
  PROVE  IInv'
<1>1. /\ StoreInv /\ task \in Tasks /\ exec.run \in Runs /\ rows[exec.run].exists
  BY InGraphFacts DEF StartNode
<1>2. StoreStep
  BY <1>1, StartRowsStep DEF StartNode
<1>3. task' \in Tasks
  BY <1>1, ToPcType DEF StartNode, Pcs
<1> QED
  BY <1>2, <1>3, NodeKept DEF StartNode

(* The start of a model call.                                               *)
LEMMA StartCallKeeps ==
  ASSUME IInv, NEW n \in Nodes, StartCall(n)
  PROVE  IInv'
<1> DEFINE t == [task[n] EXCEPT !.pc = "open", !.call = Len(invocations) + 1]
<1>1. /\ StoreInv /\ task \in Tasks /\ exec.run \in Runs /\ rows[exec.run].exists
      /\ task[n] \in [pc : Pcs, call : Nat, tries : Nat]
  BY InGraphFacts DEF StartCall
<1>2. StoreStep
  BY <1>1, StartCallRowsStep DEF StartCall
<1>3. Len(invocations) + 1 \in Nat
  BY <1>1, LenProperties DEF StoreInv, StoreTypeOK
<1>4. t \in [pc : Pcs, call : Nat, tries : Nat]
  BY <1>1, <1>3 DEF Pcs
<1>5. task' = [task EXCEPT ![n] = t]
  BY <1>1 DEF StartCall, Tasks
<1> HIDE DEF t
<1>6. task' \in Tasks
  BY <1>1, <1>4, <1>5, TaskSetType
<1> QED
  BY <1>2, <1>6, NodeKept DEF StartCall

(* The success of a model call.                                             *)
LEMMA SaveCallKeeps ==
  ASSUME IInv, NEW n \in Nodes, SaveCall(n)
  PROVE  IInv'
<1>1. StoreInv /\ task \in Tasks
  BY InGraphFacts DEF SaveCall
<1>2. StoreStep
  BY <1>1, CallRowsStep DEF SaveCall, CallStatuses
<1>3. task' \in Tasks
  BY <1>1, ToPcType DEF SaveCall, Pcs
<1> QED
  BY <1>2, <1>3, NodeKept DEF SaveCall

(* The failure of a model call.                                             *)
LEMMA FailCallKeeps ==
  ASSUME IInv, NEW n \in Nodes, FailCall(n)
  PROVE  IInv'
<1>1. StoreInv /\ task \in Tasks /\ task[n] \in [pc : Pcs, call : Nat, tries : Nat]
  BY InGraphFacts DEF FailCall
<1>2. StoreStep
  BY <1>1, CallRowsStep DEF FailCall, CallStatuses
<1>3. CASE ToPc(n, "error")
  <2>1. task' \in Tasks
    BY <1>1, <1>3, ToPcType DEF Pcs, Raised
  <2> QED
    BY <1>2, <2>1, NodeKept DEF FailCall
<1>4. CASE task' = [task EXCEPT ![n] = [pc |-> "check", call |-> 0, tries |-> @.tries + 1]]
  <2> DEFINE t == [pc |-> "check", call |-> 0, tries |-> task[n].tries + 1]
  <2>1. t \in [pc : Pcs, call : Nat, tries : Nat]
    BY <1>1 DEF Pcs
  <2>2. task' = [task EXCEPT ![n] = t]
    BY <1>4
  <2> HIDE DEF t
  <2>3. task' \in Tasks
    BY <1>1, <2>1, <2>2, TaskSetType
  <2> QED
    BY <1>2, <2>3, NodeKept DEF FailCall
<1> QED
  BY <1>3, <1>4 DEF FailCall

(* The completion of a node.                                                *)
LEMMA CompleteNodeKeeps ==
  ASSUME IInv, NEW n \in Nodes, CompleteNode(n)
  PROVE  IInv'
<1>1. /\ StoreInv /\ task \in Tasks /\ exec.run \in Runs /\ rows[exec.run].exists
  BY InGraphFacts DEF CompleteNode
<1>2. StoreStep
  BY <1>1, CheckpointStep
<1>3. task' \in Tasks
  BY <1>1, TaskSetType DEF CompleteNode, NoTask, Pcs
<1> QED
  BY <1>2, <1>3, NodeKept DEF CompleteNode

(* The closing of a cancelled call.                                         *)
LEMMA AbortCallKeeps ==
  ASSUME IInv, NEW n \in Nodes, AbortCall(n)
  PROVE  IInv'
<1>1. StoreInv /\ task \in Tasks
  BY IInvTypes
<1>2. StoreStep
  BY <1>1, CallRowsStep DEF AbortCall, CallStatuses
<1>3. task' \in Tasks
  BY <1>1, TaskSetType DEF AbortCall, NoTask, Pcs
<1> QED
  BY <1>2, <1>3, NodeKept DEF AbortCall

(* MissingInputs, Replay, Answer and ReceiveOutput only move the task.      *)
LEMMA TaskMoves ==
  ASSUME IInv, NEW n \in Nodes, InGraph(n), NEW pc \in Pcs, ToPc(n, pc),
         UNCHANGED <<durable, proc, exec, orphans, cancels, crashes>>
  PROVE  IInv'
<1>1. StoreStep
  BY IInvTypes, StoreUnchanged
<1>2. task' \in Tasks
  BY InGraphFacts, ToPcType
<1> QED
  BY <1>1, <1>2, NodeKept

(* Threads that are left behind, and the tasks they leave.                  *)
LEMMA LeftThreadsFollow ==
  ASSUME IInv, exec.run \in Runs, rows[exec.run].exists, NEW o \in LeftThreads(exec.run)
  PROVE  o \in Orphan /\ Follows(o)
<1>1. PICK n \in Nodes :
        /\ o = [run |-> exec.run, txn |-> Pc(n), node |-> n, call |-> task[n].call]
        /\ Pc(n) \in ThreadPcs
        /\ Pc(n) = "call" => HasInputs(exec.run, n)
  BY DEF LeftThreads
<1>2. task[n] \in [pc : Pcs, call : Nat, tries : Nat]
  BY IInvTypes DEF Tasks
<1> QED
  BY <1>1, <1>2 DEF Orphan, Follows, ThreadPcs

(* The tasks that a cancellation leaves are well typed.                     *)
LEMMA CancelledTasksType ==
  ASSUME task \in Tasks, task' = CancelledTasks
  PROVE  task' \in Tasks
<1>1. ASSUME NEW n \in Nodes
      PROVE  CancelledTasks[n] \in [pc : Pcs, call : Nat, tries : Nat]
  <2> DEFINE t == [task[n] EXCEPT !.pc = "abort"]
  <2>1. t \in [pc : Pcs, call : Nat, tries : Nat]
    BY DEF Tasks, Pcs
  <2>2. NoTask \in [pc : Pcs, call : Nat, tries : Nat]
    BY DEF NoTask, Pcs
  <2>3. CancelledTasks[n] \in {t, task[n], NoTask}
    BY DEF CancelledTasks
  <2> HIDE DEF t
  <2> QED
    BY <2>1, <2>2, <2>3 DEF Tasks
<1>2. CancelledTasks = [n \in Nodes |-> CancelledTasks[n]]
  BY DEF CancelledTasks
<1> QED
  BY <1>1, <1>2 DEF Tasks

(* The first exception of a super-step.                                     *)
LEMMA RaiseKeeps ==
  ASSUME IInv, NEW n \in Nodes, Raise(n)
  PROVE  IInv'
<1>1. exec.run \in Runs /\ rows[exec.run].exists /\ exec \in Executions
  BY InGraphFacts, IInvTypes DEF Raise
<1>2. StoreStep
  BY IInvTypes, StoreUnchanged DEF Raise
<1>3. exec' \in Executions /\ exec'.run = exec.run /\ exec'.phase \in {"error", "signal"}
  BY <1>1, ToPhaseType DEF Raise, Phases
<1>4. task' \in Tasks
  BY IInvTypes, CancelledTasksType DEF Raise
<1> DEFINE N == LeftThreads(exec.run)
<1>5. N \subseteq Orphan /\ \A o \in N : Follows(o)
  BY <1>1, LeftThreadsFollow
<1>6. orphans' \subseteq orphans \cup N
  BY DEF Raise
<1>7. proc' \in {"up", "stopping", "down"} /\ cancels' \subseteq Runs /\ crashes' \in Nat
  BY IInvTypes DEF Raise
<1> HIDE DEF N
<1> QED
  BY <1>1, <1>2, <1>3, <1>4, <1>5, <1>6, <1>7, IInvKept DEF AtEnd

(* Every step of a node.                                                    *)
LEMMA NodeStepKeeps ==
  ASSUME IInv, NEW n \in Nodes, NodeStep(n)
  PROVE  IInv'
<1> USE DEF Pcs, Raised
<1>1. CASE MissingInputs(n)
  BY <1>1, TaskMoves DEF MissingInputs
<1>2. CASE Replay(n)
  BY <1>2, TaskMoves DEF Replay
<1>3. CASE Answer(n)
  BY <1>3, TaskMoves DEF Answer
<1>4. CASE ReceiveOutput(n)
  BY <1>4, TaskMoves DEF ReceiveOutput
<1> QED
  BY <1>1, <1>2, <1>3, <1>4, CheckNodeKeeps, StartNodeKeeps, StartCallKeeps, SaveCallKeeps,
     FailCallKeeps, CompleteNodeKeeps, AbortCallKeeps, RaiseKeeps DEF NodeStep, OwnStep

-----------------------------------------------------------------------------
(* Orphaned threads, the API and the process keep the invariant.            *)

(* Actions that leave the execution and its tasks alone.                    *)
LEMMA OthersKept ==
  ASSUME IInv, StoreStep, UNCHANGED <<exec, task>>,
         proc' \in {"up", "stopping", "down"}, cancels' \subseteq Runs, crashes' \in Nat,
         NEW N, N \subseteq Orphan, \A o \in N : Follows(o), orphans' \subseteq orphans \cup N
  PROVE  IInv'
<1>1. task' \in Tasks /\ exec' \in Executions /\ (exec'.phase = "idle" => exec'.run = NoRun)
  BY IInvTypes
<1>2. exec'.phase # "idle" =>
        /\ exec'.run \in Runs /\ rows[exec'.run].exists
        /\ exec'.phase \in AtEnd => NodesOf[Kind[exec'.run]] \subseteq done[exec'.run]
  BY IInvTypes
<1> QED
  BY <1>1, <1>2, IInvKept

(* Of these the ones that orphan nothing.                                   *)
LEMMA NothingOrphaned ==
  ASSUME IInv, StoreStep, UNCHANGED <<exec, task>>, orphans' \subseteq orphans,
         proc' \in {"up", "stopping", "down"}, cancels' \subseteq Runs, crashes' \in Nat
  PROVE  IInv'
<1> DEFINE N == {}
<1>1. /\ N \subseteq Orphan /\ \A o \in N : Follows(o)
      /\ orphans' \subseteq orphans \cup N
  OBVIOUS
<1> HIDE DEF N
<1> QED
  BY <1>1, OthersKept

(* A thread that commits although its task was cancelled.                   *)
LEMMA OrphanCommitKeeps ==
  ASSUME IInv, NEW o \in orphans, OrphanCommit(o)
  PROVE  IInv'
<1>1. /\ StoreInv /\ o \in Orphan /\ Follows(o)
  BY IInvTypes DEF IInv, RuntimeInv, OrphansFollow
<1>2. o.run \in Runs /\ rows[o.run].exists
  BY <1>1 DEF Follows
<1>3. /\ proc' \in {"up", "stopping", "down"} /\ cancels' \subseteq Runs /\ crashes' \in Nat
      /\ UNCHANGED <<exec, task>>
  BY IInvTypes DEF OrphanCommit
<1>4. CASE o.txn = "check"
  <2> DEFINE next == [o EXCEPT !.txn = "start"]
             N == {next}
  <2>1. PICK verdict \in {"go", "paused", "stopped"} :
          /\ BeforeNode(o.run, o.node, verdict)
          /\ orphans' = (orphans \ {o}) \cup (IF verdict = "go" THEN {next} ELSE {})
    BY <1>4 DEF OrphanCommit
  <2>2. o.node \in Nodes
    BY <1>1, <1>4 DEF Follows, ThreadPcs
  <2>3. StoreStep
    BY <1>1, <1>2, <2>1, <2>2, BeforeNodeStep
  <2>4. next \in Orphan /\ Follows(next)
    BY <1>1, <1>4 DEF Orphan, Follows, ThreadPcs
  <2> HIDE DEF next
  <2>5. N \subseteq Orphan /\ \A q \in N : Follows(q)
    BY <2>4
  <2>6. orphans' \subseteq orphans \cup N
    BY <2>1
  <2> HIDE DEF N
  <2> QED
    BY <1>3, <2>3, <2>5, <2>6, OthersKept
<1>5. CASE o.txn # "check"
  <2>1. orphans' \subseteq orphans
    BY <1>5 DEF OrphanCommit
  <2>2. o.txn \in ThreadPcs => o.node \in Nodes
    BY <1>1 DEF Follows
  <2> SUFFICES StoreStep
    BY <1>3, <2>1, NothingOrphaned
  <2>3. CASE o.txn = "start" /\ StartRows(o.run, o.node)
    BY <1>1, <1>2, <2>2, <2>3, StartRowsStep DEF ThreadPcs
  <2>4. CASE o.txn = "call" /\ StartCallRows(o.run, o.node)
    BY <1>1, <1>2, <2>2, <2>4, StartCallRowsStep DEF ThreadPcs, Follows
  <2>5. CASE o.txn = "save" /\ CallRows(o.call, "SUCCEEDED")
    BY <1>1, <2>5, CallRowsStep DEF CallStatuses
  <2>6. CASE o.txn = "fail" /\ CallRows(o.call, "FAILED")
    BY <1>1, <2>6, CallRowsStep DEF CallStatuses
  <2>7. CASE o.txn = "recover" /\ RecoverRows(o.run)
    BY <1>1, <1>2, <2>7, RecoverRowsStep
  <2>8. CASE o.txn = "finish" /\ FinishRows(o.run)
    BY <1>1, <1>2, <2>8, FinishRowsStep DEF Follows
  <2>9. CASE o.txn = "error" /\ FailRows(o.run)
    BY <1>1, <1>2, <2>9, FailRowsStep
  <2> QED
    BY <1>5, <2>3, <2>4, <2>5, <2>6, <2>7, <2>8, <2>9 DEF OrphanCommit
<1> QED
  BY <1>4, <1>5

(* A thread that never ran.                                                 *)
LEMMA OrphanNeverRanKeeps ==
  ASSUME IInv, NEW o \in orphans, OrphanNeverRan(o)
  PROVE  IInv'
<1>1. StoreStep
  BY IInvTypes, StoreUnchanged DEF OrphanNeverRan
<1> QED
  BY <1>1, IInvTypes, NothingOrphaned DEF OrphanNeverRan

(* The cancellation of the execution.                                       *)
LEMMA CancelExecutionKeeps ==
  ASSUME IInv, CancelExecution, exec.run # NoRun, UNCHANGED durable,
         proc' \in {"up", "stopping", "down"}, cancels' \subseteq Runs, crashes' \in Nat
  PROVE  IInv'
<1>1. StoreStep
  BY IInvTypes, StoreUnchanged
<1>2. exec \in Executions
  BY IInvTypes
<1>3. CASE ~ Joined
  <2> DEFINE N == {}
  <2>1. /\ exec' \in Executions /\ exec'.run = exec.run /\ exec'.phase = exec.phase
        /\ UNCHANGED <<task, orphans>>
    BY <1>2, <1>3 DEF CancelExecution, Executions
  <2>2. /\ N \subseteq Orphan /\ \A o \in N : Follows(o)
        /\ orphans' \subseteq orphans \cup N /\ task' \in Tasks
        /\ exec'.phase = "idle" => exec'.run = NoRun
    BY <2>1, IInvTypes
  <2>3. exec'.phase # "idle" =>
          /\ exec'.run \in Runs /\ rows[exec'.run].exists
          /\ exec'.phase \in AtEnd => NodesOf[Kind[exec'.run]] \subseteq done[exec'.run]
    BY <2>1, IInvTypes
  <2> HIDE DEF N
  <2> QED
    BY <1>1, <2>1, <2>2, <2>3, IInvKept
<1>4. CASE Joined
  <2> DEFINE thread == IF exec.phase \in {"recover", "finish", "error"}
                       THEN {[run |-> exec.run, txn |-> exec.phase, node |-> Unset, call |-> 0]}
                       ELSE {}
             N == LeftThreads(exec.run) \cup thread
  <2>1. /\ exec' = [exec EXCEPT !.phase = "cancelled", !.cancelling = TRUE]
        /\ task' = CancelledTasks
        /\ orphans' = orphans \cup LeftThreads(exec.run) \cup thread
    BY <1>4 DEF CancelExecution
  <2>2. exec' \in Executions /\ exec'.run = exec.run /\ exec'.phase = "cancelled"
    BY <1>2, <2>1 DEF Executions, Phases
  <2>3. task' \in Tasks
    BY <2>1, IInvTypes, CancelledTasksType
  <2>4. exec.run \in Runs /\ rows[exec.run].exists
    BY IInvTypes
  <2>5. ASSUME NEW o \in N
        PROVE  o \in Orphan /\ Follows(o)
    <3>1. CASE o \in LeftThreads(exec.run)
      BY <2>4, <3>1, LeftThreadsFollow
    <3>2. CASE o \in thread
      <4>1. /\ o = [run |-> exec.run, txn |-> exec.phase, node |-> Unset, call |-> 0]
            /\ exec.phase \in {"recover", "finish", "error"}
        BY <3>2
      <4>2. exec.phase = "finish" => AllDone(exec.run)
        BY IInvTypes DEF AtEnd, AllDone
      <4>3. o \in Orphan
        BY <2>4, <4>1 DEF Orphan
      <4>4. /\ o.run = exec.run /\ o.txn = exec.phase
            /\ o.txn \notin ThreadPcs
        BY <4>1 DEF ThreadPcs
      <4> QED
        BY <2>4, <4>2, <4>3, <4>4 DEF Follows, ThreadPcs
    <3> QED
      BY <2>5, <3>1, <3>2
  <2>6. orphans' \subseteq orphans \cup N
    BY <2>1
  <2> HIDE DEF N
  <2> QED
    BY <1>1, <2>2, <2>3, <2>4, <2>5, <2>6, IInvKept DEF AtEnd
<1> QED
  BY <1>3, <1>4

(* NoRun is no run.                                                         *)
LEMMA RunsAreNotNoRun == \A r \in Runs : r # NoRun
  BY RunsAssumption DEF NoRun

(* Every step of the control API.                                           *)
LEMMA ApiStepKeeps ==
  ASSUME IInv, ApiStep
  PROVE  IInv'
<1>1. /\ StoreInv
      /\ proc \in {"up", "stopping", "down"} /\ cancels \subseteq Runs /\ crashes \in Nat
  BY IInvTypes
<1>2. ASSUME StoreStep, UNCHANGED volatile
      PROVE  IInv'
  BY <1>1, <1>2, NothingOrphaned DEF volatile
<1>3. ASSUME NEW r \in Runs, ApiPause(r)
      PROVE  IInv'
  BY <1>1, <1>2, <1>3, RequestPauseStep DEF ApiPause
<1>4. ASSUME NEW r \in Runs, ApiStop(r)
      PROVE  IInv'
  <2>1. StoreStep
    BY <1>1, <1>4, StopStep DEF ApiStop
  <2> QED
    BY <1>1, <1>4, <2>1, NothingOrphaned DEF ApiStop
<1>5. ASSUME NEW r \in Runs, ApiRedeliverStop(r)
      PROVE  IInv'
  <2>1. StoreStep
    BY <1>1, <1>5, StoreUnchanged DEF ApiRedeliverStop
  <2> QED
    BY <1>1, <1>5, <2>1, NothingOrphaned DEF ApiRedeliverStop
<1>6. ASSUME NEW r \in Runs, ApiResume(r)
      PROVE  IInv'
  BY <1>1, <1>2, <1>6, BeginResumeStep DEF ApiResume
<1>7. ASSUME NEW r \in Runs, CancelActiveRun(r)
      PROVE  IInv'
  <2>1. cancels' \subseteq Runs /\ UNCHANGED <<durable, proc, crashes>>
    BY <1>1, <1>7 DEF CancelActiveRun
  <2>2. CASE CancelExecution /\ exec.run = r
    BY <1>1, <2>1, <2>2, RunsAreNotNoRun, CancelExecutionKeeps
  <2>3. CASE UNCHANGED <<exec, task, orphans>>
    BY <1>1, <2>1, <2>3, StoreUnchanged, NothingOrphaned
  <2> QED
    BY <1>7, <2>2, <2>3 DEF CancelActiveRun
<1>8. ASSUME NEW r \in Runs, NEW b \in Budgets, ApiUpdateBudget(r, b)
      PROVE  IInv'
  BY <1>1, <1>2, <1>8, UpdateBudgetStep DEF ApiUpdateBudget
<1>9. ASSUME NEW r \in Runs, NEW n \in NodesOf[Kind[r]], ApiBeginRetry(r, n)
      PROVE  IInv'
  <2>1. n \in Nodes
    BY RunsAssumption, GraphAssumption
  <2> QED
    BY <1>1, <1>2, <1>9, <2>1, BeginRetryStep DEF ApiBeginRetry
<1>10. ASSUME NEW c \in DOMAIN controls, ApiCheckpointRetry(c)
       PROVE  IInv'
  BY <1>1, <1>2, <1>10, CheckpointRetryStep DEF ApiCheckpointRetry
<1>11. ASSUME NEW c \in DOMAIN controls, NEW child \in Runs, ApiQueueRetryChild(c, child)
       PROVE  IInv'
  BY <1>1, <1>2, <1>11, QueueRetryChildStep DEF ApiQueueRetryChild
<1> QED
  BY <1>3, <1>4, <1>5, <1>6, <1>7, <1>8, <1>9, <1>10, <1>11 DEF ApiStep

(* Every shutdown, crash and restart.                                       *)
LEMMA ProcessStepKeeps ==
  ASSUME IInv, ProcessStep
  PROVE  IInv'
<1>1. /\ StoreInv
      /\ proc \in {"up", "stopping", "down"} /\ cancels \subseteq Runs /\ crashes \in Nat
  BY IInvTypes
<1>2. CASE Shutdown
  <2>1. /\ proc' = "stopping" /\ cancels' \subseteq Runs /\ crashes' \in Nat
        /\ UNCHANGED durable
    BY <1>1, <1>2 DEF Shutdown
  <2>2. CASE CancelExecution /\ exec.run # NoRun
    BY <2>1, <2>2, CancelExecutionKeeps
  <2>3. CASE UNCHANGED <<exec, task, orphans>>
    BY <1>1, <2>1, <2>3, StoreUnchanged, NothingOrphaned
  <2> QED
    BY <1>2, <2>2, <2>3 DEF Shutdown
<1>3. CASE Exit
  <2>1. StoreStep
    BY <1>1, <1>3, StoreUnchanged DEF Exit
  <2> QED
    BY <1>1, <1>3, <2>1, NothingOrphaned DEF Exit
<1>4. CASE Crash
  <2> DEFINE N == {}
  <2>1. StoreStep
    BY <1>1, <1>4, StoreUnchanged DEF Crash
  <2>2. /\ exec' \in Executions /\ exec'.phase = "idle" /\ exec'.run = NoRun
        /\ task' \in Tasks
    BY <1>4, IdleType, NoTasksType DEF Crash
  <2>3. /\ proc' = "down" /\ cancels' \subseteq Runs /\ crashes' \in Nat
        /\ orphans' \subseteq orphans \cup N
        /\ N \subseteq Orphan /\ \A o \in N : Follows(o)
    BY <1>1, <1>4 DEF Crash
  <2> HIDE DEF N
  <2> QED
    BY <2>1, <2>2, <2>3, IInvKept
<1>5. CASE Restart
  <2>1. StoreStep
    BY <1>1, <1>5, RestartRows
  <2> QED
    BY <1>1, <1>5, <2>1, NothingOrphaned DEF Restart
<1> QED
  BY <1>2, <1>3, <1>4, <1>5 DEF ProcessStep

-----------------------------------------------------------------------------
(* The invariant of the specification, and what it implies.                 *)

(* The invariant holds at first.                                            *)
LEMMA InitInv == Init => IInv
<1> SUFFICES ASSUME Init PROVE IInv
  OBVIOUS
<1>1. /\ done = [r \in Runs |-> {}] /\ invocations = << >> /\ controls = << >>
      /\ proc = "up" /\ exec = Idle /\ task = NoTasks
      /\ orphans = {} /\ cancels = {} /\ crashes = 0
  BY DEF Init, StoreInit
<1>2. /\ rows \in [Runs -> Row]
      /\ \A r \in Runs : rows[r].status = "PENDING" /\ rows[r].reason = NoReason
  <2>1. PICK b \in [Runs -> Budgets] :
          rows = [r \in Runs |-> [exists |-> r \in Queued, status |-> "PENDING",
                                  reason |-> NoReason, node |-> Unset, budget |-> b[r],
                                  synced |-> FALSE, seeded |-> {}, skipped |-> {}]]
    BY DEF Init, StoreInit
  <2>2. \A r \in Runs : b[r] \in Nat
    BY BoundsAssumption
  <2> QED
    BY <2>1, <2>2 DEF Row, Statuses, Reasons
<1>3. StoreTypeOK
  BY <1>1, <1>2, EmptySeq DEF StoreTypeOK
<1>4. DOMAIN invocations = {}
  BY <1>1
<1>5. StoreInv
  BY <1>2, <1>3, <1>4 DEF StoreInv, UnbornUntouched, CallsHaveRuns, WorkFollowsGraph,
                          FinishedMeansComplete, NoReason
<1>6. RuntimeTypeOK
  BY <1>1, IdleType, NoTasksType DEF RuntimeTypeOK, Executions, Tasks
<1> QED
  BY <1>1, <1>5, <1>6, IdleType DEF IInv, RuntimeInv, OrphansFollow, ExecutionFollows

(* Every step keeps it.                                                     *)
LEMMA NextKeepsInv == IInv /\ [Next]_vars => IInv'
<1> SUFFICES ASSUME IInv, [Next]_vars PROVE IInv'
  OBVIOUS
<1>1. CASE UNCHANGED vars
  BY <1>1, IInvTypes, StoreUnchanged, NothingOrphaned DEF vars, volatile
<1>2. CASE ExecutionStep
  BY <1>2, BeginKeeps, RecoverKeeps, LaunchKeeps, CancelledKeeps, BoundaryKeeps, SyncKeeps,
     FinishKeeps, FailRunKeeps, SettleKeeps DEF ExecutionStep
<1> QED
  BY <1>1, <1>2, ClaimKeeps, NodeStepKeeps, OrphanCommitKeeps, OrphanNeverRanKeeps,
     ApiStepKeeps, ProcessStepKeeps DEF Next

(* The inductive invariant holds in every reachable state.                  *)
THEOREM Invariance == Spec => []IInv
<1> QED
  BY InitInv, NextKeepsInv, PTL DEF Spec

(* Every row, command, call, thread and task the runtime writes is well     *)
(* formed, whatever was cancelled, lost or restarted.                       *)
THEOREM TypeCorrect == Spec => []TypeOK
<1>1. IInv => TypeOK
  BY DEF IInv, StoreInv, RuntimeInv, TypeOK
<1> QED
  BY <1>1, Invariance, PTL

(* No interleaving of orphaned threads, controls, retries and restarts      *)
(* records a call of a node before the artifacts it needs are checkpointed. *)
THEOREM CallsFollowGraph == Spec => []WorkFollowsGraph
<1>1. IInv => WorkFollowsGraph
  BY DEF IInv, StoreInv
<1> QED
  BY <1>1, Invariance, PTL

(* A run is SUCCEEDED, or asks for the approval of its Blueprint, only with *)
(* every node of its graph checkpointed: also when the transaction that     *)
(* says so commits from an orphaned thread.                                 *)
THEOREM FinishIsComplete == Spec => []FinishedMeansComplete
<1>1. IInv => FinishedMeansComplete
  BY DEF IInv, StoreInv
<1> QED
  BY <1>1, Invariance, PTL

-----------------------------------------------------------------------------
(* The evidence of finished work, and what a run spends.  The invariant of  *)
(* these says which call each task and each late thread works on.           *)

Owning == {"open", "save", "saved", "fail", "abort"}
IsCall(i, r, n) ==
  i \in DOMAIN invocations /\ invocations[i].run = r /\ invocations[i].node = n
Succeeded(i) == invocations[i].status = "SUCCEEDED"

(* The tasks of a super-step are of nodes that are ready, and a call a task *)
(* works on is its node's.                                                  *)
TasksInv ==
  \A n \in Nodes : Pc(n) # "idle" =>
    /\ exec.phase \in (IF Pc(n) = "abort" THEN {"signal", "error", "cancelled"} ELSE {"graph"})
    /\ n \in NodesOf[Kind[exec.run]] /\ Ready(n)
    /\ Pc(n) \in Owning => IsCall(task[n].call, exec.run, n)

(* What a late thread may still write: never the call of a task but of one  *)
(* that is being closed, and a failure only where no success was written or *)
(* will be.                                                                 *)
OrphanCallsInv ==
  \A o \in orphans : o.txn \in {"save", "fail"} =>
    /\ IsCall(o.call, o.run, o.node)
    /\ o.txn = "fail" => /\ ~ Succeeded(o.call)
                         /\ \A p \in orphans : p.txn = "save" => p.call # o.call
    /\ \A n \in Nodes : Pc(n) \in Owning /\ task[n].call = o.call =>
                          Pc(n) = "abort" /\ o.txn = "save"

(* A result in hand is a succeeded call's.                                  *)
ResultsInv ==
  \A n \in Nodes :
    /\ Pc(n) \in {"open", "save", "fail"} => ~ Succeeded(task[n].call)
    /\ Pc(n) = "saved" => Succeeded(task[n].call)
    /\ Pc(n) = "output" => Replayable(exec.run, n)

EvidenceInv == TasksInv /\ OrphanCallsInv /\ ResultsInv /\ CheckpointHasEvidence

(* Only stopped runs are cancelled, but by a shutdown: it lets no graph go  *)
(* on, and no process starts with threads of the last one.                  *)
CancelsInv ==
  /\ \A r \in cancels : StopApplied(r)
  /\ exec.cancelling => exec.phase \in {"signal", "error", "cancelled", "failed", "settle"}
  /\ proc = "stopping" => exec.phase = "idle" \/ exec.cancelling
  /\ proc = "down" => exec.phase = "idle" /\ orphans = {}

(* A run that goes one node at a time and was not stopped has late threads  *)
(* only while the process shuts down, and then of one task.                 *)
Lone(r) == Sequential(Kind[r]) /\ ~ StopApplied(r)
LoneInv ==
  /\ \A o \in orphans : o.txn \in {"call", "save"} /\ Lone(o.run) => proc = "stopping"
  /\ \A o, p \in orphans :
       o.txn \in {"call", "save"} /\ p.txn = o.txn /\ p.run = o.run /\ Lone(o.run) => o = p

(* Where a call may still succeed none has succeeded yet.                   *)
OpenInv ==
  /\ \A n \in Nodes : Pc(n) \in {"open", "save"} /\ Lone(exec.run) => ~ Replayable(exec.run, n)
  /\ \A o \in orphans : o.txn = "save" /\ Lone(o.run) => ~ Replayable(o.run, o.node)

(* What is past its check is within the budget.                             *)
Passed(r) ==
  \/ exec.run = r /\ \E n \in Nodes : Pc(n) \in {"start", "call"}
  \/ \E o \in orphans : o.txn = "call" /\ o.run = r
BudgetInv ==
  \A r \in Runs : Lone(r) => /\ Usage(r) <= rows[r].budget + 1
                             /\ Passed(r) => Usage(r) <= rows[r].budget

(* A transaction that makes no call, decides none, and leaves the artifacts *)
(* and the budget of every run as they are.                                 *)
CallsQuiet ==
  /\ DOMAIN invocations' = DOMAIN invocations
  /\ \A i \in DOMAIN invocations : /\ invocations'[i].run = invocations[i].run
                                   /\ invocations'[i].node = invocations[i].node
                                   /\ Succeeded(i)' <=> Succeeded(i)
RowsQuiet ==
  \A r \in Runs : /\ done'[r] = done[r] /\ rows'[r].seeded = rows[r].seeded
                  /\ rows'[r].skipped = rows[r].skipped /\ rows'[r].budget = rows[r].budget
ControlsKept ==
  \A c \in DOMAIN controls : /\ c \in DOMAIN controls'
                             /\ controls'[c].run = controls[c].run
                             /\ controls'[c].action = controls[c].action
Quiet == CallsQuiet /\ RowsQuiet /\ ControlsKept

(* Nothing happens to the store.                                            *)
LEMMA NothingQuiet ==
  ASSUME UNCHANGED durable
  PROVE  Quiet
  BY DEF durable, Quiet, CallsQuiet, RowsQuiet, ControlsKept, Succeeded

(* Calls that are closed have not succeeded, and do not succeed.            *)
LEMMA ClosedQuiet ==
  ASSUME StoreInv, NEW C, NEW status \in CallStatuses \ {"SUCCEEDED"},
         invocations' = [i \in DOMAIN invocations |->
                           IF i \in C /\ invocations[i].status = "RUNNING"
                           THEN [invocations[i] EXCEPT !.status = status]
                           ELSE invocations[i]]
  PROVE  CallsQuiet
<1>1. \A i \in DOMAIN invocations : invocations[i] \in Invocation
  BY ElementOfSeq DEF StoreInv, StoreTypeOK
<1>2. DOMAIN invocations' = DOMAIN invocations
  OBVIOUS
<1>3. ASSUME NEW i \in DOMAIN invocations
      PROVE  /\ invocations'[i].run = invocations[i].run
             /\ invocations'[i].node = invocations[i].node
             /\ Succeeded(i)' <=> Succeeded(i)
  <2>1. invocations[i] \in Invocation
    BY <1>1
  <2>2. invocations'[i] = IF i \in C /\ invocations[i].status = "RUNNING"
                          THEN [invocations[i] EXCEPT !.status = status]
                          ELSE invocations[i]
    OBVIOUS
  <2> QED
    BY <2>1, <2>2 DEF Invocation, Succeeded
<1> QED
  BY <1>2, <1>3 DEF CallsQuiet

(* One row is written, but for its artifacts and its budget.                *)
LEMMA RowQuiet ==
  ASSUME StoreInv, NEW r \in Runs, NEW row, rows' = [rows EXCEPT ![r] = row], done' = done,
         row.seeded = rows[r].seeded, row.skipped = rows[r].skipped,
         row.budget = rows[r].budget
  PROVE  RowsQuiet
  BY DEF RowsQuiet, StoreInv, StoreTypeOK

(* A status and a pause reason are written.                                 *)
LEMMA StatusQuiet ==
  ASSUME StoreInv, NEW r \in Runs, NEW status, NEW reason, SetStatus(r, status, reason),
         done' = done
  PROVE  RowsQuiet
<1> DEFINE row == [rows[r] EXCEPT !.status = status, !.reason = reason]
<1>1. rows[r] \in Row
  BY DEF StoreInv, StoreTypeOK
<1>2. /\ row.seeded = rows[r].seeded /\ row.skipped = rows[r].skipped
      /\ row.budget = rows[r].budget
  BY <1>1 DEF Row
<1>3. rows' = [rows EXCEPT ![r] = row]
  BY DEF SetStatus
<1> HIDE DEF row
<1> QED
  BY <1>2, <1>3, RowQuiet

(* No row is written.                                                       *)
LEMMA RowsSameQuiet ==
  ASSUME UNCHANGED <<rows, done>>
  PROVE  RowsQuiet
  BY DEF RowsQuiet

(* No call is written.                                                      *)
LEMMA CallsSameQuiet ==
  ASSUME invocations' = invocations
  PROVE  CallsQuiet
  BY DEF CallsQuiet, Succeeded

(* A command is recorded,                                                   *)
LEMMA RecordKeeps ==
  ASSUME StoreInv, NEW x, controls' = Append(controls, x)
  PROVE  ControlsKept
<1>1. controls \in Seq(Control)
  BY DEF StoreInv, StoreTypeOK
<1> QED
  BY <1>1 DEF ControlsKept

(* settled,                                                                 *)
LEMMA SettleKeepsCommands ==
  ASSUME StoreInv, NEW c \in DOMAIN controls, NEW status, NEW result,
         SetCommand(c, status, result)
  PROVE  ControlsKept
<1> DEFINE x == [controls[c] EXCEPT !.status = status, !.result = result]
<1>1. controls[c] \in Control
  BY ElementOfSeq DEF StoreInv, StoreTypeOK
<1>2. x.run = controls[c].run /\ x.action = controls[c].action
  BY <1>1 DEF Control
<1>3. controls' = [controls EXCEPT ![c] = x]
  BY DEF SetCommand
<1> HIDE DEF x
<1> QED
  BY <1>2, <1>3 DEF ControlsKept

(* or none is.                                                              *)
LEMMA ControlsSameKept ==
  ASSUME controls' = controls
  PROVE  ControlsKept
  BY DEF ControlsKept

-----------------------------------------------------------------------------
(* The quiet transactions.                                                  *)

(* request_pause.                                                           *)
LEMMA RequestPauseQuiet ==
  ASSUME StoreInv, NEW r \in Runs, RequestPause(r)
  PROVE  Quiet
<1>1. CallsQuiet
  BY CallsSameQuiet DEF RequestPause
<1>2. RowsQuiet
  BY StatusQuiet, RowsSameQuiet DEF RequestPause
<1>3. ControlsKept
  BY RecordKeeps DEF RequestPause, Accept
<1> QED
  BY <1>1, <1>2, <1>3 DEF Quiet

(* stop.                                                                    *)
LEMMA StopQuiet ==
  ASSUME StoreInv, NEW r \in Runs, Stop(r)
  PROVE  Quiet /\ StopApplied(r)'
<1>1. CallsQuiet
  <2>1. "CANCELLED" \in CallStatuses \ {"SUCCEEDED"}
    BY DEF CallStatuses
  <2> QED
    BY <2>1, ClosedQuiet DEF Stop
<1>2. RowsQuiet
  BY StatusQuiet DEF Stop
<1>3. ControlsKept
  BY RecordKeeps DEF Stop, Accept
<1>4. StopApplied(r)'
  <2> DEFINE x == Record(r, "stop", "APPLIED", Unset)
  <2>1. x.run = r /\ x.action = "stop"
    BY DEF Record
  <2>2. controls' = Append(controls, x) /\ controls \in Seq(Control)
    BY DEF Stop, Accept, StoreInv, StoreTypeOK
  <2> HIDE DEF x
  <2>3. Len(controls) + 1 \in DOMAIN controls' /\ controls'[Len(controls) + 1] = x
    BY <2>2
  <2> QED
    BY <2>1, <2>3 DEF StopApplied
<1> QED
  BY <1>1, <1>2, <1>3, <1>4 DEF Quiet

(* begin_resume.                                                            *)
LEMMA BeginResumeQuiet ==
  ASSUME StoreInv, NEW r \in Runs, BeginResume(r)
  PROVE  Quiet
<1>1. CallsQuiet
  BY CallsSameQuiet DEF BeginResume
<1>2. RowsQuiet
  BY StatusQuiet DEF BeginResume
<1>3. ControlsKept
  BY RecordKeeps DEF BeginResume, Accept
<1> QED
  BY <1>1, <1>2, <1>3 DEF Quiet

(* begin_retry.                                                             *)
LEMMA BeginRetryQuiet ==
  ASSUME StoreInv, NEW r \in Runs, NEW target, BeginRetry(r, target)
  PROVE  Quiet
<1>1. CallsQuiet
  BY CallsSameQuiet DEF BeginRetry
<1>2. RowsQuiet
  BY RowsSameQuiet DEF BeginRetry
<1>3. ControlsKept
  BY RecordKeeps DEF BeginRetry, Accept
<1> QED
  BY <1>1, <1>2, <1>3 DEF Quiet

(* complete_checkpoint_retry.                                               *)
LEMMA CheckpointRetryQuiet ==
  ASSUME StoreInv, NEW c \in DOMAIN controls, CompleteCheckpointRetry(c)
  PROVE  Quiet
<1>1. CallsQuiet
  BY CallsSameQuiet DEF CompleteCheckpointRetry
<1>2. ControlsKept
  BY SettleKeepsCommands DEF CompleteCheckpointRetry
<1>3. controls[c].run \in Runs
  <2>1. controls[c] \in Control
    BY ElementOfSeq DEF StoreInv, StoreTypeOK
  <2> QED
    BY <2>1 DEF Control
<1>4. RowsQuiet
  BY <1>3, StatusQuiet, RowsSameQuiet DEF CompleteCheckpointRetry
<1> QED
  BY <1>1, <1>2, <1>4 DEF Quiet

(* before_node.                                                             *)
LEMMA BeforeNodeQuiet ==
  ASSUME StoreInv, NEW r \in Runs, NEW n \in Nodes, NEW verdict, BeforeNode(r, n, verdict)
  PROVE  /\ Quiet
         /\ verdict = "go" => Usage(r) + 1 <= rows[r].budget
<1>1. CallsQuiet
  BY CallsSameQuiet DEF BeforeNode
<1>2. ControlsKept
  BY ControlsSameKept, SettleKeepsCommands DEF BeforeNode, PendingPauses
<1>3. ASSUME NEW reason,
             rows' = [rows EXCEPT ![r] = [@ EXCEPT !.status = "PAUSED",
                                                   !.reason = reason, !.node = n]]
      PROVE  RowsQuiet
  <2> DEFINE row == [rows[r] EXCEPT !.status = "PAUSED", !.reason = reason, !.node = n]
  <2>1. rows[r] \in Row
    BY DEF StoreInv, StoreTypeOK
  <2>2. /\ row.seeded = rows[r].seeded /\ row.skipped = rows[r].skipped
        /\ row.budget = rows[r].budget
    BY <2>1 DEF Row
  <2>3. rows' = [rows EXCEPT ![r] = row] /\ done' = done
    BY <1>3 DEF BeforeNode
  <2> HIDE DEF row
  <2> QED
    BY <2>2, <2>3, RowQuiet
<1>4. RowsQuiet
  BY <1>3, RowsSameQuiet DEF BeforeNode
<1>5. verdict = "go" => Usage(r) + 1 <= rows[r].budget
  BY DEF BeforeNode
<1> QED
  BY <1>1, <1>2, <1>4, <1>5 DEF Quiet

(* _recover_interrupted_run.                                                *)
LEMMA RecoverRowsQuiet ==
  ASSUME StoreInv, NEW r \in Runs, RecoverRows(r)
  PROVE  Quiet
<1>1. CallsQuiet
  <2>1. "FAILED" \in CallStatuses \ {"SUCCEEDED"}
    BY DEF CallStatuses
  <2> QED
    BY <2>1, ClosedQuiet DEF RecoverRows
<1>2. RowsQuiet
  <2> DEFINE row == [rows[r] EXCEPT !.status = "PENDING"]
  <2>1. rows[r] \in Row
    BY DEF StoreInv, StoreTypeOK
  <2>2. /\ row.seeded = rows[r].seeded /\ row.skipped = rows[r].skipped
        /\ row.budget = rows[r].budget
    BY <2>1 DEF Row
  <2>3. done' = done /\ (rows' = [rows EXCEPT ![r] = row] \/ rows' = rows)
    BY DEF RecoverRows
  <2> HIDE DEF row
  <2> QED
    BY <2>2, <2>3, RowQuiet, RowsSameQuiet
<1> QED
  BY <1>1, <1>2, ControlsSameKept DEF Quiet, RecoverRows

(* _node_started.                                                           *)
LEMMA StartRowsQuiet ==
  ASSUME StoreInv, NEW r \in Runs, NEW n \in Nodes, StartRows(r, n)
  PROVE  Quiet
<1> DEFINE reason == IF Kind[r] = "blueprint" THEN NoReason ELSE rows[r].reason
           row == [rows[r] EXCEPT !.status = "RUNNING", !.node = n, !.reason = reason]
<1>1. rows[r] \in Row
  BY DEF StoreInv, StoreTypeOK
<1>2. rows' = [rows EXCEPT ![r] = row] /\ done' = done
  BY DEF StartRows
<1> HIDE DEF reason
<1>3. /\ row.seeded = rows[r].seeded /\ row.skipped = rows[r].skipped
      /\ row.budget = rows[r].budget
  BY <1>1 DEF Row
<1> HIDE DEF row
<1>4. RowsQuiet
  BY <1>2, <1>3, RowQuiet
<1> QED
  BY <1>4, CallsSameQuiet, ControlsSameKept DEF Quiet, StartRows

(* _awaiting_approval and _complete_run.                                    *)
LEMMA FinishRowsQuiet ==
  ASSUME StoreInv, NEW r \in Runs, FinishRows(r)
  PROVE  Quiet
<1>1. CASE Kind[r] = "blueprint"
  <2> DEFINE row == [rows[r] EXCEPT !.status = "PAUSED", !.node = Approval,
                                    !.reason = "HUMAN_APPROVAL"]
  <2>1. rows[r] \in Row
    BY DEF StoreInv, StoreTypeOK
  <2>2. /\ row.seeded = rows[r].seeded /\ row.skipped = rows[r].skipped
        /\ row.budget = rows[r].budget
    BY <2>1 DEF Row
  <2>3. rows' = [rows EXCEPT ![r] = row] /\ done' = done
    BY <1>1 DEF FinishRows
  <2> HIDE DEF row
  <2>4. RowsQuiet
    BY <2>2, <2>3, RowQuiet
  <2> QED
    BY <2>4, CallsSameQuiet, ControlsSameKept DEF Quiet, FinishRows
<1>2. CASE Kind[r] # "blueprint"
  BY <1>2, StatusQuiet, CallsSameQuiet, ControlsSameKept DEF Quiet, FinishRows
<1> QED
  BY <1>1, <1>2

(* _workflow_failed and _fail_run.                                          *)
LEMMA FailRowsQuiet ==
  ASSUME StoreInv, NEW r \in Runs, FailRows(r)
  PROVE  Quiet
  BY StatusQuiet, CallsSameQuiet, ControlsSameKept DEF Quiet, FailRows

(* _claim_pending_run.                                                      *)
LEMMA ClaimQuiet ==
  ASSUME StoreInv, NEW r \in Runs, Claim(r)
  PROVE  Quiet
<1> DEFINE row == [rows[r] EXCEPT !.status = "RUNNING"]
<1>1. rows[r] \in Row
  BY DEF StoreInv, StoreTypeOK
<1>2. /\ row.seeded = rows[r].seeded /\ row.skipped = rows[r].skipped
      /\ row.budget = rows[r].budget
  BY <1>1 DEF Row
<1>3. rows' = [rows EXCEPT ![r] = row] /\ done' = done
  BY DEF Claim
<1> HIDE DEF row
<1>4. RowsQuiet
  BY <1>2, <1>3, RowQuiet
<1> QED
  BY <1>4, CallsSameQuiet, ControlsSameKept DEF Quiet, Claim

(* _sync_checkpoint.                                                        *)
LEMMA SyncQuiet ==
  ASSUME StoreInv, exec.run \in Runs, SyncCheckpoint
  PROVE  Quiet
<1> DEFINE row == [rows[exec.run] EXCEPT !.synced = TRUE]
<1>1. rows[exec.run] \in Row
  BY DEF StoreInv, StoreTypeOK
<1>2. /\ row.seeded = rows[exec.run].seeded /\ row.skipped = rows[exec.run].skipped
      /\ row.budget = rows[exec.run].budget
  BY <1>1 DEF Row
<1>3. rows' = [rows EXCEPT ![exec.run] = row] /\ done' = done
  BY DEF SyncCheckpoint
<1> HIDE DEF row
<1>4. RowsQuiet
  BY <1>2, <1>3, RowQuiet
<1> QED
  BY <1>4, CallsSameQuiet, ControlsSameKept DEF Quiet, SyncCheckpoint

(* _recover_interrupted_runs.                                               *)
LEMMA RestartQuiet ==
  ASSUME StoreInv, Restart
  PROVE  Quiet
<1>1. ASSUME NEW r \in Runs
      PROVE  /\ rows'[r].seeded = rows[r].seeded /\ rows'[r].skipped = rows[r].skipped
             /\ rows'[r].budget = rows[r].budget
  <2> DEFINE row == [rows[r] EXCEPT !.status = "PENDING"]
  <2>1. rows[r] \in Row
    BY DEF StoreInv, StoreTypeOK
  <2>2. /\ row.seeded = rows[r].seeded /\ row.skipped = rows[r].skipped
        /\ row.budget = rows[r].budget
    BY <2>1 DEF Row
  <2>3. rows'[r] = row \/ rows'[r] = rows[r]
    BY DEF Restart
  <2> HIDE DEF row
  <2> QED
    BY <2>2, <2>3
<1>2. RowsQuiet
  BY <1>1 DEF RowsQuiet, Restart
<1> QED
  BY <1>2, CallsSameQuiet, ControlsSameKept DEF Quiet, Restart

(* complete_retry and fail_command.                                         *)
LEMMA SettleQuiet ==
  ASSUME StoreInv, Settle
  PROVE  Quiet
  BY RowsSameQuiet, CallsSameQuiet, SettleKeepsCommands DEF Quiet, Settle, QueuedRetry

-----------------------------------------------------------------------------
(* What keeps the evidence.                                                 *)

(* Calls are added or keep their task; of the old ones only those in C may  *)
(* come to succeed.                                                         *)
CallsGrow(C) ==
  \A i \in DOMAIN invocations :
    /\ i \in DOMAIN invocations'
    /\ invocations'[i].run = invocations[i].run /\ invocations'[i].node = invocations[i].node
    /\ Succeeded(i) => Succeeded(i)'
    /\ Succeeded(i)' => Succeeded(i) \/ i \in C

(* A node joins a checkpoint only as a seed or with a result.               *)
RowsCalm ==
  \A r \in Runs : \A n \in Available(r)' \ rows'[r].seeded :
    Replayable(r, n) \/ n \in Available(r) \ rows[r].seeded

(* The checkpoint of the executed run stays as it is.                       *)
RunStays ==
  /\ exec'.run = exec.run /\ exec'.phase = exec.phase
  /\ exec.run \in Runs => done'[exec.run] = done[exec.run]

TasksSame == task' = task /\ RunStays
TasksIdle == \A n \in Nodes : Pc(n) = "idle"
OrphansFewer == \A o \in orphans' : o.txn \in {"save", "fail"} => o \in orphans

(* A result stays a result.                                                 *)
LEMMA ReplayableStays ==
  ASSUME NEW C, CallsGrow(C), NEW r, NEW n, Replayable(r, n)
  PROVE  Replayable(r, n)'
  BY DEF CallsGrow, Replayable, CallsOf, Succeeded

(* So the checkpoint keeps its evidence.                                    *)
LEMMA CheckpointKeepsEvidence ==
  ASSUME NEW C, CallsGrow(C), RowsCalm, CheckpointHasEvidence
  PROVE  CheckpointHasEvidence'
<1> SUFFICES ASSUME NEW r \in Runs, NEW n \in Available(r)' \ rows'[r].seeded
             PROVE  Replayable(r, n)'
  BY DEF CheckpointHasEvidence
<1>1. Replayable(r, n)
  BY DEF RowsCalm, CheckpointHasEvidence
<1> QED
  BY <1>1, ReplayableStays

(* Quiet transactions are calm, and make nothing succeed.                   *)
LEMMA QuietCalm ==
  ASSUME Quiet
  PROVE  CallsGrow({}) /\ RowsCalm
<1>1. CallsGrow({})
  BY DEF Quiet, CallsQuiet, CallsGrow
<1>2. RowsCalm
  BY DEF Quiet, RowsQuiet, RowsCalm, Available
<1> QED
  BY <1>1, <1>2

(* An action that leaves the tasks alone, or finds or makes them idle,      *)
(* keeps the evidence.                                                      *)
LEMMA CalmEvidence ==
  ASSUME IInv, EvidenceInv, NEW C, CallsGrow(C), RowsCalm, OrphansFewer,
         TasksSame \/ TasksIdle',
         \A o \in orphans' : o.txn = "fail" => o.call \notin C,
         \A n \in Nodes : Pc(n)' \in {"open", "save", "fail"} => task'[n].call \notin C
  PROVE  EvidenceInv'
<1>1. CheckpointHasEvidence'
  BY CheckpointKeepsEvidence DEF EvidenceInv
<1>2. ASSUME NEW i, NEW r, NEW n, IsCall(i, r, n)
      PROVE  IsCall(i, r, n)'
  BY <1>2 DEF IsCall, CallsGrow
<1>3. ASSUME NEW n \in Nodes, Pc(n)' # "idle"
      PROVE  /\ TasksSame /\ Pc(n) # "idle" /\ Pc(n)' = Pc(n)
             /\ task'[n].call = task[n].call
  BY <1>3 DEF TasksSame, TasksIdle, Pc
<1>4. TasksInv'
  <2> SUFFICES ASSUME NEW n \in Nodes, Pc(n)' # "idle"
               PROVE  /\ exec'.phase \in (IF Pc(n)' = "abort" THEN {"signal", "error", "cancelled"}
                                          ELSE {"graph"})
                      /\ n \in NodesOf[Kind[exec'.run]] /\ Ready(n)'
                      /\ Pc(n)' \in Owning => IsCall(task[n].call, exec.run, n)'
    BY DEF TasksInv
  <2>1. /\ exec.phase \in (IF Pc(n) = "abort" THEN {"signal", "error", "cancelled"}
                           ELSE {"graph"})
        /\ n \in NodesOf[Kind[exec.run]] /\ Ready(n)
        /\ Pc(n) \in Owning => IsCall(task[n].call, exec.run, n)
    BY <1>3 DEF EvidenceInv, TasksInv
  <2>2. exec.phase # "idle"
    BY <2>1
  <2>3. exec.run \in Runs
    BY <2>2, IInvTypes
  <2>4. Ready(n)'
    BY <1>3, <2>1, <2>3 DEF TasksSame, RunStays, Ready
  <2>5. Pc(n)' \in Owning => IsCall(task[n].call, exec.run, n)'
    BY <1>2, <1>3, <2>1 DEF TasksSame, RunStays, IsCall
  <2> QED
    BY <1>3, <2>1, <2>4, <2>5 DEF TasksSame, RunStays
<1>5. OrphanCallsInv'
  <2> SUFFICES ASSUME NEW o \in orphans', o.txn \in {"save", "fail"}
               PROVE  /\ IsCall(o.call, o.run, o.node)'
                      /\ o.txn = "fail" =>
                           /\ ~ Succeeded(o.call)'
                           /\ \A p \in orphans' : p.txn = "save" => p.call # o.call
                      /\ \A n \in Nodes : Pc(n)' \in Owning /\ task'[n].call = o.call =>
                                            Pc(n)' = "abort" /\ o.txn = "save"
    BY DEF OrphanCallsInv
  <2>1. o \in orphans
    BY DEF OrphansFewer
  <2>2. /\ IsCall(o.call, o.run, o.node)
        /\ o.txn = "fail" => /\ ~ Succeeded(o.call)
                             /\ \A p \in orphans : p.txn = "save" => p.call # o.call
        /\ \A n \in Nodes : Pc(n) \in Owning /\ task[n].call = o.call =>
                              Pc(n) = "abort" /\ o.txn = "save"
    BY <2>1 DEF EvidenceInv, OrphanCallsInv
  <2>3. o.txn = "fail" => ~ Succeeded(o.call)'
    BY <2>2 DEF CallsGrow, IsCall
  <2>4. o.txn = "fail" => \A p \in orphans' : p.txn = "save" => p.call # o.call
    BY <2>2 DEF OrphansFewer
  <2>5. ASSUME NEW n \in Nodes, Pc(n)' \in Owning, task'[n].call = o.call
        PROVE  Pc(n)' = "abort" /\ o.txn = "save"
    BY <1>3, <2>2, <2>5 DEF Owning
  <2> QED
    BY <1>2, <2>2, <2>3, <2>4, <2>5
<1>6. ResultsInv'
  <2> SUFFICES ASSUME NEW n \in Nodes
               PROVE  /\ Pc(n)' \in {"open", "save", "fail"} => ~ Succeeded(task[n].call)'
                      /\ Pc(n)' = "saved" => Succeeded(task[n].call)'
                      /\ Pc(n)' = "output" => Replayable(exec.run, n)'
    BY DEF ResultsInv
  <2>1. /\ Pc(n) \in {"open", "save", "fail"} => ~ Succeeded(task[n].call)
        /\ Pc(n) = "saved" => Succeeded(task[n].call)
        /\ Pc(n) = "output" => Replayable(exec.run, n)
        /\ Pc(n) \in Owning => IsCall(task[n].call, exec.run, n)
    BY DEF EvidenceInv, ResultsInv, TasksInv, Owning
  <2>2. Pc(n)' \in {"open", "save", "fail"} => ~ Succeeded(task[n].call)'
    <3> SUFFICES ASSUME Pc(n)' \in {"open", "save", "fail"}
                 PROVE  ~ Succeeded(task[n].call)'
      OBVIOUS
    <3>1. task'[n].call = task[n].call /\ Pc(n)' = Pc(n)
      BY <1>3
    <3>2. task[n].call \in DOMAIN invocations /\ ~ Succeeded(task[n].call)
      BY <2>1, <3>1 DEF IsCall, Owning
    <3> QED
      BY <3>1, <3>2 DEF CallsGrow, Succeeded
  <2>3. Pc(n)' = "saved" => Succeeded(task[n].call)'
    <3> SUFFICES ASSUME Pc(n)' = "saved"
                 PROVE  Succeeded(task[n].call)'
      OBVIOUS
    <3>1. task'[n].call = task[n].call /\ Pc(n)' = Pc(n)
      BY <1>3
    <3>2. task[n].call \in DOMAIN invocations /\ Succeeded(task[n].call)
      BY <2>1, <3>1 DEF IsCall, Owning
    <3> QED
      BY <3>1, <3>2 DEF CallsGrow, Succeeded
  <2>4. Pc(n)' = "output" => Replayable(exec.run, n)'
    <3> SUFFICES ASSUME Pc(n)' = "output"
                 PROVE  Replayable(exec.run, n)'
      OBVIOUS
    <3>1. exec'.run = exec.run /\ Replayable(exec.run, n)
      BY <1>3, <2>1 DEF TasksSame, RunStays
    <3>2. PICK i \in DOMAIN invocations :
            /\ invocations[i].run = exec.run
            /\ invocations[i].node = n /\ invocations[i].status = "SUCCEEDED"
      BY <3>1 DEF Replayable, CallsOf
    <3> QED
      BY <3>1, <3>2 DEF CallsGrow, Replayable, CallsOf, Succeeded
  <2> QED
    BY <2>2, <2>3, <2>4
<1> QED
  BY <1>1, <1>4, <1>5, <1>6 DEF EvidenceInv

(* In particular a quiet transaction.                                       *)
LEMMA QuietEvidence ==
  ASSUME IInv, EvidenceInv, Quiet, OrphansFewer,
         \/ task' = task /\ exec'.run = exec.run /\ exec'.phase = exec.phase
         \/ TasksIdle'
  PROVE  EvidenceInv'
<1>1. TasksSame \/ TasksIdle'
  BY DEF TasksSame, RunStays, Quiet, RowsQuiet
<1> QED
  BY <1>1, QuietCalm, CalmEvidence

(* Outside the graph, and once specialist calls are joined, nothing runs.   *)
LEMMA NothingRuns ==
  ASSUME TasksInv, \/ exec.phase \notin {"graph", "signal", "error", "cancelled"}
                   \/ exec.phase # "graph" /\ Joined
  PROVE  TasksIdle
  BY DEF TasksInv, TasksIdle, Joined

(* A step of an execution that runs no task.                                *)
LEMMA RestingEvidence ==
  ASSUME IInv, EvidenceInv, Quiet, UNCHANGED <<task, orphans>>,
         \/ exec.phase \notin {"graph", "signal", "error", "cancelled"}
         \/ exec.phase # "graph" /\ Joined
  PROVE  EvidenceInv'
<1>1. TasksIdle'
  BY NothingRuns DEF EvidenceInv, TasksIdle, Pc
<1>2. OrphansFewer
  BY DEF OrphansFewer
<1> QED
  BY <1>1, <1>2, QuietEvidence

(* The super-step that starts has tasks of nodes that are ready.            *)
LEMMA LaunchEvidence ==
  ASSUME IInv, EvidenceInv, Launch
  PROVE  EvidenceInv'
<1> DEFINE ready == {n \in NodesOf[Kind[exec.run]] : Ready(n)}
<1>1. Quiet /\ OrphansFewer
  BY NothingQuiet DEF Launch, OrphansFewer
<1>2. CASE ready = {}
  <2>1. TasksIdle'
    BY <1>2 DEF Launch, TasksIdle, Pc, NoTasks, NoTask
  <2> QED
    BY <1>1, <2>1, QuietEvidence
<1>3. CASE ready # {}
  <2>1. /\ exec' = exec /\ exec.phase = "graph" /\ orphans' = orphans
        /\ UNCHANGED <<rows, done, invocations, controls>>
        /\ task' = [n \in Nodes |-> IF n \in ready
                                    THEN [pc |-> "check", call |-> 0, tries |-> 1]
                                    ELSE NoTask]
    BY <1>3 DEF Launch, Phase, durable
  <2>2. ASSUME NEW n \in Nodes
        PROVE  /\ Pc(n)' \in {"check", "idle"}
               /\ Pc(n)' = "check" => n \in ready
    BY <2>1 DEF Pc, NoTask
  <2>3. TasksInv'
    BY <2>1, <2>2 DEF TasksInv, Owning, Ready
  <2>4. OrphanCallsInv'
    BY <2>1, <2>2 DEF OrphanCallsInv, EvidenceInv, IsCall, Succeeded, Owning
  <2>5. ResultsInv'
    BY <2>2 DEF ResultsInv
  <2>6. CheckpointHasEvidence'
    BY <2>1 DEF CheckpointHasEvidence, EvidenceInv, Available, Replayable, CallsOf
  <2> QED
    BY <2>3, <2>4, <2>5, <2>6 DEF EvidenceInv
<1> QED
  BY <1>2, <1>3

(* The steps of the execution.                                              *)
LEMMA ExecutionStepEvidence ==
  ASSUME IInv, EvidenceInv, ExecutionStep
  PROVE  EvidenceInv'
<1>1. StoreInv /\ (exec.phase # "idle" => exec.run \in Runs)
  BY IInvTypes
<1>2. CASE Begin
  BY <1>2, NothingQuiet, RestingEvidence DEF Begin, Phase
<1>3. CASE Recover
  BY <1>1, <1>3, RecoverRowsQuiet, RestingEvidence DEF Recover, Phase
<1>4. CASE Launch
  BY <1>4, LaunchEvidence
<1>5. CASE Cancelled
  BY <1>5, NothingQuiet, RestingEvidence DEF Cancelled, Phase
<1>6. CASE ExecutionBoundary
  BY <1>6, NothingQuiet, RestingEvidence DEF ExecutionBoundary, Phase
<1>7. CASE SyncCheckpoint
  <2>1. exec.run \in Runs
    BY <1>1, <1>7 DEF SyncCheckpoint, Phase
  <2>2. Quiet
    BY <1>1, <1>7, <2>1, SyncQuiet
  <2> QED
    BY <1>7, <2>2, RestingEvidence DEF SyncCheckpoint, Phase
<1>8. CASE Finish
  BY <1>1, <1>8, FinishRowsQuiet, RestingEvidence DEF Finish, Phase
<1>9. CASE FailRun
  BY <1>1, <1>9, FailRowsQuiet, RestingEvidence DEF FailRun, Phase
<1>10. CASE Settle
  <2>1. UNCHANGED <<task, orphans>> /\ exec.phase = "settle"
    BY <1>10 DEF Settle, Phase
  <2>2. Quiet
    BY <1>1, <1>10, SettleQuiet
  <2> QED
    BY <2>1, <2>2, RestingEvidence
<1> QED
  BY <1>2, <1>3, <1>4, <1>5, <1>6, <1>7, <1>8, <1>9, <1>10 DEF ExecutionStep

(* The claim of a run.                                                      *)
LEMMA ClaimEvidence ==
  ASSUME IInv, EvidenceInv, NEW r \in Runs, Claim(r)
  PROVE  EvidenceInv'
<1>1. UNCHANGED <<task, orphans>> /\ exec.phase = "idle"
  BY DEF Claim, Phase
<1>2. Quiet
  BY IInvTypes, ClaimQuiet
<1> QED
  BY <1>1, <1>2, RestingEvidence

(* A node task that moves on: it writes no call but its own, and works on   *)
(* that call or on one that is new.                                         *)
LEMMA NodeEvidence ==
  ASSUME IInv, EvidenceInv, NEW n \in Nodes, InGraph(n), Pc(n) # "idle",
         NEW C, CallsGrow(C), RowsCalm, UNCHANGED <<exec, orphans>>,
         C = {} \/ (C = {task[n].call} /\ Pc(n) = "save"),
         \A m \in Nodes \ {n} : task'[m] = task[m],
         done[exec.run] \subseteq done'[exec.run],
         done'[exec.run] \subseteq done[exec.run] \cup {n},
         n \in done'[exec.run] => Pc(n)' = "idle", Pc(n)' # "abort",
         Pc(n)' \in Owning =>
           /\ IsCall(task[n].call, exec.run, n)'
           /\ \/ task'[n].call = task[n].call /\ Pc(n) \in Owning
              \/ task'[n].call \notin DOMAIN invocations,
         Pc(n)' \in {"open", "save", "fail"} => ~ Succeeded(task[n].call)',
         Pc(n)' = "saved" => Succeeded(task[n].call)',
         Pc(n)' = "output" => Replayable(exec.run, n)'
  PROVE  EvidenceInv'
<1>1. CheckpointHasEvidence'
  BY CheckpointKeepsEvidence DEF EvidenceInv
<1>2. ASSUME NEW i, NEW r, NEW m, IsCall(i, r, m)
      PROVE  IsCall(i, r, m)'
  BY <1>2 DEF IsCall, CallsGrow
<1>3. /\ exec.phase = "graph" /\ n \in NodesOf[Kind[exec.run]] /\ Ready(n)
      /\ Pc(n) # "abort"
      /\ Pc(n) \in Owning => IsCall(task[n].call, exec.run, n)
  BY DEF InGraph, Phase, EvidenceInv, TasksInv
<1>4. ASSUME NEW m \in Nodes \ {n}, Pc(m) # "idle"
      PROVE  /\ Pc(m) # "abort" /\ m \in NodesOf[Kind[exec.run]] /\ Ready(m) /\ Ready(m)'
             /\ Pc(m) \in Owning => /\ IsCall(task[m].call, exec.run, m)
                                    /\ task[m].call \notin C
  <2>1. /\ Pc(m) # "abort" /\ m \in NodesOf[Kind[exec.run]] /\ Ready(m)
        /\ Pc(m) \in Owning => IsCall(task[m].call, exec.run, m)
    BY <1>3, <1>4 DEF EvidenceInv, TasksInv
  <2>2. Ready(m)'
    BY <2>1 DEF Ready
  <2>3. ASSUME Pc(m) \in Owning
        PROVE  task[m].call \notin C
    BY <1>3, <2>1, <2>3 DEF IsCall, Owning
  <2> QED
    BY <2>1, <2>2, <2>3
<1>5. \A m \in Nodes \ {n} : Pc(m)' = Pc(m) /\ task'[m].call = task[m].call
  BY DEF Pc
<1>6. TasksInv'
  <2> SUFFICES ASSUME NEW m \in Nodes, Pc(m)' # "idle"
               PROVE  /\ exec'.phase \in (IF Pc(m)' = "abort" THEN {"signal", "error", "cancelled"}
                                          ELSE {"graph"})
                      /\ m \in NodesOf[Kind[exec'.run]] /\ Ready(m)'
                      /\ Pc(m)' \in Owning => IsCall(task[m].call, exec.run, m)'
    BY DEF TasksInv
  <2>1. CASE m = n
    <3>1. Ready(n)'
      BY <1>3, <2>1 DEF Ready
    <3> QED
      BY <1>3, <2>1, <3>1
  <2>2. CASE m # n
    <3>1. Pc(m)' = Pc(m) /\ task'[m].call = task[m].call
      BY <1>5, <2>2
    <3>2. Pc(m)' \in Owning => IsCall(task[m].call, exec.run, m)'
      BY <1>2, <1>4, <2>2, <3>1 DEF IsCall
    <3> QED
      BY <1>3, <1>4, <2>2, <3>1, <3>2
  <2> QED
    BY <2>1, <2>2
<1>7. OrphanCallsInv'
  <2> SUFFICES ASSUME NEW o \in orphans, o.txn \in {"save", "fail"}
               PROVE  /\ IsCall(o.call, o.run, o.node)'
                      /\ o.txn = "fail" =>
                           /\ ~ Succeeded(o.call)'
                           /\ \A p \in orphans : p.txn = "save" => p.call # o.call
                      /\ \A m \in Nodes : Pc(m)' \in Owning /\ task'[m].call = o.call =>
                                            Pc(m)' = "abort" /\ o.txn = "save"
    BY DEF OrphanCallsInv
  <2>1. /\ IsCall(o.call, o.run, o.node)
        /\ o.txn = "fail" => /\ ~ Succeeded(o.call)
                             /\ \A p \in orphans : p.txn = "save" => p.call # o.call
        /\ \A m \in Nodes : Pc(m) \in Owning /\ task[m].call = o.call =>
                              Pc(m) = "abort" /\ o.txn = "save"
    BY DEF EvidenceInv, OrphanCallsInv
  <2>2. o.txn = "fail" => ~ Succeeded(o.call)'
    <3>1. o.call \notin C
      BY <1>3, <2>1 DEF Owning
    <3> QED
      BY <2>1, <3>1 DEF CallsGrow, IsCall
  <2>3. ASSUME NEW m \in Nodes, Pc(m)' \in Owning, task'[m].call = o.call
        PROVE  FALSE
    <3>1. CASE m = n
      <4>1. o.call \in DOMAIN invocations
        BY <2>1 DEF IsCall
      <4> QED
        BY <1>3, <2>1, <2>3, <3>1, <4>1
    <3>2. CASE m # n
      BY <1>4, <1>5, <2>1, <2>3, <3>2 DEF Owning
    <3> QED
      BY <3>1, <3>2
  <2> QED
    BY <1>2, <2>1, <2>2, <2>3
<1>8. ResultsInv'
  <2> SUFFICES ASSUME NEW m \in Nodes
               PROVE  /\ Pc(m)' \in {"open", "save", "fail"} => ~ Succeeded(task[m].call)'
                      /\ Pc(m)' = "saved" => Succeeded(task[m].call)'
                      /\ Pc(m)' = "output" => Replayable(exec.run, m)'
    BY DEF ResultsInv
  <2>1. CASE m = n
    BY <2>1
  <2>2. CASE m # n
    <3>1. /\ Pc(m)' = Pc(m) /\ task'[m].call = task[m].call /\ exec'.run = exec.run
          /\ Pc(m) \in {"open", "save", "fail"} => ~ Succeeded(task[m].call)
          /\ Pc(m) = "saved" => Succeeded(task[m].call)
          /\ Pc(m) = "output" => Replayable(exec.run, m)
          /\ Pc(m) \in Owning => /\ task[m].call \in DOMAIN invocations
                                 /\ task[m].call \notin C
      BY <1>4, <1>5, <2>2 DEF EvidenceInv, ResultsInv, Owning, IsCall
    <3>2. ASSUME Pc(m)' \in {"open", "save", "fail"}
          PROVE  ~ Succeeded(task[m].call)'
      <4>1. /\ task[m].call \in DOMAIN invocations /\ task[m].call \notin C
            /\ ~ Succeeded(task[m].call)
        BY <3>1, <3>2 DEF Owning
      <4> QED
        BY <3>1, <4>1 DEF CallsGrow, Succeeded
    <3>3. ASSUME Pc(m)' = "saved"
          PROVE  Succeeded(task[m].call)'
      <4>1. task[m].call \in DOMAIN invocations /\ Succeeded(task[m].call)
        BY <3>1, <3>3 DEF Owning
      <4> QED
        BY <3>1, <4>1 DEF CallsGrow, Succeeded
    <3>4. ASSUME Pc(m)' = "output"
          PROVE  Replayable(exec.run, m)'
      <4>1. PICK i \in DOMAIN invocations :
              /\ invocations[i].run = exec.run
              /\ invocations[i].node = m /\ invocations[i].status = "SUCCEEDED"
        BY <3>1, <3>4 DEF Replayable, CallsOf
      <4> QED
        BY <3>1, <4>1 DEF CallsGrow, Replayable, CallsOf, Succeeded
    <3> QED
      BY <3>2, <3>3, <3>4
  <2> QED
    BY <2>1, <2>2
<1> QED
  BY <1>1, <1>6, <1>7, <1>8 DEF EvidenceInv

-----------------------------------------------------------------------------
(* The node tasks keep the evidence.                                        *)

(* A task that only changes its place.                                      *)
LEMMA ToPcFacts ==
  ASSUME IInv, NEW n \in Nodes, NEW pc, ToPc(n, pc)
  PROVE  /\ Pc(n)' = pc /\ task'[n].call = task[n].call
         /\ \A m \in Nodes \ {n} : task'[m] = task[m]
<1>1. task \in [Nodes -> [pc : Pcs, call : Nat, tries : Nat]]
  BY IInvTypes DEF Tasks
<1>2. task' = [task EXCEPT ![n] = [task[n] EXCEPT !.pc = pc]]
  BY DEF ToPc
<1>3. [task[n] EXCEPT !.pc = pc].pc = pc /\ [task[n] EXCEPT !.pc = pc].call = task[n].call
  BY <1>1
<1> QED
  BY <1>1, <1>2, <1>3 DEF Pc

(* Replacing the record of one task leaves the others.                      *)
LEMMA TaskSetFacts ==
  ASSUME IInv, NEW n \in Nodes, NEW t, task' = [task EXCEPT ![n] = t]
  PROVE  task'[n] = t /\ \A m \in Nodes \ {n} : task'[m] = task[m]
  BY IInvTypes DEF Tasks

(* Without a write to a row the checkpoints are calm.                       *)
LEMMA RowsSameCalm ==
  ASSUME UNCHANGED <<rows, done>>
  PROVE  RowsCalm
  BY DEF RowsCalm, Available

(* The status of one call is written.                                       *)
LEMMA CallRowsGrow ==
  ASSUME StoreInv, NEW i \in DOMAIN invocations, NEW status,
         CallRows(i, status)
  PROVE  /\ DOMAIN invocations' = DOMAIN invocations
         /\ \A j \in DOMAIN invocations : /\ invocations'[j].run = invocations[j].run
                                          /\ invocations'[j].node = invocations[j].node
                                          /\ j # i => (Succeeded(j)' <=> Succeeded(j))
         /\ Succeeded(i)' <=> status = "SUCCEEDED"
<1>1. /\ invocations[i] \in Invocation /\ UNCHANGED <<rows, done, controls>>
      /\ invocations' = [invocations EXCEPT ![i] = [invocations[i] EXCEPT !.status = status]]
  BY ElementOfSeq DEF StoreInv, StoreTypeOK, CallRows
<1> DEFINE call == [invocations[i] EXCEPT !.status = status]
<1>2. /\ call.run = invocations[i].run /\ call.node = invocations[i].node
      /\ call.status = status
  BY <1>1 DEF Invocation
<1>3. invocations' = [invocations EXCEPT ![i] = call]
  BY <1>1
<1> HIDE DEF call
<1> QED
  BY <1>2, <1>3 DEF Succeeded

(* A result is saved,                                                       *)
LEMMA SaveGrows ==
  ASSUME StoreInv, NEW i \in DOMAIN invocations, CallRows(i, "SUCCEEDED")
  PROVE  CallsGrow({i}) /\ Succeeded(i)'
  BY CallRowsGrow DEF CallsGrow

(* or a call that has none is closed.                                       *)
LEMMA CloseGrows ==
  ASSUME StoreInv, NEW i \in DOMAIN invocations, ~ Succeeded(i), CallRows(i, "FAILED")
  PROVE  CallsGrow({})
  BY CallRowsGrow DEF CallsGrow

(* A call is started.                                                       *)
LEMMA StartCallGrows ==
  ASSUME StoreInv, NEW r \in Runs, NEW n \in Nodes, StartCallRows(r, n),
         NEW i, i = Len(invocations) + 1
  PROVE  /\ CallsGrow({})
         /\ DOMAIN invocations' = DOMAIN invocations \cup {i}
         /\ i \notin DOMAIN invocations
         /\ IsCall(i, r, n)' /\ ~ Succeeded(i)'
<1> DEFINE call == [run |-> r, node |-> n, status |-> "RUNNING"]
<1>1. call.run = r /\ call.node = n /\ call.status = "RUNNING"
  OBVIOUS
<1>2. invocations' = Append(invocations, call) /\ invocations \in Seq(Invocation)
  BY DEF StartCallRows, StoreInv, StoreTypeOK
<1> HIDE DEF call
<1>3. /\ DOMAIN invocations' = DOMAIN invocations \cup {i}
      /\ i \notin DOMAIN invocations
      /\ invocations'[i] = call
      /\ \A j \in DOMAIN invocations : invocations'[j] = invocations[j]
  BY <1>2
<1>4. CallsGrow({})
  BY <1>3 DEF CallsGrow, Succeeded
<1>5. IsCall(i, r, n)' /\ ~ Succeeded(i)'
  BY <1>1, <1>3 DEF IsCall, Succeeded
<1> QED
  BY <1>3, <1>4, <1>5

(* A task that moves to where it has neither a call nor a result.           *)
LEMMA PlainMoveEvidence ==
  ASSUME IInv, EvidenceInv, NEW n \in Nodes, InGraph(n), Pc(n) # "idle",
         CallsGrow({}), RowsCalm, UNCHANGED <<exec, orphans>>,
         \A m \in Nodes \ {n} : task'[m] = task[m], done'[exec.run] = done[exec.run],
         Pc(n)' \notin Owning \cup {"output"}
  PROVE  EvidenceInv'
<1>1. n \notin done'[exec.run]
  BY DEF EvidenceInv, TasksInv, Ready
<1> QED
  BY <1>1, NodeEvidence DEF Owning

(* A task that moves and writes nothing.                                    *)
LEMMA MoveEvidence ==
  ASSUME IInv, EvidenceInv, NEW n \in Nodes, InGraph(n), Pc(n) # "idle", NEW pc, ToPc(n, pc),
         UNCHANGED <<durable, exec, orphans>>,
         \/ pc \notin Owning \cup {"output"}
         \/ pc = "output" /\ Replayable(exec.run, n)
         \/ Pc(n) = "open" /\ pc \in {"save", "fail"}
  PROVE  EvidenceInv'
<1>1. CallsGrow({}) /\ RowsCalm /\ done' = done
  BY NothingQuiet, QuietCalm DEF durable
<1>2. /\ Pc(n)' = pc /\ task'[n].call = task[n].call
      /\ \A m \in Nodes \ {n} : task'[m] = task[m]
  BY ToPcFacts
<1>3. /\ n \notin done'[exec.run]
      /\ Pc(n) \in Owning => IsCall(task[n].call, exec.run, n)
      /\ Pc(n) = "open" => ~ Succeeded(task[n].call)
  BY <1>1 DEF EvidenceInv, TasksInv, Ready, ResultsInv
<1>4. CASE pc \notin Owning
  <2>1. Pc(n)' = "output" => Replayable(exec.run, n)'
    BY <1>2, <1>4 DEF durable, Owning, Replayable, CallsOf
  <2> QED
    BY <1>1, <1>2, <1>3, <1>4, <2>1, NodeEvidence DEF Owning
<1>5. CASE Pc(n) = "open" /\ pc \in {"save", "fail"}
  <2>1. IsCall(task[n].call, exec.run, n)' /\ ~ Succeeded(task[n].call)'
    BY <1>2, <1>3, <1>5 DEF durable, IsCall, Succeeded, Owning
  <2> QED
    BY <1>1, <1>2, <1>3, <1>5, <2>1, NodeEvidence DEF Owning
<1> QED
  BY <1>4, <1>5 DEF Owning

(* node_started, both transactions.                                         *)
LEMMA NodeStartEvidence ==
  ASSUME IInv, EvidenceInv, NEW n \in Nodes, CheckNode(n) \/ StartNode(n)
  PROVE  EvidenceInv'
<1>1. /\ StoreInv /\ exec.run \in Runs /\ InGraph(n) /\ Pc(n) \in {"check", "start"}
      /\ UNCHANGED <<exec, orphans>>
  BY InGraphFacts DEF CheckNode, StartNode
<1>2. PICK pc \in {"start", "call", "paused", "stopped"} : Quiet /\ ToPc(n, pc)
  BY <1>1, BeforeNodeQuiet, StartRowsQuiet DEF CheckNode, StartNode
<1>3. CallsGrow({}) /\ RowsCalm /\ done'[exec.run] = done[exec.run]
  BY <1>1, <1>2, QuietCalm DEF Quiet, RowsQuiet
<1>4. /\ \A m \in Nodes \ {n} : task'[m] = task[m]
      /\ Pc(n)' \notin Owning \cup {"output"}
  BY <1>2, ToPcFacts DEF Owning
<1> QED
  BY <1>1, <1>3, <1>4, PlainMoveEvidence

(* A call is recorded.                                                      *)
LEMMA StartCallEvidence ==
  ASSUME IInv, EvidenceInv, NEW n \in Nodes, StartCall(n)
  PROVE  EvidenceInv'
<1>1. /\ StoreInv /\ exec.run \in Runs /\ InGraph(n) /\ Pc(n) = "call"
      /\ UNCHANGED <<rows, done, exec, orphans>> /\ StartCallRows(exec.run, n)
  BY InGraphFacts DEF StartCall, StartCallRows
<1>2. PICK r, i : r = exec.run /\ i = Len(invocations) + 1
  OBVIOUS
<1> DEFINE t == [task[n] EXCEPT !.pc = "open", !.call = i]
<1>3. t.pc = "open" /\ t.call = i
  BY <1>1, InGraphFacts
<1>4. task' = [task EXCEPT ![n] = t]
  BY <1>2 DEF StartCall
<1> HIDE DEF t
<1>5. /\ CallsGrow({}) /\ i \notin DOMAIN invocations
      /\ IsCall(i, r, n)' /\ ~ Succeeded(i)'
  BY <1>1, <1>2, StartCallGrows
<1>6. RowsCalm
  BY <1>1, RowsSameCalm
<1>7. task'[n] = t /\ \A m \in Nodes \ {n} : task'[m] = task[m]
  BY <1>4, TaskSetFacts
<1>8. Pc(n)' = "open" /\ task'[n].call = i
  BY <1>3, <1>7 DEF Pc
<1>9. n \notin done'[exec.run]
  BY <1>1 DEF EvidenceInv, TasksInv, Ready
<1>10. IsCall(task[n].call, exec.run, n)' /\ ~ Succeeded(task[n].call)'
  BY <1>1, <1>2, <1>5, <1>8 DEF IsCall, Succeeded
<1> QED
  BY <1>1, <1>5, <1>6, <1>7, <1>8, <1>9, <1>10, NodeEvidence

(* A result is saved.                                                       *)
LEMMA SaveCallEvidence ==
  ASSUME IInv, EvidenceInv, NEW n \in Nodes, SaveCall(n)
  PROVE  EvidenceInv'
<1>1. /\ StoreInv /\ exec.run \in Runs /\ InGraph(n) /\ Pc(n) = "save"
      /\ UNCHANGED <<rows, done, exec, orphans>> /\ CallRows(task[n].call, "SUCCEEDED")
  BY InGraphFacts DEF SaveCall, CallRows
<1>2. PICK i : i = task[n].call
  OBVIOUS
<1>3. IsCall(i, exec.run, n) /\ n \notin done[exec.run]
  BY <1>1, <1>2 DEF EvidenceInv, TasksInv, Owning, Ready
<1>4. CallsGrow({i}) /\ Succeeded(i)'
  BY <1>1, <1>2, <1>3, SaveGrows DEF IsCall
<1>5. /\ Pc(n)' = "saved" /\ task'[n].call = i
      /\ \A m \in Nodes \ {n} : task'[m] = task[m]
  BY <1>2, ToPcFacts DEF SaveCall
<1>6. IsCall(i, exec.run, n)'
  BY <1>1, <1>3, <1>4 DEF IsCall, CallsGrow
<1>7. RowsCalm
  BY <1>1, RowsSameCalm
<1>8. IsCall(task[n].call, exec.run, n)' /\ Succeeded(task[n].call)'
  BY <1>4, <1>5, <1>6 DEF IsCall, Succeeded
<1> DEFINE C == {i}
<1>9. C = {task[n].call} /\ CallsGrow(C)
  BY <1>2, <1>4
<1> HIDE DEF C
<1> QED
  BY <1>1, <1>2, <1>3, <1>5, <1>7, <1>8, <1>9, NodeEvidence DEF Owning

(* A failed call is closed.                                                 *)
LEMMA FailCallEvidence ==
  ASSUME IInv, EvidenceInv, NEW n \in Nodes, FailCall(n)
  PROVE  EvidenceInv'
<1>1. /\ StoreInv /\ exec.run \in Runs /\ InGraph(n) /\ Pc(n) = "fail"
      /\ UNCHANGED <<rows, done, exec, orphans>> /\ CallRows(task[n].call, "FAILED")
  BY InGraphFacts DEF FailCall, CallRows
<1>2. IsCall(task[n].call, exec.run, n) /\ ~ Succeeded(task[n].call)
  BY <1>1 DEF EvidenceInv, TasksInv, ResultsInv, Owning
<1>3. CallsGrow({}) /\ RowsCalm
  BY <1>1, <1>2, CloseGrows, RowsSameCalm DEF IsCall
<1>4. Pc(n)' \in {"check", "error"} /\ \A m \in Nodes \ {n} : task'[m] = task[m]
  <2> DEFINE t == [pc |-> "check", call |-> 0, tries |-> task[n].tries + 1]
  <2>1. t.pc = "check"
    OBVIOUS
  <2>2. task' = [task EXCEPT ![n] = t] \/ ToPc(n, "error")
    BY DEF FailCall
  <2> HIDE DEF t
  <2> QED
    BY <2>1, <2>2, TaskSetFacts, ToPcFacts DEF Pc
<1> QED
  BY <1>1, <1>3, <1>4, PlainMoveEvidence DEF Owning

(* A node is checkpointed.                                                  *)
LEMMA CompleteNodeEvidence ==
  ASSUME IInv, EvidenceInv, NEW n \in Nodes, CompleteNode(n)
  PROVE  EvidenceInv'
<1>1. /\ StoreInv /\ exec.run \in Runs /\ InGraph(n) /\ Pc(n) = "output"
      /\ UNCHANGED <<rows, invocations, controls, exec, orphans>>
  BY InGraphFacts DEF CompleteNode
<1>2. Replayable(exec.run, n)
  BY <1>1 DEF EvidenceInv, ResultsInv
<1>3. done' = [done EXCEPT ![exec.run] = done[exec.run] \cup {n}] /\ done \in [Runs -> SUBSET Nodes]
  BY <1>1 DEF CompleteNode, StoreInv, StoreTypeOK
<1>4. CallsGrow({})
  BY <1>1 DEF CallsGrow, Succeeded
<1>5. RowsCalm
  BY <1>1, <1>2, <1>3 DEF RowsCalm, Available
<1>6. Pc(n)' = "idle" /\ \A m \in Nodes \ {n} : task'[m] = task[m]
  <2>1. NoTask.pc = "idle"
    BY DEF NoTask
  <2> QED
    BY <2>1, TaskSetFacts DEF CompleteNode, Pc
<1>7. /\ done[exec.run] \subseteq done'[exec.run]
      /\ done'[exec.run] \subseteq done[exec.run] \cup {n}
  BY <1>1, <1>3
<1> QED
  BY <1>1, <1>4, <1>5, <1>6, <1>7, NodeEvidence DEF Owning

(* A cancelled call is closed: its node is not checkpointed.                *)
LEMMA AbortCallEvidence ==
  ASSUME IInv, EvidenceInv, NEW n \in Nodes, AbortCall(n)
  PROVE  EvidenceInv'
<1>1. /\ Pc(n) = "abort" /\ UNCHANGED <<rows, done, exec, orphans>>
      /\ CallRows(task[n].call, "FAILED") /\ task' = [task EXCEPT ![n] = NoTask]
  BY DEF AbortCall, CallRows
<1>2. PICK i : i = task[n].call
  OBVIOUS
<1>3. /\ IsCall(i, exec.run, n) /\ n \notin done[exec.run]
      /\ exec.phase \in {"signal", "error", "cancelled"}
  BY <1>1, <1>2 DEF EvidenceInv, TasksInv, Owning, Ready
<1>4. \A m \in Nodes : Pc(m) \in {"idle", "abort"}
  BY <1>3 DEF EvidenceInv, TasksInv
<1>5. Pc(n)' = "idle" /\ \A m \in Nodes \ {n} : task'[m] = task[m] /\ Pc(m)' = Pc(m)
  <2>1. NoTask.pc = "idle"
    BY DEF NoTask
  <2> QED
    BY <1>1, <2>1, TaskSetFacts DEF Pc
<1>6. /\ DOMAIN invocations' = DOMAIN invocations
      /\ \A j \in DOMAIN invocations : /\ invocations'[j].run = invocations[j].run
                                       /\ invocations'[j].node = invocations[j].node
                                       /\ j # i => (Succeeded(j)' <=> Succeeded(j))
      /\ ~ Succeeded(i)'
  BY <1>1, <1>2, <1>3, IInvTypes, CallRowsGrow DEF IsCall
<1>7. ASSUME NEW j, NEW r, NEW m, IsCall(j, r, m)
      PROVE  IsCall(j, r, m)'
  BY <1>6, <1>7 DEF IsCall
<1>8. TasksInv'
  <2> SUFFICES ASSUME NEW m \in Nodes, Pc(m)' # "idle"
               PROVE  /\ exec'.phase \in (IF Pc(m)' = "abort" THEN {"signal", "error", "cancelled"}
                                          ELSE {"graph"})
                      /\ m \in NodesOf[Kind[exec'.run]] /\ Ready(m)'
                      /\ Pc(m)' \in Owning => IsCall(task[m].call, exec.run, m)'
    BY DEF TasksInv
  <2>1. m # n /\ Pc(m)' = "abort" /\ Pc(m) = "abort" /\ task'[m] = task[m]
    BY <1>4, <1>5
  <2>2. m \in NodesOf[Kind[exec.run]] /\ Ready(m) /\ IsCall(task[m].call, exec.run, m)
    BY <2>1 DEF EvidenceInv, TasksInv, Owning
  <2>3. IsCall(task[m].call, exec.run, m)'
    BY <1>1, <1>7, <2>1, <2>2 DEF IsCall
  <2> QED
    BY <1>1, <1>3, <2>1, <2>2, <2>3 DEF Ready
<1>9. OrphanCallsInv'
  <2> SUFFICES ASSUME NEW o \in orphans, o.txn \in {"save", "fail"}
               PROVE  /\ IsCall(o.call, o.run, o.node)'
                      /\ o.txn = "fail" =>
                           /\ ~ Succeeded(o.call)'
                           /\ \A p \in orphans : p.txn = "save" => p.call # o.call
                      /\ \A m \in Nodes : Pc(m)' \in Owning /\ task'[m].call = o.call =>
                                            Pc(m)' = "abort" /\ o.txn = "save"
    BY <1>1 DEF OrphanCallsInv
  <2>1. /\ IsCall(o.call, o.run, o.node)
        /\ o.txn = "fail" => /\ ~ Succeeded(o.call)
                             /\ \A p \in orphans : p.txn = "save" => p.call # o.call
        /\ \A m \in Nodes : Pc(m) \in Owning /\ task[m].call = o.call =>
                              Pc(m) = "abort" /\ o.txn = "save"
    BY DEF EvidenceInv, OrphanCallsInv
  <2>2. o.txn = "fail" => ~ Succeeded(o.call)'
    BY <1>6, <2>1 DEF IsCall
  <2>3. \A m \in Nodes : Pc(m)' \in Owning /\ task'[m].call = o.call =>
                           Pc(m)' = "abort" /\ o.txn = "save"
    BY <1>5, <2>1 DEF Owning
  <2> QED
    BY <1>7, <2>1, <2>2, <2>3
<1>10. ResultsInv'
  <2>1. \A m \in Nodes : Pc(m)' \in {"idle", "abort"}
    BY <1>4, <1>5
  <2> QED
    BY <2>1 DEF ResultsInv
<1>11. CheckpointHasEvidence'
  <2> SUFFICES ASSUME NEW r \in Runs, NEW m \in Available(r) \ rows[r].seeded
               PROVE  Replayable(r, m)'
    BY <1>1 DEF CheckpointHasEvidence, Available
  <2>1. Replayable(r, m)
    BY DEF EvidenceInv, CheckpointHasEvidence
  <2>2. PICK j \in DOMAIN invocations :
          invocations[j].run = r /\ invocations[j].node = m /\ Succeeded(j)
    BY <2>1 DEF Replayable, CallsOf, Succeeded
  <2>3. j # i
    BY <1>3, <2>2 DEF IsCall, Available
  <2> QED
    BY <1>6, <2>2, <2>3 DEF Replayable, CallsOf, Succeeded
<1> QED
  BY <1>8, <1>9, <1>10, <1>11 DEF EvidenceInv

-----------------------------------------------------------------------------
(* Cancellations, late threads, the API and the process keep the evidence.  *)

(* What a cancellation leaves of a task.                                    *)
LEMMA CancelledTask ==
  ASSUME IInv, task' = CancelledTasks, NEW n \in Nodes
  PROVE  /\ Pc(n)' \in {"idle", "abort"}
         /\ Pc(n)' = "abort" <=> Pc(n) \in {"open", "save", "saved", "abort"}
         /\ Pc(n)' = "abort" => task'[n].call = task[n].call
<1>1. task \in [Nodes -> [pc : Pcs, call : Nat, tries : Nat]]
  BY IInvTypes DEF Tasks
<1> DEFINE t == [task[n] EXCEPT !.pc = "abort"]
<1>2. t.pc = "abort" /\ t.call = task[n].call
  BY <1>1
<1>3. NoTask.pc = "idle"
  BY DEF NoTask
<1>4. task'[n] = CASE Pc(n) \in {"open", "save", "saved"} -> t
                   [] Pc(n) = "abort" -> task[n]
                   [] OTHER -> NoTask
  BY DEF CancelledTasks
<1> HIDE DEF t
<1> QED
  BY <1>2, <1>3, <1>4 DEF Pc

(* What a late thread of a task was doing.                                  *)
LEMMA LeftThread ==
  ASSUME NEW r, NEW o \in LeftThreads(r)
  PROVE  \E n \in Nodes : /\ Pc(n) = o.txn /\ Pc(n) \in ThreadPcs
                          /\ o.run = r /\ o.node = n /\ o.call = task[n].call
                          /\ Pc(n) = "call" => HasInputs(r, n) /\ ~ Replayable(r, n)
  BY DEF LeftThreads

(* A cancellation: threads that are left behind write only what their task  *)
(* could, and the calls that are closed stay with their node.               *)
LEMMA CancelEvidence ==
  ASSUME IInv, EvidenceInv, exec.run \in Runs, task' = CancelledTasks, exec'.run = exec.run,
         exec'.phase \in {"signal", "error", "cancelled"}, UNCHANGED durable,
         \A o \in orphans' : o.txn \in {"save", "fail"} =>
                               o \in orphans \cup LeftThreads(exec.run)
  PROVE  EvidenceInv'
<1>1. /\ \A i \in DOMAIN invocations' : Succeeded(i)' <=> Succeeded(i)
      /\ \A i, r, n : IsCall(i, r, n)' <=> IsCall(i, r, n)
      /\ \A n : done'[exec.run] = done[exec.run]
  BY DEF durable, Succeeded, IsCall
<1>2. ASSUME NEW n \in Nodes, Pc(n) \in Owning
      PROVE  IsCall(task[n].call, exec.run, n)
  BY <1>2 DEF EvidenceInv, TasksInv, Owning
<1>3. TasksInv'
  <2> SUFFICES ASSUME NEW n \in Nodes, Pc(n)' # "idle"
               PROVE  /\ exec'.phase \in (IF Pc(n)' = "abort" THEN {"signal", "error", "cancelled"}
                                          ELSE {"graph"})
                      /\ n \in NodesOf[Kind[exec'.run]] /\ Ready(n)'
                      /\ Pc(n)' \in Owning => IsCall(task[n].call, exec.run, n)'
    BY DEF TasksInv
  <2>1. /\ Pc(n)' = "abort" /\ Pc(n) \in {"open", "save", "saved", "abort"}
        /\ task'[n].call = task[n].call
    BY CancelledTask
  <2>2. n \in NodesOf[Kind[exec.run]] /\ Ready(n) /\ IsCall(task[n].call, exec.run, n)
    BY <1>2, <2>1 DEF EvidenceInv, TasksInv, Owning
  <2>3. Ready(n)' /\ IsCall(task[n].call, exec.run, n)'
    BY <1>1, <2>1, <2>2 DEF Ready, durable, IsCall
  <2> QED
    BY <2>1, <2>2, <2>3
<1>4. OrphanCallsInv'
  <2> SUFFICES ASSUME NEW o \in orphans', o.txn \in {"save", "fail"}
               PROVE  /\ IsCall(o.call, o.run, o.node)'
                      /\ o.txn = "fail" =>
                           /\ ~ Succeeded(o.call)'
                           /\ \A p \in orphans' : p.txn = "save" => p.call # o.call
                      /\ \A n \in Nodes : Pc(n)' \in Owning /\ task'[n].call = o.call =>
                                            Pc(n)' = "abort" /\ o.txn = "save"
    BY DEF OrphanCallsInv
  <2>1. ASSUME NEW p \in orphans', p.txn \in {"save", "fail"}
        PROVE  /\ IsCall(p.call, p.run, p.node)
               /\ p.txn = "fail" => ~ Succeeded(p.call)
               /\ \/ /\ p \in orphans
                     /\ \A n \in Nodes : Pc(n) \in Owning /\ task[n].call = p.call =>
                                           Pc(n) = "abort" /\ p.txn = "save"
                  \/ \E n \in Nodes : Pc(n) = p.txn /\ p.call = task[n].call
    <3>1. CASE p \in orphans
      BY <2>1, <3>1 DEF EvidenceInv, OrphanCallsInv
    <3>2. CASE p \in LeftThreads(exec.run)
      <4>1. PICK n \in Nodes : /\ Pc(n) = p.txn /\ p.run = exec.run /\ p.node = n
                               /\ p.call = task[n].call
        BY <3>2, LeftThread
      <4>2. IsCall(p.call, p.run, p.node)
        BY <1>2, <2>1, <4>1 DEF Owning
      <4>3. p.txn = "fail" => ~ Succeeded(p.call)
        BY <4>1 DEF EvidenceInv, ResultsInv
      <4> QED
        BY <4>1, <4>2, <4>3
    <3> QED
      BY <2>1, <3>1, <3>2
  <2>2. ASSUME NEW m \in Nodes, NEW n \in Nodes, Pc(m) \in Owning, Pc(n) \in Owning,
               task[m].call = task[n].call
        PROVE  m = n
    BY <1>2, <2>2 DEF IsCall
  <2>3. ASSUME o.txn = "fail", NEW p \in orphans', p.txn = "save", p.call = o.call
        PROVE  FALSE
    <3>1. CASE o \in orphans /\ p \in orphans
      BY <2>3, <3>1 DEF EvidenceInv, OrphanCallsInv
    <3>2. CASE \E n \in Nodes : Pc(n) = "fail" /\ o.call = task[n].call
      <4>1. PICK n \in Nodes : Pc(n) = "fail" /\ o.call = task[n].call
        BY <3>2
      <4>2. \A m \in Nodes : Pc(m) = "save" /\ p.call = task[m].call => FALSE
        BY <2>2, <2>3, <4>1 DEF Owning
      <4> QED
        BY <2>1, <2>3, <4>1, <4>2 DEF Owning
    <3>3. CASE \E n \in Nodes : Pc(n) = "save" /\ p.call = task[n].call
      <4>1. PICK n \in Nodes : Pc(n) = "save" /\ p.call = task[n].call
        BY <3>3
      <4>2. \A m \in Nodes : Pc(m) = "fail" /\ o.call = task[m].call => FALSE
        BY <2>2, <2>3, <4>1 DEF Owning
      <4> QED
        BY <2>1, <2>3, <4>1, <4>2 DEF Owning
    <3> QED
      BY <2>1, <2>3, <3>1, <3>2, <3>3
  <2>4. ASSUME NEW n \in Nodes, Pc(n)' \in Owning, task'[n].call = o.call
        PROVE  Pc(n)' = "abort" /\ o.txn = "save"
    <3>1. /\ Pc(n)' = "abort" /\ Pc(n) \in {"open", "save", "saved", "abort"}
          /\ task[n].call = o.call
      BY <2>4, CancelledTask DEF Owning
    <3>2. CASE \E m \in Nodes : Pc(m) = o.txn /\ o.call = task[m].call
      BY <2>2, <3>1, <3>2 DEF Owning
    <3>3. CASE \A m \in Nodes : Pc(m) \in Owning /\ task[m].call = o.call =>
                                  Pc(m) = "abort" /\ o.txn = "save"
      BY <3>1, <3>3 DEF Owning
    <3> QED
      BY <2>1, <3>1, <3>2, <3>3
  <2>5. IsCall(o.call, o.run, o.node)' /\ (o.txn = "fail" => ~ Succeeded(o.call)')
    BY <1>1, <2>1 DEF IsCall, durable, Succeeded
  <2> QED
    BY <2>3, <2>4, <2>5
<1>5. ResultsInv'
  BY CancelledTask DEF ResultsInv
<1>6. CheckpointHasEvidence'
  BY DEF CheckpointHasEvidence, EvidenceInv, Available, Replayable, CallsOf, durable
<1> QED
  BY <1>3, <1>4, <1>5, <1>6 DEF EvidenceInv

(* The steps of a node.                                                     *)
LEMMA NodeStepEvidence ==
  ASSUME IInv, EvidenceInv, NEW n \in Nodes, NodeStep(n)
  PROVE  EvidenceInv'
<1>1. CASE MissingInputs(n)
  BY <1>1, MoveEvidence DEF MissingInputs, Owning
<1>2. CASE Replay(n)
  BY <1>2, MoveEvidence DEF Replay
<1>3. CASE Answer(n)
  <2>1. PICK pc \in {"save", "fail"} : ToPc(n, pc)
    BY <1>3 DEF Answer
  <2> QED
    BY <1>3, <2>1, MoveEvidence DEF Answer
<1>4. CASE ReceiveOutput(n)
  <2>1. /\ InGraph(n) /\ Pc(n) = "saved" /\ ToPc(n, "output")
        /\ UNCHANGED <<durable, exec, orphans>>
    BY <1>4 DEF ReceiveOutput
  <2>2. IsCall(task[n].call, exec.run, n) /\ Succeeded(task[n].call)
    BY <2>1 DEF EvidenceInv, TasksInv, ResultsInv, Owning
  <2>3. Replayable(exec.run, n)
    BY <2>2 DEF Replayable, CallsOf, IsCall, Succeeded
  <2> QED
    BY <2>1, <2>3, MoveEvidence
<1>5. CASE Raise(n)
  <2>1. /\ exec.run \in Runs /\ exec \in Executions /\ UNCHANGED durable
        /\ task' = CancelledTasks /\ orphans' = orphans \cup LeftThreads(exec.run)
    BY <1>5, InGraphFacts, IInvTypes DEF Raise
  <2>2. exec'.run = exec.run /\ exec'.phase \in {"signal", "error"}
    BY <1>5, <2>1, ToPhaseType DEF Raise, Phases
  <2> QED
    BY <2>1, <2>2, CancelEvidence
<1> QED
  BY <1>1, <1>2, <1>3, <1>4, <1>5, NodeStartEvidence, StartCallEvidence, SaveCallEvidence,
     FailCallEvidence, CompleteNodeEvidence, AbortCallEvidence DEF NodeStep, OwnStep

(* queue_retry_from_node: the child's checkpoint is what it is seeded with. *)
LEMMA RetryChildRows ==
  ASSUME StoreInv, NEW c \in DOMAIN controls, NEW child \in Runs, QueueRetryChild(c, child)
  PROVE  /\ ~ rows[child].exists /\ invocations' = invocations /\ ControlsKept
         /\ Available(child)' \subseteq rows'[child].seeded
         /\ \A q \in Runs \ {child} :
              /\ done'[q] = done[q] /\ rows'[q].seeded = rows[q].seeded
              /\ rows'[q].skipped = rows[q].skipped /\ rows'[q].budget = rows[q].budget
<1> DEFINE r == controls[c].run
           target == controls[c].target
           passed == {n \in NodesOf["blueprint"] \ {target} : Stage[n] <= Stage[target]}
           source == [rows[r] EXCEPT !.status = "CANCELLED", !.reason = NoReason]
           born == [rows[child] EXCEPT !.exists = TRUE, !.budget = rows[r].budget,
                                       !.seeded = passed \cap Available(r),
                                       !.skipped = passed \ Available(r)]
<1>1. /\ controls \in Seq(Control) /\ controls[c] \in Control
      /\ rows \in [Runs -> Row] /\ done \in [Runs -> SUBSET Nodes]
  BY ElementOfSeq DEF StoreInv, StoreTypeOK
<1>2. r \in Runs
  BY <1>1 DEF Control
<1>3. /\ ~ rows[child].exists /\ invocations' = invocations
      /\ SetCommand(c, controls[c].status, child)
      /\ done' = [done EXCEPT ![child] = passed]
  BY DEF QueueRetryChild, Oldest
<1>4. ASSUME NEW q \in Runs
      PROVE  /\ q = child => rows'[q] = born
             /\ q # child => (rows'[q] = source /\ q = r) \/ rows'[q] = rows[q]
  BY DEF QueueRetryChild
<1>5. born.seeded = passed \cap Available(r) /\ born.skipped = passed \ Available(r)
  <2> HIDE DEF passed, r
  <2>1. rows[child] \in Row
    BY <1>1
  <2> QED
    BY <2>1 DEF Row
<1>6. /\ source.seeded = rows[r].seeded /\ source.skipped = rows[r].skipped
      /\ source.budget = rows[r].budget
  <2> HIDE DEF r
  <2>1. rows[r] \in Row
    BY <1>1, <1>2
  <2> QED
    BY <2>1 DEF Row
<1>7. ControlsKept
  BY <1>3, SettleKeepsCommands
<1> HIDE DEF born, source, passed, r
<1>8. Available(child)' \subseteq rows'[child].seeded
  <2>1. done'[child] = passed /\ rows'[child] = born
    BY <1>1, <1>3, <1>4
  <2> QED
    BY <1>5, <2>1 DEF Available
<1>9. \A q \in Runs \ {child} :
        /\ done'[q] = done[q] /\ rows'[q].seeded = rows[q].seeded
        /\ rows'[q].skipped = rows[q].skipped /\ rows'[q].budget = rows[q].budget
  BY <1>1, <1>3, <1>4, <1>6
<1> QED
  BY <1>3, <1>7, <1>8, <1>9

(* update_budget changes one budget only.                                   *)
LEMMA UpdateBudgetRows ==
  ASSUME StoreInv, NEW r \in Runs, NEW b \in Budgets, UpdateBudget(r, b)
  PROVE  /\ invocations' = invocations /\ done' = done /\ ControlsKept /\ Usage(r) <= b
         /\ rows'[r].budget = b
         /\ \A q \in Runs : /\ rows'[q].seeded = rows[q].seeded
                            /\ rows'[q].skipped = rows[q].skipped
                            /\ q # r => rows'[q].budget = rows[q].budget
<1> DEFINE row == [rows[r] EXCEPT !.budget = b]
<1>1. rows \in [Runs -> Row]
  BY DEF StoreInv, StoreTypeOK
<1>2. row.budget = b /\ row.seeded = rows[r].seeded /\ row.skipped = rows[r].skipped
  BY <1>1 DEF Row
<1>3. /\ rows' = [rows EXCEPT ![r] = row] /\ invocations' = invocations /\ done' = done
      /\ Usage(r) <= b
  BY DEF UpdateBudget
<1>4. ControlsKept
  BY RecordKeeps DEF UpdateBudget, Accept
<1> HIDE DEF row
<1> QED
  BY <1>1, <1>2, <1>3, <1>4

(* task.cancel() on the execution.                                          *)
LEMMA CancelExecutionEvidence ==
  ASSUME IInv, EvidenceInv, CancelExecution, exec.run # NoRun, UNCHANGED durable
  PROVE  EvidenceInv'
<1>1. exec \in Executions /\ exec.run \in Runs
  BY IInvTypes
<1>2. CASE ~ Joined
  <2>1. /\ exec'.run = exec.run /\ exec'.phase = exec.phase /\ UNCHANGED <<task, orphans>>
    BY <1>1, <1>2 DEF CancelExecution, Executions
  <2> QED
    BY <2>1, NothingQuiet, QuietEvidence DEF OrphansFewer
<1>3. CASE Joined
  <2> DEFINE thread == IF exec.phase \in {"recover", "finish", "error"}
                       THEN {[run |-> exec.run, txn |-> exec.phase, node |-> Unset, call |-> 0]}
                       ELSE {}
  <2>1. /\ exec' = [exec EXCEPT !.phase = "cancelled", !.cancelling = TRUE]
        /\ task' = CancelledTasks
        /\ orphans' = orphans \cup LeftThreads(exec.run) \cup thread
    BY <1>3 DEF CancelExecution
  <2>2. \A o \in thread : o.txn \notin {"save", "fail"}
    OBVIOUS
  <2>3. exec'.run = exec.run /\ exec'.phase = "cancelled"
    BY <1>1, <2>1 DEF Executions
  <2> HIDE DEF thread
  <2> QED
    BY <1>1, <2>1, <2>2, <2>3, CancelEvidence
<1> QED
  BY <1>2, <1>3

(* A late thread commits, or never ran.                                     *)
LEMMA OrphanEvidence ==
  ASSUME IInv, EvidenceInv, NEW o \in orphans, OrphanCommit(o) \/ OrphanNeverRan(o)
  PROVE  EvidenceInv'
<1>1. /\ StoreInv /\ o \in Orphan /\ o.run \in Runs /\ (o.txn \in ThreadPcs => o.node \in Nodes)
  BY IInvTypes DEF IInv, RuntimeInv, OrphansFollow, Follows
<1>2. UNCHANGED <<task, exec>>
  BY DEF OrphanCommit, OrphanNeverRan
<1>3. OrphansFewer
  <2>1. \A p \in orphans' : p \in orphans \/ p = [o EXCEPT !.txn = "start"]
    BY DEF OrphanCommit, OrphanNeverRan
  <2>2. [o EXCEPT !.txn = "start"].txn = "start"
    BY <1>1 DEF Orphan
  <2> QED
    BY <2>1, <2>2 DEF OrphansFewer
<1>4. CASE Quiet
  BY <1>2, <1>3, <1>4, QuietEvidence
<1>5. CASE o.txn = "call" /\ StartCallRows(o.run, o.node)
  <2>1. UNCHANGED <<rows, done>> /\ o.node \in Nodes
    BY <1>1, <1>5 DEF StartCallRows, ThreadPcs
  <2>2. CallsGrow({}) /\ RowsCalm
    BY <1>1, <1>5, <2>1, StartCallGrows, RowsSameCalm
  <2>3. TasksSame
    BY <1>2, <2>1 DEF TasksSame, RunStays
  <2> QED
    BY <1>3, <2>2, <2>3, CalmEvidence
<1>6. CASE o.txn = "save" /\ CallRows(o.call, "SUCCEEDED")
  <2> DEFINE C == {o.call}
  <2>1. UNCHANGED <<rows, done>> /\ IsCall(o.call, o.run, o.node)
    BY <1>6 DEF CallRows, EvidenceInv, OrphanCallsInv
  <2>2. CallsGrow(C) /\ RowsCalm
    BY <1>1, <1>6, <2>1, SaveGrows, RowsSameCalm DEF IsCall
  <2>3. TasksSame
    BY <1>2, <2>1 DEF TasksSame, RunStays
  <2>4. \A p \in orphans' : p.txn = "fail" => p.call \notin C
    BY <1>3, <1>6 DEF OrphansFewer, EvidenceInv, OrphanCallsInv
  <2>5. \A n \in Nodes : Pc(n)' \in {"open", "save", "fail"} => task'[n].call \notin C
    BY <1>2, <1>6 DEF EvidenceInv, OrphanCallsInv, Owning, Pc
  <2> HIDE DEF C
  <2> QED
    BY <1>3, <2>2, <2>3, <2>4, <2>5, CalmEvidence
<1>7. CASE o.txn = "fail" /\ CallRows(o.call, "FAILED")
  <2>1. UNCHANGED <<rows, done>> /\ IsCall(o.call, o.run, o.node) /\ ~ Succeeded(o.call)
    BY <1>7 DEF CallRows, EvidenceInv, OrphanCallsInv
  <2>2. CallsGrow({}) /\ RowsCalm
    BY <1>1, <1>7, <2>1, CloseGrows, RowsSameCalm DEF IsCall
  <2>3. TasksSame
    BY <1>2, <2>1 DEF TasksSame, RunStays
  <2> QED
    BY <1>3, <2>2, <2>3, CalmEvidence
<1>8. CASE OrphanNeverRan(o)
  BY <1>4, <1>8, NothingQuiet DEF OrphanNeverRan
<1>9. CASE o.txn = "check" /\ \E verdict \in {"go", "paused", "stopped"} :
                                BeforeNode(o.run, o.node, verdict)
  BY <1>1, <1>4, <1>9, BeforeNodeQuiet DEF ThreadPcs
<1>10. CASE o.txn = "start" /\ StartRows(o.run, o.node)
  BY <1>1, <1>4, <1>10, StartRowsQuiet DEF ThreadPcs
<1>11. CASE o.txn = "recover" /\ RecoverRows(o.run)
  BY <1>1, <1>4, <1>11, RecoverRowsQuiet
<1>12. CASE o.txn = "finish" /\ FinishRows(o.run)
  BY <1>1, <1>4, <1>12, FinishRowsQuiet
<1>13. CASE o.txn = "error" /\ FailRows(o.run)
  BY <1>1, <1>4, <1>13, FailRowsQuiet
<1> QED
  BY <1>5, <1>6, <1>7, <1>8, <1>9, <1>10, <1>11, <1>12, <1>13 DEF OrphanCommit

(* The control API.                                                         *)
LEMMA ApiStepEvidence ==
  ASSUME IInv, EvidenceInv, ApiStep
  PROVE  EvidenceInv'
<1>1. StoreInv
  BY IInvTypes
<1>2. ASSUME Quiet, UNCHANGED <<exec, task, orphans>>
      PROVE  EvidenceInv'
  BY <1>2, QuietEvidence DEF OrphansFewer
<1>3. ASSUME NEW r \in Runs, ApiPause(r)
      PROVE  EvidenceInv'
  BY <1>1, <1>2, <1>3, RequestPauseQuiet DEF ApiPause, volatile
<1>4. ASSUME NEW r \in Runs, ApiStop(r)
      PROVE  EvidenceInv'
  BY <1>1, <1>2, <1>4, StopQuiet DEF ApiStop
<1>5. ASSUME NEW r \in Runs, ApiRedeliverStop(r)
      PROVE  EvidenceInv'
  BY <1>2, <1>5, NothingQuiet DEF ApiRedeliverStop
<1>6. ASSUME NEW r \in Runs, ApiResume(r)
      PROVE  EvidenceInv'
  BY <1>1, <1>2, <1>6, BeginResumeQuiet DEF ApiResume, volatile
<1>7. ASSUME NEW r \in Runs, CancelActiveRun(r)
      PROVE  EvidenceInv'
  <2>1. CASE CancelExecution /\ exec.run = r
    BY <1>7, <2>1, RunsAreNotNoRun, CancelExecutionEvidence DEF CancelActiveRun
  <2>2. CASE UNCHANGED <<exec, task, orphans>>
    BY <1>2, <1>7, <2>2, NothingQuiet DEF CancelActiveRun
  <2> QED
    BY <1>7, <2>1, <2>2 DEF CancelActiveRun
<1>8. ASSUME NEW r \in Runs, NEW b \in Budgets, ApiUpdateBudget(r, b)
      PROVE  EvidenceInv'
  <2>1. UpdateBudget(r, b) /\ UNCHANGED <<exec, task, orphans>>
    BY <1>8 DEF ApiUpdateBudget, volatile
  <2>2. /\ invocations' = invocations /\ done' = done
        /\ \A q \in Runs : rows'[q].seeded = rows[q].seeded /\ rows'[q].skipped = rows[q].skipped
    BY <1>1, <2>1, UpdateBudgetRows
  <2>3. CallsGrow({}) /\ RowsCalm
    BY <2>2 DEF CallsGrow, Succeeded, RowsCalm, Available
  <2>4. TasksSame /\ OrphansFewer
    BY <2>1, <2>2 DEF TasksSame, RunStays, OrphansFewer
  <2> QED
    BY <2>3, <2>4, CalmEvidence
<1>9. ASSUME NEW r \in Runs, NEW n \in NodesOf[Kind[r]], ApiBeginRetry(r, n)
      PROVE  EvidenceInv'
  BY <1>1, <1>2, <1>9, BeginRetryQuiet DEF ApiBeginRetry, volatile
<1>10. ASSUME NEW c \in DOMAIN controls, ApiCheckpointRetry(c)
       PROVE  EvidenceInv'
  BY <1>1, <1>2, <1>10, CheckpointRetryQuiet DEF ApiCheckpointRetry, volatile
<1>11. ASSUME NEW c \in DOMAIN controls, NEW child \in Runs, ApiQueueRetryChild(c, child)
       PROVE  EvidenceInv'
  <2>1. QueueRetryChild(c, child) /\ UNCHANGED <<exec, task, orphans>>
    BY <1>11 DEF ApiQueueRetryChild, volatile
  <2>2. /\ ~ rows[child].exists /\ invocations' = invocations
        /\ Available(child)' \subseteq rows'[child].seeded
        /\ \A q \in Runs \ {child} :
             /\ done'[q] = done[q] /\ rows'[q].seeded = rows[q].seeded
             /\ rows'[q].skipped = rows[q].skipped
    BY <1>1, <2>1, RetryChildRows
  <2>3. CallsGrow({}) /\ RowsCalm
    BY <2>2 DEF CallsGrow, Succeeded, RowsCalm, Available
  <2>4. TasksSame \/ TasksIdle'
    <3>1. CASE exec.phase = "idle"
      BY <2>1, <3>1, NothingRuns DEF EvidenceInv, TasksIdle, Pc
    <3>2. CASE exec.phase # "idle"
      <4>1. exec.run \in Runs /\ rows[exec.run].exists
        BY <3>2, IInvTypes
      <4> QED
        BY <2>1, <2>2, <4>1 DEF TasksSame, RunStays
    <3> QED
      BY <3>1, <3>2
  <2>5. OrphansFewer
    BY <2>1 DEF OrphansFewer
  <2> QED
    BY <2>3, <2>4, <2>5, CalmEvidence
<1> QED
  BY <1>3, <1>4, <1>5, <1>6, <1>7, <1>8, <1>9, <1>10, <1>11 DEF ApiStep

(* The process.                                                             *)
LEMMA ProcessStepEvidence ==
  ASSUME IInv, EvidenceInv, ProcessStep
  PROVE  EvidenceInv'
<1>1. CASE Shutdown
  <2>1. UNCHANGED durable
    BY <1>1 DEF Shutdown
  <2>2. CASE CancelExecution /\ exec.run # NoRun
    BY <2>1, <2>2, CancelExecutionEvidence
  <2>3. CASE UNCHANGED <<exec, task, orphans>>
    BY <2>1, <2>3, NothingQuiet, QuietEvidence DEF OrphansFewer
  <2> QED
    BY <1>1, <2>2, <2>3 DEF Shutdown
<1>2. CASE Exit
  BY <1>2, NothingQuiet, QuietEvidence DEF OrphansFewer, Exit
<1>3. CASE Crash
  <2>1. TasksIdle'
    BY <1>3 DEF Crash, TasksIdle, Pc, NoTasks, NoTask
  <2> QED
    BY <1>3, <2>1, NothingQuiet, QuietEvidence DEF OrphansFewer, Crash
<1>4. CASE Restart
  <2>1. Quiet
    BY <1>4, IInvTypes, RestartQuiet
  <2> QED
    BY <1>4, <2>1, QuietEvidence DEF OrphansFewer, Restart
<1> QED
  BY <1>1, <1>2, <1>3, <1>4 DEF ProcessStep

(* At first nothing runs, and nothing is checkpointed.                      *)
LEMMA InitEvidence == Init => EvidenceInv
<1> SUFFICES ASSUME Init PROVE EvidenceInv
  OBVIOUS
<1>1. done = [r \in Runs |-> {}] /\ task = NoTasks /\ orphans = {}
  BY DEF Init, StoreInit
<1>2. \A n \in Nodes : Pc(n) = "idle"
  BY <1>1 DEF Pc, NoTasks, NoTask
<1> QED
  BY <1>1, <1>2 DEF EvidenceInv, TasksInv, OrphanCallsInv, ResultsInv, CheckpointHasEvidence,
                    Available

(* Every step keeps the evidence.                                           *)
LEMMA NextKeepsEvidence == IInv /\ EvidenceInv /\ [Next]_vars => EvidenceInv'
<1> SUFFICES ASSUME IInv, EvidenceInv, [Next]_vars PROVE EvidenceInv'
  OBVIOUS
<1>1. CASE UNCHANGED vars
  BY <1>1, NothingQuiet, QuietEvidence DEF vars, volatile, OrphansFewer
<1>2. CASE \E o \in orphans : OrphanCommit(o) \/ OrphanNeverRan(o)
  BY <1>2, OrphanEvidence
<1>3. CASE \E n \in Nodes : NodeStep(n)
  BY <1>3, NodeStepEvidence
<1>4. CASE \E r \in Runs : Claim(r)
  BY <1>4, ClaimEvidence
<1> QED
  BY <1>1, <1>2, <1>3, <1>4, ExecutionStepEvidence, ApiStepEvidence, ProcessStepEvidence
  DEF Next

(* A node in a checkpoint has a succeeded call in its run, unless it came   *)
(* with a retry's seeds: no late failure, no stop and no restart takes the  *)
(* evidence of finished work away.                                          *)
THEOREM EvidenceStays == Spec => []CheckpointHasEvidence
<1>1. EvidenceInv => CheckpointHasEvidence
  BY DEF EvidenceInv
<1>2. Spec => []EvidenceInv
  <2>1. Spec => []IInv
    BY Invariance
  <2> QED
    BY <2>1, InitEvidence, NextKeepsEvidence, PTL DEF Spec
<1> QED
  BY <1>1, <1>2, PTL

-----------------------------------------------------------------------------
(* Runs that were not stopped.                                              *)

(* No command is forgotten.                                                 *)
LEMMA NextKeepsControls ==
  ASSUME IInv, [Next]_vars
  PROVE  ControlsKept
<1>1. StoreInv
  BY IInvTypes
<1>2. CASE UNCHANGED vars
  BY <1>2, ControlsSameKept DEF vars, durable
<1>3. CASE \E r \in Runs : Claim(r)
  BY <1>3, ControlsSameKept DEF Claim
<1>4. CASE ExecutionStep
  <2>1. CASE Settle
    BY <1>1, <2>1, SettleQuiet DEF Quiet
  <2>2. CASE Begin \/ Recover \/ Launch \/ Cancelled \/ ExecutionBoundary
    BY <2>2, ControlsSameKept
    DEF Begin, Recover, RecoverRows, Launch, Cancelled, ExecutionBoundary, durable
  <2>3. CASE SyncCheckpoint \/ Finish \/ FailRun
    BY <2>3, ControlsSameKept DEF SyncCheckpoint, Finish, FinishRows, FailRun, FailRows
  <2> QED
    BY <1>4, <2>1, <2>2, <2>3 DEF ExecutionStep
<1>5. ASSUME NEW n \in Nodes, NodeStep(n)
      PROVE  ControlsKept
  <2>1. CASE CheckNode(n)
    BY <1>1, <2>1, InGraphFacts, BeforeNodeQuiet DEF CheckNode, Quiet
  <2>2. CASE StartNode(n) \/ MissingInputs(n) \/ Replay(n) \/ StartCall(n) \/ SaveCall(n)
    BY <2>2, ControlsSameKept
    DEF StartNode, StartRows, MissingInputs, Replay, StartCall, StartCallRows, SaveCall,
        CallRows, durable
  <2>3. CASE ReceiveOutput(n) \/ FailCall(n) \/ CompleteNode(n) \/ Raise(n) \/ AbortCall(n)
             \/ Answer(n)
    BY <2>3, ControlsSameKept
    DEF ReceiveOutput, FailCall, CallRows, CompleteNode, Raise, AbortCall, Answer, durable
  <2> QED
    BY <1>5, <2>1, <2>2, <2>3 DEF NodeStep, OwnStep
<1>6. ASSUME NEW o \in orphans, OrphanCommit(o) \/ OrphanNeverRan(o)
      PROVE  ControlsKept
  <2>1. o.run \in Runs /\ (o.txn = "check" => o.node \in Nodes)
    BY DEF IInv, RuntimeInv, OrphansFollow, Follows, ThreadPcs
  <2>2. CASE \E verdict \in {"go", "paused", "stopped"} : BeforeNode(o.run, o.node, verdict)
             /\ o.txn = "check"
    BY <1>1, <2>1, <2>2, BeforeNodeQuiet DEF Quiet
  <2>3. CASE UNCHANGED controls
    BY <2>3, ControlsSameKept
  <2> QED
    BY <1>6, <2>2, <2>3
    DEF OrphanCommit, OrphanNeverRan, durable, StartRows, StartCallRows, CallRows, RecoverRows,
        FinishRows, FailRows
<1>7. CASE ApiStep
  <2>1. CASE \E r \in Runs : ApiPause(r) \/ ApiStop(r) \/ ApiRedeliverStop(r) \/ ApiResume(r)
    BY <1>1, <2>1, RequestPauseQuiet, StopQuiet, ControlsSameKept, BeginResumeQuiet
    DEF ApiPause, ApiStop, ApiRedeliverStop, ApiResume, durable, Quiet
  <2>2. CASE \E r \in Runs : CancelActiveRun(r)
    BY <2>2, ControlsSameKept DEF CancelActiveRun, durable
  <2>3. CASE \E r \in Runs : \E b \in Budgets : ApiUpdateBudget(r, b)
    BY <1>1, <2>3, UpdateBudgetRows DEF ApiUpdateBudget
  <2>4. CASE \E r \in Runs : \E n \in NodesOf[Kind[r]] : ApiBeginRetry(r, n)
    BY <1>1, <2>4, BeginRetryQuiet DEF ApiBeginRetry, Quiet
  <2>5. CASE \E c \in DOMAIN controls : \/ ApiCheckpointRetry(c)
                                        \/ \E child \in Runs : ApiQueueRetryChild(c, child)
    BY <1>1, <2>5, CheckpointRetryQuiet, RetryChildRows
    DEF ApiCheckpointRetry, ApiQueueRetryChild, Quiet
  <2> QED
    BY <1>7, <2>1, <2>2, <2>3, <2>4, <2>5 DEF ApiStep
<1>8. CASE ProcessStep
  BY <1>8, ControlsSameKept DEF ProcessStep, Shutdown, Exit, Crash, Restart, durable
<1> QED
  BY <1>2, <1>3, <1>4, <1>5, <1>6, <1>7, <1>8 DEF Next

(* So a run that is not stopped later was not stopped before.               *)
LEMMA StopsStay ==
  ASSUME ControlsKept, NEW r
  PROVE  /\ StopApplied(r) => StopApplied(r)'
         /\ Lone(r)' => Lone(r)
  BY DEF ControlsKept, StopApplied, Lone

(* Which execution a step leaves.                                           *)
LEMMA NextKeepsCancels ==
  ASSUME IInv, EvidenceInv, CancelsInv, [Next]_vars
  PROVE  CancelsInv'
<1>1. /\ exec \in Executions /\ proc \in {"up", "stopping", "down"} /\ StoreInv
      /\ exec.phase = "idle" \/ exec.run # NoRun
  BY IInvTypes, RunsAreNotNoRun
<1>2. /\ ControlsKept
      /\ exec.cancelling => exec.phase \in {"signal", "error", "cancelled", "failed", "settle"}
      /\ proc = "stopping" => exec.phase = "idle" \/ exec.cancelling
      /\ proc = "down" => exec.phase = "idle" /\ orphans = {}
  BY NextKeepsControls DEF CancelsInv
<1> DEFINE Going ==
      /\ exec'.cancelling => exec'.phase \in {"signal", "error", "cancelled", "failed", "settle"}
      /\ proc' = "stopping" => exec'.phase = "idle" \/ exec'.cancelling
      /\ proc' = "down" => exec'.phase = "idle" /\ orphans' = {}
<1>3. ASSUME cancels' \subseteq cancels, Going
      PROVE  CancelsInv'
  BY <1>2, <1>3, StopsStay DEF CancelsInv
<1>4. Idle.phase = "idle" /\ ~ Idle.cancelling
  BY DEF Idle
<1>5. CASE UNCHANGED vars
  BY <1>2, <1>3, <1>5 DEF vars, volatile
<1>6. ASSUME NEW r \in Runs, Claim(r)
      PROVE  CancelsInv'
  <2> DEFINE e == [Idle EXCEPT !.run = r, !.phase = "begin"]
  <2>1. ~ e.cancelling
    BY DEF Idle
  <2>2. exec' = e /\ proc' = "up" /\ cancels' = cancels
    BY <1>6 DEF Claim
  <2> HIDE DEF e
  <2> QED
    BY <1>3, <2>1, <2>2
<1>7. CASE ExecutionStep
  <2>1. UNCHANGED <<proc, orphans, cancels>>
    BY <1>7 DEF ExecutionStep, Begin, Recover, Launch, Cancelled, ExecutionBoundary,
                SyncCheckpoint, Finish, FailRun, Settle
  <2>2. exec.phase # "idle"
    BY <1>7 DEF ExecutionStep, Begin, Recover, Launch, Cancelled, ExecutionBoundary,
                SyncCheckpoint, Finish, FailRun, Settle, Phase
  <2>3. CASE exec' = Idle
    BY <1>2, <1>3, <1>4, <2>1, <2>2, <2>3
  <2>4. ASSUME NEW p \in Phases, ToPhase(p),
               ~ exec.cancelling \/ p \in {"signal", "error", "cancelled", "failed", "settle"}
        PROVE  CancelsInv'
    <3>1. exec'.phase = p /\ exec'.cancelling = exec.cancelling
      BY <1>1, <2>4 DEF ToPhase, Executions
    <3> QED
      BY <1>2, <1>3, <2>1, <2>2, <2>4, <3>1
  <2>5. ASSUME NEW ok \in BOOLEAN, exec' = AfterInvoke(exec.run, ok)
        PROVE  CancelsInv'
    <3> DEFINE e == [exec EXCEPT !.phase = "settle", !.ok = ok]
    <3>1. e.phase = "settle" /\ e.cancelling = exec.cancelling
      BY <1>1 DEF Executions
    <3>2. exec' = Idle \/ exec' = e
      BY <2>5 DEF AfterInvoke
    <3> HIDE DEF e
    <3>3. CASE exec' = e
      BY <1>2, <1>3, <2>1, <2>2, <3>1, <3>3
    <3> QED
      BY <2>3, <3>2, <3>3
  <2>6. CASE Begin
    BY <1>2, <2>3, <2>4, <2>6 DEF Begin, Phase, Phases
  <2>7. CASE Recover
    BY <1>2, <2>4, <2>7 DEF Recover, Phase, Phases
  <2>8. CASE Launch
    <3>1. exec' = exec \/ ToPhase("boundary")
      BY <2>8 DEF Launch
    <3> QED
      BY <1>2, <1>3, <2>1, <2>4, <2>8, <3>1 DEF Launch, Phase, Phases
  <2>9. CASE Cancelled
    BY <2>3, <2>9 DEF Cancelled
  <2>10. CASE ExecutionBoundary
    BY <1>2, <2>4, <2>10 DEF ExecutionBoundary, Phase, Phases
  <2>11. CASE SyncCheckpoint
    BY <1>2, <2>4, <2>5, <2>11 DEF SyncCheckpoint, Phase, Phases
  <2>12. CASE Finish
    BY <2>5, <2>12 DEF Finish
  <2>13. CASE FailRun
    BY <2>4, <2>13 DEF FailRun, Phases
  <2>14. CASE Settle
    BY <2>3, <2>14 DEF Settle
  <2> QED
    BY <1>7, <2>6, <2>7, <2>8, <2>9, <2>10, <2>11, <2>12, <2>13, <2>14 DEF ExecutionStep
<1>8. ASSUME NEW n \in Nodes, NodeStep(n)
      PROVE  CancelsInv'
  <2>1. CASE Raise(n)
    <3>1. exec.phase = "graph" /\ UNCHANGED <<proc, cancels>>
      BY <2>1 DEF Raise, InGraph, Phase
    <3>2. exec'.cancelling = exec.cancelling
      BY <1>1, <2>1 DEF Raise, ToPhase, Executions
    <3> QED
      BY <1>1, <1>2, <1>3, <3>1, <3>2
  <2>2. CASE ~ Raise(n)
    BY <1>2, <1>3, <1>8, <2>2
    DEF NodeStep, OwnStep, CheckNode, StartNode, MissingInputs, Replay, StartCall, SaveCall,
        ReceiveOutput, FailCall, CompleteNode, AbortCall, Answer
  <2> QED
    BY <2>1, <2>2
<1>9. ASSUME NEW o \in orphans, OrphanCommit(o) \/ OrphanNeverRan(o)
      PROVE  CancelsInv'
  BY <1>2, <1>3, <1>9 DEF OrphanCommit, OrphanNeverRan
<1>10. ASSUME CancelExecution, exec.run # NoRun, proc' \in {"up", "stopping"},
              cancels' \subseteq cancels
       PROVE  CancelsInv'
  <2>1. CASE Joined
    <3>1. exec'.phase = "cancelled" /\ exec'.cancelling
      BY <1>1, <1>10, <2>1 DEF CancelExecution, Executions
    <3> QED
      BY <1>3, <1>10, <3>1
  <2>2. CASE ~ Joined
    <3>1. exec'.phase = exec.phase /\ exec'.cancelling
      BY <1>1, <1>10, <2>2 DEF CancelExecution, Executions
    <3>2. exec.phase \in {"signal", "error", "cancelled"}
      BY <2>2 DEF Joined, EvidenceInv, TasksInv
    <3> QED
      BY <1>3, <1>10, <3>1, <3>2
  <2> QED
    BY <2>1, <2>2
<1>11. CASE ApiStep
  <2>1. proc = "up" /\ proc' = "up"
    BY <1>11 DEF ApiStep, ApiPause, ApiStop, ApiRedeliverStop, ApiResume, CancelActiveRun,
                 ApiUpdateBudget, ApiBeginRetry, ApiCheckpointRetry, ApiQueueRetryChild, Api,
                 volatile
  <2>2. CASE UNCHANGED volatile
    BY <1>2, <1>3, <2>2 DEF volatile
  <2>3. ASSUME NEW r \in Runs, ApiStop(r) \/ ApiRedeliverStop(r)
        PROVE  CancelsInv'
    <3>1. StopApplied(r)'
      <4>1. CASE ApiStop(r)
        BY <1>1, <4>1, StopQuiet DEF ApiStop
      <4>2. CASE ApiRedeliverStop(r)
        BY <1>2, <4>2, StopsStay DEF ApiRedeliverStop, StopApplied
      <4> QED
        BY <2>3, <4>1, <4>2
    <3>2. cancels' = cancels \cup {r} /\ UNCHANGED <<exec, proc, orphans>>
      BY <2>3 DEF ApiStop, ApiRedeliverStop
    <3> QED
      BY <1>2, <3>1, <3>2, StopsStay DEF CancelsInv
  <2>4. ASSUME NEW r \in Runs, CancelActiveRun(r)
        PROVE  CancelsInv'
    BY <1>2, <1>3, <1>10, <2>1, <2>4, RunsAreNotNoRun DEF CancelActiveRun
  <2> QED
    BY <1>11, <2>2, <2>3, <2>4
    DEF ApiStep, ApiPause, ApiResume, ApiUpdateBudget, ApiBeginRetry, ApiCheckpointRetry,
        ApiQueueRetryChild
<1>12. CASE ProcessStep
  <2>1. CASE Shutdown
    BY <1>1, <1>2, <1>3, <1>10, <2>1 DEF Shutdown
  <2>2. CASE Exit \/ Restart
    BY <1>2, <1>3, <2>2 DEF Exit, Restart, Phase
  <2>3. CASE Crash
    BY <1>3, <1>4, <2>3 DEF Crash
  <2> QED
    BY <1>12, <2>1, <2>2, <2>3 DEF ProcessStep
<1> QED
  BY <1>5, <1>6, <1>7, <1>8, <1>9, <1>11, <1>12 DEF Next

(* The number of calls of a run is a number.                                *)
LEMMA UsageNat ==
  ASSUME StoreInv, NEW r
  PROVE  IsFiniteSet(CallsOf(r)) /\ Usage(r) \in Nat
<1>1. invocations \in Seq(Invocation)
  BY DEF StoreInv, StoreTypeOK
<1>2. /\ DOMAIN invocations = 1 .. Len(invocations) /\ Len(invocations) \in Nat
      /\ CallsOf(r) \subseteq 1 .. Len(invocations)
  BY <1>1 DEF CallsOf
<1>3. IsFiniteSet(1 .. Len(invocations))
  BY <1>2, FS_Interval
<1>4. IsFiniteSet(CallsOf(r))
  BY <1>2, <1>3, FS_Subset
<1> QED
  BY <1>4, FS_CardinalityType DEF Usage

(* Calls that keep their runs keep the usage.                               *)
LEMMA UsageStays ==
  ASSUME DOMAIN invocations' = DOMAIN invocations,
         \A i \in DOMAIN invocations : invocations'[i].run = invocations[i].run,
         NEW r
  PROVE  Usage(r)' = Usage(r)
<1>1. CallsOf(r)' = CallsOf(r)
  BY DEF CallsOf
<1> QED
  BY <1>1 DEF Usage

(* A graph that runs is that of an existing run in a process that is up.    *)
LEMMA GraphRuns ==
  ASSUME IInv, EvidenceInv, CancelsInv, NEW n \in Nodes, Pc(n) \notin {"idle", "abort"}
  PROVE  exec.phase = "graph" /\ ~ exec.cancelling /\ proc = "up" /\ exec.run \in Runs
<1>1. exec.phase = "graph"
  BY DEF EvidenceInv, TasksInv
<1> QED
  BY <1>1, IInvTypes DEF CancelsInv

(* When super-steps have one node, one task runs.                           *)
LEMMA OneTask ==
  ASSUME IInv, EvidenceInv, Sequential(Kind[exec.run]),
         NEW m \in Nodes, NEW n \in Nodes, Pc(m) # "idle", Pc(n) # "idle"
  PROVE  m = n
<1>1. /\ m \in NodesOf[Kind[exec.run]] /\ m \notin done[exec.run]
      /\ Earlier(Kind[exec.run], m) \subseteq done[exec.run]
      /\ n \in NodesOf[Kind[exec.run]] /\ n \notin done[exec.run]
      /\ Earlier(Kind[exec.run], n) \subseteq done[exec.run]
  BY DEF EvidenceInv, TasksInv, Ready
<1>2. ~ (Stage[m] < Stage[n]) /\ ~ (Stage[n] < Stage[m])
  BY <1>1 DEF Earlier
<1>3. Stage[m] \in Nat /\ Stage[n] \in Nat
  BY GraphAssumption
<1>4. Stage[m] = Stage[n]
  BY <1>2, <1>3
<1> QED
  BY <1>1, <1>4 DEF Sequential

(* What is claimed of runs that are not stopped, but for who executes them. *)
LoneRest == LoneInv /\ OpenInv /\ BudgetInv /\ SuccessIsUnique

NothingSucceeds ==
  \A i \in DOMAIN invocations' :
    Succeeded(i)' => /\ i \in DOMAIN invocations /\ Succeeded(i)
                     /\ invocations'[i].run = invocations[i].run
                     /\ invocations'[i].node = invocations[i].node

(* A quiet transaction makes no call and decides none.                      *)
LEMMA QuietNothing ==
  ASSUME Quiet
  PROVE  /\ ControlsKept /\ NothingSucceeds
         /\ \A r : Usage(r)' = Usage(r)
         /\ \A r \in Runs : rows'[r].budget = rows[r].budget
<1>1. \A r : Usage(r)' = Usage(r)
  BY UsageStays DEF Quiet, CallsQuiet
<1> QED
  BY <1>1 DEF Quiet, CallsQuiet, RowsQuiet, NothingSucceeds

(* No result is there that was not there before.                            *)
LEMMA ReplayableFewer ==
  ASSUME NothingSucceeds, NEW r, NEW n, Replayable(r, n)'
  PROVE  Replayable(r, n)
<1>1. PICK i \in DOMAIN invocations' :
        invocations'[i].run = r /\ invocations'[i].node = n /\ Succeeded(i)'
  BY DEF Replayable, CallsOf, Succeeded
<1> QED
  BY <1>1 DEF NothingSucceeds, Replayable, CallsOf, Succeeded

(* An action that makes no call and lets none succeed, and passes none      *)
(* through the check but within the budget.                                 *)
LEMMA QuietLone ==
  ASSUME IInv, StoreInv', LoneRest, ControlsKept, NothingSucceeds,
         \A r \in Runs : Usage(r)' = Usage(r),
         \A r \in Runs : rows'[r].budget = rows[r].budget \/ Usage(r) <= rows'[r].budget,
         \A o \in orphans' : o.txn \in {"call", "save"} => o \in orphans,
         proc = "stopping" => proc' = "stopping" \/ orphans' = {},
         \A n \in Nodes : Pc(n)' \in {"open", "save"} =>
                            exec'.run = exec.run /\ Pc(n) \in {"open", "save"},
         \A n \in Nodes : Pc(n)' \in {"start", "call"} =>
                            /\ exec'.run = exec.run
                            /\ \/ Pc(n) \in {"start", "call"}
                               \/ Usage(exec.run) <= rows'[exec.run].budget
  PROVE  LoneRest'
<1>1. LoneInv'
  <2>1. ASSUME NEW o \in orphans', o.txn \in {"call", "save"}, Lone(o.run)'
        PROVE  o \in orphans /\ Lone(o.run) /\ proc' = "stopping"
    <3>1. o \in orphans /\ Lone(o.run)
      BY <2>1, StopsStay
    <3> QED
      BY <2>1, <3>1 DEF LoneRest, LoneInv
  <2>2. ASSUME NEW o \in orphans', NEW p \in orphans', o.txn \in {"call", "save"},
               p.txn = o.txn, p.run = o.run, Lone(o.run)'
        PROVE  o = p
    <3>1. o \in orphans /\ p \in orphans /\ Lone(o.run)
      BY <2>1, <2>2
    <3> QED
      BY <2>2, <3>1 DEF LoneRest, LoneInv
  <2> QED
    BY <2>1, <2>2 DEF LoneInv
<1>2. OpenInv'
  <2>1. ASSUME NEW n \in Nodes, Pc(n)' \in {"open", "save"}, Lone(exec.run)',
               Replayable(exec.run, n)'
        PROVE  FALSE
    <3>1. PICK r : r = exec.run
      OBVIOUS
    <3>2. Pc(n) \in {"open", "save"} /\ Lone(r) /\ Replayable(r, n)
      <4>1. Lone(r)' /\ Replayable(r, n)'
        BY <2>1, <3>1 DEF Lone, Replayable, CallsOf, StopApplied
      <4> QED
        BY <2>1, <4>1, StopsStay, ReplayableFewer
    <3> QED
      BY <3>1, <3>2 DEF LoneRest, OpenInv
  <2>2. ASSUME NEW o \in orphans', o.txn = "save", Lone(o.run)', Replayable(o.run, o.node)'
        PROVE  FALSE
    BY <2>2, StopsStay, ReplayableFewer DEF LoneRest, OpenInv
  <2> QED
    BY <2>1, <2>2 DEF OpenInv
<1>3. BudgetInv'
  <2> SUFFICES ASSUME NEW r \in Runs, Lone(r)'
               PROVE  /\ Usage(r)' <= rows'[r].budget + 1
                      /\ Passed(r)' => Usage(r)' <= rows'[r].budget
    BY DEF BudgetInv
  <2>1. /\ Lone(r) /\ Usage(r)' = Usage(r)
        /\ Usage(r) <= rows[r].budget + 1 /\ (Passed(r) => Usage(r) <= rows[r].budget)
        /\ rows'[r].budget = rows[r].budget \/ Usage(r) <= rows'[r].budget
    BY StopsStay DEF LoneRest, BudgetInv
  <2>2. Usage(r) \in Nat /\ rows'[r].budget \in Nat
    BY <2>1, UsageNat, IInvTypes DEF StoreInv, StoreTypeOK, Row
  <2>3. Usage(r)' <= rows'[r].budget + 1
    BY <2>1, <2>2
  <2>4. ASSUME Passed(r)'
        PROVE  Passed(r) \/ Usage(r) <= rows'[r].budget
    BY <2>4 DEF Passed
  <2> QED
    BY <2>1, <2>3, <2>4
<1>4. SuccessIsUnique'
  <2> SUFFICES ASSUME NEW i \in DOMAIN invocations', NEW j \in DOMAIN invocations',
                      Succeeded(i)', Succeeded(j)',
                      invocations'[i].run = invocations'[j].run,
                      invocations'[i].node = invocations'[j].node,
                      Lone(invocations[i].run)'
               PROVE  i = j
    BY DEF SuccessIsUnique, Succeeded, Lone
  <2>1. /\ i \in DOMAIN invocations /\ Succeeded(i) /\ j \in DOMAIN invocations /\ Succeeded(j)
        /\ invocations[i].run = invocations[j].run /\ invocations[i].node = invocations[j].node
        /\ invocations'[i].run = invocations[i].run
    BY DEF NothingSucceeds
  <2>2. Lone(invocations[i].run)
    <3>1. PICK r : r = invocations[i].run
      OBVIOUS
    <3>2. Lone(r)'
      BY <2>1, <3>1 DEF Lone, StopApplied
    <3> QED
      BY <3>1, <3>2, StopsStay DEF Lone, StopApplied
  <2> QED
    BY <2>1, <2>2 DEF LoneRest, SuccessIsUnique, Succeeded, Lone
<1> QED
  BY <1>1, <1>2, <1>3, <1>4 DEF LoneRest

(* A result is saved where there was none.                                  *)
LEMMA SaveLone ==
  ASSUME IInv, StoreInv', LoneRest, ControlsKept, NEW i, NEW r, NEW m, IsCall(i, r, m),
         CallRows(i, "SUCCEEDED"), Lone(r) => ~ Replayable(r, m),
         orphans' \subseteq orphans, proc' = proc, exec'.run = exec.run,
         \A n \in Nodes : Pc(n)' \in {"open", "save"} =>
           /\ Pc(n) \in {"open", "save"}
           /\ Lone(r) => ~ (exec.run = r /\ n = m),
         \A n \in Nodes : Pc(n)' \in {"start", "call"} => Pc(n) \in {"start", "call"},
         Lone(r) => \A o \in orphans' : o.txn = "save" /\ o.run = r => o.node # m
  PROVE  LoneRest'
<1>1. /\ DOMAIN invocations' = DOMAIN invocations
      /\ \A j \in DOMAIN invocations : /\ invocations'[j].run = invocations[j].run
                                       /\ invocations'[j].node = invocations[j].node
                                       /\ j # i => (Succeeded(j)' <=> Succeeded(j))
      /\ rows' = rows
  BY IInvTypes, CallRowsGrow DEF IsCall, CallRows
<1>2. ASSUME NEW q, NEW n, Replayable(q, n)'
      PROVE  Replayable(q, n) \/ (q = r /\ n = m)
  BY <1>1, <1>2 DEF Replayable, CallsOf, Succeeded, IsCall
<1>3. LoneInv'
  BY StopsStay DEF LoneRest, LoneInv
<1>4. OpenInv'
  <2>1. ASSUME NEW n \in Nodes, Pc(n)' \in {"open", "save"}, Lone(exec.run)',
               Replayable(exec.run, n)'
        PROVE  FALSE
    <3>1. PICK q : q = exec.run
      OBVIOUS
    <3>2. Lone(q)' /\ Replayable(q, n)'
      BY <2>1, <3>1 DEF Lone, Replayable, CallsOf, StopApplied
    <3>3. Lone(q) /\ ~ Replayable(q, n)
      BY <2>1, <3>1, <3>2, StopsStay DEF LoneRest, OpenInv
    <3> QED
      BY <1>2, <2>1, <3>1, <3>2, <3>3
  <2>2. ASSUME NEW o \in orphans', o.txn = "save", Lone(o.run)', Replayable(o.run, o.node)'
        PROVE  FALSE
    <3>1. Lone(o.run) /\ ~ Replayable(o.run, o.node)
      BY <2>2, StopsStay DEF LoneRest, OpenInv
    <3> QED
      BY <1>2, <2>2, <3>1
  <2> QED
    BY <2>1, <2>2 DEF OpenInv
<1>5. BudgetInv'
  <2> SUFFICES ASSUME NEW q \in Runs, Lone(q)'
               PROVE  /\ Usage(q)' <= rows'[q].budget + 1
                      /\ Passed(q)' => Usage(q)' <= rows'[q].budget
    BY DEF BudgetInv
  <2>1. Lone(q) /\ Usage(q)' = Usage(q)
    BY <1>1, StopsStay, UsageStays
  <2>2. Passed(q)' => Passed(q)
    BY DEF Passed
  <2> QED
    BY <1>1, <2>1, <2>2 DEF LoneRest, BudgetInv
<1>6. SuccessIsUnique'
  <2> SUFFICES ASSUME NEW j \in DOMAIN invocations', NEW k \in DOMAIN invocations',
                      Succeeded(j)', Succeeded(k)', NEW q, NEW n, IsCall(j, q, n)',
                      IsCall(k, q, n)', Lone(q)'
               PROVE  j = k
    BY DEF SuccessIsUnique, Succeeded, Lone, IsCall, StopApplied
  <2>1. Lone(q) /\ IsCall(j, q, n) /\ IsCall(k, q, n)
    BY <1>1, StopsStay DEF IsCall
  <2>2. CASE j # i /\ k # i
    BY <1>1, <2>1, <2>2 DEF LoneRest, SuccessIsUnique, Succeeded, Lone, IsCall
  <2>3. ASSUME j = i \/ k = i, j # k
        PROVE  FALSE
    <3>1. q = r /\ n = m
      BY <2>1, <2>3 DEF IsCall
    <3>2. Replayable(q, n)
      BY <1>1, <2>1, <2>3 DEF Replayable, CallsOf, IsCall, Succeeded
    <3> QED
      BY <2>1, <3>1, <3>2
  <2> QED
    BY <2>2, <2>3
<1> QED
  BY <1>3, <1>4, <1>5, <1>6 DEF LoneRest

(* A call is recorded by who has passed the check.                          *)
LEMMA CallLone ==
  ASSUME IInv, StoreInv', LoneRest, ControlsKept, NEW r \in Runs, NEW m \in Nodes,
         StartCallRows(r, m), Lone(r) => Passed(r) /\ ~ Passed(r)',
         orphans' \subseteq orphans, proc' = proc, exec'.run = exec.run,
         \A n \in Nodes : Pc(n)' \in {"open", "save"} =>
           \/ Pc(n) \in {"open", "save"}
           \/ n = m /\ exec.run = r /\ ~ Replayable(r, m),
         \A n \in Nodes : Pc(n)' \in {"start", "call"} => Pc(n) \in {"start", "call"}
  PROVE  LoneRest'
<1>1. PICK i : i = Len(invocations) + 1
  OBVIOUS
<1>2. /\ DOMAIN invocations' = DOMAIN invocations \cup {i} /\ i \notin DOMAIN invocations
      /\ IsCall(i, r, m)' /\ ~ Succeeded(i)' /\ rows' = rows
      /\ \A j \in DOMAIN invocations : invocations'[j].run = invocations[j].run
      /\ CallsGrow({})
  BY <1>1, IInvTypes, StartCallGrows DEF StartCallRows, CallsGrow
<1>3. NothingSucceeds
  BY <1>2 DEF NothingSucceeds, CallsGrow
<1>4. Usage(r)' = Usage(r) + 1
  <2>1. CallsOf(r)' = CallsOf(r) \cup {i} /\ i \notin CallsOf(r)
    BY <1>2 DEF CallsOf, IsCall
  <2>2. IsFiniteSet(CallsOf(r))
    BY IInvTypes, UsageNat
  <2>3. Cardinality(CallsOf(r) \cup {i}) = Cardinality(CallsOf(r)) + 1
    BY <2>1, <2>2, FS_AddElement
  <2> QED
    BY <2>1, <2>3 DEF Usage
<1>5. ASSUME NEW q, q # r
      PROVE  Usage(q)' = Usage(q)
  <2>1. CallsOf(q)' = CallsOf(q)
    BY <1>2, <1>5 DEF CallsOf, IsCall
  <2> QED
    BY <2>1 DEF Usage
<1>6. LoneInv'
  BY StopsStay DEF LoneRest, LoneInv
<1>7. OpenInv'
  <2>1. ASSUME NEW n \in Nodes, Pc(n)' \in {"open", "save"}, Lone(exec.run)',
               Replayable(exec.run, n)'
        PROVE  FALSE
    <3>1. PICK q : q = exec.run
      OBVIOUS
    <3>2. Lone(q)' /\ Replayable(q, n)'
      BY <2>1, <3>1 DEF Lone, Replayable, CallsOf, StopApplied
    <3>3. Lone(q) /\ Replayable(q, n)
      BY <1>3, <3>2, StopsStay, ReplayableFewer
    <3> QED
      BY <2>1, <3>1, <3>3 DEF LoneRest, OpenInv
  <2>2. ASSUME NEW o \in orphans', o.txn = "save", Lone(o.run)', Replayable(o.run, o.node)'
        PROVE  FALSE
    BY <1>3, <2>2, StopsStay, ReplayableFewer DEF LoneRest, OpenInv
  <2> QED
    BY <2>1, <2>2 DEF OpenInv
<1>8. BudgetInv'
  <2> SUFFICES ASSUME NEW q \in Runs, Lone(q)'
               PROVE  /\ Usage(q)' <= rows'[q].budget + 1
                      /\ Passed(q)' => Usage(q)' <= rows'[q].budget
    BY DEF BudgetInv
  <2>1. /\ Lone(q) /\ Usage(q) <= rows[q].budget + 1
        /\ Passed(q) => Usage(q) <= rows[q].budget
    BY StopsStay DEF LoneRest, BudgetInv
  <2>2. CASE q = r
    <3>1. ~ Passed(q)' /\ Usage(q)' = Usage(q) + 1 /\ Usage(q) <= rows[q].budget
      BY <1>4, <2>1, <2>2
    <3>2. Usage(q) \in Nat /\ rows[q].budget \in Nat
      BY IInvTypes, UsageNat DEF StoreInv, StoreTypeOK, Row
    <3> QED
      BY <1>2, <3>1, <3>2
  <2>3. CASE q # r
    <3>1. Passed(q)' => Passed(q)
      BY DEF Passed
    <3> QED
      BY <1>2, <1>5, <2>1, <2>3, <3>1
  <2> QED
    BY <2>2, <2>3
<1>9. SuccessIsUnique'
  <2> SUFFICES ASSUME NEW j \in DOMAIN invocations', NEW k \in DOMAIN invocations',
                      Succeeded(j)', Succeeded(k)', NEW q, NEW n, IsCall(j, q, n)',
                      IsCall(k, q, n)', Lone(q)'
               PROVE  j = k
    BY DEF SuccessIsUnique, Succeeded, Lone, IsCall, StopApplied
  <2>1. /\ Lone(q) /\ IsCall(j, q, n) /\ IsCall(k, q, n) /\ Succeeded(j) /\ Succeeded(k)
    BY <1>3, StopsStay DEF IsCall, NothingSucceeds
  <2> QED
    BY <2>1 DEF LoneRest, SuccessIsUnique, Succeeded, Lone, IsCall
<1> QED
  BY <1>6, <1>7, <1>8, <1>9 DEF LoneRest

(* A cancellation leaves no thread of such a run behind, or shuts down.     *)
LEMMA CancelLone ==
  ASSUME IInv, StoreInv', EvidenceInv, LoneRest, ControlsKept, UNCHANGED durable,
         proc = "up", exec.run \in Runs,
         \A n \in Nodes : Pc(n)' \in {"idle", "abort"},
         \A o \in orphans' : o.txn \in {"call", "save"} =>
                               o \in orphans \cup LeftThreads(exec.run),
         \/ Lone(exec.run) => LeftThreads(exec.run) = {}
         \/ proc' = "stopping"
  PROVE  LoneRest'
<1>1. /\ \A q : Usage(q)' = Usage(q)
      /\ \A q, n : Replayable(q, n)' <=> Replayable(q, n)
      /\ rows' = rows /\ invocations' = invocations
  BY DEF durable, Usage, CallsOf, Replayable
<1>2. ASSUME NEW o \in orphans', o.txn \in {"call", "save"}, Lone(o.run)'
      PROVE  /\ proc' = "stopping" /\ o.run = exec.run /\ Lone(exec.run)
             /\ \E n \in Nodes :
                  /\ Pc(n) = o.txn
                  /\ o = [run |-> exec.run, txn |-> Pc(n), node |-> n, call |-> task[n].call]
  <2>1. Lone(o.run)
    BY <1>2, StopsStay
  <2>2. o \notin orphans
    BY <1>2, <2>1 DEF LoneRest, LoneInv
  <2>3. o \in LeftThreads(exec.run)
    BY <1>2, <2>2
  <2>4. PICK n \in Nodes :
          o = [run |-> exec.run, txn |-> Pc(n), node |-> n, call |-> task[n].call]
    BY <2>3 DEF LeftThreads
  <2> QED
    BY <2>1, <2>3, <2>4
<1>3. LoneInv'
  <2>1. ASSUME NEW o \in orphans', NEW p \in orphans', o.txn \in {"call", "save"},
               p.txn = o.txn, p.run = o.run, Lone(o.run)'
        PROVE  o = p
    <3>1. Lone(p.run)'
      BY <2>1 DEF Lone, StopApplied
    <3>2. PICK m \in Nodes :
            /\ Pc(m) = o.txn
            /\ o = [run |-> exec.run, txn |-> Pc(m), node |-> m, call |-> task[m].call]
      BY <1>2, <2>1
    <3>3. PICK n \in Nodes :
            /\ Pc(n) = p.txn
            /\ p = [run |-> exec.run, txn |-> Pc(n), node |-> n, call |-> task[n].call]
      BY <1>2, <2>1, <3>1
    <3>4. Sequential(Kind[exec.run]) /\ Pc(m) # "idle" /\ Pc(n) # "idle"
      BY <1>2, <2>1, <3>2, <3>3 DEF Lone
    <3>5. m = n
      BY <3>4, OneTask
    <3> QED
      BY <3>2, <3>3, <3>5
  <2> QED
    BY <1>2, <2>1 DEF LoneInv
<1>4. OpenInv'
  <2>1. ASSUME NEW o \in orphans', o.txn = "save", Lone(o.run)'
        PROVE  ~ Replayable(o.run, o.node)'
    <3>1. PICK n \in Nodes :
            /\ Pc(n) = o.txn /\ Lone(exec.run)
            /\ o = [run |-> exec.run, txn |-> Pc(n), node |-> n, call |-> task[n].call]
      BY <1>2, <2>1
    <3>2. ~ Replayable(exec.run, n) /\ o.run = exec.run /\ o.node = n
      BY <2>1, <3>1 DEF LoneRest, OpenInv
    <3>3. ~ Replayable(o.run, o.node)
      BY <3>2
    <3> QED
      BY <1>1, <3>3
  <2> QED
    BY <2>1 DEF OpenInv
<1>5. BudgetInv'
  <2> SUFFICES ASSUME NEW q \in Runs, Lone(q)'
               PROVE  /\ Usage(q)' <= rows'[q].budget + 1
                      /\ Passed(q)' => Usage(q)' <= rows'[q].budget
    BY DEF BudgetInv
  <2>1. Lone(q)
    BY StopsStay
  <2>2. ASSUME Passed(q)'
        PROVE  Passed(q)
    <3>1. PICK o \in orphans' : o.txn = "call" /\ o.run = q
      BY <2>2 DEF Passed
    <3>2. Lone(o.run)'
      BY <3>1 DEF Lone, StopApplied
    <3> QED
      BY <1>2, <3>1, <3>2 DEF Passed
  <2> QED
    BY <1>1, <2>1, <2>2 DEF LoneRest, BudgetInv
<1>6. SuccessIsUnique'
  <2>1. \A q : StopApplied(q)' <=> StopApplied(q)
    BY DEF StopApplied, durable
  <2> QED
    BY <1>1, <2>1 DEF LoneRest, SuccessIsUnique, StopApplied, durable
<1> QED
  BY <1>3, <1>4, <1>5, <1>6 DEF LoneRest

(* Late threads that call or save are no more, but when nothing is left.    *)
LateFewer ==
  /\ \A o \in orphans' : o.txn \in {"call", "save"} => o \in orphans
  /\ proc = "stopping" => proc' = "stopping" \/ orphans' = {}

(* A quiet step that leaves the tasks alone, or finds or makes them idle.   *)
LEMMA RestingLone ==
  ASSUME IInv, StoreInv', LoneRest, Quiet, LateFewer,
         (task' = task /\ exec'.run = exec.run) \/ TasksIdle'
  PROVE  LoneRest'
<1>1. \A n \in Nodes : Pc(n)' # "idle" => exec'.run = exec.run /\ Pc(n)' = Pc(n)
  BY DEF TasksIdle, Pc
<1>2. /\ \A n \in Nodes : Pc(n)' \in {"open", "save"} =>
                            exec'.run = exec.run /\ Pc(n) \in {"open", "save"}
      /\ \A n \in Nodes : Pc(n)' \in {"start", "call"} =>
                            exec'.run = exec.run /\ Pc(n) \in {"start", "call"}
  BY <1>1
<1> QED
  BY <1>2, QuietNothing, QuietLone DEF LateFewer

(* The claim of a run, and the steps of its execution.                      *)
LEMMA ExecutionLone ==
  ASSUME IInv, StoreInv', EvidenceInv, LoneRest,
         ExecutionStep \/ \E r \in Runs : Claim(r)
  PROVE  LoneRest'
<1>1. StoreInv /\ (exec.phase # "idle" => exec.run \in Runs)
  BY IInvTypes
<1>2. /\ UNCHANGED orphans /\ LateFewer
  <2>1. UNCHANGED <<orphans, proc>>
    BY DEF ExecutionStep, Claim, Begin, Recover, Launch, Cancelled, ExecutionBoundary,
           SyncCheckpoint, Finish, FailRun, Settle
  <2> QED
    BY <2>1 DEF LateFewer
<1>3. ASSUME Quiet, task' = task,
             \/ exec.phase \notin {"graph", "signal", "error", "cancelled"}
             \/ exec.phase # "graph" /\ Joined
      PROVE  LoneRest'
  <2>1. TasksIdle'
    BY <1>3, NothingRuns DEF EvidenceInv, TasksIdle, Pc
  <2> QED
    BY <1>2, <1>3, <2>1, RestingLone
<1>4. CASE Begin \/ Cancelled \/ ExecutionBoundary
  <2>1. /\ UNCHANGED durable /\ task' = task
        /\ exec.phase \in {"begin", "boundary"} \/ (exec.phase = "cancelled" /\ Joined)
    BY <1>4 DEF Begin, Cancelled, ExecutionBoundary, Phase
  <2> QED
    BY <1>3, <2>1, NothingQuiet
<1>5. CASE Recover
  BY <1>1, <1>3, <1>5, RecoverRowsQuiet DEF Recover, Phase
<1>6. CASE Launch
  <2> DEFINE ready == {n \in NodesOf[Kind[exec.run]] : Ready(n)}
  <2>1. Quiet
    BY <1>6, NothingQuiet DEF Launch
  <2>2. CASE ready = {}
    <3>1. TasksIdle'
      BY <1>6, <2>2 DEF Launch, TasksIdle, Pc, NoTasks, NoTask
    <3> QED
      BY <1>2, <2>1, <3>1, RestingLone
  <2>3. CASE ready # {}
    <3>1. ASSUME NEW n \in Nodes
          PROVE  Pc(n)' \in {"check", "idle"}
      BY <1>6, <2>3 DEF Launch, Pc, NoTask
    <3> QED
      BY <1>2, <2>1, <3>1, QuietNothing, QuietLone DEF LateFewer
  <2> QED
    BY <2>2, <2>3
<1>7. CASE SyncCheckpoint
  <2>1. exec.run \in Runs
    BY <1>1, <1>7 DEF SyncCheckpoint, Phase
  <2>2. Quiet
    BY <1>1, <1>7, <2>1, SyncQuiet
  <2> QED
    BY <1>3, <1>7, <2>2 DEF SyncCheckpoint, Phase
<1>8. CASE Finish
  BY <1>1, <1>3, <1>8, FinishRowsQuiet DEF Finish, Phase
<1>9. CASE FailRun
  BY <1>1, <1>3, <1>9, FailRowsQuiet DEF FailRun, Phase
<1>10. CASE Settle
  <2>1. task' = task /\ exec.phase = "settle"
    BY <1>10 DEF Settle, Phase
  <2> QED
    BY <1>1, <1>3, <1>10, <2>1, SettleQuiet
<1>11. ASSUME NEW r \in Runs, Claim(r)
       PROVE  LoneRest'
  <2>1. task' = task /\ exec.phase = "idle"
    BY <1>11 DEF Claim, Phase
  <2> QED
    BY <1>1, <1>3, <1>11, <2>1, ClaimQuiet
<1> QED
  BY <1>4, <1>5, <1>6, <1>7, <1>8, <1>9, <1>10, <1>11 DEF ExecutionStep

(* A node task that moves on, writing nothing that counts.                  *)
LEMMA MoveLone ==
  ASSUME IInv, StoreInv', LoneRest, ControlsKept, NothingSucceeds,
         \A r : Usage(r)' = Usage(r), \A r \in Runs : rows'[r].budget = rows[r].budget,
         NEW n \in Nodes, \A m \in Nodes \ {n} : task'[m] = task[m],
         UNCHANGED <<proc, exec, orphans>>,
         Pc(n)' \in {"open", "save"} => Pc(n) \in {"open", "save"},
         Pc(n)' \in {"start", "call"} =>
           \/ Pc(n) \in {"start", "call"}
           \/ Usage(exec.run) <= rows'[exec.run].budget
  PROVE  LoneRest'
<1>1. \A m \in Nodes \ {n} : Pc(m)' = Pc(m)
  BY DEF Pc
<1> QED
  BY <1>1, QuietLone

(* Writing a call that has no result, and gets none.                        *)
LEMMA CloseNothing ==
  ASSUME StoreInv, NEW i \in DOMAIN invocations, CallRows(i, "FAILED")
  PROVE  /\ ControlsKept /\ NothingSucceeds
         /\ \A r : Usage(r)' = Usage(r)
         /\ \A r \in Runs : rows'[r].budget = rows[r].budget
<1>1. UNCHANGED <<rows, controls>>
  BY DEF CallRows
<1>2. /\ DOMAIN invocations' = DOMAIN invocations
      /\ \A j \in DOMAIN invocations : /\ invocations'[j].run = invocations[j].run
                                       /\ invocations'[j].node = invocations[j].node
                                       /\ j # i => (Succeeded(j)' <=> Succeeded(j))
      /\ ~ Succeeded(i)'
  BY CallRowsGrow
<1>3. \A r : Usage(r)' = Usage(r)
  BY <1>2, UsageStays
<1> QED
  BY <1>1, <1>2, <1>3, ControlsSameKept DEF NothingSucceeds

(* A thread of such a run is late only when no graph runs.                  *)
LEMMA NoLateThread ==
  ASSUME IInv, EvidenceInv, CancelsInv, LoneRest, NEW n \in Nodes,
         Pc(n) \notin {"idle", "abort"}, NEW o \in orphans, o.txn \in {"call", "save"}
  PROVE  ~ Lone(o.run)
<1>1. proc = "up"
  BY GraphRuns
<1> QED
  BY <1>1 DEF LoneRest, LoneInv

(* A call is started by the one task that passed its check.                 *)
LEMMA StartCallLone ==
  ASSUME IInv, StoreInv', EvidenceInv, CancelsInv, LoneRest, ControlsKept,
         NEW n \in Nodes, StartCall(n)
  PROVE  LoneRest'
<1>1. /\ exec.run \in Runs /\ Pc(n) = "call" /\ ~ Replayable(exec.run, n)
      /\ UNCHANGED <<proc, exec, orphans>> /\ StartCallRows(exec.run, n)
  BY InGraphFacts DEF StartCall
<1>2. PICK r, i : r = exec.run /\ i = Len(invocations) + 1
  OBVIOUS
<1> DEFINE t == [task[n] EXCEPT !.pc = "open", !.call = i]
<1>3. t.pc = "open"
  BY <1>1, InGraphFacts
<1>4. task' = [task EXCEPT ![n] = t]
  BY <1>2 DEF StartCall
<1> HIDE DEF t
<1>5. Pc(n)' = "open" /\ \A m \in Nodes \ {n} : Pc(m)' = Pc(m)
  BY <1>3, <1>4, TaskSetFacts DEF Pc
<1>6. ASSUME Lone(r)
      PROVE  Passed(r) /\ ~ Passed(r)'
  <2>1. Passed(r)
    BY <1>1, <1>2 DEF Passed
  <2>2. ASSUME NEW m \in Nodes, Pc(m)' \in {"start", "call"}
        PROVE  FALSE
    <3>1. m # n /\ Pc(m) # "idle" /\ Pc(n) # "idle"
      BY <1>1, <1>5, <2>2
    <3>2. Sequential(Kind[exec.run])
      BY <1>2, <1>6 DEF Lone
    <3> QED
      BY <3>1, <3>2, OneTask
  <2>3. ASSUME NEW o \in orphans', o.txn = "call", o.run = r
        PROVE  FALSE
    BY <1>1, <1>6, <2>3, NoLateThread
  <2> QED
    BY <2>1, <2>2, <2>3 DEF Passed
<1>7. orphans' \subseteq orphans
  BY <1>1
<1>8. /\ \A m \in Nodes : Pc(m)' \in {"open", "save"} =>
           \/ Pc(m) \in {"open", "save"}
           \/ m = n /\ exec.run = r /\ ~ Replayable(r, n)
      /\ \A m \in Nodes : Pc(m)' \in {"start", "call"} => Pc(m) \in {"start", "call"}
  BY <1>1, <1>2, <1>5
<1>9. r \in Runs /\ StartCallRows(r, n) /\ proc' = proc /\ exec'.run = exec.run
  BY <1>1, <1>2
<1> QED
  BY <1>6, <1>7, <1>8, <1>9, CallLone

(* A result is saved by the one task that called.                           *)
LEMMA SaveCallLone ==
  ASSUME IInv, StoreInv', EvidenceInv, CancelsInv, LoneRest, ControlsKept,
         NEW n \in Nodes, SaveCall(n)
  PROVE  LoneRest'
<1>1. /\ exec.run \in Runs /\ Pc(n) = "save" /\ UNCHANGED <<proc, exec, orphans>>
      /\ CallRows(task[n].call, "SUCCEEDED") /\ ToPc(n, "saved")
  BY InGraphFacts DEF SaveCall
<1>2. PICK r, i : r = exec.run /\ i = task[n].call
  OBVIOUS
<1>3. IsCall(i, r, n)
  BY <1>1, <1>2 DEF EvidenceInv, TasksInv, Owning
<1>4. Pc(n)' = "saved" /\ \A m \in Nodes \ {n} : Pc(m)' = Pc(m)
  BY <1>1, ToPcFacts DEF Pc
<1>5. Lone(r) => ~ Replayable(r, n)
  BY <1>1, <1>2 DEF LoneRest, OpenInv
<1>6. Lone(r) => \A o \in orphans' : o.txn = "save" /\ o.run = r => o.node # n
  BY <1>1, NoLateThread
<1>7. /\ \A m \in Nodes : Pc(m)' \in {"open", "save"} => m # n /\ Pc(m) \in {"open", "save"}
      /\ \A m \in Nodes : Pc(m)' \in {"start", "call"} => Pc(m) \in {"start", "call"}
  BY <1>4
<1>8. /\ CallRows(i, "SUCCEEDED") /\ orphans' \subseteq orphans /\ proc' = proc
      /\ exec'.run = exec.run
  BY <1>1, <1>2
<1> QED
  BY <1>3, <1>5, <1>6, <1>7, <1>8, SaveLone

(* A node raised: no database thread is left behind.                        *)
LEMMA RaiseLone ==
  ASSUME IInv, StoreInv', EvidenceInv, CancelsInv, LoneRest, ControlsKept,
         NEW n \in Nodes, Raise(n)
  PROVE  LoneRest'
<1>1. /\ exec.run \in Runs /\ Pc(n) \in Raised /\ UNCHANGED durable
      /\ task' = CancelledTasks /\ orphans' = orphans \cup LeftThreads(exec.run)
  BY InGraphFacts DEF Raise
<1>2. proc = "up"
  BY <1>1, GraphRuns DEF Raised
<1>3. \A m \in Nodes : Pc(m)' \in {"idle", "abort"}
  BY <1>1, CancelledTask
<1>4. ASSUME Lone(exec.run), NEW o \in LeftThreads(exec.run)
      PROVE  FALSE
  <2>1. PICK m \in Nodes : Pc(m) \in ThreadPcs
    BY <1>4 DEF LeftThreads
  <2>2. m = n
    BY <1>1, <1>4, <2>1, OneTask DEF Lone, Raised, ThreadPcs
  <2> QED
    BY <1>1, <2>1, <2>2 DEF Raised, ThreadPcs
<1>5. Lone(exec.run) => LeftThreads(exec.run) = {}
  BY <1>4
<1> QED
  BY <1>1, <1>2, <1>3, <1>5, CancelLone

(* The steps of a node.                                                     *)
LEMMA NodeStepLone ==
  ASSUME IInv, StoreInv', EvidenceInv, CancelsInv, LoneRest, ControlsKept,
         NEW n \in Nodes, NodeStep(n)
  PROVE  LoneRest'
<1>1. StoreInv
  BY IInvTypes
<1>2. ASSUME Quiet, NEW pc, ToPc(n, pc), UNCHANGED <<proc, exec, orphans>>,
             pc \in {"open", "save"} => Pc(n) \in {"open", "save"},
             pc \in {"start", "call"} =>
               Pc(n) \in {"start", "call"} \/ Usage(exec.run) <= rows'[exec.run].budget
      PROVE  LoneRest'
  BY <1>2, QuietNothing, ToPcFacts, MoveLone
<1>3. CASE CheckNode(n)
  <2>1. exec.run \in Runs /\ UNCHANGED <<proc, exec, orphans>>
    BY <1>3, InGraphFacts DEF CheckNode
  <2>2. PICK verdict \in {"go", "paused", "stopped"} :
          /\ BeforeNode(exec.run, n, verdict)
          /\ ToPc(n, IF verdict = "go" THEN "start" ELSE verdict)
    BY <1>3 DEF CheckNode
  <2>3. Quiet /\ (verdict = "go" => Usage(exec.run) + 1 <= rows[exec.run].budget)
    BY <1>1, <2>1, <2>2, BeforeNodeQuiet
  <2>4. CASE verdict = "go"
    <3>1. Usage(exec.run) \in Nat /\ rows[exec.run].budget \in Nat
      BY <1>1, <2>1, UsageNat DEF StoreInv, StoreTypeOK, Row
    <3>2. rows'[exec.run].budget = rows[exec.run].budget
      BY <2>1, <2>3, QuietNothing
    <3>3. Usage(exec.run) <= rows'[exec.run].budget
      BY <2>3, <2>4, <3>1, <3>2
    <3> QED
      BY <1>2, <2>1, <2>2, <2>3, <2>4, <3>3
  <2>5. CASE verdict # "go"
    <3>1. ToPc(n, verdict) /\ verdict \in {"paused", "stopped"}
      BY <2>2, <2>5
    <3> QED
      BY <1>2, <2>1, <2>3, <3>1
  <2> QED
    BY <2>4, <2>5
<1>4. CASE StartNode(n)
  <2>1. /\ exec.run \in Runs /\ UNCHANGED <<proc, exec, orphans>> /\ Pc(n) = "start"
        /\ ToPc(n, "call") /\ StartRows(exec.run, n)
    BY <1>4, InGraphFacts DEF StartNode
  <2>2. Quiet
    BY <1>1, <2>1, StartRowsQuiet
  <2> QED
    BY <1>2, <2>1, <2>2
<1>5. CASE MissingInputs(n) \/ Replay(n)
  <2>1. PICK pc \in {"error", "output"} :
          ToPc(n, pc) /\ UNCHANGED <<durable, proc, exec, orphans>>
    BY <1>5 DEF MissingInputs, Replay
  <2> QED
    BY <1>2, <2>1, NothingQuiet
<1>6. CASE Answer(n) \/ ReceiveOutput(n)
  <2>1. PICK pc \in {"save", "fail", "output"} :
          /\ ToPc(n, pc) /\ UNCHANGED <<durable, proc, exec, orphans>>
          /\ pc = "save" => Pc(n) = "open"
    BY <1>6 DEF Answer, ReceiveOutput
  <2> QED
    BY <1>2, <2>1, NothingQuiet
<1>7. CASE FailCall(n)
  <2>1. /\ Pc(n) = "fail" /\ UNCHANGED <<proc, exec, orphans>>
        /\ CallRows(task[n].call, "FAILED")
    BY <1>7 DEF FailCall
  <2>2. task[n].call \in DOMAIN invocations
    BY <2>1 DEF EvidenceInv, TasksInv, Owning, IsCall
  <2>3. Pc(n)' \in {"check", "error"} /\ \A m \in Nodes \ {n} : task'[m] = task[m]
    <3> DEFINE t == [pc |-> "check", call |-> 0, tries |-> task[n].tries + 1]
    <3>1. t.pc = "check"
      OBVIOUS
    <3>2. task' = [task EXCEPT ![n] = t] \/ ToPc(n, "error")
      BY <1>7 DEF FailCall
    <3> HIDE DEF t
    <3> QED
      BY <3>1, <3>2, TaskSetFacts, ToPcFacts DEF Pc
  <2> QED
    BY <1>1, <2>1, <2>2, <2>3, CloseNothing, MoveLone
<1>8. CASE CompleteNode(n)
  <2>1. /\ UNCHANGED <<rows, invocations, controls, proc, exec, orphans>>
        /\ task' = [task EXCEPT ![n] = NoTask]
    BY <1>8 DEF CompleteNode
  <2>2. /\ NothingSucceeds /\ \A r : Usage(r)' = Usage(r)
    BY <2>1, UsageStays DEF NothingSucceeds, Succeeded
  <2>3. Pc(n)' = "idle" /\ \A m \in Nodes \ {n} : task'[m] = task[m]
    <3>1. NoTask.pc = "idle"
      BY DEF NoTask
    <3> QED
      BY <2>1, <3>1, TaskSetFacts DEF Pc
  <2> QED
    BY <2>1, <2>2, <2>3, MoveLone
<1>9. CASE AbortCall(n)
  <2>1. /\ Pc(n) = "abort" /\ CallRows(task[n].call, "FAILED")
        /\ UNCHANGED <<proc, exec, orphans>> /\ task' = [task EXCEPT ![n] = NoTask]
    BY <1>9 DEF AbortCall
  <2>2. task[n].call \in DOMAIN invocations
    BY <2>1 DEF EvidenceInv, TasksInv, Owning, IsCall
  <2>3. Pc(n)' = "idle" /\ \A m \in Nodes \ {n} : task'[m] = task[m]
    <3>1. NoTask.pc = "idle"
      BY DEF NoTask
    <3> QED
      BY <2>1, <3>1, TaskSetFacts DEF Pc
  <2> QED
    BY <1>1, <2>1, <2>2, <2>3, CloseNothing, MoveLone
<1> QED
  BY <1>3, <1>4, <1>5, <1>6, <1>7, <1>8, <1>9, StartCallLone, SaveCallLone, RaiseLone
  DEF NodeStep, OwnStep

(* A late thread commits, or never ran: of such a run there is one at most, *)
(* and its graph does not run.                                              *)
LEMMA OrphanLone ==
  ASSUME IInv, StoreInv', EvidenceInv, CancelsInv, LoneRest, ControlsKept,
         NEW o \in orphans, OrphanCommit(o) \/ OrphanNeverRan(o)
  PROVE  LoneRest'
<1>1. /\ StoreInv /\ o \in Orphan /\ o.run \in Runs /\ (o.txn \in ThreadPcs => o.node \in Nodes)
  BY IInvTypes DEF IInv, RuntimeInv, OrphansFollow, Follows
<1>2. /\ UNCHANGED <<task, exec, proc>> /\ \A n \in Nodes : Pc(n)' = Pc(n)
  BY DEF OrphanCommit, OrphanNeverRan, Pc
<1>3. LateFewer
  <2>1. \A p \in orphans' : p \in orphans \/ p = [o EXCEPT !.txn = "start"]
    BY DEF OrphanCommit, OrphanNeverRan
  <2>2. [o EXCEPT !.txn = "start"].txn = "start"
    BY <1>1 DEF Orphan
  <2> QED
    BY <1>2, <2>1, <2>2 DEF LateFewer
<1>4. CASE Quiet
  BY <1>2, <1>3, <1>4, RestingLone
<1>5. ASSUME o.txn \in {"call", "save"}, Lone(o.run), NEW p \in orphans, p.txn = o.txn,
             p.run = o.run
      PROVE  p = o
  BY <1>5 DEF LoneRest, LoneInv
<1>6. ASSUME o.txn \in {"call", "save"}, Lone(o.run), NEW n \in Nodes
      PROVE  Pc(n) \in {"idle", "abort"}
  BY <1>6, NoLateThread
<1>7. CASE o.txn = "call" /\ StartCallRows(o.run, o.node) /\ orphans' = orphans \ {o}
  <2>1. ASSUME Lone(o.run)
        PROVE  Passed(o.run) /\ ~ Passed(o.run)'
    BY <1>2, <1>5, <1>6, <1>7, <2>1 DEF Passed
  <2>2. o.node \in Nodes /\ orphans' \subseteq orphans
    BY <1>1, <1>7 DEF ThreadPcs
  <2> QED
    BY <1>1, <1>2, <1>7, <2>1, <2>2, CallLone
<1>8. CASE o.txn = "save" /\ CallRows(o.call, "SUCCEEDED") /\ orphans' = orphans \ {o}
  <2>1. IsCall(o.call, o.run, o.node)
    BY <1>8 DEF EvidenceInv, OrphanCallsInv
  <2>2. Lone(o.run) => ~ Replayable(o.run, o.node)
    BY <1>8 DEF LoneRest, OpenInv
  <2>3. Lone(o.run) => \A p \in orphans' : p.txn = "save" /\ p.run = o.run => p.node # o.node
    BY <1>5, <1>8
  <2>4. \A n \in Nodes : Pc(n)' \in {"open", "save"} =>
           /\ Pc(n) \in {"open", "save"}
           /\ Lone(o.run) => ~ (exec.run = o.run /\ n = o.node)
    BY <1>2, <1>6, <1>8
  <2>5. PICK i, r, m : i = o.call /\ r = o.run /\ m = o.node
    OBVIOUS
  <2>6. /\ IsCall(i, r, m) /\ CallRows(i, "SUCCEEDED") /\ (Lone(r) => ~ Replayable(r, m))
        /\ orphans' \subseteq orphans /\ proc' = proc /\ exec'.run = exec.run
        /\ Lone(r) => \A p \in orphans' : p.txn = "save" /\ p.run = r => p.node # m
        /\ \A n \in Nodes : Pc(n)' \in {"open", "save"} =>
             /\ Pc(n) \in {"open", "save"}
             /\ Lone(r) => ~ (exec.run = r /\ n = m)
        /\ \A n \in Nodes : Pc(n)' \in {"start", "call"} => Pc(n) \in {"start", "call"}
    BY <1>2, <1>8, <2>1, <2>2, <2>3, <2>4, <2>5
  <2> QED
    BY <2>6, SaveLone
<1>9. CASE o.txn = "fail" /\ CallRows(o.call, "FAILED") /\ orphans' = orphans \ {o}
  <2>1. o.call \in DOMAIN invocations
    BY <1>9 DEF EvidenceInv, OrphanCallsInv, IsCall
  <2>2. /\ NothingSucceeds /\ \A r : Usage(r)' = Usage(r)
        /\ \A r \in Runs : rows'[r].budget = rows[r].budget
    BY <1>1, <1>9, <2>1, CloseNothing
  <2> QED
    BY <1>2, <1>3, <2>2, QuietLone DEF LateFewer
<1>10. CASE OrphanNeverRan(o)
  BY <1>4, <1>10, NothingQuiet DEF OrphanNeverRan
<1>11. CASE o.txn = "check" /\ \E verdict \in {"go", "paused", "stopped"} :
                                 BeforeNode(o.run, o.node, verdict)
  BY <1>1, <1>4, <1>11, BeforeNodeQuiet DEF ThreadPcs
<1>12. CASE o.txn = "start" /\ StartRows(o.run, o.node)
  BY <1>1, <1>4, <1>12, StartRowsQuiet DEF ThreadPcs
<1>13. CASE o.txn = "recover" /\ RecoverRows(o.run)
  BY <1>1, <1>4, <1>13, RecoverRowsQuiet
<1>14. CASE o.txn = "finish" /\ FinishRows(o.run)
  BY <1>1, <1>4, <1>14, FinishRowsQuiet
<1>15. CASE o.txn = "error" /\ FailRows(o.run)
  BY <1>1, <1>4, <1>15, FailRowsQuiet
<1> QED
  BY <1>7, <1>8, <1>9, <1>10, <1>11, <1>12, <1>13, <1>14, <1>15 DEF OrphanCommit

(* task.cancel() on the execution, of a stopped run or at a shutdown.       *)
LEMMA CancelExecutionLone ==
  ASSUME IInv, StoreInv', EvidenceInv, LoneRest, ControlsKept, CancelExecution,
         exec.run # NoRun, UNCHANGED durable, proc = "up",
         ~ Lone(exec.run) \/ proc' = "stopping"
  PROVE  LoneRest'
<1>1. exec \in Executions /\ exec.run \in Runs
  BY IInvTypes
<1>2. CASE ~ Joined
  <2>1. exec'.run = exec.run /\ UNCHANGED <<task, orphans>>
    BY <1>1, <1>2 DEF CancelExecution, Executions
  <2> QED
    BY <2>1, NothingQuiet, RestingLone DEF LateFewer
<1>3. CASE Joined
  <2> DEFINE thread == IF exec.phase \in {"recover", "finish", "error"}
                       THEN {[run |-> exec.run, txn |-> exec.phase, node |-> Unset, call |-> 0]}
                       ELSE {}
  <2>1. /\ task' = CancelledTasks
        /\ orphans' = orphans \cup LeftThreads(exec.run) \cup thread
    BY <1>3 DEF CancelExecution
  <2>2. \A o \in thread : o.txn \notin {"call", "save"}
    OBVIOUS
  <2>3. \A n \in Nodes : Pc(n)' \in {"idle", "abort"}
    BY <2>1, CancelledTask
  <2> HIDE DEF thread
  <2> QED
    BY <1>1, <2>1, <2>2, <2>3, CancelLone
<1> QED
  BY <1>2, <1>3

(* The control API.                                                         *)
LEMMA ApiStepLone ==
  ASSUME IInv, StoreInv', EvidenceInv, CancelsInv, LoneRest, ControlsKept, ApiStep
  PROVE  LoneRest'
<1>1. StoreInv
  BY IInvTypes
<1>2. ASSUME Quiet, UNCHANGED <<proc, exec, task, orphans>>
      PROVE  LoneRest'
  BY <1>2, RestingLone DEF LateFewer
<1>3. ASSUME NEW r \in Runs, ApiPause(r)
      PROVE  LoneRest'
  BY <1>1, <1>2, <1>3, RequestPauseQuiet DEF ApiPause, volatile
<1>4. ASSUME NEW r \in Runs, ApiStop(r)
      PROVE  LoneRest'
  BY <1>1, <1>2, <1>4, StopQuiet DEF ApiStop
<1>5. ASSUME NEW r \in Runs, ApiRedeliverStop(r)
      PROVE  LoneRest'
  BY <1>2, <1>5, NothingQuiet DEF ApiRedeliverStop
<1>6. ASSUME NEW r \in Runs, ApiResume(r)
      PROVE  LoneRest'
  BY <1>1, <1>2, <1>6, BeginResumeQuiet DEF ApiResume, volatile
<1>7. ASSUME NEW r \in Runs, CancelActiveRun(r)
      PROVE  LoneRest'
  <2>1. UNCHANGED <<durable, proc>> /\ proc = "up" /\ StopApplied(r)
    BY <1>7 DEF CancelActiveRun, Api, CancelsInv
  <2>2. CASE CancelExecution /\ exec.run = r
    <3>1. ~ Lone(exec.run)
      BY <2>1, <2>2 DEF Lone
    <3> QED
      BY <2>1, <2>2, <3>1, RunsAreNotNoRun, CancelExecutionLone
  <2>3. CASE UNCHANGED <<exec, task, orphans>>
    BY <1>2, <2>1, <2>3, NothingQuiet
  <2> QED
    BY <1>7, <2>2, <2>3 DEF CancelActiveRun
<1>8. ASSUME NEW r \in Runs, NEW b \in Budgets, ApiUpdateBudget(r, b)
      PROVE  LoneRest'
  <2>1. UpdateBudget(r, b) /\ UNCHANGED <<proc, exec, task, orphans>>
    BY <1>8 DEF ApiUpdateBudget, volatile
  <2>2. /\ invocations' = invocations /\ Usage(r) <= b /\ rows'[r].budget = b
        /\ \A q \in Runs : q # r => rows'[q].budget = rows[q].budget
    BY <1>1, <2>1, UpdateBudgetRows
  <2>3. NothingSucceeds /\ \A q : Usage(q)' = Usage(q)
    BY <2>2, UsageStays DEF NothingSucceeds, Succeeded
  <2>4. \A q \in Runs : rows'[q].budget = rows[q].budget \/ Usage(q) <= rows'[q].budget
    BY <2>2
  <2>5. \A n \in Nodes : Pc(n)' = Pc(n)
    BY <2>1 DEF Pc
  <2> QED
    BY <2>1, <2>3, <2>4, <2>5, QuietLone
<1>9. ASSUME NEW r \in Runs, NEW n \in NodesOf[Kind[r]], ApiBeginRetry(r, n)
      PROVE  LoneRest'
  BY <1>1, <1>2, <1>9, BeginRetryQuiet DEF ApiBeginRetry, volatile
<1>10. ASSUME NEW c \in DOMAIN controls, ApiCheckpointRetry(c)
       PROVE  LoneRest'
  BY <1>1, <1>2, <1>10, CheckpointRetryQuiet DEF ApiCheckpointRetry, volatile
<1>11. ASSUME NEW c \in DOMAIN controls, NEW child \in Runs, ApiQueueRetryChild(c, child)
       PROVE  LoneRest'
  <2>1. QueueRetryChild(c, child) /\ UNCHANGED <<proc, exec, task, orphans>>
    BY <1>11 DEF ApiQueueRetryChild, volatile
  <2>2. /\ ~ rows[child].exists /\ invocations' = invocations
        /\ \A q \in Runs \ {child} : rows'[q].budget = rows[q].budget
    BY <1>1, <2>1, RetryChildRows
  <2>3. NothingSucceeds /\ \A q : Usage(q)' = Usage(q)
    BY <2>2, UsageStays DEF NothingSucceeds, Succeeded
  <2>4. Usage(child) <= rows'[child].budget
    <3>1. CallsOf(child) = {}
      BY <1>1, <2>2 DEF CallsOf, StoreInv, CallsHaveRuns
    <3>2. Usage(child) = 0
      BY <3>1, FS_EmptySet DEF Usage
    <3>3. rows'[child].budget \in Nat
      BY DEF StoreInv, StoreTypeOK, Row
    <3> QED
      BY <3>2, <3>3
  <2>5. \A n \in Nodes : Pc(n)' = Pc(n)
    BY <2>1 DEF Pc
  <2> QED
    BY <2>1, <2>2, <2>3, <2>4, <2>5, QuietLone
<1> QED
  BY <1>3, <1>4, <1>5, <1>6, <1>7, <1>8, <1>9, <1>10, <1>11 DEF ApiStep

(* The process.                                                             *)
LEMMA ProcessStepLone ==
  ASSUME IInv, StoreInv', EvidenceInv, CancelsInv, LoneRest, ControlsKept, ProcessStep
  PROVE  LoneRest'
<1>1. CASE Shutdown
  <2>1. UNCHANGED durable /\ proc = "up" /\ proc' = "stopping"
    BY <1>1 DEF Shutdown
  <2>2. CASE CancelExecution /\ exec.run # NoRun
    BY <2>1, <2>2, CancelExecutionLone
  <2>3. CASE UNCHANGED <<exec, task, orphans>>
    BY <2>1, <2>3, NothingQuiet, RestingLone DEF LateFewer
  <2> QED
    BY <1>1, <2>2, <2>3 DEF Shutdown
<1>2. CASE Exit
  <2>1. UNCHANGED <<durable, exec, task, orphans>> /\ orphans = {}
    BY <1>2 DEF Exit
  <2> QED
    BY <2>1, NothingQuiet, RestingLone DEF LateFewer
<1>3. CASE Crash
  <2>1. TasksIdle'
    BY <1>3 DEF Crash, TasksIdle, Pc, NoTasks, NoTask
  <2> QED
    BY <1>3, <2>1, NothingQuiet, RestingLone DEF LateFewer, Crash
<1>4. CASE Restart
  <2>1. Quiet
    BY <1>4, IInvTypes, RestartQuiet
  <2> QED
    BY <1>4, <2>1, RestingLone DEF LateFewer, Restart
<1> QED
  BY <1>1, <1>2, <1>3, <1>4 DEF ProcessStep

LoneRunsInv == CancelsInv /\ LoneRest

(* At first no run has a call.                                              *)
LEMMA InitLone == Init => LoneRunsInv
<1> SUFFICES ASSUME Init PROVE LoneRunsInv
  OBVIOUS
<1>1. /\ invocations = << >> /\ task = NoTasks /\ orphans = {} /\ cancels = {}
      /\ exec = Idle /\ proc = "up" /\ IInv
  BY InitInv DEF Init, StoreInit
<1>2. /\ \A n \in Nodes : Pc(n) = "idle"
      /\ DOMAIN invocations = {}
      /\ ~ exec.cancelling
  BY <1>1 DEF Pc, NoTasks, NoTask, Idle
<1>3. CancelsInv /\ LoneInv /\ OpenInv /\ SuccessIsUnique
  BY <1>1, <1>2 DEF CancelsInv, LoneInv, OpenInv, SuccessIsUnique
<1>4. BudgetInv
  <2> SUFFICES ASSUME NEW r \in Runs
               PROVE  Usage(r) <= rows[r].budget + 1 /\ ~ Passed(r)
    BY DEF BudgetInv
  <2>1. CallsOf(r) = {}
    BY <1>2 DEF CallsOf
  <2>2. Usage(r) = 0
    BY <2>1, FS_EmptySet DEF Usage
  <2>3. rows[r].budget \in Nat
    BY <1>1, IInvTypes DEF StoreInv, StoreTypeOK, Row
  <2> QED
    BY <1>1, <1>2, <2>2, <2>3 DEF Passed
<1> QED
  BY <1>3, <1>4 DEF LoneRunsInv, LoneRest

(* Every step keeps what is claimed of the runs that are not stopped.       *)
LEMMA NextKeepsLone ==
  IInv /\ EvidenceInv /\ LoneRunsInv /\ [Next]_vars => LoneRunsInv'
<1> SUFFICES ASSUME IInv, EvidenceInv, LoneRunsInv, [Next]_vars PROVE LoneRunsInv'
  OBVIOUS
<1>1. CancelsInv /\ LoneRest /\ ControlsKept /\ CancelsInv'
  BY NextKeepsControls, NextKeepsCancels DEF LoneRunsInv
<1>2. StoreInv'
  BY NextKeepsInv DEF IInv
<1>3. CASE UNCHANGED vars
  <2>1. UNCHANGED <<durable, proc, exec, task, orphans>>
    BY <1>3 DEF vars, volatile
  <2> QED
    BY <1>1, <1>2, <2>1, NothingQuiet, RestingLone DEF LateFewer, LoneRunsInv
<1>4. CASE \E o \in orphans : OrphanCommit(o) \/ OrphanNeverRan(o)
  BY <1>1, <1>2, <1>4, OrphanLone DEF LoneRunsInv
<1>5. CASE \E n \in Nodes : NodeStep(n)
  BY <1>1, <1>2, <1>5, NodeStepLone DEF LoneRunsInv
<1>6. CASE ExecutionStep \/ \E r \in Runs : Claim(r)
  BY <1>1, <1>2, <1>6, ExecutionLone DEF LoneRunsInv
<1>7. CASE ApiStep \/ ProcessStep
  BY <1>1, <1>2, <1>7, ApiStepLone, ProcessStepLone DEF LoneRunsInv
<1> QED
  BY <1>3, <1>4, <1>5, <1>6, <1>7 DEF Next

(* So it holds at every time.                                               *)
LEMMA LoneRunsStay == Spec => []LoneRunsInv
<1>1. Spec => []IInv
  BY Invariance
<1>2. Spec => []EvidenceInv
  BY <1>1, InitEvidence, NextKeepsEvidence, PTL DEF Spec
<1> QED
  BY <1>1, <1>2, InitLone, NextKeepsLone, PTL DEF Spec

(* A run that goes one node at a time and was not stopped makes at most one *)
(* call more than its budget, however often it fails, is paused, resumed,   *)
(* given another budget, or loses its process.                              *)
THEOREM BudgetHolds == Spec => []SequentialBudget
<1>1. LoneRunsInv => SequentialBudget
  BY DEF LoneRunsInv, LoneRest, BudgetInv, SequentialBudget, Lone
<1> QED
  BY <1>1, LoneRunsStay, PTL

(* No task of such a run succeeds twice: its result is replayed whatever    *)
(* happens between the commit of the call and that of the checkpoint.       *)
THEOREM SuccessOnce == Spec => []SuccessIsUnique
<1>1. LoneRunsInv => SuccessIsUnique
  BY DEF LoneRunsInv, LoneRest
<1> QED
  BY <1>1, LoneRunsStay, PTL


-----------------------------------------------------------------------------
(* Runs that are left RUNNING.  A node may still start a run in a late      *)
(* thread only while the process shuts down, and an execution that is about *)
(* to end found, or made, its run something else than RUNNING.              *)

Entering == {"check", "start"}
Ending ==
  exec.phase \in {"signal", "failed", "settle"} \/ \E n \in Nodes : Pc(n) \in {"paused", "stopped"}
Running(r) == rows[r].status = "RUNNING"
LeftInv ==
  /\ NoStrandedRun
  /\ \A o \in orphans : o.txn \in Entering /\ Lone(o.run) => proc = "stopping"
  /\ exec.phase = "cancelled" => exec.cancelling
  /\ exec.cancelling /\ Lone(exec.run) => proc = "stopping"
  /\ exec.run \in Runs /\ proc = "up" /\ Ending /\ Lone(exec.run) => ~ Running(exec.run)

NoneStarts == \A r \in Runs : Running(r)' => Running(r)

(* A transaction that writes the status of one run.                         *)
LEMMA StatusStarts ==
  ASSUME StoreInv, NEW r \in Runs, NEW status, NEW reason, SetStatus(r, status, reason)
  PROVE  /\ rows'[r].status = status
         /\ status # "RUNNING" => NoneStarts
<1> DEFINE row == [rows[r] EXCEPT !.status = status, !.reason = reason]
<1>1. rows \in [Runs -> Row] /\ rows[r] \in Row
  BY DEF StoreInv, StoreTypeOK
<1>2. row.status = status
  BY <1>1 DEF Row
<1>3. rows' = [rows EXCEPT ![r] = row]
  BY DEF SetStatus
<1> HIDE DEF row
<1>4. rows'[r].status = status /\ \A q \in Runs \ {r} : rows'[q] = rows[q]
  BY <1>1, <1>2, <1>3
<1> QED
  BY <1>4 DEF NoneStarts, Running

(* Another write to a row does not start the run.                           *)
LEMMA RowStarts ==
  ASSUME StoreInv, NEW r \in Runs, NEW row, rows' = [rows EXCEPT ![r] = row],
         row.status = "RUNNING" => Running(r)
  PROVE  NoneStarts
<1>1. rows \in [Runs -> Row]
  BY DEF StoreInv, StoreTypeOK
<1>2. rows'[r] = row /\ \A q \in Runs \ {r} : rows'[q] = rows[q]
  BY <1>1
<1> QED
  BY <1>2 DEF NoneStarts, Running

(* Nor does a write that leaves the rows alone.                             *)
LEMMA SameStarts ==
  ASSUME rows' = rows
  PROVE  NoneStarts
  BY DEF NoneStarts, Running

(* The check of a node, which says no only where the run is not RUNNING.    *)
LEMMA BeforeNodeStarts ==
  ASSUME StoreInv, NEW r \in Runs, NEW n, NEW verdict, BeforeNode(r, n, verdict)
  PROVE  NoneStarts /\ (verdict # "go" => ~ Running(r)')
<1>1. rows \in [Runs -> Row] /\ rows[r] \in Row
  BY DEF StoreInv, StoreTypeOK
<1>2. CASE rows' = rows /\ (verdict # "go" => Stopped(r) \/ PausedByControl(r))
  BY <1>2, SameStarts DEF Stopped, PausedByControl, Running
<1>3. ASSUME NEW reason,
             rows' = [rows EXCEPT ![r] = [@ EXCEPT !.status = "PAUSED",
                                                   !.reason = reason, !.node = n]]
      PROVE  NoneStarts /\ ~ Running(r)'
  <2> DEFINE row == [rows[r] EXCEPT !.status = "PAUSED", !.reason = reason, !.node = n]
  <2>1. row.status = "PAUSED" /\ rows' = [rows EXCEPT ![r] = row]
    BY <1>1, <1>3 DEF Row
  <2> HIDE DEF row
  <2>2. rows'[r] = row
    BY <1>1, <2>1
  <2> QED
    BY <2>1, <2>2, RowStarts DEF Running
<1> QED
  BY <1>2, <1>3 DEF BeforeNode

(* The recovery of an interrupted run queues it again.                      *)
LEMMA RecoverStarts ==
  ASSUME StoreInv, NEW r \in Runs, RecoverRows(r)
  PROVE  NoneStarts
<1> DEFINE row == [rows[r] EXCEPT !.status = "PENDING"]
<1>1. CASE rows' = rows
  BY <1>1, SameStarts
<1>2. CASE rows' = [rows EXCEPT ![r] = row]
  <2>1. row.status = "PENDING"
    BY DEF StoreInv, StoreTypeOK, Row
  <2> HIDE DEF row
  <2> QED
    BY <1>2, <2>1, RowStarts
<1> QED
  BY <1>1, <1>2 DEF RecoverRows

(* The end of the graph makes the run wait for approval, or succeed.        *)
LEMMA FinishStarts ==
  ASSUME StoreInv, NEW r \in Runs, FinishRows(r)
  PROVE  NoneStarts /\ ~ Running(r)'
<1> DEFINE row == [rows[r] EXCEPT !.status = "PAUSED", !.node = Approval,
                                  !.reason = "HUMAN_APPROVAL"]
<1>1. CASE rows' = [rows EXCEPT ![r] = row]
  <2>1. row.status = "PAUSED" /\ rows \in [Runs -> Row]
    BY DEF StoreInv, StoreTypeOK, Row
  <2> HIDE DEF row
  <2>2. rows'[r] = row
    BY <1>1, <2>1
  <2> QED
    BY <1>1, <2>1, <2>2, RowStarts DEF Running
<1>2. ASSUME NEW reason, SetStatus(r, "SUCCEEDED", reason)
      PROVE  NoneStarts /\ ~ Running(r)'
  BY <1>2, StatusStarts DEF Running
<1> QED
  BY <1>1, <1>2 DEF FinishRows

(* The failure of a run.                                                    *)
LEMMA FailStarts ==
  ASSUME StoreInv, NEW r \in Runs, FailRows(r)
  PROVE  NoneStarts /\ ~ Running(r)'
  BY StatusStarts DEF FailRows, Running

(* Recording the checkpoint leaves the status alone.                        *)
LEMMA SyncStarts ==
  ASSUME StoreInv, exec.run \in Runs, SyncCheckpoint
  PROVE  NoneStarts
<1> DEFINE row == [rows[exec.run] EXCEPT !.synced = TRUE]
<1>1. row.status = rows[exec.run].status
  BY DEF StoreInv, StoreTypeOK, Row
<1>2. rows' = [rows EXCEPT ![exec.run] = row]
  BY DEF SyncCheckpoint
<1> HIDE DEF row
<1> QED
  BY <1>1, <1>2, RowStarts DEF Running

(* A retry child starts as the row it is given, and its source does not     *)
(* start.                                                                   *)
LEMMA ChildStarts ==
  ASSUME StoreInv, NEW c, NEW child \in Runs, QueueRetryChild(c, child)
  PROVE  NoneStarts
<1> DEFINE r == controls[c].run
           passed == {n \in NodesOf["blueprint"] \ {controls[c].target} :
                        Stage[n] <= Stage[controls[c].target]}
           born == [rows[child] EXCEPT !.exists = TRUE, !.budget = rows[r].budget,
                                       !.seeded = passed \cap Available(r),
                                       !.skipped = passed \ Available(r)]
<1> SUFFICES ASSUME NEW q \in Runs, Running(q)'
             PROVE  Running(q)
  BY DEF NoneStarts
<1>1. rows \in [Runs -> Row]
  BY DEF StoreInv, StoreTypeOK
<1> DEFINE cancelled == [rows[q] EXCEPT !.status = "CANCELLED", !.reason = NoReason]
<1>2. born.status = rows[child].status /\ cancelled.status = "CANCELLED"
  BY <1>1 DEF Row
<1>3. rows'[q] = IF q = child THEN born
                 ELSE IF q = r /\ rows[q].status = "PAUSED" THEN cancelled
                 ELSE rows[q]
  BY DEF QueueRetryChild
<1> HIDE DEF born, cancelled
<1> QED
  BY <1>2, <1>3 DEF Running

(* Where nobody starts the run of an ending execution, and the execution    *)
(* that leaves a run does not leave it RUNNING, no run is left behind.      *)
LEMMA LeftStays ==
  ASSUME LeftInv, ControlsKept, proc' = proc,
         \A r \in Runs : Running(r)' /\ Lone(r) /\ proc = "up" => Running(r) \/ exec'.run = r,
         \/ exec'.run = exec.run
         \/ exec.run \in Runs /\ Lone(exec.run) /\ proc = "up" =>
              rows'[exec.run].status # "RUNNING",
         \A o \in orphans' : o.txn \in Entering /\ Lone(o.run) =>
           proc = "stopping" \/ \E p \in orphans : p.txn \in Entering /\ p.run = o.run,
         exec'.phase = "cancelled" => exec'.cancelling,
         exec'.cancelling /\ Lone(exec'.run) =>
           proc = "stopping" \/ (exec.cancelling /\ exec.run = exec'.run),
         exec'.run \in Runs /\ proc = "up" /\ Ending' /\ Lone(exec'.run) =>
           rows'[exec'.run].status # "RUNNING"
  PROVE  LeftInv'
<1>1. NoStrandedRun'
  <2> SUFFICES ASSUME NEW r \in Runs, Running(r)', Lone(r)', proc' = "up"
               PROVE  exec'.run = r
    BY DEF NoStrandedRun, Lone, Running
  <2>1. Lone(r) /\ proc = "up"
    BY StopsStay
  <2>2. CASE Running(r)
    <3>1. exec.run = r
      BY <2>1, <2>2 DEF LeftInv, NoStrandedRun, Lone, Running
    <3> QED
      BY <2>1, <3>1 DEF Running
  <2> QED
    BY <2>1, <2>2
<1>2. ASSUME NEW o \in orphans', o.txn \in Entering, Lone(o.run)'
      PROVE  proc' = "stopping"
  <2>1. PICK r : r = o.run
    OBVIOUS
  <2>2. Lone(r)
    BY <1>2, <2>1, StopsStay
  <2> QED
    BY <1>2, <2>1, <2>2 DEF LeftInv
<1>3. PICK e : e = exec'.run
  OBVIOUS
<1>4. Lone(exec.run)' => Lone(e)
  <2>1. Lone(exec.run)' <=> Sequential(Kind[e]) /\ ~ StopApplied(e)'
    BY <1>3 DEF Lone, StopApplied
  <2> QED
    BY <2>1, StopsStay DEF Lone
<1>5. exec'.cancelling /\ Lone(exec.run)' => proc' = "stopping"
  BY <1>3, <1>4 DEF LeftInv
<1>6. exec'.run \in Runs /\ proc' = "up" /\ Ending' /\ Lone(exec.run)' => ~ Running(exec.run)'
  BY <1>3, <1>4 DEF Running
<1>7. \A o \in orphans' : o.txn \in Entering /\ Lone(o.run)' => proc' = "stopping"
  BY <1>2
<1> QED
  BY <1>1, <1>5, <1>6, <1>7 DEF LeftInv

(* A step that starts no run and moves neither execution nor tasks.         *)
LEMMA AloneLeft ==
  ASSUME LeftInv, ControlsKept, NoneStarts, UNCHANGED <<proc, exec, task>>,
         \A o \in orphans' : o.txn \in Entering =>
           \E p \in orphans : p.txn \in Entering /\ p.run = o.run
  PROVE  LeftInv'
<1>1. Ending' <=> Ending
  BY DEF Ending, Pc
<1>2. \A r \in Runs : Running(r)' /\ Lone(r) /\ proc = "up" => Running(r) \/ exec'.run = r
  BY DEF NoneStarts
<1>3. exec'.run \in Runs /\ proc = "up" /\ Ending' /\ Lone(exec'.run) =>
        rows'[exec'.run].status # "RUNNING"
  BY <1>1 DEF LeftInv, NoneStarts, Running
<1>4. exec'.phase = "cancelled" => exec'.cancelling
  BY DEF LeftInv
<1> QED
  BY <1>2, <1>3, <1>4, LeftStays

(* A node that moves on without starting the run or being turned away.      *)
LEMMA MoveLeft ==
  ASSUME LeftInv, ControlsKept, NoneStarts, UNCHANGED <<proc, exec, orphans>>,
         NEW n \in Nodes, \A m \in Nodes \ {n} : task'[m] = task[m],
         Pc(n)' \notin {"paused", "stopped"}
  PROVE  LeftInv'
<1>1. Ending' => Ending
  BY DEF Ending, Pc
<1>2. \A r \in Runs : Running(r)' /\ Lone(r) /\ proc = "up" => Running(r) \/ exec'.run = r
  BY DEF NoneStarts
<1>3. exec'.run \in Runs /\ proc = "up" /\ Ending' /\ Lone(exec'.run) =>
        rows'[exec'.run].status # "RUNNING"
  BY <1>1 DEF LeftInv, NoneStarts, Running
<1>4. exec'.phase = "cancelled" => exec'.cancelling
  BY DEF LeftInv
<1> QED
  BY <1>2, <1>3, <1>4, LeftStays

(* The execution goes on, or leaves its run.                                *)
LEMMA ExecutionLeft ==
  ASSUME LeftInv, ControlsKept, NoneStarts, UNCHANGED <<proc, orphans>>,
         \/ exec'.run = exec.run /\ exec'.cancelling = exec.cancelling
         \/ exec' = Idle /\ (exec.run \in Runs /\ Lone(exec.run) /\ proc = "up" =>
                              rows'[exec.run].status # "RUNNING"),
         exec'.phase # "cancelled",
         exec'.run \in Runs /\ proc = "up" /\ Ending' /\ Lone(exec'.run) =>
           rows'[exec'.run].status # "RUNNING"
  PROVE  LeftInv'
<1>1. \A r \in Runs : Running(r)' /\ Lone(r) /\ proc = "up" => Running(r) \/ exec'.run = r
  BY DEF NoneStarts
<1>2. ~ Idle.cancelling
  BY DEF Idle
<1>3. /\ exec'.run = exec.run
         \/ (exec.run \in Runs /\ Lone(exec.run) /\ proc = "up" =>
               rows'[exec.run].status # "RUNNING")
      /\ exec'.cancelling /\ Lone(exec'.run) =>
           proc = "stopping" \/ (exec.cancelling /\ exec.run = exec'.run)
  BY <1>2
<1> QED
  BY <1>1, <1>3, LeftStays

(* AfterInvoke settles, or leaves the run.                                  *)
LEMMA AfterInvokeFacts ==
  ASSUME exec \in Executions, NEW r, NEW ok, exec' = AfterInvoke(r, ok)
  PROVE  \/ exec' = Idle
         \/ exec'.run = exec.run /\ exec'.cancelling = exec.cancelling /\ exec'.phase = "settle"
<1> DEFINE e == [exec EXCEPT !.phase = "settle", !.ok = ok]
<1>1. e.run = exec.run /\ e.cancelling = exec.cancelling /\ e.phase = "settle"
  BY DEF Executions
<1> HIDE DEF e
<1>2. exec' = Idle \/ exec' = e
  BY DEF AfterInvoke, e
<1> QED
  BY <1>1, <1>2

(* The phase alone changes.                                                 *)
LEMMA ToPhaseFacts ==
  ASSUME exec \in Executions, NEW p, ToPhase(p)
  PROVE  exec'.run = exec.run /\ exec'.cancelling = exec.cancelling /\ exec'.phase = p
  BY DEF ToPhase, Executions

(* The claim of a run, and the steps of its execution.                      *)
LEMMA ExecutionStepLeft ==
  ASSUME IInv, EvidenceInv, CancelsInv, LeftInv, ControlsKept,
         ExecutionStep \/ \E r \in Runs : Claim(r)
  PROVE  LeftInv'
<1>1. StoreInv /\ exec \in Executions /\ (exec.phase # "idle" => exec.run \in Runs)
  BY IInvTypes
<1>2. UNCHANGED <<orphans, proc>>
  BY DEF ExecutionStep, Claim, Begin, Recover, Launch, Cancelled, ExecutionBoundary,
         SyncCheckpoint, Finish, FailRun, Settle
<1>3. ASSUME NEW p, ToPhase(p), p \notin {"signal", "failed", "settle", "cancelled"}, NoneStarts,
             \A n \in Nodes : Pc(n)' \notin {"paused", "stopped"}
      PROVE  LeftInv'
  <2>1. exec'.run = exec.run /\ exec'.cancelling = exec.cancelling /\ exec'.phase = p
    BY <1>1, <1>3, ToPhaseFacts
  <2>2. ~ Ending'
    BY <1>3, <2>1 DEF Ending
  <2> QED
    BY <1>2, <1>3, <2>1, <2>2, ExecutionLeft
<1>4. ASSUME \/ exec.phase \notin {"graph", "signal", "error", "cancelled"}
             \/ exec.phase # "graph" /\ Joined,
             UNCHANGED task, NEW n \in Nodes
      PROVE  Pc(n)' = "idle"
  BY <1>4, NothingRuns DEF EvidenceInv, TasksIdle, Pc
<1>5. CASE Begin
  <2>1. NoneStarts /\ UNCHANGED task /\ exec.phase = "begin" /\ exec.run \in Runs
    BY <1>1, <1>5, SameStarts DEF Begin, Phase, durable
  <2>2. ASSUME NEW n \in Nodes
        PROVE  Pc(n)' = "idle"
    BY <1>4, <2>1
  <2>3. CASE exec' = Idle /\ rows[exec.run].status \notin {"RUNNING", "FAILED", "PENDING"}
    <3>1. exec'.phase = "idle" /\ exec'.run \notin Runs
      BY <2>3, IdleType, RunsAreNotNoRun
    <3>2. rows'[exec.run].status # "RUNNING"
      BY <1>5, <2>3 DEF Begin, durable
    <3> QED
      BY <1>2, <2>1, <2>3, <3>1, <3>2, ExecutionLeft
  <2>4. CASE \E p \in {"recover", "graph"} : ToPhase(p)
    BY <1>3, <2>1, <2>2, <2>4
  <2> QED
    BY <1>5, <2>3, <2>4 DEF Begin
<1>6. CASE Recover
  <2>1. NoneStarts /\ UNCHANGED task /\ exec.phase = "recover" /\ ToPhase("graph")
    BY <1>1, <1>6, RecoverStarts DEF Recover, Phase
  <2>2. ASSUME NEW n \in Nodes
        PROVE  Pc(n)' = "idle"
    BY <1>4, <2>1
  <2> QED
    BY <1>3, <2>1, <2>2
<1>7. CASE Launch
  <2> DEFINE ready == {n \in NodesOf[Kind[exec.run]] : Ready(n)}
  <2>1. NoneStarts /\ exec.phase = "graph"
    BY <1>7, SameStarts DEF Launch, Phase, durable
  <2>2. CASE ready = {}
    <3>1. ToPhase("boundary") /\ task' = NoTasks
      BY <1>7, <2>2 DEF Launch
    <3>2. \A n \in Nodes : Pc(n)' = "idle"
      BY <3>1 DEF Pc, NoTasks, NoTask
    <3> QED
      BY <1>3, <2>1, <3>1, <3>2
  <2>3. CASE ready # {}
    <3>1. UNCHANGED exec
      BY <1>7, <2>3 DEF Launch
    <3>2. ASSUME NEW n \in Nodes
          PROVE  Pc(n)' \in {"check", "idle"}
      BY <1>7, <2>3 DEF Launch, Pc, NoTask
    <3>3. ~ Ending'
      BY <2>1, <3>1, <3>2 DEF Ending
    <3> QED
      BY <1>2, <2>1, <3>1, <3>3, ExecutionLeft
  <2> QED
    BY <2>2, <2>3
<1>8. CASE Cancelled
  <2>1. NoneStarts /\ exec' = Idle /\ UNCHANGED rows /\ exec.phase = "cancelled"
    BY <1>8, SameStarts DEF Cancelled, Phase, durable
  <2>2. Lone(exec.run) => proc # "up"
    BY <2>1 DEF LeftInv
  <2>3. exec'.phase = "idle" /\ exec'.run \notin Runs
    BY <2>1, IdleType, RunsAreNotNoRun
  <2> QED
    BY <1>2, <2>1, <2>2, <2>3, ExecutionLeft
<1>9. CASE ExecutionBoundary
  <2>1. NoneStarts /\ UNCHANGED <<rows, task>> /\ exec.phase = "boundary"
    BY <1>9, SameStarts DEF ExecutionBoundary, Phase, durable
  <2>2. ASSUME NEW n \in Nodes
        PROVE  Pc(n)' = "idle"
    BY <1>4, <2>1
  <2>3. CASE ToPhase("sync")
    BY <1>3, <2>1, <2>2, <2>3
  <2>4. CASE ToPhase("signal") /\ (Stopped(exec.run) \/ PausedByControl(exec.run))
    <3>1. exec'.run = exec.run /\ exec'.cancelling = exec.cancelling /\ exec'.phase = "signal"
      BY <1>1, <2>4, ToPhaseFacts
    <3>2. rows'[exec'.run].status # "RUNNING"
      BY <2>1, <2>4, <3>1 DEF Stopped, PausedByControl
    <3> QED
      BY <1>2, <2>1, <3>1, <3>2, ExecutionLeft
  <2> QED
    BY <1>9, <2>3, <2>4 DEF ExecutionBoundary
<1>10. CASE SyncCheckpoint
  <2>1. /\ NoneStarts /\ UNCHANGED task /\ exec.run \in Runs
        /\ exec.phase \in {"sync", "signal", "failed"} /\ (exec.phase = "signal" => Joined)
    BY <1>1, <1>10, SyncStarts DEF SyncCheckpoint, Phase
  <2>2. ASSUME NEW n \in Nodes
        PROVE  Pc(n)' = "idle"
    BY <1>4, <2>1
  <2>3. CASE exec.phase = "sync"
    <3>1. ToPhase("finish")
      BY <1>10, <2>3 DEF SyncCheckpoint, Phase
    <3> QED
      BY <1>3, <2>1, <2>2, <3>1
  <2>4. CASE exec.phase # "sync"
    <3>1. \E ok \in BOOLEAN : exec' = AfterInvoke(exec.run, ok)
      BY <1>10, <2>4 DEF SyncCheckpoint, Phase
    <3>2. Ending
      BY <2>1, <2>4 DEF Ending
    <3>3. proc = "up" /\ Lone(exec.run) => rows'[exec.run].status # "RUNNING"
      BY <2>1, <3>2 DEF LeftInv, NoneStarts, Running
    <3>4. CASE exec' = Idle
      BY <1>2, <2>1, <3>3, <3>4, IdleType, RunsAreNotNoRun, ExecutionLeft
    <3>5. CASE /\ exec'.run = exec.run /\ exec'.cancelling = exec.cancelling
               /\ exec'.phase = "settle"
      BY <1>2, <2>1, <3>3, <3>5, ExecutionLeft
    <3> QED
      BY <1>1, <3>1, <3>4, <3>5, AfterInvokeFacts
  <2> QED
    BY <2>3, <2>4
<1>11. CASE Finish
  <2>1. exec.run \in Runs /\ FinishRows(exec.run) /\ exec' = AfterInvoke(exec.run, TRUE)
    BY <1>1, <1>11 DEF Finish, Phase
  <2>2. NoneStarts /\ rows'[exec.run].status # "RUNNING"
    <3>1. PICK r : r = exec.run
      OBVIOUS
    <3>2. NoneStarts /\ ~ Running(r)'
      BY <1>1, <2>1, <3>1, FinishStarts
    <3> QED
      BY <3>1, <3>2 DEF Running
  <2>3. CASE exec' = Idle
    BY <1>2, <2>2, <2>3, IdleType, RunsAreNotNoRun, ExecutionLeft
  <2>4. CASE /\ exec'.run = exec.run /\ exec'.cancelling = exec.cancelling
             /\ exec'.phase = "settle"
    BY <1>2, <2>2, <2>4, ExecutionLeft
  <2> QED
    BY <1>1, <2>1, <2>3, <2>4, AfterInvokeFacts
<1>12. CASE FailRun
  <2>1. exec.run \in Runs /\ FailRows(exec.run) /\ ToPhase("failed")
    BY <1>1, <1>12 DEF FailRun, Phase
  <2>2. NoneStarts /\ rows'[exec.run].status # "RUNNING"
    <3>1. PICK r : r = exec.run
      OBVIOUS
    <3>2. NoneStarts /\ ~ Running(r)'
      BY <1>1, <2>1, <3>1, FailStarts
    <3> QED
      BY <3>1, <3>2 DEF Running
  <2>3. exec'.run = exec.run /\ exec'.cancelling = exec.cancelling /\ exec'.phase = "failed"
    BY <1>1, <2>1, ToPhaseFacts
  <2> QED
    BY <1>2, <2>2, <2>3, ExecutionLeft
<1>13. CASE Settle
  <2>1. NoneStarts /\ UNCHANGED rows /\ exec' = Idle /\ exec.phase = "settle"
    BY <1>13, SameStarts DEF Settle, Phase
  <2>2. exec.run \in Runs /\ Lone(exec.run) /\ proc = "up" => rows'[exec.run].status # "RUNNING"
    BY <2>1 DEF LeftInv, Ending, Running
  <2>3. exec'.phase = "idle" /\ exec'.run \notin Runs
    BY <2>1, IdleType, RunsAreNotNoRun
  <2> QED
    BY <1>2, <2>1, <2>2, <2>3, ExecutionLeft
<1>14. ASSUME NEW r \in Runs, Claim(r)
       PROVE  LeftInv'
  <2> DEFINE row == [rows[r] EXCEPT !.status = "RUNNING"]
  <2>1. /\ exec.phase = "idle" /\ UNCHANGED task /\ rows' = [rows EXCEPT ![r] = row]
        /\ exec'.run = r /\ exec'.phase = "begin" /\ ~ exec'.cancelling
    BY <1>14 DEF Claim, Phase, Idle
  <2>2. \A q \in Runs \ {r} : rows'[q] = rows[q]
    BY <1>1, <2>1 DEF StoreInv, StoreTypeOK
  <2>3. exec.run \notin Runs
    BY <2>1, IInvTypes, RunsAreNotNoRun
  <2>4. ASSUME NEW n \in Nodes
        PROVE  Pc(n)' = "idle"
    BY <1>4, <2>1
  <2>5. ~ Ending'
    BY <2>1, <2>4 DEF Ending
  <2>6. \A q \in Runs : Running(q)' => Running(q) \/ exec'.run = q
    BY <2>1, <2>2 DEF Running
  <2>7. NoStrandedRun'
    <3> SUFFICES ASSUME NEW q \in Runs, Running(q)', Lone(q)', proc' = "up"
                 PROVE  exec'.run = q
      BY DEF NoStrandedRun, Lone, Running
    <3>1. Lone(q)
      BY StopsStay
    <3> QED
      BY <1>2, <2>3, <2>6, <3>1 DEF LeftInv, NoStrandedRun, Lone, Running
  <2>8. ASSUME NEW o \in orphans', o.txn \in Entering, Lone(o.run)'
        PROVE  proc' = "stopping"
    <3>1. PICK q : q = o.run
      OBVIOUS
    <3>2. Lone(q)
      BY <2>8, <3>1, StopsStay
    <3> QED
      BY <1>2, <2>8, <3>1, <3>2 DEF LeftInv
  <2>9. \A o \in orphans' : o.txn \in Entering /\ Lone(o.run)' => proc' = "stopping"
    BY <2>8
  <2> QED
    BY <2>1, <2>5, <2>7, <2>9 DEF LeftInv
<1> QED
  BY <1>5, <1>6, <1>7, <1>8, <1>9, <1>10, <1>11, <1>12, <1>13, <1>14 DEF ExecutionStep

(* The steps of a node.  A lone node that starts the run stands beside no   *)
(* node that was turned away.                                               *)
LEMMA NodeStepLeft ==
  ASSUME IInv, EvidenceInv, CancelsInv, LeftInv, ControlsKept, NEW n \in Nodes, NodeStep(n)
  PROVE  LeftInv'
<1>1. StoreInv
  BY IInvTypes
<1>2. ASSUME NEW pc, ToPc(n, pc), UNCHANGED <<rows, proc, exec, orphans>>,
             pc \notin {"paused", "stopped"}
      PROVE  LeftInv'
  BY <1>2, SameStarts, ToPcFacts, MoveLeft
<1>3. CASE CheckNode(n)
  <2>1. exec.run \in Runs /\ UNCHANGED <<proc, exec, orphans>>
    BY <1>3, InGraphFacts DEF CheckNode
  <2>2. PICK verdict \in {"go", "paused", "stopped"} :
          /\ BeforeNode(exec.run, n, verdict)
          /\ ToPc(n, IF verdict = "go" THEN "start" ELSE verdict)
    BY <1>3 DEF CheckNode
  <2>3. PICK r \in Runs : r = exec.run
    BY <2>1
  <2>4. NoneStarts /\ (verdict # "go" => ~ Running(r)')
    BY <1>1, <2>2, <2>3, BeforeNodeStarts
  <2>5. CASE verdict = "go"
    BY <2>1, <2>2, <2>4, <2>5, ToPcFacts, MoveLeft
  <2>6. CASE verdict # "go"
    <3>1. rows'[exec'.run].status # "RUNNING"
      BY <2>1, <2>3, <2>4, <2>6 DEF Running
    <3>2. exec'.phase # "cancelled"
      BY <1>3, <2>1 DEF CheckNode, InGraph, Phase
    <3> QED
      BY <2>1, <2>4, <3>1, <3>2, ExecutionLeft
  <2> QED
    BY <2>5, <2>6
<1>4. CASE StartNode(n)
  <2>1. /\ exec.run \in Runs /\ UNCHANGED <<proc, exec, orphans>> /\ Pc(n) = "start"
        /\ ToPc(n, "call") /\ StartRows(exec.run, n) /\ exec.phase = "graph"
    BY <1>4, InGraphFacts DEF StartNode, InGraph, Phase
  <2>2. \A q \in Runs \ {exec.run} : rows'[q] = rows[q]
    BY <1>1, <2>1 DEF StartRows, StoreInv, StoreTypeOK
  <2>3. \A q \in Runs : Running(q)' => Running(q) \/ exec'.run = q
    BY <2>1, <2>2 DEF Running
  <2>4. ASSUME Lone(exec.run), NEW m \in Nodes, Pc(m)' \in {"paused", "stopped"}
        PROVE  FALSE
    <3>1. m # n /\ Pc(m) \in {"paused", "stopped"}
      BY <2>1, <2>4, ToPcFacts DEF Pc
    <3> QED
      BY <2>1, <2>4, <3>1, OneTask DEF Lone
  <2>5. Lone(exec'.run) => ~ Ending'
    BY <2>1, <2>4 DEF Ending
  <2>6. exec'.phase # "cancelled"
    BY <2>1
  <2> QED
    BY <2>1, <2>3, <2>5, <2>6, LeftStays
<1>5. CASE MissingInputs(n) \/ Replay(n) \/ Answer(n) \/ ReceiveOutput(n)
  <2>1. \E pc \in {"error", "output", "save", "fail"} :
          ToPc(n, pc) /\ UNCHANGED <<rows, proc, exec, orphans>>
    BY <1>5 DEF MissingInputs, Replay, Answer, ReceiveOutput, durable
  <2> QED
    BY <1>2, <2>1
<1>6. CASE StartCall(n)
  <2> DEFINE t == [task[n] EXCEPT !.pc = "open", !.call = Len(invocations) + 1]
  <2>1. t.pc = "open"
    BY IInvTypes DEF Tasks
  <2>2. task' = [task EXCEPT ![n] = t] /\ UNCHANGED <<rows, proc, exec, orphans>>
    BY <1>6 DEF StartCall, StartCallRows
  <2> HIDE DEF t
  <2> QED
    BY <2>1, <2>2, TaskSetFacts, SameStarts, MoveLeft DEF Pc
<1>7. CASE SaveCall(n)
  BY <1>2, <1>7 DEF SaveCall, CallRows
<1>8. CASE FailCall(n)
  <2> DEFINE t == [pc |-> "check", call |-> 0, tries |-> task[n].tries + 1]
  <2>1. t.pc = "check" /\ UNCHANGED <<rows, proc, exec, orphans>>
    BY <1>8 DEF FailCall, CallRows
  <2>2. task' = [task EXCEPT ![n] = t] \/ ToPc(n, "error")
    BY <1>8 DEF FailCall
  <2> HIDE DEF t
  <2> QED
    BY <1>2, <2>1, <2>2, TaskSetFacts, SameStarts, MoveLeft DEF Pc
<1>9. CASE CompleteNode(n) \/ AbortCall(n)
  <2>1. task' = [task EXCEPT ![n] = NoTask] /\ UNCHANGED <<rows, proc, exec, orphans>>
    BY <1>9 DEF CompleteNode, AbortCall, CallRows
  <2>2. NoTask.pc = "idle"
    BY DEF NoTask
  <2> QED
    BY <2>1, <2>2, TaskSetFacts, SameStarts, MoveLeft DEF Pc
<1>10. CASE Raise(n)
  <2>1. /\ exec.run \in Runs /\ Pc(n) \in Raised /\ UNCHANGED durable /\ UNCHANGED proc
        /\ task' = CancelledTasks /\ orphans' = orphans \cup LeftThreads(exec.run)
        /\ ToPhase(IF Pc(n) = "error" THEN "error" ELSE "signal")
    BY <1>10, InGraphFacts DEF Raise
  <2>2. ASSUME Lone(exec.run), NEW o \in LeftThreads(exec.run)
        PROVE  FALSE
    <3>1. PICK m \in Nodes : Pc(m) \in ThreadPcs
      BY <2>2 DEF LeftThreads
    <3>2. m = n
      BY <2>1, <2>2, <3>1, OneTask DEF Lone, Raised, ThreadPcs
    <3> QED
      BY <2>1, <3>1, <3>2 DEF Raised, ThreadPcs
  <2>3. ASSUME NEW o \in orphans', Lone(o.run)
        PROVE  o \in orphans
    <3>1. CASE o \in LeftThreads(exec.run)
      <4>1. o.run = exec.run
        BY <3>1, LeftThread
      <4> QED
        BY <2>2, <2>3, <3>1, <4>1
    <3> QED
      BY <2>1, <3>1
  <2>4. \A m \in Nodes : Pc(m)' \notin {"paused", "stopped"}
    BY <2>1, CancelledTask
  <2>5. exec \in Executions
    BY IInvTypes
  <2>6. /\ exec'.run = exec.run /\ exec'.cancelling = exec.cancelling
        /\ exec'.phase \in {"error", "signal"} /\ (exec'.phase = "signal" => Pc(n) # "error")
    BY <2>1, <2>5, ToPhaseFacts
  <2>7. Ending' => Ending
    BY <2>1, <2>4, <2>6 DEF Ending, Raised
  <2>8. exec'.run \in Runs /\ proc = "up" /\ Ending' /\ Lone(exec'.run) =>
          rows'[exec'.run].status # "RUNNING"
    BY <2>1, <2>6, <2>7 DEF LeftInv, Running, durable
  <2>9. \A r \in Runs : Running(r)' => Running(r)
    BY <2>1 DEF Running, durable
  <2>10. exec'.phase # "cancelled" /\ UNCHANGED proc
    BY <2>1, <2>6
  <2> QED
    BY <2>3, <2>6, <2>8, <2>9, <2>10, LeftStays
<1> QED
  BY <1>3, <1>4, <1>5, <1>6, <1>7, <1>8, <1>9, <1>10 DEF NodeStep, OwnStep

(* A late thread commits, or never ran.                                     *)
LEMMA OrphanLeft ==
  ASSUME IInv, CancelsInv, LeftInv, ControlsKept,
         NEW o \in orphans, OrphanCommit(o) \/ OrphanNeverRan(o)
  PROVE  LeftInv'
<1>1. /\ StoreInv /\ o \in Orphan /\ o.run \in Runs /\ (o.txn \in ThreadPcs => o.node \in Nodes)
  BY IInvTypes DEF IInv, RuntimeInv, OrphansFollow, Follows
<1>2. UNCHANGED <<task, exec, proc>>
  BY DEF OrphanCommit, OrphanNeverRan
<1>3. ASSUME NEW p \in orphans', p.txn \in Entering
      PROVE  \E q \in orphans : q.txn \in Entering /\ q.run = p.run
  <2> DEFINE late == [o EXCEPT !.txn = "start"]
  <2>1. late.run = o.run
    BY <1>1 DEF Orphan
  <2> HIDE DEF late
  <2>2. p \in orphans \/ (p = late /\ o.txn = "check")
    BY DEF OrphanCommit, OrphanNeverRan, late
  <2> QED
    BY <1>3, <2>1, <2>2 DEF Entering
<1>4. CASE NoneStarts
  BY <1>2, <1>3, <1>4, AloneLeft
<1>5. CASE o.txn = "start" /\ StartRows(o.run, o.node)
  <2>1. \A q \in Runs \ {o.run} : rows'[q] = rows[q]
    BY <1>1, <1>5 DEF StartRows, StoreInv, StoreTypeOK
  <2>2. Lone(o.run) => proc = "stopping"
    BY <1>5 DEF LeftInv, Entering
  <2>3. ASSUME NEW q \in Runs, Running(q)', Lone(q), proc = "up"
        PROVE  Running(q)
    BY <2>1, <2>2, <2>3 DEF Running
  <2>4. Ending' <=> Ending
    BY <1>2 DEF Ending, Pc
  <2>5. PICK e : e = exec.run
    OBVIOUS
  <2>6. e \in Runs /\ proc = "up" /\ Ending' /\ Lone(e) => ~ Running(e)'
    BY <2>3, <2>4, <2>5 DEF LeftInv
  <2>7. exec'.run \in Runs /\ proc = "up" /\ Ending' /\ Lone(exec'.run) =>
          rows'[exec'.run].status # "RUNNING"
    BY <1>2, <2>5, <2>6 DEF Running
  <2>8. exec'.phase = "cancelled" => exec'.cancelling
    BY <1>2 DEF LeftInv
  <2> QED
    BY <1>2, <1>3, <2>3, <2>7, <2>8, LeftStays
<1>6. CASE o.txn = "check" /\ \E verdict \in {"go", "paused", "stopped"} :
                                BeforeNode(o.run, o.node, verdict)
  BY <1>1, <1>4, <1>6, BeforeNodeStarts
<1>7. CASE rows' = rows
  BY <1>4, <1>7, SameStarts
<1>8. CASE RecoverRows(o.run) \/ FinishRows(o.run) \/ FailRows(o.run)
  BY <1>1, <1>4, <1>8, RecoverStarts, FinishStarts, FailStarts
<1> QED
  BY <1>5, <1>6, <1>7, <1>8
  DEF OrphanCommit, OrphanNeverRan, StartCallRows, CallRows, durable

(* task.cancel() on the execution, of a stopped run or at a shutdown.       *)
LEMMA CancelExecutionLeft ==
  ASSUME IInv, LeftInv, ControlsKept, CancelExecution, exec.run # NoRun, UNCHANGED durable,
         (proc' = proc /\ ~ Lone(exec.run)) \/ proc' = "stopping"
  PROVE  LeftInv'
<1>1. exec \in Executions
  BY IInvTypes
<1> DEFINE thread == IF exec.phase \in {"recover", "finish", "error"}
                     THEN {[run |-> exec.run, txn |-> exec.phase, node |-> Unset, call |-> 0]}
                     ELSE {}
<1>2. /\ exec'.run = exec.run /\ exec'.cancelling
      /\ \/ UNCHANGED orphans
         \/ orphans' = orphans \cup LeftThreads(exec.run) \cup thread
  BY <1>1 DEF CancelExecution, Executions
<1>3. \A o \in thread : o.run = exec.run
  OBVIOUS
<1>4. \A o \in orphans' : o \in orphans \/ o.run = exec.run
  BY <1>2, <1>3, LeftThread
<1>5. CASE proc' = "stopping"
  BY <1>2, <1>5 DEF LeftInv, NoStrandedRun
<1>6. CASE proc' = proc /\ ~ Lone(exec.run)
  <2>1. \A r \in Runs : Running(r)' => Running(r)
    BY DEF Running, durable
  <2>2. \A o \in orphans' : Lone(o.run) => o \in orphans
    BY <1>4, <1>6
  <2> QED
    BY <1>2, <1>6, <2>1, <2>2, LeftStays
<1> QED
  BY <1>5, <1>6

(* The control API.                                                         *)
LEMMA ApiStepLeft ==
  ASSUME IInv, CancelsInv, LeftInv, ControlsKept, ApiStep
  PROVE  LeftInv'
<1>1. StoreInv
  BY IInvTypes
<1>2. ASSUME NoneStarts, UNCHANGED <<proc, exec, task, orphans>>
      PROVE  LeftInv'
  BY <1>2, AloneLeft
<1>3. ASSUME NEW r \in Runs, ApiPause(r) \/ ApiStop(r) \/ ApiResume(r)
      PROVE  LeftInv'
  <2>1. UNCHANGED <<proc, exec, task, orphans>>
    BY <1>3 DEF ApiPause, ApiStop, ApiResume, volatile
  <2>2. \/ rows' = rows
        \/ \E s \in {"PAUSED", "CANCELLED", "PENDING"}, reason \in Reasons : SetStatus(r, s, reason)
    BY <1>3 DEF ApiPause, ApiStop, ApiResume, RequestPause, Stop, BeginResume, Reasons
  <2>3. NoneStarts
    BY <1>1, <2>2, StatusStarts, SameStarts
  <2> QED
    BY <1>2, <2>1, <2>3
<1>4. ASSUME NEW r \in Runs, ApiRedeliverStop(r) \/ \E n \in NodesOf[Kind[r]] : ApiBeginRetry(r, n)
      PROVE  LeftInv'
  <2>1. UNCHANGED <<rows, proc, exec, task, orphans>>
    BY <1>4 DEF ApiRedeliverStop, ApiBeginRetry, BeginRetry, volatile, durable
  <2> QED
    BY <1>2, <2>1, SameStarts
<1>5. ASSUME NEW r \in Runs, CancelActiveRun(r)
      PROVE  LeftInv'
  <2>1. UNCHANGED <<durable, proc>> /\ StopApplied(r)
    BY <1>5 DEF CancelActiveRun, CancelsInv
  <2>2. CASE CancelExecution /\ exec.run = r
    <3>1. ~ Lone(exec.run)
      BY <2>1, <2>2 DEF Lone
    <3> QED
      BY <2>1, <2>2, <3>1, RunsAreNotNoRun, CancelExecutionLeft
  <2>3. CASE UNCHANGED <<exec, task, orphans>>
    BY <1>2, <2>1, <2>3, SameStarts DEF durable
  <2> QED
    BY <1>5, <2>2, <2>3 DEF CancelActiveRun
<1>6. ASSUME NEW r \in Runs, NEW b \in Budgets, ApiUpdateBudget(r, b)
      PROVE  LeftInv'
  <2> DEFINE row == [rows[r] EXCEPT !.budget = b]
  <2>1. rows' = [rows EXCEPT ![r] = row] /\ UNCHANGED <<proc, exec, task, orphans>>
    BY <1>6 DEF ApiUpdateBudget, UpdateBudget, volatile
  <2>2. row.status = rows[r].status
    BY <1>1 DEF StoreInv, StoreTypeOK, Row
  <2> HIDE DEF row
  <2>3. NoneStarts
    BY <1>1, <2>1, <2>2, RowStarts DEF Running
  <2> QED
    BY <1>2, <2>1, <2>3
<1>7. ASSUME NEW c \in DOMAIN controls, ApiCheckpointRetry(c)
      PROVE  LeftInv'
  <2>1. UNCHANGED <<proc, exec, task, orphans>>
    BY <1>7 DEF ApiCheckpointRetry, volatile
  <2>2. rows' = rows \/ SetStatus(controls[c].run, "PENDING", NoReason)
    BY <1>7 DEF ApiCheckpointRetry, CompleteCheckpointRetry
  <2>3. controls[c] \in Control
    BY <1>1 DEF StoreInv, StoreTypeOK
  <2>4. controls[c].run \in Runs
    BY <2>3 DEF Control
  <2>5. NoneStarts
    BY <1>1, <2>2, <2>4, StatusStarts, SameStarts
  <2> QED
    BY <1>2, <2>1, <2>5
<1>8. ASSUME NEW c \in DOMAIN controls, NEW child \in Runs, ApiQueueRetryChild(c, child)
      PROVE  LeftInv'
  BY <1>1, <1>2, <1>8, ChildStarts DEF ApiQueueRetryChild, volatile
<1> QED
  BY <1>3, <1>4, <1>5, <1>6, <1>7, <1>8 DEF ApiStep

(* The process.  A start finds no execution and no late thread, and leaves  *)
(* no run RUNNING.                                                          *)
LEMMA ProcessStepLeft ==
  ASSUME IInv, CancelsInv, LeftInv, ControlsKept, ProcessStep
  PROVE  LeftInv'
<1>1. CASE Shutdown
  <2>1. UNCHANGED durable /\ proc = "up" /\ proc' = "stopping"
    BY <1>1 DEF Shutdown
  <2>2. CASE CancelExecution /\ exec.run # NoRun
    BY <2>1, <2>2, CancelExecutionLeft
  <2>3. CASE UNCHANGED <<exec, task, orphans>>
    BY <2>1, <2>3 DEF LeftInv, NoStrandedRun
  <2> QED
    BY <1>1, <2>2, <2>3 DEF Shutdown
<1>2. CASE Exit
  <2>1. /\ proc' = "down" /\ UNCHANGED <<exec, orphans>> /\ orphans = {} /\ exec.phase = "idle"
        /\ ~ exec.cancelling
    BY <1>2 DEF Exit, Phase, CancelsInv
  <2> QED
    BY <2>1 DEF LeftInv, NoStrandedRun
<1>3. CASE Crash
  <2>1. proc' = "down" /\ orphans' = {} /\ exec'.phase = "idle" /\ ~ exec'.cancelling
    BY <1>3 DEF Crash, Idle
  <2> QED
    BY <2>1 DEF LeftInv, NoStrandedRun
<1>4. CASE Restart
  <2>1. /\ UNCHANGED <<exec, orphans>> /\ orphans = {} /\ exec.phase = "idle"
        /\ ~ exec.cancelling
    BY <1>4 DEF Restart, CancelsInv
  <2>2. ASSUME NEW r \in Runs
        PROVE  ~ Running(r)'
    <3> DEFINE row == [rows[r] EXCEPT !.status = "PENDING"]
    <3>1. row.status = "PENDING"
      BY IInvTypes DEF StoreInv, StoreTypeOK, Row
    <3> HIDE DEF row
    <3>2. rows'[r] = IF rows[r].status = "RUNNING" THEN row ELSE rows[r]
      BY <1>4 DEF Restart, row
    <3> QED
      BY <3>1, <3>2 DEF Running
  <2>3. exec'.run \notin Runs
    BY <2>1, IInvTypes, RunsAreNotNoRun
  <2> QED
    BY <2>1, <2>2, <2>3 DEF LeftInv, NoStrandedRun, Running
<1> QED
  BY <1>1, <1>2, <1>3, <1>4 DEF ProcessStep

(* At first every run is PENDING.                                           *)
LEMMA InitLeft == Init => LeftInv
<1> SUFFICES ASSUME Init PROVE LeftInv
  OBVIOUS
<1>1. \A r \in Runs : rows[r].status = "PENDING"
  BY DEF Init, StoreInit
<1>2. orphans = {} /\ ~ exec.cancelling /\ exec.phase = "idle" /\ exec.run \notin Runs
  BY RunsAreNotNoRun DEF Init, Idle
<1> QED
  BY <1>1, <1>2 DEF LeftInv, NoStrandedRun, Running

(* Every step keeps runs from being left behind.                            *)
LEMMA NextKeepsLeft ==
  IInv /\ EvidenceInv /\ CancelsInv /\ LeftInv /\ [Next]_vars => LeftInv'
<1> SUFFICES ASSUME IInv, EvidenceInv, CancelsInv, LeftInv, [Next]_vars PROVE LeftInv'
  OBVIOUS
<1>1. ControlsKept
  BY NextKeepsControls
<1>2. CASE UNCHANGED vars
  <2>1. UNCHANGED <<rows, proc, exec, task, orphans>>
    BY <1>2 DEF vars, volatile, durable
  <2> QED
    BY <1>1, <2>1, SameStarts, AloneLeft
<1>3. CASE \E o \in orphans : OrphanCommit(o) \/ OrphanNeverRan(o)
  BY <1>1, <1>3, OrphanLeft
<1>4. CASE \E n \in Nodes : NodeStep(n)
  BY <1>1, <1>4, NodeStepLeft
<1>5. CASE ExecutionStep \/ \E r \in Runs : Claim(r)
  BY <1>1, <1>5, ExecutionStepLeft
<1>6. CASE ApiStep \/ ProcessStep
  BY <1>1, <1>6, ApiStepLeft, ProcessStepLeft
<1> QED
  BY <1>2, <1>3, <1>4, <1>5, <1>6 DEF Next

(* A run that goes one node at a time, is RUNNING and was not stopped is    *)
(* executed, or waits for the next start of the process: no failure, crash, *)
(* shutdown, pause or late thread leaves it RUNNING with nobody to end it.  *)
THEOREM NothingStranded == Spec => []NoStrandedRun
<1>1. Spec => []IInv
  BY Invariance
<1>2. Spec => []EvidenceInv
  BY <1>1, InitEvidence, NextKeepsEvidence, PTL DEF Spec
<1>3. LoneRunsInv => CancelsInv
  BY DEF LoneRunsInv
<1>4. LeftInv => NoStrandedRun
  BY DEF LeftInv
<1> QED
  BY <1>1, <1>2, <1>3, <1>4, LoneRunsStay, InitLeft, NextKeepsLeft, PTL DEF Spec
=============================================================================
