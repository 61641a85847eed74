------------------------------ MODULE StoryLife ------------------------------
(***************************************************************************)
(* The life of one story project, from its queued Blueprint to a finished   *)
(* production: who executes a run, the human decision on a Blueprint, the   *)
(* fork, the handoff of the approved Blueprint to a production, and the     *)
(* deletion of the project.                                                 *)
(*                                                                          *)
(* A run is executed by the worker, or by the request that delivers a       *)
(* decision.  An executor takes one step between two awaits; what it read   *)
(* before an await it keeps in its `view`.  The specialists of a graph are  *)
(* one piece of work here, and their interruption by run controls is module *)
(* WorkflowRuntime.                                                         *)
(***************************************************************************)
EXTENDS Integers, FiniteSets

CONSTANTS
  Children,    \* how many fork children the instance has ids for
  Requests,    \* concurrent deliveries of decisions
  Decisions,   \* decision ids (client-generated UUIDs)
  Choices,     \* the actions clients choose
  Overlapping, \* actions clients may deliver again while they are being handled
  MaxRounds,   \* bound: reviews asked for per run
  MaxFaults    \* bound: process losses

ASSUME StoryAssumption ==
  /\ Children \in Nat \ {0}
  /\ Choices \subseteq {"approve", "revise", "reject", "fork"}
  /\ Overlapping \subseteq Choices
  /\ "worker" \notin Requests /\ "none" \notin Decisions
  /\ MaxRounds \in Nat /\ MaxFaults \in Nat

Story == 1                            \* the run the intake queues
Blueprints == 1 .. 1 + Children       \* it, and the children of forks
Production(b) == b + Cardinality(Blueprints)  \* uuid5 of the Blueprint run
Productions == {Production(b) : b \in Blueprints}
StoryRuns == Blueprints \cup Productions
BlueprintOf(p) == CHOOSE b \in Blueprints : Production(b) = p
Executors == {"worker"} \cup Requests

NoStory == 0
NoDecision == "none"

VARIABLES
  run,       \* [StoryRuns -> row]: status, and whether its inputs are frozen
  thread,    \* [Blueprints -> the latest LangGraph checkpoint]
  asked,     \* [Blueprints -> Nat]: the last interrupt announced to clients
  decision,  \* [Decisions -> human_decisions row, and what the client sends]
  executor,  \* [Executors -> what it is doing]
  profile,   \* is a complete model profile the default?
  deleted,   \* was the project deleted?
  faults

lifeVars == <<run, thread, asked, decision, executor, profile, deleted, faults>>

Absent == "ABSENT"
RunStatuses == {Absent, "PENDING", "RUNNING", "PAUSED", "SUCCEEDED", "FAILED", "CANCELLED"}
NoThread == [at |-> "none", round |-> 0, action |-> "none", dec |-> NoDecision]
NotSent == [about |-> NoStory, round |-> 0, action |-> "none", status |-> "unsent",
            result |-> NoStory]
Idle == [pc |-> "idle", run |-> NoStory, dec |-> NoDecision, input |-> "none",
         view |-> NoThread]

Thread == [at : {"none", "work", "review", "end"}, round : Nat,
           action : {"none", "approve", "revise", "reject", "fork"},
           dec : Decisions \cup {NoDecision}]
ExecutorPcs == {"idle", "begin", "load", "approval", "start", "work", "failing", "raised",
                "boundary", "snapshot", "await", "approve", "apply", "answer",
                "check", "record", "go",
                "inspect", "prepare", "handoff", "produce", "scenes", "finish"}

LifeTypeOK ==
  /\ run \in [StoryRuns -> [status : RunStatuses, frozen : BOOLEAN, fork : BOOLEAN]]
  /\ thread \in [Blueprints -> Thread]
  /\ asked \in [Blueprints -> Nat]
  /\ decision \in [Decisions ->
       [about : Blueprints \cup {NoStory}, round : Nat, action : Choices \cup {"none"},
        status : {"unsent", "sent", "PENDING", "APPLIED", "FAILED"},
        result : Blueprints \cup {NoStory}]]
  /\ executor \in [Executors ->
       [pc : ExecutorPcs, run : StoryRuns \cup {NoStory},
        dec : Decisions \cup {NoDecision}, input : {"none", "new", "fork", "resume"},
        view : Thread]]
  /\ profile \in BOOLEAN /\ deleted \in BOOLEAN /\ faults \in Nat

(* create_story_project has just queued the story.                          *)
LifeInit ==
  /\ run = [r \in StoryRuns |-> [status |-> IF r = Story THEN "PENDING" ELSE Absent,
                                 frozen |-> FALSE, fork |-> FALSE]]
  /\ thread = [b \in Blueprints |-> NoThread]
  /\ asked = [b \in Blueprints |-> 0]
  /\ decision = [d \in Decisions |-> NotSent]
  /\ executor = [e \in Executors |-> Idle]
  /\ profile = FALSE
  /\ deleted = FALSE
  /\ faults = 0

-----------------------------------------------------------------------------
(* Executors.                                                               *)

At(e, pc) == executor[e].pc = pc
Of(e) == executor[e].run
Status(r) == run[r].status
Exists(r) == Status(r) # Absent

(* What an executor has read it keeps only while it will use it.            *)
Uses(pc) == pc \in {"approval", "start", "work", "await", "approve", "apply"}
GoToWith(e, pc, view) ==
  executor' = [executor EXCEPT ![e].pc = pc,
                               ![e].view = IF Uses(pc) THEN view ELSE NoThread,
                               ![e].input = IF pc \in {"check", "record", "go", "load"} THEN @
                                            ELSE "none"]
GoTo(e, pc) == GoToWith(e, pc, executor[e].view)
End(e) == executor' = [executor EXCEPT ![e] = Idle]
Become(r, status) == run' = [run EXCEPT ![r].status = status]

(* A transaction on the row of the executed run; `_require_run` raises when *)
(* it is gone, and a request then has no decision row to mark either.       *)
OnRow(e, update) ==
  \/ Exists(Of(e)) /\ update
  \/ ~ Exists(Of(e)) /\ End(e) /\ UNCHANGED run

(* ainvoke with its input, on the latest checkpoint of the thread.  A       *)
(* Command resumes whatever interrupt is open.                              *)
Load(e) ==
  LET b == Of(e)
      latest == thread[b]
      seeded == [latest EXCEPT !.at = "work"]
      forked == [seeded EXCEPT !.action = "fork", !.dec = executor[e].dec]
  IN  /\ At(e, "load")
      /\ CASE executor[e].input = "new" ->
                /\ thread' = [thread EXCEPT ![b] = seeded]
                /\ GoToWith(e, "start", seeded)
           [] executor[e].input = "fork" ->
                /\ thread' = [thread EXCEPT ![b] = forked]
                /\ GoToWith(e, "start", forked)
           [] OTHER ->
                /\ GoToWith(e, CASE latest.at = "work" -> "start"
                                 [] latest.at = "review" /\ executor[e].input = "resume"
                                      -> "approval"
                                 [] OTHER -> "boundary", latest)
                /\ UNCHANGED thread
      /\ UNCHANGED <<run, asked, decision, profile, deleted, faults>>

(* The approval node completes with the decision it was resumed with.       *)
Approval(e) ==
  LET d == executor[e].dec
      action == decision[d].action
      decided == [executor[e].view EXCEPT !.at = IF action = "approve" THEN "end" ELSE "work",
                                          !.action = action, !.dec = d]
  IN  /\ At(e, "approval")
      /\ \/ /\ Exists(Of(e))
            /\ thread' = [thread EXCEPT ![Of(e)] = decided]
            /\ GoToWith(e, IF action = "approve" THEN "boundary" ELSE "start", decided)
         \/ /\ ~ Exists(Of(e))
            /\ End(e) /\ UNCHANGED thread
      /\ UNCHANGED <<run, asked, decision, profile, deleted, faults>>

(* node_started: a stopped run raises WorkflowStoppedSignal.                *)
StartWork(e) ==
  /\ At(e, "start")
  /\ OnRow(e, \/ /\ Status(Of(e)) = "CANCELLED"
                 /\ GoTo(e, "apply")
                 /\ UNCHANGED run
              \/ /\ Status(Of(e)) # "CANCELLED"
                 /\ Become(Of(e), "RUNNING")
                 /\ GoTo(e, "work"))
  /\ UNCHANGED <<thread, asked, decision, profile, deleted, faults>>

(* The specialists end in the next review, or one of them fails.            *)
Work(e) ==
  LET reviewed == [executor[e].view EXCEPT !.at = "review", !.round = @ + 1]
  IN  /\ At(e, "work")
      /\ \/ /\ reviewed.round <= MaxRounds
            /\ thread' = [thread EXCEPT ![Of(e)] = reviewed]
            /\ GoToWith(e, "boundary", reviewed)
         \/ GoTo(e, "failing") /\ UNCHANGED thread
      /\ UNCHANGED <<run, asked, decision, profile, deleted, faults>>

(* workflow_failed                                                          *)
Failing(e) ==
  /\ At(e, "failing")
  /\ OnRow(e, Become(Of(e), "FAILED") /\ GoTo(e, "raised"))
  /\ UNCHANGED <<thread, asked, decision, profile, deleted, faults>>

(* execution_boundary                                                       *)
Boundary(e) ==
  /\ At(e, "boundary")
  /\ OnRow(e, /\ GoTo(e, IF Status(Of(e)) = "CANCELLED" THEN "answer" ELSE "snapshot")
              /\ UNCHANGED run)
  /\ UNCHANGED <<thread, asked, decision, profile, deleted, faults>>

(* What the thread ended in is read from its latest checkpoint.             *)
Snapshot(e) ==
  LET latest == thread[Of(e)]
  IN  /\ At(e, "snapshot")
      /\ GoToWith(e, CASE latest.at = "review" -> "await"
                       [] latest.at # "review" /\ latest.action = "approve" -> "approve"
                       [] OTHER -> "failing", latest)
      /\ UNCHANGED <<run, thread, asked, decision, profile, deleted, faults>>

(* awaiting_approval                                                        *)
AwaitApproval(e) ==
  /\ At(e, "await")
  /\ \/ /\ Exists(Of(e))
        /\ Become(Of(e), "PAUSED")
        /\ asked' = [asked EXCEPT ![Of(e)] = executor[e].view.round]
        /\ GoTo(e, "apply")
     \/ ~ Exists(Of(e)) /\ End(e) /\ UNCHANGED <<run, asked>>
  /\ UNCHANGED <<thread, decision, profile, deleted, faults>>

(* _approve_blueprint                                                       *)
Approve(e) ==
  /\ At(e, "approve")
  /\ OnRow(e, Become(Of(e), "SUCCEEDED") /\ GoTo(e, "apply"))
  /\ UNCHANGED <<thread, asked, decision, profile, deleted, faults>>

(* Mutant: the decision takes the status of its run.                        *)
ApplyAsRun(e) ==
  /\ At(e, "apply") \/ At(e, "answer")
  /\ decision' = [d \in Decisions |->
                    IF d = executor[e].dec /\ Exists(Of(e))
                    THEN [decision[d] EXCEPT !.status = Status(Of(e)), !.result = Of(e)]
                    ELSE decision[d]]
  /\ End(e)
  /\ UNCHANGED <<run, thread, asked, profile, deleted, faults>>

(* _apply_checkpoint_decision with the decision of the snapshot, and for a  *)
(* request _mark_decision_applied; after a stop only the latter.            *)
Apply(e) ==
  LET seen == IF At(e, "apply") THEN executor[e].view.dec ELSE NoDecision
      settled == {d \in {executor[e].dec, seen} \ {NoDecision} :
                    decision[d].status \in {"PENDING", "FAILED"}}
  IN  /\ At(e, "apply") \/ At(e, "answer")
      /\ decision' = [d \in Decisions |->
                        IF d \in settled
                        THEN [decision[d] EXCEPT !.status = "APPLIED", !.result = Of(e)]
                        ELSE decision[d]]
      /\ End(e)
      /\ UNCHANGED <<run, thread, asked, profile, deleted, faults>>

(* _mark_decision_failed                                                    *)
RaiseError(e) ==
  LET d == executor[e].dec
  IN  /\ At(e, "raised")
      /\ decision' = IF d # NoDecision /\ decision[d].status \in {"PENDING", "APPLIED"}
                     THEN [decision EXCEPT ![d].status = "FAILED"]
                     ELSE decision
      /\ End(e)
      /\ UNCHANGED <<run, thread, asked, profile, deleted, faults>>

GraphStep(e) ==
  \/ Load(e) \/ Approval(e) \/ StartWork(e) \/ Work(e) \/ Failing(e) \/ Boundary(e)
  \/ Snapshot(e) \/ AwaitApproval(e) \/ Approve(e) \/ Apply(e) \/ RaiseError(e)

-----------------------------------------------------------------------------
(* The worker.                                                              *)

(* _freeze_interactive_inputs: a run enters the queue only with a frozen    *)
(* profile; a run that already has one keeps it.                            *)
Configurable(b) == run[b].frozen \/ profile

QueuedBlueprints == {b \in Blueprints : Status(b) = "PENDING" /\ Configurable(b)}
QueuedProductions == {p \in Productions : Status(p) = "PENDING"}
(* An approved Blueprint without a production row.                          *)
Handoffs == {b \in Blueprints : Status(b) = "SUCCEEDED" /\ ~ Exists(Production(b))}

Start(b, pc) == executor' = [executor EXCEPT !["worker"] =
                               [Idle EXCEPT !.pc = pc, !.run = b]]

(* _next_candidate and _claim_pending_run, in one transaction.              *)
Claim ==
  /\ At("worker", "idle")
  /\ \/ \E b \in QueuedBlueprints :
          /\ \A c \in QueuedBlueprints : b <= c
          /\ run' = [run EXCEPT ![b] = [@ EXCEPT !.status = "RUNNING", !.frozen = TRUE]]
          /\ Start(b, "begin")
     \/ /\ QueuedBlueprints = {}
        /\ \E p \in QueuedProductions :
             /\ \A q \in QueuedProductions : p <= q
             /\ Become(p, "RUNNING")
             /\ Start(p, "inspect")
     \/ /\ QueuedBlueprints = {} /\ QueuedProductions = {}
        /\ \E b \in Handoffs : Start(Production(b), "inspect")
        /\ UNCHANGED run
  /\ UNCHANGED <<thread, asked, decision, profile, deleted, faults>>

(* execute: the status, and whether the thread exists, are read once.       *)
Begin ==
  LET b == Of("worker")
      input == IF thread[b].at = "none" THEN "new" ELSE "none"
  IN  /\ At("worker", "begin")
      /\ \/ /\ Status(b) \in {"PENDING", "RUNNING", "FAILED"}
            /\ executor' = [executor EXCEPT !["worker"] =
                              [@ EXCEPT !.pc = "load", !.input = input]]
         \/ Status(b) \notin {"PENDING", "RUNNING", "FAILED"} /\ End("worker")
      /\ UNCHANGED <<run, thread, asked, decision, profile, deleted, faults>>

(* The worker reads the Blueprint artifact off the latest checkpoint.       *)
HoldsBlueprint(b) == thread[b].round > 0 \/ thread[b].action = "fork"
Inspect ==
  /\ At("worker", "inspect")
  /\ IF HoldsBlueprint(BlueprintOf(Of("worker"))) THEN GoTo("worker", "prepare")
     ELSE End("worker")
  /\ UNCHANGED <<run, thread, asked, decision, profile, deleted, faults>>

(* The child shares the frozen inputs of its Blueprint.                     *)
ProductionRow(b) == [status |-> "PENDING", frozen |-> run[b].frozen, fork |-> FALSE]

(* _materialize_handoff: the production row is created once; a handoff may  *)
(* also fail on what it finds.                                              *)
Prepare ==
  LET p == Of("worker")
      b == BlueprintOf(p)
  IN  /\ At("worker", "prepare")
      /\ \/ /\ Status(b) = "SUCCEEDED"
            /\ run' = IF Exists(p) THEN run ELSE [run EXCEPT ![p] = ProductionRow(b)]
            /\ GoTo("worker", "produce")
         \/ GoTo("worker", "handoff") /\ UNCHANGED run
      /\ UNCHANGED <<thread, asked, decision, profile, deleted, faults>>

(* Mutant: the failed handoff leaves no trace.                              *)
FailHandoffSilently ==
  /\ At("worker", "handoff")
  /\ End("worker")
  /\ UNCHANGED <<run, thread, asked, decision, profile, deleted, faults>>

(* _fail_handoff: a terminal child, so that one bad handoff cannot starve   *)
(* the worker.                                                              *)
FailHandoff ==
  LET p == Of("worker")
  IN  /\ At("worker", "handoff")
      /\ IF Exists(BlueprintOf(p)) /\ Status(p) # "SUCCEEDED" THEN Become(p, "FAILED")
         ELSE UNCHANGED run
      /\ End("worker")
      /\ UNCHANGED <<thread, asked, decision, profile, deleted, faults>>

(* SceneProductionService.execute: the status after the handoff, and the    *)
(* recovery that makes a claimed production PENDING.                        *)
Produce ==
  LET p == Of("worker")
  IN  /\ At("worker", "produce")
      /\ \/ /\ Status(p) \in {"PENDING", "FAILED"}
            /\ GoTo("worker", "scenes") /\ UNCHANGED run
         \/ /\ Status(p) = "RUNNING"
            /\ Become(p, "PENDING") /\ GoTo("worker", "scenes")
         \/ /\ Status(p) \notin {"PENDING", "FAILED", "RUNNING"}
            /\ End("worker") /\ UNCHANGED run
      /\ UNCHANGED <<thread, asked, decision, profile, deleted, faults>>

(* Its nodes run; a stop is honored at each.                                *)
Scenes ==
  LET p == Of("worker")
  IN  /\ At("worker", "scenes")
      /\ \/ /\ Status(p) \notin {"CANCELLED", Absent}
            /\ Become(p, "RUNNING") /\ GoTo("worker", "finish")
         \/ Status(p) \in {"CANCELLED", Absent} /\ End("worker") /\ UNCHANGED run
      /\ UNCHANGED <<thread, asked, decision, profile, deleted, faults>>

FinishProduction ==
  /\ At("worker", "finish")
  /\ OnRow("worker", /\ \E status \in {"SUCCEEDED", "FAILED"} : Become(Of("worker"), status)
                     /\ End("worker"))
  /\ UNCHANGED <<thread, asked, decision, profile, deleted, faults>>

WorkerStep ==
  \/ Claim \/ Begin \/ Inspect \/ Prepare \/ FailHandoff \/ Produce \/ Scenes
  \/ FinishProduction \/ GraphStep("worker")

-----------------------------------------------------------------------------
(* Decisions.                                                               *)

(* A client decides on the interrupt it was last shown, under a fresh id,   *)
(* or delivers a decision again with the same data.                         *)
Deliver(q, d) ==
  /\ At(q, "idle")
  /\ \/ /\ decision[d].status = "unsent"
        /\ \E b \in Blueprints, action \in Choices :
             /\ asked[b] > 0
             /\ decision' = [decision EXCEPT ![d] =
                               [about |-> b, round |-> asked[b], action |-> action,
                                status |-> "sent", result |-> NoStory]]
     \/ /\ decision[d].status # "unsent"
        /\ \/ decision[d].action \in Overlapping
           \/ \A r \in Requests : executor[r].dec # d
        /\ UNCHANGED decision
  /\ executor' = [executor EXCEPT ![q] = [Idle EXCEPT !.pc = "check", !.dec = d,
                                                      !.run = decision'[d].about,
                                                      !.input = "resume"]]
  /\ UNCHANGED <<run, thread, asked, profile, deleted, faults>>

Recorded(d) == decision[d].status \notin {"unsent", "sent"}

(* resume, up to its first await: an applied decision is answered from its  *)
(* result, and any other is refused unless the run is PAUSED.               *)
Check(q) ==
  /\ At(q, "check")
  /\ IF decision[executor[q].dec].status # "APPLIED" /\ Status(Of(q)) = "PAUSED"
     THEN GoTo(q, "record")
     ELSE End(q)
  /\ UNCHANGED <<run, thread, asked, decision, profile, deleted, faults>>

(* Mutant: a second decision about the same interrupt is recorded as well.  *)
RecordSecondDecision(q) ==
  LET d == executor[q].dec
      open == thread[Of(q)].at = "review" /\ thread[Of(q)].round = decision[d].round
  IN  /\ At(q, "record")
      /\ \/ open /\ Recorded(d) /\ GoTo(q, "go") /\ UNCHANGED decision
         \/ /\ open /\ ~ Recorded(d) /\ Exists(Of(q))
            /\ decision' = [decision EXCEPT ![d].status = "PENDING"]
            /\ GoTo(q, "go")
         \/ /\ open => ~ Recorded(d) /\ ~ Exists(Of(q))
            /\ End(q) /\ UNCHANGED decision
      /\ UNCHANGED <<run, thread, asked, profile, deleted, faults>>

(* The interrupt must be the open one; _record_decision admits one decision *)
(* per interrupt.                                                           *)
RecordDecision(q) ==
  LET d == executor[q].dec
      this == decision[d]
      open == thread[Of(q)].at = "review" /\ thread[Of(q)].round = this.round
      taken == \E c \in Decisions \ {d} : /\ Recorded(c)
                                          /\ decision[c].about = this.about
                                          /\ decision[c].round = this.round
  IN  /\ At(q, "record")
      /\ \/ open /\ Recorded(d) /\ GoTo(q, "go") /\ UNCHANGED decision
         \/ /\ open /\ ~ Recorded(d) /\ ~ taken /\ Exists(Of(q))
            /\ decision' = [decision EXCEPT ![d].status = "PENDING"]
            /\ GoTo(q, "go")
         \/ /\ open => ~ Recorded(d) /\ (taken \/ ~ Exists(Of(q)))
            /\ End(q) /\ UNCHANGED decision
      /\ UNCHANGED <<run, thread, asked, profile, deleted, faults>>

ForkRow(b) == [status |-> "PENDING", frozen |-> run[b].frozen, fork |-> TRUE]
LoadChild(q, child) ==
  executor' = [executor EXCEPT ![q] = [@ EXCEPT !.pc = "load", !.run = child, !.input = "fork"]]

(* A queued child that shares the frozen inputs; the source is frozen.      *)
NewForkChild(q) ==
  LET d == executor[q].dec
      source == Of(q)
  IN  \E child \in Blueprints :
        /\ ~ Exists(child)
        /\ \A b \in Blueprints : Exists(b) \/ child <= b
        /\ run' = [run EXCEPT ![child] = ForkRow(source), ![source].status = "CANCELLED"]
        /\ decision' = [decision EXCEPT ![d].result = child]
        /\ LoadChild(q, child)

(* Mutant: a redelivered fork makes another child.                          *)
CreateForkRunAgain(q) ==
  LET d == executor[q].dec
  IN  /\ At(q, "go") /\ decision[d].action = "fork"
      /\ \/ Recorded(d) /\ NewForkChild(q)
         \/ ~ Recorded(d) /\ End(q) /\ UNCHANGED <<run, decision>>
      /\ UNCHANGED <<thread, asked, profile, deleted, faults>>

(* _create_fork_run, once per decision; the child is then executed by the   *)
(* request itself, which does not claim it.                                 *)
CreateForkRun(q) ==
  LET d == executor[q].dec
  IN  /\ At(q, "go") /\ decision[d].action = "fork"
      /\ \/ /\ decision[d].result # NoStory
            /\ LoadChild(q, decision[d].result)
            /\ UNCHANGED <<run, decision>>
         \/ decision[d].result = NoStory /\ Recorded(d) /\ NewForkChild(q)
         \/ ~ Recorded(d) /\ End(q) /\ UNCHANGED <<run, decision>>
      /\ UNCHANGED <<thread, asked, profile, deleted, faults>>

ResumeGraph(q) ==
  /\ At(q, "go") /\ decision[executor[q].dec].action # "fork"
  /\ IF Recorded(executor[q].dec) THEN GoTo(q, "load") ELSE End(q)
  /\ UNCHANGED <<run, thread, asked, decision, profile, deleted, faults>>

RequestStep(q) ==
  \/ Check(q) \/ RecordDecision(q) \/ CreateForkRun(q) \/ ResumeGraph(q) \/ GraphStep(q)

-----------------------------------------------------------------------------
(* The project.                                                             *)

(* The user stops a run.  The worker's execution of it ends; a request's    *)
(* is not interrupted.                                                      *)
Stop(r) ==
  /\ Status(r) \in {"PENDING", "RUNNING", "PAUSED", "FAILED"}
  /\ Become(r, "CANCELLED")
  /\ IF Of("worker") = r THEN End("worker") ELSE UNCHANGED executor
  /\ UNCHANGED <<thread, asked, decision, profile, deleted, faults>>

(* delete_project: refused while a run is queued or executed.               *)
DeleteProject ==
  /\ ~ deleted
  /\ \A r \in StoryRuns : Status(r) \notin {"PENDING", "RUNNING"}
  /\ deleted' = TRUE
  /\ run' = [r \in StoryRuns |-> [status |-> Absent, frozen |-> FALSE, fork |-> FALSE]]
  /\ thread' = [b \in Blueprints |-> NoThread]
  /\ decision' = [d \in Decisions |->
                    IF Recorded(d) THEN [decision[d] EXCEPT !.status = "sent", !.result = NoStory]
                    ELSE decision[d]]
  /\ UNCHANGED <<asked, executor, profile, faults>>

ActivateProfile ==
  /\ ~ profile
  /\ profile' = TRUE
  /\ UNCHANGED <<run, thread, asked, decision, executor, deleted, faults>>

(* The process is lost and started again: _recover_interrupted_runs.        *)
CrashAndRestart ==
  /\ faults < MaxFaults
  /\ faults' = faults + 1
  /\ executor' = [e \in Executors |-> Idle]
  /\ run' = [r \in StoryRuns |-> IF Status(r) = "RUNNING" THEN [run[r] EXCEPT !.status = "PENDING"]
                                 ELSE run[r]]
  /\ UNCHANGED <<thread, asked, decision, profile, deleted>>

LifeNext ==
  \/ WorkerStep
  \/ \E q \in Requests : RequestStep(q) \/ \E d \in Decisions : Deliver(q, d)
  \/ \E r \in StoryRuns : Stop(r)
  \/ DeleteProject \/ ActivateProfile \/ CrashAndRestart

(* The worker loop and the handlers keep running; clients owe nothing.      *)
LifeFairness ==
  /\ WF_lifeVars(WorkerStep)
  /\ \A q \in Requests : WF_lifeVars(RequestStep(q))
LifeSpec == LifeInit /\ [][LifeNext]_lifeVars /\ LifeFairness

-----------------------------------------------------------------------------
(* Safety.                                                                  *)

(* Whoever executes a run, and however often decisions are delivered, a     *)
(* production exists only of a Blueprint some recorded decision approved,   *)
(* and a child only of a fork, one for each, even when it is delivered      *)
(* again while it is being handled; and nothing brings a deleted story      *)
(* back, be it a request or a worker that still works on it or a handoff    *)
(* that fails after it (_approve_blueprint, _create_fork_run,               *)
(* _next_candidate, _materialize_handoff, delete_project).                  *)
Approved(b) ==
  \E d \in Decisions : Recorded(d) /\ decision[d].about = b /\ decision[d].action = "approve"
Forked(b) == \E d \in Decisions : decision[d].action = "fork" /\ decision[d].result = b
StoriesAreDecided ==
  \A b \in Blueprints :
    /\ Exists(Production(b)) => Approved(b)
    /\ Exists(b) /\ b # Story => Forked(b)
    /\ deleted => ~ Exists(b) /\ ~ Exists(Production(b))

(* The story's own Blueprint, once approved, stays approved until it is     *)
(* deleted: no execution, crash recovery or late decision takes it back.    *)
ApprovalIsFinal ==
  [][Status(Story) = "SUCCEEDED" => Status(Story)' \in {"SUCCEEDED", Absent}]_lifeVars

-----------------------------------------------------------------------------
(* What the repository says, and the code does not keep.                    *)

(* "The same decision UUID can be retried safely": while a recorded         *)
(* decision is not applied, its run waits for it and nobody handles it, the *)
(* interrupt it is about is still open.                                     *)
DecisionRetriable ==
  \A d \in Decisions :
    LET b == decision[d].about
    IN  /\ decision[d].status \in {"PENDING", "FAILED"} /\ Status(b) = "PAUSED"
        /\ \A e \in Executors : executor[e].dec # d /\ Of(e) # b
        => thread[b].at = "review" /\ thread[b].round = decision[d].round

-----------------------------------------------------------------------------
(* Liveness: every approved Blueprint gets its production row, be it that   *)
(* of a failed handoff, and so does not occupy the queue for ever           *)
(* (_next_candidate, _fail_handoff).                                        *)
HandoffSettles == []<>(\A b \in Blueprints : Status(b) = "SUCCEEDED" => Exists(Production(b)))
=============================================================================
