-------------------------- MODULE StoryLifeProofs --------------------------
(***************************************************************************)
(* What StoryLife promises, for every number of forks, requests, decisions, *)
(* reviews and process losses: that a production exists only of a Blueprint *)
(* some decision approved and a child only of a fork (StoriesAreDecided, by *)
(* LifeInv), and, where clients do not deliver a decision other than a fork *)
(* again while it is being handled, that an approval of the story is final  *)
(* (ApprovalIsFinal, by StoryInv).                                          *)
(***************************************************************************)
EXTENDS StoryLife, FiniteSetTheorems, TLAPS

Rows == [status : RunStatuses, frozen : BOOLEAN, fork : BOOLEAN]
DecisionRows ==
  [about : Blueprints \cup {NoStory}, round : Nat, action : Choices \cup {"none"},
   status : {"unsent", "sent", "PENDING", "APPLIED", "FAILED"},
   result : Blueprints \cup {NoStory}]
Execution ==
  [pc : ExecutorPcs, run : StoryRuns \cup {NoStory}, dec : Decisions \cup {NoDecision},
   input : {"none", "new", "fork", "resume"}, view : Thread]

-----------------------------------------------------------------------------
(* The runs of a story.                                                     *)

(* A production is the run of exactly one Blueprint, and no Blueprint.      *)
LEMMA RunsOfStory ==
  /\ Story \in Blueprints /\ NoStory \notin StoryRuns
  /\ StoryRuns = Blueprints \cup Productions
  /\ \A b \in Blueprints :
       Production(b) \in Productions /\ BlueprintOf(Production(b)) = b
  /\ \A p \in Productions :
       p \notin Blueprints /\ BlueprintOf(p) \in Blueprints /\ Production(BlueprintOf(p)) = p
  /\ Blueprints \subseteq Nat
<1>1. Children \in Nat /\ Children >= 1
  BY StoryAssumption
<1>2. Cardinality(Blueprints) = 1 + Children
  BY <1>1, FS_Interval DEF Blueprints
<1>3. \A b \in Blueprints : b \in Nat /\ b >= 1 /\ b <= 1 + Children
  BY <1>1 DEF Blueprints
<1>4. \A b : Production(b) = b + (1 + Children)
  BY <1>2 DEF Production
<1>5. \A b \in Blueprints : Production(b) \in Productions /\ Production(b) \notin Blueprints
                            /\ Production(b) # NoStory
  BY <1>1, <1>3, <1>4 DEF Productions, Blueprints, NoStory
<1>6. \A b, c \in Blueprints : Production(b) = Production(c) => b = c
  BY <1>1, <1>3, <1>4
<1>7. \A b \in Blueprints : BlueprintOf(Production(b)) = b
  BY <1>6 DEF BlueprintOf
<1>8. \A p \in Productions : \E b \in Blueprints : p = Production(b)
  BY DEF Productions
<1>9. Story \in Blueprints /\ NoStory \notin Blueprints
  BY <1>1 DEF Story, Blueprints, NoStory
<1> QED
  BY <1>3, <1>5, <1>7, <1>8, <1>9 DEF StoryRuns

(* The types, by variable.                                                  *)
LEMMA LifeFields ==
  ASSUME LifeTypeOK
  PROVE  /\ run \in [StoryRuns -> Rows]
         /\ thread \in [Blueprints -> Thread]
         /\ asked \in [Blueprints -> Nat]
         /\ decision \in [Decisions -> DecisionRows]
         /\ executor \in [Executors -> Execution]
         /\ NoThread \in Thread /\ Idle \in Execution /\ NotSent \in DecisionRows
<1>1. NoThread \in Thread
  BY DEF NoThread, Thread
<1>2. Idle \in Execution
  BY <1>1 DEF Idle, Execution, ExecutorPcs
<1>3. NotSent \in DecisionRows
  BY DEF NotSent, DecisionRows
<1> QED
  BY <1>1, <1>2, <1>3 DEF LifeTypeOK, Rows, DecisionRows, Execution

-----------------------------------------------------------------------------
(* What the steps are made of.                                              *)

(* An executor goes on.                                                     *)
LEMMA Goes ==
  ASSUME LifeTypeOK, NEW e \in Executors, NEW pc \in ExecutorPcs, NEW view \in Thread,
         GoToWith(e, pc, view)
  PROVE  /\ executor' \in [Executors -> Execution]
         /\ executor'[e].pc = pc
         /\ executor'[e].run = executor[e].run /\ executor'[e].dec = executor[e].dec
         /\ executor'[e].view = IF Uses(pc) THEN view ELSE NoThread
         /\ executor'[e].input = IF pc \in {"check", "record", "go", "load"}
                                 THEN executor[e].input ELSE "none"
         /\ \A f \in Executors \ {e} : executor'[f] = executor[f]
<1> DEFINE seen == IF Uses(pc) THEN view ELSE NoThread
           given == IF pc \in {"check", "record", "go", "load"}
                    THEN executor[e].input ELSE "none"
           after == [executor[e] EXCEPT !.pc = pc, !.view = seen, !.input = given]
<1>1. executor[e] \in Execution /\ seen \in Thread
      /\ given \in {"none", "new", "fork", "resume"}
  BY LifeFields DEF Execution
<1>2. executor' = [executor EXCEPT ![e] = after]
  BY LifeFields DEF GoToWith
<1> HIDE DEF seen, given
<1>3. /\ after \in Execution /\ after.pc = pc /\ after.run = executor[e].run
      /\ after.dec = executor[e].dec /\ after.view = seen /\ after.input = given
  BY <1>1 DEF Execution
<1> HIDE DEF after
<1>4. /\ executor' \in [Executors -> Execution] /\ executor'[e] = after
      /\ \A f \in Executors \ {e} : executor'[f] = executor[f]
  BY <1>2, <1>3, LifeFields
<1> QED
  BY <1>3, <1>4 DEF seen, given

(* An executor goes on with what it has read.                               *)
LEMMA GoesOn ==
  ASSUME LifeTypeOK, NEW e \in Executors, NEW pc \in ExecutorPcs, GoTo(e, pc)
  PROVE  /\ executor' \in [Executors -> Execution]
         /\ executor'[e].pc = pc
         /\ executor'[e].run = executor[e].run /\ executor'[e].dec = executor[e].dec
         /\ executor'[e].view = IF Uses(pc) THEN executor[e].view ELSE NoThread
         /\ executor'[e].input = IF pc \in {"check", "record", "go", "load"}
                                 THEN executor[e].input ELSE "none"
         /\ \A f \in Executors \ {e} : executor'[f] = executor[f]
<1>1. executor[e].view \in Thread
  BY LifeFields DEF Execution
<1> QED
  BY <1>1, Goes DEF GoTo

(* An executor is given something new to do, or nothing.                    *)
LEMMA LifeTurns ==
  ASSUME LifeTypeOK, NEW e \in Executors, NEW x \in Execution,
         executor' = [executor EXCEPT ![e] = x]
  PROVE  /\ executor' \in [Executors -> Execution] /\ executor'[e] = x
         /\ \A f \in Executors \ {e} : executor'[f] = executor[f]
  BY LifeFields

(* An executor ends.                                                        *)
LEMMA Ending ==
  ASSUME LifeTypeOK, NEW e \in Executors, End(e)
  PROVE  /\ executor' \in [Executors -> Execution] /\ executor'[e] = Idle
         /\ executor'[e].pc = "idle" /\ executor'[e].run = NoStory
         /\ executor'[e].dec = NoDecision /\ executor'[e].view = NoThread
         /\ \A f \in Executors \ {e} : executor'[f] = executor[f]
<1>1. /\ Idle.pc = "idle" /\ Idle.run = NoStory /\ Idle.dec = NoDecision
      /\ Idle.view = NoThread
  BY DEF Idle
<1> QED
  BY <1>1, LifeFields, LifeTurns DEF End

(* A run takes a status.                                                    *)
LEMMA Becomes ==
  ASSUME LifeTypeOK, NEW r \in StoryRuns, NEW status \in RunStatuses, Become(r, status)
  PROVE  /\ run' \in [StoryRuns -> Rows] /\ Status(r)' = status
         /\ \A q \in StoryRuns \ {r} : run'[q] = run[q]
<1>1. run[r] \in Rows
  BY LifeFields
<1>2. /\ [run[r] EXCEPT !.status = status] \in Rows
      /\ [run[r] EXCEPT !.status = status].status = status
  BY <1>1 DEF Rows
<1>3. run' = [run EXCEPT ![r] = [run[r] EXCEPT !.status = status]]
  BY LifeFields DEF Become
<1> QED
  BY <1>2, <1>3, LifeFields DEF Status

-----------------------------------------------------------------------------
(* The types are kept.                                                      *)

(* A thread after work, a seed, a fork or a decision is a thread.           *)
LEMMA ThreadsOfSteps ==
  ASSUME NEW t \in Thread
  PROVE  /\ \A at \in {"none", "work", "review", "end"} : [t EXCEPT !.at = at] \in Thread
         /\ \A at \in {"none", "work", "review", "end"},
               action \in {"none", "approve", "revise", "reject", "fork"},
               d \in Decisions \cup {NoDecision} :
              [t EXCEPT !.at = at, !.action = action, !.dec = d] \in Thread
         /\ [t EXCEPT !.at = "review", !.round = @ + 1] \in Thread
<1>1. t.round + 1 \in Nat
  BY DEF Thread
<1>2. \A n \in Nat : [t EXCEPT !.at = "review", !.round = n] \in Thread
  BY DEF Thread
<1>3. [t EXCEPT !.at = "review", !.round = @ + 1] \in Thread
  BY <1>1, <1>2
<1>4. /\ \A at \in {"none", "work", "review", "end"} : [t EXCEPT !.at = at] \in Thread
      /\ \A at \in {"none", "work", "review", "end"},
            action \in {"none", "approve", "revise", "reject", "fork"},
            d \in Decisions \cup {NoDecision} :
           [t EXCEPT !.at = at, !.action = action, !.dec = d] \in Thread
  BY DEF Thread
<1> QED
  BY <1>3, <1>4

(* Steps that leave the threads, the decisions and the project alone.       *)
LEMMA TypesOfExecutions ==
  ASSUME LifeTypeOK, UNCHANGED <<thread, asked, decision, profile, deleted, faults>>,
         run' \in [StoryRuns -> Rows], executor' \in [Executors -> Execution]
  PROVE  LifeTypeOK'
  BY DEF LifeTypeOK, Rows, Execution

(* Steps that change threads.                                               *)
LEMMA TypesOfThreads ==
  ASSUME LifeTypeOK, UNCHANGED <<run, asked, decision, profile, deleted, faults>>,
         thread' \in [Blueprints -> Thread], executor' \in [Executors -> Execution]
  PROVE  LifeTypeOK'
  BY DEF LifeTypeOK, Rows, Execution

(* Steps that change decisions.                                             *)
LEMMA TypesOfDecisions ==
  ASSUME LifeTypeOK, UNCHANGED <<run, thread, asked, profile, deleted, faults>>,
         decision' \in [Decisions -> DecisionRows], executor' \in [Executors -> Execution]
  PROVE  LifeTypeOK'
  BY DEF LifeTypeOK, DecisionRows, Execution

(* A transaction on the row of an existing run.                             *)
LEMMA RowStep ==
  ASSUME LifeTypeOK, NEW e \in Executors, Of(e) \in StoryRuns,
         NEW pc \in ExecutorPcs, NEW status \in RunStatuses,
         OnRow(e, Become(Of(e), status) /\ GoTo(e, pc))
  PROVE  run' \in [StoryRuns -> Rows] /\ executor' \in [Executors -> Execution]
<1>1. CASE Become(Of(e), status) /\ GoTo(e, pc)
  BY <1>1, Becomes, GoesOn
<1>2. CASE End(e) /\ UNCHANGED run
  BY <1>2, Ending, LifeFields
<1> QED
  BY <1>1, <1>2 DEF OnRow

-----------------------------------------------------------------------------
(* The inductive invariant, in parts.                                       *)

(* What an executor works on, by where it is: only the worker begins a      *)
(* Blueprint's execution or produces, only requests handle decisions, and   *)
(* only a request resumes a graph or runs a fork's child.                   *)
Handling == {"check", "record", "go"}
Graph == {"load", "approval", "start", "work", "failing", "raised", "boundary", "snapshot",
          "await", "approve", "apply", "answer"}
Producing == {"inspect", "prepare", "handoff", "produce", "scenes", "finish"}

Placed(e) ==
  LET x == executor[e]
  IN  /\ x.pc \in Handling \cup Graph \cup {"begin"} => x.run \in Blueprints
      /\ x.pc \in Producing => x.run \in Productions
      /\ x.pc \in Producing \cup {"begin"} => e = "worker"
      /\ x.pc \in Handling => x.dec \in Decisions /\ x.input = "resume" /\ x.view = NoThread
      /\ e = "worker" => x.dec = NoDecision
      /\ x.pc = "load" => /\ x.input \in {"resume", "fork"} => x.dec \in Decisions
                          /\ e \in Requests => x.input \in {"resume", "fork"}
      /\ x.pc = "approval" => x.dec \in Decisions
PlacesInv == \A e \in Executors : Placed(e)

(* Of an interrupt at most one decision is recorded, and no fork made the   *)
(* story.                                                                   *)
DecisionsInv ==
  \A d \in Decisions :
    /\ IF decision[d].status = "unsent" THEN decision[d] = NotSent
       ELSE decision[d].about \in Blueprints
    /\ decision[d].action = "fork" => decision[d].result # Story
    /\ \A c \in Decisions :
         /\ Recorded(c) /\ Recorded(d)
         /\ decision[c].about = decision[d].about /\ decision[c].round = decision[d].round
         => c = d

(* Nothing is left of a deleted story.                                      *)
DeletedInv ==
  deleted => /\ \A r \in StoryRuns : ~ Exists(r)
             /\ \A d \in Decisions : ~ Recorded(d)

(* What a checkpoint of b says was decided about b.                         *)
Sound(b, t) ==
  /\ t.action = "approve" => Approved(b)
  /\ t.dec # NoDecision =>
       /\ decision[t.dec].status # "unsent"
       /\ decision[t.dec].action = "fork" => decision[t.dec].result = b

(* An executor with a decision works on what the decision is about, or, of  *)
(* a fork, on its child; and only of a recorded decision.                   *)
Handles(e) ==
  LET d == executor[e].dec
  IN  d # NoDecision =>
        /\ decision[d].status # "unsent"
        /\ executor[e].pc \in Handling => Of(e) = decision[d].about
        /\ executor[e].pc = "go" => Recorded(d)
        /\ executor[e].pc \in Graph =>
             /\ Recorded(d)
             /\ Of(e) = IF decision[d].action = "fork" THEN decision[d].result
                        ELSE decision[d].about
        /\ executor[e].pc = "load" =>
             (executor[e].input = "fork" <=> decision[d].action = "fork")
        /\ executor[e].pc = "approval" => decision[d].action # "fork"

DecidedRun(b) ==
  /\ Sound(b, thread[b])
  /\ Status(b) = "SUCCEEDED" => Approved(b)
  /\ Exists(b) /\ b # Story => Forked(b)
  /\ Exists(Production(b)) => Approved(b)
DecidedExecution(e) ==
  /\ Handles(e)
  /\ Of(e) \in Blueprints => Sound(Of(e), executor[e].view)
  /\ At(e, "approve") => executor[e].view.action = "approve"
  /\ executor[e].pc \in Producing => Approved(BlueprintOf(Of(e)))

DecidedInv ==
  ~ deleted => /\ Exists(Story) /\ \A b \in Blueprints : DecidedRun(b)
               /\ \A e \in Executors : DecidedExecution(e)
               /\ \A d \in Decisions : Recorded(d) => Exists(decision[d].about)

LifeInv == LifeTypeOK /\ PlacesInv /\ DecisionsInv /\ DeletedInv /\ DecidedInv

(* Every step of a graph keeps the types.                                   *)
LEMMA TypesOfGraph ==
  ASSUME LifeTypeOK, NEW e \in Executors, Placed(e), GraphStep(e)
  PROVE  LifeTypeOK'
<1> USE DEF ExecutorPcs
<1>1. /\ executor[e] \in Execution /\ executor[e].view \in Thread
      /\ Of(e) \in StoryRuns \cup {NoStory}
  BY LifeFields DEF Execution, Of
<1>2. executor[e].pc \in Graph => Of(e) \in Blueprints /\ Of(e) \in StoryRuns
  BY RunsOfStory DEF Placed, Of
<1>3. Of(e) \in Blueprints => thread[Of(e)] \in Thread
  BY LifeFields
<1>4. CASE Load(e)
  <2>1. Of(e) \in Blueprints /\ thread[Of(e)] \in Thread
    BY <1>2, <1>3, <1>4 DEF Load, At, Graph
  <2> DEFINE latest == thread[Of(e)]
             seeded == [latest EXCEPT !.at = "work"]
             forked == [seeded EXCEPT !.action = "fork", !.dec = executor[e].dec]
  <2>2. seeded \in Thread /\ forked \in Thread
    <3>1. seeded \in Thread
      BY <2>1, ThreadsOfSteps
    <3>2. forked \in Thread
      BY <1>1, <3>1 DEF Thread, Execution
    <3> QED
      BY <3>1, <3>2
  <2>3. CASE executor[e].input = "new"
    <3>1. thread' = [thread EXCEPT ![Of(e)] = seeded] /\ GoToWith(e, "start", seeded)
      BY <1>4, <2>3 DEF Load
    <3>2. executor' \in [Executors -> Execution]
      BY <2>2, <3>1, Goes
    <3>3. thread' \in [Blueprints -> Thread]
      BY <2>2, <3>1, LifeFields
    <3> QED
      BY <1>4, <3>2, <3>3, TypesOfThreads DEF Load
  <2>4. CASE executor[e].input = "fork"
    <3>1. thread' = [thread EXCEPT ![Of(e)] = forked] /\ GoToWith(e, "start", forked)
      BY <1>4, <2>4 DEF Load
    <3>2. executor' \in [Executors -> Execution]
      BY <2>2, <3>1, Goes
    <3>3. thread' \in [Blueprints -> Thread]
      BY <2>2, <3>1, LifeFields
    <3> QED
      BY <1>4, <3>2, <3>3, TypesOfThreads DEF Load
  <2>5. CASE executor[e].input \notin {"new", "fork"}
    <3>1. \E pc \in {"start", "approval", "boundary"} : GoToWith(e, pc, latest)
      BY <1>4, <2>5 DEF Load
    <3>2. executor' \in [Executors -> Execution] /\ thread' = thread
      BY <1>4, <2>1, <2>5, <3>1, Goes DEF Load
    <3> QED
      BY <1>4, <3>2, LifeFields, TypesOfThreads DEF Load
  <2> QED
    BY <2>3, <2>4, <2>5
<1>5. CASE Approval(e)
  <2>1. executor[e].dec \in Decisions
    BY <1>5 DEF Approval, At, Placed
  <2>2. decision[executor[e].dec].action \in {"none", "approve", "revise", "reject", "fork"}
    BY <2>1, LifeFields, StoryAssumption DEF DecisionRows
  <2> DEFINE action == decision[executor[e].dec].action
             decided == [executor[e].view EXCEPT
                           !.at = IF action = "approve" THEN "end" ELSE "work",
                           !.action = action, !.dec = executor[e].dec]
  <2>3. decided \in Thread
    BY <1>1, <2>1, <2>2 DEF Thread
  <2>4. CASE Exists(Of(e))
    <3>1. /\ thread' = [thread EXCEPT ![Of(e)] = decided]
          /\ \E pc \in {"boundary", "start"} : GoToWith(e, pc, decided)
      BY <1>5, <2>4 DEF Approval
    <3>2. executor' \in [Executors -> Execution] /\ thread' \in [Blueprints -> Thread]
      BY <2>3, <3>1, Goes, LifeFields
    <3> QED
      BY <1>5, <3>2, TypesOfThreads DEF Approval
  <2>5. CASE ~ Exists(Of(e))
    BY <1>5, <2>5, Ending, LifeFields, TypesOfThreads DEF Approval
  <2> QED
    BY <2>4, <2>5
<1>6. CASE StartWork(e)
  <2>1. Of(e) \in StoryRuns
    BY <1>2, <1>6 DEF StartWork, At, Graph
  <2>2. CASE End(e) /\ UNCHANGED run
    BY <1>6, <2>2, Ending, LifeFields, TypesOfExecutions DEF StartWork
  <2>3. CASE GoTo(e, "apply") /\ UNCHANGED run
    BY <1>6, <2>3, GoesOn, LifeFields, TypesOfExecutions DEF StartWork
  <2>4. CASE Become(Of(e), "RUNNING") /\ GoTo(e, "work")
    <3>1. run' \in [StoryRuns -> Rows]
      BY <2>1, <2>4, Becomes DEF RunStatuses
    <3> QED
      BY <1>6, <2>4, <3>1, GoesOn, TypesOfExecutions DEF StartWork
  <2> QED
    BY <1>6, <2>2, <2>3, <2>4 DEF StartWork, OnRow
<1>7. CASE Work(e)
  <2> DEFINE reviewed == [executor[e].view EXCEPT !.at = "review", !.round = @ + 1]
  <2>1. reviewed \in Thread
    BY <1>1, ThreadsOfSteps
  <2>2. CASE thread' = [thread EXCEPT ![Of(e)] = reviewed] /\ GoToWith(e, "boundary", reviewed)
    <3>1. thread' \in [Blueprints -> Thread]
      BY <2>1, <2>2, LifeFields
    <3>2. executor' \in [Executors -> Execution]
      BY <2>1, <2>2, Goes
    <3> QED
      BY <1>7, <3>1, <3>2, TypesOfThreads DEF Work
  <2>3. CASE GoTo(e, "failing") /\ UNCHANGED thread
    BY <1>7, <2>3, GoesOn, LifeFields, TypesOfThreads DEF Work
  <2> QED
    BY <1>7, <2>2, <2>3 DEF Work
<1>8. CASE Failing(e)
  <2>1. Of(e) \in StoryRuns
    BY <1>2, <1>8 DEF Failing, At, Graph
  <2> QED
    BY <1>8, <2>1, RowStep, TypesOfExecutions DEF Failing, RunStatuses
<1>9. CASE Boundary(e)
  <2>1. \/ End(e) /\ UNCHANGED run
        \/ (\E pc \in {"answer", "snapshot"} : GoTo(e, pc)) /\ UNCHANGED run
    BY <1>9 DEF Boundary, OnRow
  <2>2. executor' \in [Executors -> Execution] /\ run' = run
    BY <2>1, Ending, GoesOn
  <2> QED
    BY <1>9, <2>2, LifeFields, TypesOfExecutions DEF Boundary
<1>10. CASE Snapshot(e)
  <2>1. Of(e) \in Blueprints /\ thread[Of(e)] \in Thread
    BY <1>2, <1>3, <1>10 DEF Snapshot, At, Graph
  <2>2. \E pc \in {"await", "approve", "failing"} : GoToWith(e, pc, thread[Of(e)])
    BY <1>10 DEF Snapshot
  <2>3. executor' \in [Executors -> Execution]
    BY <2>1, <2>2, Goes
  <2> QED
    BY <1>10, <2>3, LifeFields, TypesOfThreads DEF Snapshot
<1>11. CASE AwaitApproval(e)
  <2>1. Of(e) \in StoryRuns /\ Of(e) \in Blueprints
    BY <1>2, <1>11 DEF AwaitApproval, At, Graph
  <2>2. executor[e].view.round \in Nat
    BY <1>1 DEF Thread
  <2>3. asked' \in [Blueprints -> Nat]
    BY <1>11, <2>1, <2>2, LifeFields DEF AwaitApproval
  <2>4. run' \in [StoryRuns -> Rows] /\ executor' \in [Executors -> Execution]
    <3>1. CASE Become(Of(e), "PAUSED") /\ GoTo(e, "apply")
      <4>1. "PAUSED" \in RunStatuses
        BY DEF RunStatuses
      <4> QED
        BY <2>1, <3>1, <4>1, Becomes, GoesOn
    <3>2. CASE End(e) /\ UNCHANGED run
      BY <3>2, Ending, LifeFields
    <3> QED
      BY <1>11, <3>1, <3>2 DEF AwaitApproval
  <2> QED
    BY <1>11, <2>3, <2>4 DEF AwaitApproval, LifeTypeOK, Rows, Execution
<1>12. CASE Approve(e)
  <2>1. Of(e) \in StoryRuns
    BY <1>2, <1>12 DEF Approve, At, Graph
  <2> QED
    BY <1>12, <2>1, RowStep, TypesOfExecutions DEF Approve, RunStatuses
<1>13. CASE Apply(e)
  <2>1. Of(e) \in Blueprints
    BY <1>2, <1>13 DEF Apply, At, Graph
  <2>2. \A d \in Decisions :
          [decision[d] EXCEPT !.status = "APPLIED", !.result = Of(e)] \in DecisionRows
    BY <2>1, LifeFields DEF DecisionRows
  <2>3. decision' \in [Decisions -> DecisionRows]
    BY <1>13, <2>2, LifeFields DEF Apply
  <2> QED
    BY <1>13, <2>3, Ending, TypesOfDecisions DEF Apply
<1>14. CASE RaiseError(e)
  <2>1. \A d \in Decisions : [decision[d] EXCEPT !.status = "FAILED"] \in DecisionRows
    BY LifeFields DEF DecisionRows
  <2>2. decision' \in [Decisions -> DecisionRows]
    BY <1>14, <2>1, LifeFields DEF RaiseError
  <2> QED
    BY <1>14, <2>2, Ending, TypesOfDecisions DEF RaiseError
<1> QED
  BY <1>4, <1>5, <1>6, <1>7, <1>8, <1>9, <1>10, <1>11, <1>12, <1>13, <1>14 DEF GraphStep

(* Every step of the worker keeps the types.                                *)
LEMMA TypesOfWorker ==
  ASSUME LifeTypeOK, PlacesInv, WorkerStep
  PROVE  LifeTypeOK'
<1> USE DEF ExecutorPcs, RunStatuses
<1>1. "worker" \in Executors /\ Placed("worker")
  BY DEF Executors, PlacesInv
<1>2. /\ executor["worker"] \in Execution /\ executor["worker"].view \in Thread
      /\ Of("worker") \in StoryRuns \cup {NoStory}
  BY <1>1, LifeFields DEF Execution, Of
<1>3. executor["worker"].pc \in Producing =>
        Of("worker") \in Productions /\ Of("worker") \in StoryRuns
  BY <1>1, RunsOfStory DEF Placed, Of
<1>4. ASSUME NEW r \in StoryRuns, NEW pc \in ExecutorPcs, Start(r, pc)
      PROVE  executor' \in [Executors -> Execution]
  <2>1. [Idle EXCEPT !.pc = pc, !.run = r] \in Execution
    BY LifeFields DEF Execution
  <2> QED
    BY <1>1, <1>4, <2>1, LifeTurns DEF Start
<1>5. CASE Claim
  <2>1. CASE \E b \in QueuedBlueprints :
               /\ run' = [run EXCEPT ![b] = [@ EXCEPT !.status = "RUNNING", !.frozen = TRUE]]
               /\ Start(b, "begin")
    <3>1. PICK b \in QueuedBlueprints :
            /\ run' = [run EXCEPT ![b] = [@ EXCEPT !.status = "RUNNING", !.frozen = TRUE]]
            /\ Start(b, "begin")
      BY <2>1
    <3>2. b \in StoryRuns
      BY RunsOfStory DEF QueuedBlueprints
    <3>3. [run[b] EXCEPT !.status = "RUNNING", !.frozen = TRUE] \in Rows
      BY <3>2, LifeFields DEF Rows
    <3>4. run' \in [StoryRuns -> Rows] /\ executor' \in [Executors -> Execution]
      BY <1>4, <3>1, <3>2, <3>3, LifeFields
    <3> QED
      BY <1>5, <3>4, TypesOfExecutions DEF Claim
  <2>2. CASE \E p \in QueuedProductions : Become(p, "RUNNING") /\ Start(p, "inspect")
    <3>1. run' \in [StoryRuns -> Rows] /\ executor' \in [Executors -> Execution]
      BY <1>4, <2>2, Becomes, RunsOfStory DEF QueuedProductions
    <3> QED
      BY <1>5, <3>1, TypesOfExecutions DEF Claim
  <2>3. CASE (\E b \in Handoffs : Start(Production(b), "inspect")) /\ UNCHANGED run
    <3>1. executor' \in [Executors -> Execution]
      BY <1>4, <2>3, RunsOfStory DEF Handoffs
    <3> QED
      BY <1>5, <2>3, <3>1, LifeFields, TypesOfExecutions DEF Claim
  <2> QED
    BY <1>5, <2>1, <2>2, <2>3 DEF Claim
<1>6. CASE Begin
  <2>1. \A input \in {"new", "none"} :
          [executor["worker"] EXCEPT !.pc = "load", !.input = input] \in Execution
    BY <1>2 DEF Execution
  <2>2. executor' \in [Executors -> Execution]
    <3>1. CASE End("worker")
      BY <1>1, <3>1, Ending
    <3>2. CASE \E input \in {"new", "none"} :
                 executor' = [executor EXCEPT !["worker"] =
                                [executor["worker"] EXCEPT !.pc = "load", !.input = input]]
      BY <1>1, <2>1, <3>2, LifeTurns
    <3>3. \/ End("worker")
          \/ \E input \in {"new", "none"} :
               executor' = [executor EXCEPT !["worker"] =
                              [executor["worker"] EXCEPT !.pc = "load", !.input = input]]
      BY <1>1, <1>6, LifeFields DEF Begin
    <3> QED
      BY <3>1, <3>2, <3>3
  <2> QED
    BY <1>6, <2>2, LifeFields, TypesOfExecutions DEF Begin
<1>7. CASE Inspect
  BY <1>1, <1>7, Ending, GoesOn, LifeFields, TypesOfExecutions DEF Inspect
<1>8. CASE Prepare
  <2>1. Of("worker") \in StoryRuns /\ Of("worker") \in Productions
    BY <1>3, <1>8 DEF Prepare, At, Producing
  <2>2. BlueprintOf(Of("worker")) \in StoryRuns
    BY <2>1, RunsOfStory
  <2>3. ProductionRow(BlueprintOf(Of("worker"))) \in Rows
    BY <2>2, LifeFields DEF ProductionRow, Rows
  <2>4. run' \in [StoryRuns -> Rows]
    BY <1>8, <2>1, <2>3, LifeFields DEF Prepare
  <2>5. executor' \in [Executors -> Execution]
    BY <1>1, <1>8, GoesOn DEF Prepare
  <2> QED
    BY <1>8, <2>4, <2>5, TypesOfExecutions DEF Prepare
<1>9. CASE FailHandoff
  <2>1. Of("worker") \in StoryRuns
    BY <1>3, <1>9 DEF FailHandoff, At, Producing
  <2>2. run' \in [StoryRuns -> Rows]
    BY <1>9, <2>1, Becomes, LifeFields DEF FailHandoff
  <2>3. executor' \in [Executors -> Execution]
    BY <1>1, <1>9, Ending DEF FailHandoff
  <2> QED
    BY <1>9, <2>2, <2>3, TypesOfExecutions DEF FailHandoff
<1>10. CASE Produce
  <2>1. Of("worker") \in StoryRuns
    BY <1>3, <1>10 DEF Produce, At, Producing
  <2>2. run' \in [StoryRuns -> Rows]
    BY <1>10, <2>1, Becomes, LifeFields DEF Produce
  <2>3. executor' \in [Executors -> Execution]
    BY <1>1, <1>10, Ending, GoesOn DEF Produce
  <2> QED
    BY <1>10, <2>2, <2>3, TypesOfExecutions DEF Produce
<1>11. CASE Scenes
  <2>1. Of("worker") \in StoryRuns
    BY <1>3, <1>11 DEF Scenes, At, Producing
  <2>2. run' \in [StoryRuns -> Rows]
    BY <1>11, <2>1, Becomes, LifeFields DEF Scenes
  <2>3. executor' \in [Executors -> Execution]
    BY <1>1, <1>11, Ending, GoesOn DEF Scenes
  <2> QED
    BY <1>11, <2>2, <2>3, TypesOfExecutions DEF Scenes
<1>12. CASE FinishProduction
  <2>1. Of("worker") \in StoryRuns
    BY <1>3, <1>12 DEF FinishProduction, At, Producing
  <2>2. run' \in [StoryRuns -> Rows]
    BY <1>12, <2>1, Becomes, LifeFields DEF FinishProduction, OnRow
  <2>3. executor' \in [Executors -> Execution]
    BY <1>1, <1>12, Ending DEF FinishProduction, OnRow
  <2> QED
    BY <1>12, <2>2, <2>3, TypesOfExecutions DEF FinishProduction
<1>13. CASE GraphStep("worker")
  BY <1>1, <1>13, TypesOfGraph
<1> QED
  BY <1>5, <1>6, <1>7, <1>8, <1>9, <1>10, <1>11, <1>12, <1>13 DEF WorkerStep

(* A decision is sent, or one that was sent before is delivered again.      *)
LEMMA Delivered ==
  ASSUME LifeTypeOK, NEW q \in Requests, NEW d \in Decisions, Deliver(q, d)
  PROVE  /\ decision' \in [Decisions -> DecisionRows]
         /\ executor' \in [Executors -> Execution]
         /\ executor'[q].pc = "check" /\ executor'[q].dec = d
         /\ executor'[q].run = decision'[d].about /\ executor'[q].input = "resume"
         /\ executor'[q].view = NoThread
         /\ \A f \in Executors \ {q} : executor'[f] = executor[f]
         /\ \/ /\ decision[d].status = "unsent" /\ decision'[d].status = "sent"
               /\ decision'[d].about \in Blueprints /\ decision'[d].action \in Choices
               /\ decision'[d].round = asked[decision'[d].about]
               /\ decision'[d].result = NoStory
               /\ \A c \in Decisions \ {d} : decision'[c] = decision[c]
            \/ /\ decision[d].status # "unsent" /\ decision' = decision
               /\ \/ decision[d].action \in Overlapping
                  \/ \A r \in Requests : executor[r].dec # d
<1> USE DEF ExecutorPcs
<1>1. /\ decision' \in [Decisions -> DecisionRows]
      /\ \/ /\ decision[d].status = "unsent" /\ decision'[d].status = "sent"
            /\ decision'[d].about \in Blueprints /\ decision'[d].action \in Choices
            /\ decision'[d].round = asked[decision'[d].about]
            /\ decision'[d].result = NoStory
            /\ \A c \in Decisions \ {d} : decision'[c] = decision[c]
         \/ /\ decision[d].status # "unsent" /\ decision' = decision
            /\ \/ decision[d].action \in Overlapping
               \/ \A r \in Requests : executor[r].dec # d
  <2>1. CASE decision[d].status = "unsent"
    <3>1. PICK b \in Blueprints, action \in Choices :
            decision' = [decision EXCEPT ![d] =
                           [about |-> b, round |-> asked[b], action |-> action,
                            status |-> "sent", result |-> NoStory]]
      BY <2>1 DEF Deliver
    <3> DEFINE row == [about |-> b, round |-> asked[b], action |-> action,
                       status |-> "sent", result |-> NoStory]
    <3>2. /\ row \in DecisionRows /\ row.about = b /\ row.round = asked[b]
          /\ row.action = action /\ row.status = "sent" /\ row.result = NoStory
      BY LifeFields DEF DecisionRows
    <3>3. decision' = [decision EXCEPT ![d] = row]
      BY <3>1
    <3> HIDE DEF row
    <3>4. /\ decision' \in [Decisions -> DecisionRows] /\ decision'[d] = row
          /\ \A c \in Decisions \ {d} : decision'[c] = decision[c]
      BY <3>2, <3>3, LifeFields
    <3> QED
      BY <2>1, <3>2, <3>4
  <2>2. CASE decision[d].status # "unsent"
    BY <2>2, LifeFields DEF Deliver
  <2> QED
    BY <2>1, <2>2
<1> DEFINE x == [Idle EXCEPT !.pc = "check", !.dec = d, !.run = decision'[d].about,
                             !.input = "resume"]
<1>2. decision'[d].about \in StoryRuns \cup {NoStory}
  BY <1>1, RunsOfStory DEF DecisionRows
<1>3. /\ x \in Execution /\ x.pc = "check" /\ x.dec = d /\ x.run = decision'[d].about
      /\ x.input = "resume" /\ x.view = NoThread
  BY <1>2, LifeFields DEF Execution, Idle
<1>4. executor' = [executor EXCEPT ![q] = x] /\ q \in Executors
  BY DEF Deliver, Executors
<1> HIDE DEF x
<1>5. /\ executor' \in [Executors -> Execution] /\ executor'[q] = x
      /\ \A f \in Executors \ {q} : executor'[f] = executor[f]
  BY <1>3, <1>4, LifeTurns
<1> QED
  BY <1>1, <1>3, <1>5

(* Every step of a request keeps the types.                                 *)
LEMMA TypesOfRequest ==
  ASSUME LifeTypeOK, PlacesInv, NEW q \in Requests,
         RequestStep(q) \/ \E d \in Decisions : Deliver(q, d)
  PROVE  LifeTypeOK'
<1> USE DEF ExecutorPcs, RunStatuses
<1>1. q \in Executors /\ Placed(q) /\ executor[q] \in Execution
  BY LifeFields DEF Executors, PlacesInv
<1>2. executor[q].pc \in Handling =>
        Of(q) \in Blueprints /\ Of(q) \in StoryRuns /\ executor[q].dec \in Decisions
  BY <1>1, RunsOfStory DEF Placed, Of
<1>3. ASSUME NEW b \in Blueprints, NEW input \in {"fork", "resume"}
      PROVE  [executor[q] EXCEPT !.pc = "load", !.run = b, !.input = input] \in Execution
  BY <1>1, <1>3, RunsOfStory DEF Execution
<1>4. CASE Check(q)
  BY <1>1, <1>4, Ending, GoesOn, LifeFields, TypesOfExecutions DEF Check
<1>5. CASE RecordDecision(q)
  <2>1. executor[q].dec \in Decisions
    BY <1>2, <1>5 DEF RecordDecision, At, Handling
  <2>2. [decision[executor[q].dec] EXCEPT !.status = "PENDING"] \in DecisionRows
    BY <2>1, LifeFields DEF DecisionRows
  <2>3. \/ decision' = decision
        \/ decision' = [decision EXCEPT ![executor[q].dec] =
                          [decision[executor[q].dec] EXCEPT !.status = "PENDING"]]
    BY <1>5, <2>1, LifeFields DEF RecordDecision
  <2>4. decision' \in [Decisions -> DecisionRows]
    BY <2>1, <2>2, <2>3, LifeFields
  <2>5. GoTo(q, "go") \/ End(q)
    BY <1>5 DEF RecordDecision
  <2>6. executor' \in [Executors -> Execution]
    BY <1>1, <2>5, Ending, GoesOn
  <2> QED
    BY <1>5, <2>4, <2>6, TypesOfDecisions DEF RecordDecision
<1>6. CASE CreateForkRun(q)
  <2>1. Of(q) \in StoryRuns /\ executor[q].dec \in Decisions
    BY <1>2, <1>6 DEF CreateForkRun, At, Handling
  <2>2. CASE decision[executor[q].dec].result # NoStory
              /\ LoadChild(q, decision[executor[q].dec].result) /\ UNCHANGED <<run, decision>>
    <3>1. decision[executor[q].dec].result \in Blueprints
      BY <2>1, <2>2, LifeFields DEF DecisionRows
    <3>2. executor' \in [Executors -> Execution]
      BY <1>1, <1>3, <2>2, <3>1, LifeTurns, LifeFields DEF LoadChild
    <3> QED
      BY <1>6, <2>2, <3>2, LifeFields, TypesOfExecutions DEF CreateForkRun
  <2>3. CASE NewForkChild(q)
    <3>1. PICK child \in Blueprints :
            /\ run' = [run EXCEPT ![child] = ForkRow(Of(q)), ![Of(q)].status = "CANCELLED"]
            /\ decision' = [decision EXCEPT ![executor[q].dec].result = child]
            /\ LoadChild(q, child)
      BY <2>3 DEF NewForkChild
    <3>2. executor' \in [Executors -> Execution]
      BY <1>1, <1>3, <3>1, LifeTurns, LifeFields DEF LoadChild
    <3>3. [decision[executor[q].dec] EXCEPT !.result = child] \in DecisionRows
      BY <2>1, LifeFields DEF DecisionRows
    <3>4. decision' \in [Decisions -> DecisionRows]
      BY <2>1, <3>1, <3>3, LifeFields
    <3>5. ForkRow(Of(q)) \in Rows
      BY <2>1, LifeFields DEF ForkRow, Rows
    <3>6. \A row \in Rows : [row EXCEPT !.status = "CANCELLED"] \in Rows
      BY DEF Rows
    <3>7. [run EXCEPT ![child] = ForkRow(Of(q))] \in [StoryRuns -> Rows]
      BY <3>5, LifeFields
    <3>8. run' \in [StoryRuns -> Rows]
      BY <2>1, <3>1, <3>6, <3>7
    <3> QED
      BY <1>6, <3>2, <3>4, <3>8 DEF CreateForkRun, LifeTypeOK, Rows, DecisionRows, Execution
  <2>4. CASE End(q) /\ UNCHANGED <<run, decision>>
    BY <1>1, <1>6, <2>4, Ending, LifeFields, TypesOfExecutions DEF CreateForkRun
  <2> QED
    BY <1>6, <2>2, <2>3, <2>4 DEF CreateForkRun
<1>7. CASE ResumeGraph(q)
  BY <1>1, <1>7, Ending, GoesOn, LifeFields, TypesOfExecutions DEF ResumeGraph
<1>8. CASE GraphStep(q)
  BY <1>1, <1>8, TypesOfGraph
<1>9. ASSUME NEW d \in Decisions, Deliver(q, d)
      PROVE  LifeTypeOK'
  BY <1>9, Delivered, TypesOfDecisions DEF Deliver
<1> QED
  BY <1>4, <1>5, <1>6, <1>7, <1>8, <1>9 DEF RequestStep

(* Every step keeps the types.                                              *)
LEMMA TypesNext ==
  ASSUME LifeTypeOK, PlacesInv, [LifeNext]_lifeVars
  PROVE  LifeTypeOK'
<1> USE DEF ExecutorPcs, RunStatuses
<1>1. CASE WorkerStep
  BY <1>1, TypesOfWorker
<1>2. CASE \E q \in Requests : RequestStep(q) \/ \E d \in Decisions : Deliver(q, d)
  BY <1>2, TypesOfRequest
<1>3. ASSUME NEW r \in StoryRuns, Stop(r)
      PROVE  LifeTypeOK'
  <2>1. "worker" \in Executors
    BY DEF Executors
  <2>2. run' \in [StoryRuns -> Rows]
    BY <1>3, Becomes DEF Stop
  <2>3. executor' \in [Executors -> Execution]
    BY <1>3, <2>1, Ending, LifeFields DEF Stop
  <2> QED
    BY <1>3, <2>2, <2>3, TypesOfExecutions DEF Stop
<1>4. CASE DeleteProject
  <2>1. \A d \in Decisions :
          [decision[d] EXCEPT !.status = "sent", !.result = NoStory] \in DecisionRows
    BY LifeFields DEF DecisionRows
  <2>2. decision' \in [Decisions -> DecisionRows]
    BY <1>4, <2>1, LifeFields DEF DeleteProject
  <2>3. [status |-> Absent, frozen |-> FALSE, fork |-> FALSE] \in Rows
    BY DEF Rows
  <2>4. run' \in [StoryRuns -> Rows] /\ thread' \in [Blueprints -> Thread]
    BY <1>4, <2>3, LifeFields DEF DeleteProject
  <2> QED
    BY <1>4, <2>2, <2>4 DEF DeleteProject, LifeTypeOK, Rows, DecisionRows
<1>5. CASE ActivateProfile
  BY <1>5 DEF ActivateProfile, LifeTypeOK
<1>6. CASE CrashAndRestart
  <2>1. \A r \in StoryRuns : [run[r] EXCEPT !.status = "PENDING"] \in Rows
    BY LifeFields DEF Rows
  <2>2. run' \in [StoryRuns -> Rows]
    BY <1>6, <2>1, LifeFields DEF CrashAndRestart
  <2>3. executor' \in [Executors -> Execution]
    BY <1>6, LifeFields DEF CrashAndRestart
  <2>4. faults' \in Nat
    BY <1>6 DEF CrashAndRestart, LifeTypeOK
  <2> QED
    BY <1>6, <2>2, <2>3, <2>4 DEF CrashAndRestart, LifeTypeOK, Rows, Execution
<1>7. CASE UNCHANGED lifeVars
  BY <1>7 DEF lifeVars, LifeTypeOK
<1> QED
  BY <1>1, <1>2, <1>3, <1>4, <1>5, <1>6, <1>7 DEF LifeNext

-----------------------------------------------------------------------------
(* Where executors are.                                                     *)

(* A step of a graph ends the execution or goes on in the graph, with the   *)
(* same run and decision.                                                   *)
LEMMA GraphTurns ==
  ASSUME LifeTypeOK, NEW e \in Executors, Placed(e), GraphStep(e)
  PROVE  /\ executor[e].pc \in Graph /\ Of(e) \in Blueprints /\ Of(e) \in StoryRuns
         /\ \A f \in Executors \ {e} : executor'[f] = executor[f]
         /\ \/ executor'[e] = Idle
            \/ /\ executor'[e].pc \in Graph \ {"load"}
               /\ executor'[e].run = executor[e].run /\ executor'[e].dec = executor[e].dec
               /\ executor'[e].pc = "approval" => Load(e) /\ executor[e].input = "resume"
<1> USE DEF ExecutorPcs
<1>1. executor[e].pc \in Graph
  BY DEF GraphStep, Load, Approval, StartWork, Work, Failing, Boundary, Snapshot, AwaitApproval,
         Approve, Apply, RaiseError, At, Graph
<1>2. Of(e) \in Blueprints /\ Of(e) \in StoryRuns
  BY <1>1, RunsOfStory DEF Placed, Of
<1>3. /\ executor[e] \in Execution /\ executor[e].view \in Thread /\ thread[Of(e)] \in Thread
  BY <1>2, LifeFields DEF Execution
<1> DEFINE Goal == /\ \A f \in Executors \ {e} : executor'[f] = executor[f]
                   /\ \/ executor'[e] = Idle
                      \/ /\ executor'[e].pc \in Graph \ {"load"}
                         /\ executor'[e].run = executor[e].run
                         /\ executor'[e].dec = executor[e].dec
                         /\ executor'[e].pc = "approval" =>
                              Load(e) /\ executor[e].input = "resume"
<1>4. ASSUME NEW pc \in Graph \ {"load", "approval"}, NEW view \in Thread, GoToWith(e, pc, view)
      PROVE  Goal
  <2>1. pc \in ExecutorPcs
    BY DEF Graph
  <2> QED
    BY <1>4, <2>1, Goes
<1>5. ASSUME NEW pc \in Graph \ {"load", "approval"}, GoTo(e, pc)
      PROVE  Goal
  <2>1. pc \in ExecutorPcs
    BY DEF Graph
  <2> QED
    BY <1>5, <2>1, GoesOn
<1>6. ASSUME End(e)
      PROVE  Goal
  BY <1>6, Ending
<1>7. CASE Load(e)
  <2> DEFINE seeded == [thread[Of(e)] EXCEPT !.at = "work"]
             forked == [seeded EXCEPT !.action = "fork", !.dec = executor[e].dec]
  <2>1. seeded \in Thread
    BY <1>3, ThreadsOfSteps
  <2>2. forked \in Thread
    BY <1>3, <2>1 DEF Thread, Execution
  <2>3. CASE executor[e].input = "new"
    <3>1. GoToWith(e, "start", seeded)
      BY <1>7, <2>3 DEF Load
    <3> QED
      BY <1>1, <1>2, <1>4, <2>1, <3>1 DEF Graph
  <2>4. CASE executor[e].input = "fork"
    <3>1. GoToWith(e, "start", forked)
      BY <1>7, <2>4 DEF Load
    <3> QED
      BY <1>1, <1>2, <1>4, <2>2, <3>1 DEF Graph
  <2>5. CASE executor[e].input \notin {"new", "fork"}
    <3>1. \/ GoToWith(e, "start", thread[Of(e)]) \/ GoToWith(e, "boundary", thread[Of(e)])
          \/ executor[e].input = "resume" /\ GoToWith(e, "approval", thread[Of(e)])
      BY <1>7, <2>5 DEF Load
    <3>2. ASSUME executor[e].input = "resume", GoToWith(e, "approval", thread[Of(e)])
          PROVE  Goal
      BY <1>3, <1>7, <3>2, Goes DEF Graph
    <3>3. GoToWith(e, "start", thread[Of(e)]) => Goal
      BY <1>3, <1>4 DEF Graph
    <3>4. GoToWith(e, "boundary", thread[Of(e)]) => Goal
      BY <1>3, <1>4 DEF Graph
    <3> QED
      BY <1>1, <1>2, <3>1, <3>2, <3>3, <3>4
  <2> QED
    BY <1>1, <1>2, <2>3, <2>4, <2>5
<1>8. CASE Approval(e)
  <2>1. executor[e].dec \in Decisions
    BY <1>8 DEF Approval, At, Placed
  <2>2. decision[executor[e].dec].action \in {"none", "approve", "revise", "reject", "fork"}
    BY <2>1, LifeFields, StoryAssumption DEF DecisionRows
  <2> DEFINE action == decision[executor[e].dec].action
             decided == [executor[e].view EXCEPT
                           !.at = IF action = "approve" THEN "end" ELSE "work",
                           !.action = action, !.dec = executor[e].dec]
  <2>3. decided \in Thread
    BY <1>3, <2>1, <2>2 DEF Thread
  <2>4. GoToWith(e, "boundary", decided) \/ GoToWith(e, "start", decided) \/ End(e)
    BY <1>8 DEF Approval
  <2>5. GoToWith(e, "boundary", decided) => Goal
    BY <1>4, <2>3 DEF Graph
  <2>6. GoToWith(e, "start", decided) => Goal
    BY <1>4, <2>3 DEF Graph
  <2> QED
    BY <1>1, <1>2, <1>6, <2>4, <2>5, <2>6
<1>9. CASE StartWork(e)
  <2>1. GoTo(e, "apply") \/ GoTo(e, "work") \/ End(e)
    BY <1>9 DEF StartWork, OnRow
  <2> QED
    BY <1>1, <1>2, <1>5, <1>6, <2>1 DEF Graph
<1>10. CASE Work(e)
  <2> DEFINE reviewed == [executor[e].view EXCEPT !.at = "review", !.round = @ + 1]
  <2>1. reviewed \in Thread
    BY <1>3, ThreadsOfSteps
  <2>2. GoToWith(e, "boundary", reviewed) \/ GoTo(e, "failing")
    BY <1>10 DEF Work
  <2>3. GoToWith(e, "boundary", reviewed) => Goal
    BY <1>4, <2>1 DEF Graph
  <2>4. GoTo(e, "failing") => Goal
    BY <1>5 DEF Graph
  <2> QED
    BY <1>1, <1>2, <2>2, <2>3, <2>4
<1>11. CASE Failing(e) \/ Boundary(e) \/ AwaitApproval(e) \/ Approve(e)
  <2>1. \/ GoTo(e, "raised") \/ GoTo(e, "answer") \/ GoTo(e, "snapshot") \/ GoTo(e, "apply")
        \/ End(e)
    BY <1>11 DEF Failing, Boundary, AwaitApproval, Approve, OnRow
  <2> QED
    BY <1>1, <1>2, <1>5, <1>6, <2>1 DEF Graph
<1>12. CASE Snapshot(e)
  <2>1. \E pc \in {"await", "approve", "failing"} : GoToWith(e, pc, thread[Of(e)])
    BY <1>12 DEF Snapshot
  <2> QED
    BY <1>1, <1>2, <1>3, <1>4, <2>1 DEF Graph
<1>13. CASE Apply(e) \/ RaiseError(e)
  BY <1>1, <1>2, <1>6, <1>13 DEF Apply, RaiseError
<1> QED
  BY <1>7, <1>8, <1>9, <1>10, <1>11, <1>12, <1>13 DEF GraphStep

(* An executor that ends is in its place.                                   *)
LEMMA IdlePlaced ==
  ASSUME NEW e \in Executors, executor'[e] = Idle
  PROVE  Placed(e)'
<1>1. Idle.pc = "idle" /\ Idle.dec = NoDecision
  BY DEF Idle
<1> QED
  BY <1>1 DEF Placed, Handling, Graph, Producing

(* Only one executor moves.                                                 *)
LEMMA OthersPlaced ==
  ASSUME PlacesInv, NEW e \in Executors, Placed(e)',
         \A f \in Executors \ {e} : executor'[f] = executor[f]
  PROVE  PlacesInv'
  BY DEF PlacesInv, Placed

(* Every step keeps the executors in their places.                          *)
LEMMA PlacesNext ==
  ASSUME LifeTypeOK, PlacesInv, DecisionsInv, [LifeNext]_lifeVars
  PROVE  PlacesInv'
<1> USE DEF ExecutorPcs
<1>1. "worker" \in Executors /\ Placed("worker") /\ executor["worker"] \in Execution
  BY LifeFields DEF Executors, PlacesInv
<1>2. \A e \in Requests : e \in Executors /\ e # "worker" /\ Placed(e)
  BY StoryAssumption DEF Executors, PlacesInv
<1>3. ASSUME NEW e \in Executors, GraphStep(e)
      PROVE  PlacesInv'
  <2>1. Placed(e)
    BY DEF PlacesInv
  <2>2. CASE executor'[e] = Idle
    BY <1>3, <2>1, <2>2, GraphTurns, IdlePlaced, OthersPlaced
  <2>3. CASE executor'[e] # Idle
    <3>1. /\ executor'[e].pc \in Graph \ {"load"}
          /\ executor'[e].run = executor[e].run /\ executor'[e].dec = executor[e].dec
          /\ executor'[e].pc = "approval" => At(e, "load") /\ executor[e].input = "resume"
          /\ Of(e) \in Blueprints /\ \A f \in Executors \ {e} : executor'[f] = executor[f]
      BY <1>3, <2>1, <2>3, GraphTurns DEF Load
    <3>2. Placed(e)'
      BY <2>1, <3>1 DEF Placed, Graph, Handling, Producing, At, Of
    <3> QED
      BY <3>1, <3>2, OthersPlaced
  <2> QED
    BY <2>2, <2>3
<1>4. ASSUME NEW e \in Executors, End(e)
      PROVE  PlacesInv'
  BY <1>4, Ending, IdlePlaced, OthersPlaced
<1>5. ASSUME NEW r \in StoryRuns, NEW pc \in {"begin", "inspect"}, Start(r, pc),
             r \in IF pc = "begin" THEN Blueprints ELSE Productions
      PROVE  PlacesInv'
  <2> DEFINE x == [Idle EXCEPT !.pc = pc, !.run = r]
  <2>1. x \in Execution /\ x.pc = pc /\ x.run = r /\ x.dec = NoDecision
    BY LifeFields DEF Execution, Idle
  <2> HIDE DEF x
  <2>2. executor'["worker"] = x /\ \A f \in Executors \ {"worker"} : executor'[f] = executor[f]
    BY <1>1, <1>5, <2>1, LifeTurns DEF Start, x
  <2>3. Placed("worker")'
    BY <1>5, <2>1, <2>2 DEF Placed, Graph, Handling, Producing
  <2> QED
    BY <1>1, <2>2, <2>3, OthersPlaced
<1>6. ASSUME NEW e \in Executors, NEW pc \in {"go", "record", "load"} \cup Producing, GoTo(e, pc),
             executor[e].pc \in Handling \cup Producing,
             pc = "load" \/ pc \in Handling => executor[e].pc \in Handling,
             pc = "load" => At(e, "go") /\ e \in Requests,
             pc \in Producing => executor[e].pc \in Producing
      PROVE  PlacesInv'
  <2>1. pc \in ExecutorPcs
    BY DEF Producing
  <2>2. /\ executor'[e].pc = pc /\ executor'[e].run = executor[e].run
        /\ executor'[e].dec = executor[e].dec
        /\ pc \in {"go", "record", "load"} =>
             executor'[e].input = executor[e].input /\ executor'[e].view = NoThread
        /\ \A f \in Executors \ {e} : executor'[f] = executor[f]
    BY <1>6, <2>1, GoesOn DEF Uses
  <2>3. Placed(e)
    BY DEF PlacesInv
  <2>4. Placed(e)'
    BY <1>6, <2>2, <2>3 DEF Placed, Graph, Handling, Producing, At
  <2> QED
    BY <2>2, <2>4, OthersPlaced
<1>7. CASE Claim
  <2>1. CASE \E b \in QueuedBlueprints : Start(b, "begin")
    BY <1>5, <2>1, RunsOfStory DEF QueuedBlueprints
  <2>2. CASE \E p \in QueuedProductions : Start(p, "inspect")
    BY <1>5, <2>2, RunsOfStory DEF QueuedProductions
  <2>3. CASE \E b \in Handoffs : Start(Production(b), "inspect")
    BY <1>5, <2>3, RunsOfStory DEF Handoffs
  <2> QED
    BY <1>7, <2>1, <2>2, <2>3 DEF Claim
<1>8. CASE Begin
  <2>1. CASE End("worker")
    BY <1>1, <1>4, <2>1
  <2>2. CASE ~ End("worker")
    <3>1. PICK input \in {"new", "none"} :
            executor' = [executor EXCEPT !["worker"] =
                           [executor["worker"] EXCEPT !.pc = "load", !.input = input]]
      BY <1>1, <1>8, <2>2, LifeFields DEF Begin
    <3> DEFINE x == [executor["worker"] EXCEPT !.pc = "load", !.input = input]
    <3>2. /\ x \in Execution /\ x.pc = "load" /\ x.run = executor["worker"].run
          /\ x.dec = executor["worker"].dec /\ x.input = input
      BY <1>1 DEF Execution
    <3> HIDE DEF x
    <3>3. /\ executor'["worker"] = x
          /\ \A f \in Executors \ {"worker"} : executor'[f] = executor[f]
      BY <1>1, <3>1, <3>2, LifeTurns DEF x
    <3>4. executor["worker"].pc = "begin"
      BY <1>8 DEF Begin, At
    <3>5. "worker" \notin Requests
      BY StoryAssumption
    <3>6. Placed("worker")'
      BY <1>1, <3>2, <3>3, <3>4, <3>5 DEF Placed, Graph, Handling, Producing
    <3> QED
      BY <1>1, <3>3, <3>6, OthersPlaced
  <2> QED
    BY <2>1, <2>2
<1>9. CASE Inspect \/ Prepare \/ Produce \/ Scenes
  <2>1. /\ executor["worker"].pc \in Producing
        /\ (\E pc \in Producing : GoTo("worker", pc)) \/ End("worker")
    BY <1>9 DEF Inspect, Prepare, Produce, Scenes, At, Producing
  <2> QED
    BY <1>1, <1>4, <1>6, <2>1 DEF Producing, Handling
<1>10. CASE FailHandoff \/ FinishProduction
  BY <1>1, <1>4, <1>10 DEF FailHandoff, FinishProduction, OnRow
<1>11. CASE \E q \in Requests : RequestStep(q) \/ \E d \in Decisions : Deliver(q, d)
  <2>1. PICK q \in Requests : RequestStep(q) \/ \E d \in Decisions : Deliver(q, d)
    BY <1>11
  <2>2. q \in Executors /\ q # "worker" /\ Placed(q) /\ executor[q] \in Execution
    BY <1>2, LifeFields
  <2>3. CASE Check(q) \/ RecordDecision(q)
    <3>1. /\ executor[q].pc \in Handling
          /\ GoTo(q, "record") \/ GoTo(q, "go") \/ End(q)
      BY <2>3 DEF Check, RecordDecision, At, Handling
    <3> QED
      BY <1>4, <1>6, <2>2, <3>1 DEF Handling, Producing
  <2>4. ASSUME NEW b \in Blueprints, NEW input \in {"fork", "resume"}, At(q, "go"),
               executor' = [executor EXCEPT ![q] =
                              [executor[q] EXCEPT !.pc = "load", !.run = b, !.input = input]]
        PROVE  PlacesInv'
    <3> DEFINE x == [executor[q] EXCEPT !.pc = "load", !.run = b, !.input = input]
    <3>1. /\ x \in Execution /\ x.pc = "load" /\ x.run = b /\ x.dec = executor[q].dec
          /\ x.input = input
      BY <2>2, RunsOfStory DEF Execution
    <3> HIDE DEF x
    <3>2. executor'[q] = x /\ \A f \in Executors \ {q} : executor'[f] = executor[f]
      BY <2>2, <2>4, <3>1, LifeTurns DEF x
    <3>3. Placed(q)'
      BY <2>2, <2>4, <3>1, <3>2 DEF Placed, Graph, Handling, Producing, At
    <3> QED
      BY <2>2, <3>2, <3>3, OthersPlaced
  <2>5. CASE CreateForkRun(q)
    <3>1. executor[q].dec \in Decisions /\ At(q, "go")
      BY <2>2, <2>5 DEF CreateForkRun, At, Placed, Handling
    <3>2. End(q) \/ \E b \in Blueprints : LoadChild(q, b)
      <4>1. decision[executor[q].dec].result \in Blueprints \cup {NoStory}
        BY <3>1, LifeFields DEF DecisionRows
      <4> QED
        BY <2>5, <4>1 DEF CreateForkRun, NewForkChild
    <3> QED
      BY <1>4, <2>2, <2>4, <3>1, <3>2, LifeFields DEF LoadChild
  <2>6. CASE ResumeGraph(q)
    <3>1. At(q, "go") /\ (GoTo(q, "load") \/ End(q))
      BY <2>6 DEF ResumeGraph
    <3>2. CASE GoTo(q, "load")
      BY <1>6, <2>2, <3>1, <3>2 DEF At, Handling, Producing
    <3> QED
      BY <1>4, <2>2, <3>1, <3>2
  <2>7. CASE GraphStep(q)
    BY <1>3, <2>2, <2>7
  <2>8. ASSUME NEW d \in Decisions, Deliver(q, d)
        PROVE  PlacesInv'
    <3>1. decision'[d].about \in Blueprints
      BY <2>8, Delivered DEF DecisionsInv
    <3>2. Placed(q)'
      BY <2>2, <2>8, <3>1, Delivered DEF Placed, Graph, Handling, Producing
    <3> QED
      BY <2>2, <2>8, <3>2, Delivered, OthersPlaced
  <2> QED
    BY <2>1, <2>3, <2>5, <2>6, <2>7, <2>8 DEF RequestStep
<1>12. ASSUME NEW r \in StoryRuns, Stop(r)
       PROVE  PlacesInv'
  <2>1. CASE End("worker")
    BY <1>1, <1>4, <2>1
  <2>2. CASE UNCHANGED executor
    BY <2>2 DEF PlacesInv, Placed
  <2> QED
    BY <1>12, <2>1, <2>2 DEF Stop
<1>13. CASE DeleteProject \/ ActivateProfile \/ UNCHANGED lifeVars
  BY <1>13 DEF DeleteProject, ActivateProfile, lifeVars, PlacesInv, Placed
<1>14. CASE CrashAndRestart
  BY <1>14, IdlePlaced DEF CrashAndRestart, PlacesInv
<1> QED
  BY <1>1, <1>3, <1>7, <1>8, <1>9, <1>10, <1>11, <1>12, <1>13, <1>14 DEF LifeNext, WorkerStep

-----------------------------------------------------------------------------
(* The decisions.                                                           *)

(* What was sent stays what it is, what is recorded stays recorded, and is  *)
(* only of a run that exists, and a fork keeps its child.                   *)
Grows ==
  \A d \in Decisions :
    /\ decision[d].status # "unsent" =>
         /\ decision'[d].about = decision[d].about /\ decision'[d].round = decision[d].round
         /\ decision'[d].action = decision[d].action /\ decision'[d].status # "unsent"
    /\ Recorded(d) => Recorded(d)'
    /\ Recorded(d)' => Recorded(d) \/ Exists(decision'[d].about)
    /\ decision[d].action = "fork" /\ decision[d].result # NoStory =>
         decision'[d].result = decision[d].result

(* Decisions that are marked, but not made, are the same decisions.         *)
LEMMA MarkedDecisions ==
  ASSUME LifeInv,
         \A d \in Decisions :
           /\ decision'[d].about = decision[d].about /\ decision'[d].round = decision[d].round
           /\ decision'[d].action = decision[d].action
           /\ Recorded(d) <=> Recorded(d)'
           /\ decision[d].status = "unsent" => decision'[d] = decision[d]
           /\ decision[d].status # "unsent" => decision'[d].status # "unsent"
           /\ decision[d].action = "fork" => decision'[d].result = decision[d].result
  PROVE  DecisionsInv' /\ Grows
<1>1. DecisionsInv'
  BY DEF LifeInv, DecisionsInv
<1>2. Grows
  BY DEF Grows
<1> QED
  BY <1>1, <1>2

(* A fork that is applied is applied to its child, and only while the story *)
(* is not deleted.                                                          *)
LEMMA AppliedToItsRun ==
  ASSUME LifeInv, NEW e \in Executors, Apply(e)
  PROVE  DecisionsInv' /\ Grows
<1> DEFINE seen == IF At(e, "apply") THEN executor[e].view.dec ELSE NoDecision
           settled == {d \in {executor[e].dec, seen} \ {NoDecision} :
                         decision[d].status \in {"PENDING", "FAILED"}}
<1>1. decision' = [d \in Decisions |->
                     IF d \in settled
                     THEN [decision[d] EXCEPT !.status = "APPLIED", !.result = Of(e)]
                     ELSE decision[d]]
  BY DEF Apply
<1>2. executor[e].pc \in Graph /\ Of(e) \in Blueprints
  BY DEF Apply, At, Graph, LifeInv, PlacesInv, Placed, Of
<1>3. ASSUME NEW d \in Decisions, d \in settled
      PROVE  /\ Recorded(d) /\ decision[d].status # "unsent"
             /\ decision[d].action = "fork" => decision[d].result = Of(e)
  <2>1. Recorded(d) /\ decision[d].status # "unsent" /\ d # NoDecision
    BY <1>3 DEF Recorded
  <2>2. ~ deleted
    BY <2>1 DEF LifeInv, DeletedInv
  <2>3. Handles(e) /\ Sound(Of(e), executor[e].view)
    BY <1>2, <2>2 DEF LifeInv, DecidedInv, DecidedExecution
  <2>4. d = executor[e].dec \/ d = executor[e].view.dec
    BY <1>3
  <2> QED
    BY <1>2, <2>1, <2>3, <2>4 DEF Handles, Sound
<1> HIDE DEF seen, settled
<1>4. \A d \in Decisions : decision[d] \in DecisionRows
  BY LifeFields DEF LifeInv
<1>5. \A d \in Decisions :
        /\ decision'[d].about = decision[d].about /\ decision'[d].round = decision[d].round
        /\ decision'[d].action = decision[d].action
        /\ Recorded(d) <=> Recorded(d)'
        /\ decision[d].status = "unsent" => decision'[d] = decision[d]
        /\ decision[d].status # "unsent" => decision'[d].status # "unsent"
        /\ decision[d].action = "fork" => decision'[d].result = decision[d].result
  BY <1>1, <1>3, <1>4 DEF Recorded, DecisionRows
<1> QED
  BY <1>5, MarkedDecisions

(* No step of a run unmakes a decision.                                     *)
LEMMA DecisionsNext ==
  ASSUME LifeInv, [LifeNext]_lifeVars, ~ DeleteProject
  PROVE  DecisionsInv' /\ Grows
<1> USE DEF LifeInv
<1>1. \A d \in Decisions : decision[d] \in DecisionRows
  BY LifeFields
<1>2. ASSUME decision' = decision
      PROVE  DecisionsInv' /\ Grows
  BY <1>2, MarkedDecisions DEF Recorded
<1>3. ASSUME NEW e \in Executors, GraphStep(e)
      PROVE  DecisionsInv' /\ Grows
  <2>1. CASE RaiseError(e)
    <3>1. CASE decision' = decision
      BY <1>2, <3>1
    <3>2. CASE decision' # decision
      <4>1. /\ executor[e].dec \in Decisions
            /\ decision[executor[e].dec].status \in {"PENDING", "APPLIED"}
            /\ decision' = [decision EXCEPT ![executor[e].dec].status = "FAILED"]
        <5>1. executor[e].dec \in Decisions \cup {NoDecision}
          BY LifeFields DEF Execution
        <5> QED
          BY <2>1, <3>2, <5>1 DEF RaiseError
      <4>2. \A d \in Decisions :
              /\ decision'[d].about = decision[d].about /\ decision'[d].round = decision[d].round
              /\ decision'[d].action = decision[d].action
              /\ Recorded(d) <=> Recorded(d)'
              /\ decision[d].status = "unsent" => decision'[d] = decision[d]
              /\ decision[d].status # "unsent" => decision'[d].status # "unsent"
              /\ decision[d].action = "fork" => decision'[d].result = decision[d].result
        BY <1>1, <4>1, LifeFields DEF Recorded, DecisionRows
      <4> QED
        BY <4>2, MarkedDecisions
    <3> QED
      BY <3>1, <3>2
  <2>2. CASE Apply(e)
    BY <2>2, AppliedToItsRun
  <2>3. CASE ~ Apply(e) /\ ~ RaiseError(e)
    <3>1. decision' = decision
      BY <1>3, <2>3 DEF GraphStep, Load, Approval, StartWork, Work, Failing, Boundary, Snapshot,
                        AwaitApproval, Approve
    <3> QED
      BY <1>2, <3>1
  <2> QED
    BY <2>1, <2>2, <2>3
<1>4. CASE WorkerStep /\ ~ GraphStep("worker")
  <2>1. decision' = decision
    BY <1>4 DEF WorkerStep, Claim, Begin, Inspect, Prepare, FailHandoff, Produce, Scenes,
                FinishProduction
  <2> QED
    BY <1>2, <2>1
<1>5. ASSUME NEW q \in Requests, RecordDecision(q)
      PROVE  DecisionsInv' /\ Grows
  <2>1. q \in Executors /\ Placed(q)
    BY DEF Executors, PlacesInv
  <2>2. Of(q) \in StoryRuns /\ executor[q].dec \in Decisions /\ executor[q].pc \in Handling
    BY <1>5, <2>1, RunsOfStory DEF RecordDecision, At, Placed, Handling, Of
  <2> DEFINE d == executor[q].dec
  <2>3. CASE decision' = decision
    BY <1>2, <2>3
  <2>4. CASE decision' # decision
    <3>1. /\ ~ Recorded(d) /\ Exists(Of(q))
          /\ \A c \in Decisions \ {d} :
               ~ (/\ Recorded(c) /\ decision[c].about = decision[d].about
                  /\ decision[c].round = decision[d].round)
          /\ decision' = [decision EXCEPT ![d].status = "PENDING"]
      BY <1>5, <2>4 DEF RecordDecision
    <3>2. ~ deleted
      BY <2>2, <3>1 DEF DeletedInv
    <3>3. decision[d].status = "sent"
      <4>1. Handles(q)
        BY <2>1, <3>2 DEF DecidedInv, DecidedExecution
      <4>2. d # NoDecision
        BY <2>2, StoryAssumption DEF NoDecision
      <4>3. decision[d].status # "unsent"
        BY <4>1, <4>2 DEF Handles
      <4> QED
        BY <3>1, <4>3 DEF Recorded
    <3>4. /\ decision'[d].status = "PENDING" /\ decision'[d].about = decision[d].about
          /\ decision'[d].round = decision[d].round /\ decision'[d].action = decision[d].action
          /\ decision'[d].result = decision[d].result
          /\ \A c \in Decisions \ {d} : decision'[c] = decision[c]
      BY <1>1, <2>2, <3>1, LifeFields DEF DecisionRows
    <3>5. Grows
      <4>1. decision[d].about = Of(q)
        BY <2>1, <2>2, <3>2, StoryAssumption DEF DecidedInv, DecidedExecution, Handles, NoDecision
      <4> QED
        BY <2>2, <3>1, <3>3, <3>4, <4>1 DEF Grows, Recorded
    <3>6. \A c, b \in Decisions :
            /\ Recorded(c)' /\ Recorded(b)'
            /\ decision'[c].about = decision'[b].about /\ decision'[c].round = decision'[b].round
            => c = b
      BY <2>2, <3>1, <3>4 DEF DecisionsInv, Recorded
    <3>7. \A c \in Decisions :
            /\ IF decision'[c].status = "unsent" THEN decision'[c] = NotSent
               ELSE decision'[c].about \in Blueprints
            /\ decision'[c].action = "fork" => decision'[c].result # Story
      BY <2>2, <3>3, <3>4 DEF DecisionsInv
    <3> QED
      BY <3>5, <3>6, <3>7 DEF DecisionsInv
  <2> QED
    BY <2>3, <2>4
<1>6. ASSUME NEW q \in Requests, CreateForkRun(q)
      PROVE  DecisionsInv' /\ Grows
  <2>1. q \in Executors /\ Placed(q)
    BY DEF Executors, PlacesInv
  <2>2. executor[q].dec \in Decisions
    BY <1>6, <2>1 DEF CreateForkRun, At, Placed, Handling
  <2> DEFINE d == executor[q].dec
  <2>3. CASE decision' = decision
    BY <1>2, <2>3
  <2>4. CASE decision' # decision
    <3>1. PICK child \in Blueprints :
            /\ decision[d].result = NoStory /\ Recorded(d) /\ ~ Exists(child)
            /\ decision' = [decision EXCEPT ![d].result = child]
      BY <1>6, <2>4 DEF CreateForkRun, NewForkChild
    <3>2. child # Story
      BY <2>2, <3>1 DEF DeletedInv, DecidedInv
    <3>3. /\ decision'[d].status = decision[d].status /\ decision'[d].about = decision[d].about
          /\ decision'[d].round = decision[d].round /\ decision'[d].action = decision[d].action
          /\ decision'[d].result = child
          /\ \A c \in Decisions \ {d} : decision'[c] = decision[c]
      BY <1>1, <2>2, <3>1, LifeFields DEF DecisionRows
    <3>4. Grows
      BY <2>2, <3>1, <3>3 DEF Grows, Recorded
    <3>5. \A c, b \in Decisions :
            /\ Recorded(c)' /\ Recorded(b)'
            /\ decision'[c].about = decision'[b].about /\ decision'[c].round = decision'[b].round
            => c = b
      BY <3>3 DEF DecisionsInv, Recorded
    <3>6. \A c \in Decisions :
            /\ IF decision'[c].status = "unsent" THEN decision'[c] = NotSent
               ELSE decision'[c].about \in Blueprints
            /\ decision'[c].action = "fork" => decision'[c].result # Story
      <4>1. decision[d].status # "unsent"
        BY <3>1 DEF Recorded
      <4> QED
        BY <2>2, <3>2, <3>3, <4>1 DEF DecisionsInv
    <3> QED
      BY <3>4, <3>5, <3>6 DEF DecisionsInv
  <2> QED
    BY <2>3, <2>4
<1>7. ASSUME NEW q \in Requests, NEW d \in Decisions, Deliver(q, d)
      PROVE  DecisionsInv' /\ Grows
  <2>1. CASE decision' = decision
    BY <1>2, <2>1
  <2>2. CASE decision' # decision
    <3>1. /\ decision[d].status = "unsent" /\ decision'[d].status = "sent"
          /\ decision'[d].about \in Blueprints /\ decision'[d].result = NoStory
          /\ \A c \in Decisions \ {d} : decision'[c] = decision[c]
      BY <1>7, <2>2, Delivered
    <3>2. decision[d].action # "fork"
      BY <3>1 DEF DecisionsInv, NotSent
    <3>3. ~ Recorded(d) /\ ~ Recorded(d)' /\ NoStory # Story
      BY <3>1 DEF Recorded, NoStory, Story
    <3> QED
      BY <3>1, <3>2, <3>3 DEF DecisionsInv, Grows, Recorded
  <2> QED
    BY <2>1, <2>2
<1>8. ASSUME NEW q \in Requests, Check(q) \/ ResumeGraph(q)
      PROVE  DecisionsInv' /\ Grows
  BY <1>2, <1>8 DEF Check, ResumeGraph
<1>9. CASE \/ \E r \in StoryRuns : Stop(r)
           \/ ActivateProfile \/ CrashAndRestart \/ UNCHANGED lifeVars
  BY <1>2, <1>9 DEF Stop, ActivateProfile, CrashAndRestart, lifeVars
<1> QED
  BY <1>3, <1>4, <1>5, <1>6, <1>7, <1>8, <1>9 DEF LifeNext, WorkerStep, RequestStep, Executors

-----------------------------------------------------------------------------
(* The rows of the runs.                                                    *)

(* A run's row stays; a production's row is new only while the worker       *)
(* prepares it, of a Blueprint that exists, a Blueprint's only as the child *)
(* of a recorded fork; and a Blueprint succeeds only where an executor      *)
(* approves it.                                                             *)
NewRowOf(r) ==
  \/ /\ r \in Productions /\ executor["worker"].pc \in Producing /\ Of("worker") = r
     /\ Exists(BlueprintOf(r))
  \/ \E d \in Decisions :
       Recorded(d) /\ decision'[d].action = "fork" /\ decision'[d].result = r
RowsKept ==
  \A r \in StoryRuns :
    /\ Exists(r) => Exists(r)'
    /\ ~ Exists(r) /\ Exists(r)' => NewRowOf(r)
    /\ r \in Blueprints /\ Status(r)' = "SUCCEEDED" =>
         \/ Status(r) = "SUCCEEDED"
         \/ \E e \in Executors : At(e, "approve") /\ Of(e) = r

(* A run that exists, or may be new, takes another status.                  *)
LEMMA OneRow ==
  ASSUME LifeTypeOK, NEW r \in StoryRuns, NEW status \in RunStatuses, Become(r, status),
         status # Absent, Exists(r) \/ NewRowOf(r),
         \/ status # "SUCCEEDED" \/ r \notin Blueprints
         \/ \E e \in Executors : At(e, "approve") /\ Of(e) = r
  PROVE  RowsKept
<1>1. Status(r)' = status /\ \A q \in StoryRuns \ {r} : run'[q] = run[q]
  BY Becomes
<1> QED
  BY <1>1 DEF RowsKept, Status, Exists

(* No row changes.                                                          *)
LEMMA SameRows == ASSUME run' = run PROVE RowsKept
  BY DEF RowsKept, Status, Exists

(* Every step keeps the rows so, but the deletion of the project.           *)
LEMMA RowsNext ==
  ASSUME LifeInv, [LifeNext]_lifeVars, ~ DeleteProject
  PROVE  RowsKept
<1> USE DEF LifeInv
<1> USE DEF RunStatuses, Absent
<1>1. "worker" \in Executors /\ Placed("worker")
  BY DEF Executors, PlacesInv
<1>2. executor["worker"].pc \in Producing =>
        /\ Of("worker") \in StoryRuns /\ Of("worker") \in Productions
        /\ Of("worker") \notin Blueprints /\ BlueprintOf(Of("worker")) \in StoryRuns
  BY <1>1, RunsOfStory DEF Placed, Of
<1>3. ASSUME NEW e \in Executors, GraphStep(e)
      PROVE  RowsKept
  <2>1. Of(e) \in StoryRuns
    BY <1>3, GraphTurns DEF PlacesInv
  <2>2. CASE run' = run
    BY <2>2, SameRows
  <2>3. CASE run' # run
    <3>1. /\ Exists(Of(e))
          /\ \/ Become(Of(e), "RUNNING") \/ Become(Of(e), "FAILED") \/ Become(Of(e), "PAUSED")
             \/ Become(Of(e), "SUCCEEDED") /\ At(e, "approve")
      BY <1>3, <2>3 DEF GraphStep, Load, Approval, StartWork, Work, Failing, Boundary, Snapshot,
                        AwaitApproval, Approve, Apply, RaiseError, OnRow
    <3> QED
      BY <2>1, <3>1, OneRow
  <2> QED
    BY <2>2, <2>3
<1>4. CASE Claim
  <2>1. CASE run' = run
    BY <2>1, SameRows
  <2>2. CASE \E b \in QueuedBlueprints :
               run' = [run EXCEPT ![b] = [@ EXCEPT !.status = "RUNNING", !.frozen = TRUE]]
    <3>1. PICK b \in QueuedBlueprints :
            run' = [run EXCEPT ![b] = [@ EXCEPT !.status = "RUNNING", !.frozen = TRUE]]
      BY <2>2
    <3>2. b \in StoryRuns /\ Status(b) = "PENDING" /\ run[b] \in Rows
      BY RunsOfStory, LifeFields DEF QueuedBlueprints
    <3>3. run'[b].status = "RUNNING" /\ \A q \in StoryRuns \ {b} : run'[q] = run[q]
      BY <3>1, <3>2, LifeFields DEF Rows
    <3> QED
      BY <3>2, <3>3 DEF RowsKept, Status, Exists
  <2>3. CASE \E p \in QueuedProductions : Become(p, "RUNNING")
    <3>1. PICK p \in QueuedProductions : Become(p, "RUNNING")
      BY <2>3
    <3>2. p \in StoryRuns /\ Exists(p)
      BY RunsOfStory DEF QueuedProductions, Exists
    <3> QED
      BY <3>1, <3>2, OneRow
  <2> QED
    BY <1>4, <2>1, <2>2, <2>3 DEF Claim
<1>5. CASE Prepare
  <2>1. executor["worker"].pc \in Producing
    BY <1>5 DEF Prepare, At, Producing
  <2>2. CASE run' = run
    BY <2>2, SameRows
  <2>3. CASE run' # run
    <3>1. /\ Status(BlueprintOf(Of("worker"))) = "SUCCEEDED" /\ ~ Exists(Of("worker"))
          /\ run' = [run EXCEPT ![Of("worker")] = ProductionRow(BlueprintOf(Of("worker")))]
      BY <1>5, <2>3 DEF Prepare
    <3>2. NewRowOf(Of("worker"))
      BY <1>2, <2>1, <3>1 DEF NewRowOf, Exists
    <3>3. \A q \in StoryRuns \ {Of("worker")} : run'[q] = run[q]
      BY <3>1, LifeFields
    <3> QED
      BY <1>2, <2>1, <3>1, <3>2, <3>3 DEF RowsKept, Status, Exists
  <2> QED
    BY <2>2, <2>3
<1>6. CASE FailHandoff
  <2>1. executor["worker"].pc \in Producing
    BY <1>6 DEF FailHandoff, At, Producing
  <2>2. CASE run' = run
    BY <2>2, SameRows
  <2>3. CASE run' # run
    <3>1. Exists(BlueprintOf(Of("worker"))) /\ Become(Of("worker"), "FAILED")
      BY <1>6, <2>3 DEF FailHandoff
    <3>2. NewRowOf(Of("worker"))
      BY <1>2, <2>1, <3>1 DEF NewRowOf
    <3> QED
      BY <1>2, <2>1, <3>1, <3>2, OneRow
  <2> QED
    BY <2>2, <2>3
<1>7. CASE Produce \/ Scenes \/ FinishProduction
  <2>1. executor["worker"].pc \in Producing
    BY <1>7 DEF Produce, Scenes, FinishProduction, At, Producing
  <2>2. CASE run' = run
    BY <2>2, SameRows
  <2>3. CASE run' # run
    <3>1. /\ Exists(Of("worker"))
          /\ \E status \in {"PENDING", "RUNNING", "SUCCEEDED", "FAILED"} :
               Become(Of("worker"), status)
      BY <1>7, <2>3 DEF Produce, Scenes, FinishProduction, OnRow, Exists
    <3> QED
      BY <1>2, <2>1, <3>1, OneRow
  <2> QED
    BY <2>2, <2>3
<1>8. CASE Begin \/ Inspect
  BY <1>8, SameRows DEF Begin, Inspect
<1>9. ASSUME NEW q \in Requests, CreateForkRun(q)
      PROVE  RowsKept
  <2>1. CASE run' = run
    BY <2>1, SameRows
  <2>2. CASE run' # run
    <3>1. q \in Executors /\ Placed(q)
      BY DEF Executors, PlacesInv
    <3>2. executor[q].dec \in Decisions /\ Of(q) \in StoryRuns
      BY <1>9, <3>1, RunsOfStory DEF CreateForkRun, At, Placed, Handling, Of
    <3>3. PICK child \in Blueprints :
            /\ Recorded(executor[q].dec) /\ decision[executor[q].dec].action = "fork"
            /\ ~ Exists(child)
            /\ run' = [run EXCEPT ![child] = ForkRow(Of(q)), ![Of(q)].status = "CANCELLED"]
            /\ decision' = [decision EXCEPT ![executor[q].dec].result = child]
      BY <1>9, <2>2 DEF CreateForkRun, NewForkChild
    <3>4. NewRowOf(child)
      <4>1. decision[executor[q].dec] \in DecisionRows
        BY <3>2, LifeFields
      <4>2. /\ decision'[executor[q].dec].action = "fork"
            /\ decision'[executor[q].dec].result = child
        BY <3>2, <3>3, <4>1, LifeFields DEF DecisionRows
      <4> QED
        BY <3>2, <3>3, <4>2 DEF NewRowOf
    <3>5. /\ child \in StoryRuns /\ run[child] \in Rows /\ run[Of(q)] \in Rows
          /\ ForkRow(Of(q)) \in Rows /\ ForkRow(Of(q)).status = "PENDING"
      BY <3>2, RunsOfStory, LifeFields DEF ForkRow, Rows
    <3>6. [run EXCEPT ![child] = ForkRow(Of(q))] \in [StoryRuns -> Rows]
      BY <3>5, LifeFields
    <3>7. /\ run'[Of(q)].status = "CANCELLED"
          /\ child # Of(q) => run'[child].status = "PENDING"
          /\ \A r \in StoryRuns \ {child, Of(q)} : run'[r] = run[r]
      BY <3>2, <3>3, <3>5, <3>6, LifeFields DEF Rows
    <3>8. Exists(Of(q))
      <4>1. ~ deleted
        BY <3>2, <3>3 DEF DeletedInv
      <4>2. executor[q].dec # NoDecision
        BY <3>2, StoryAssumption DEF NoDecision
      <4>3. decision[executor[q].dec].about = Of(q) /\ executor[q].pc \in Handling
        BY <1>9, <3>1, <4>1, <4>2 DEF DecidedInv, DecidedExecution, Handles, CreateForkRun, At,
                                      Handling
      <4> QED
        BY <3>2, <3>3, <4>1, <4>3 DEF DecidedInv
    <3> QED
      BY <3>2, <3>3, <3>4, <3>7, <3>8 DEF RowsKept, Status, Exists
  <2> QED
    BY <2>1, <2>2
<1>10. ASSUME NEW q \in Requests,
              \/ Check(q) \/ RecordDecision(q) \/ ResumeGraph(q)
              \/ \E d \in Decisions : Deliver(q, d)
       PROVE  RowsKept
  BY <1>10, SameRows DEF Check, RecordDecision, ResumeGraph, Deliver
<1>11. ASSUME NEW r \in StoryRuns, Stop(r)
       PROVE  RowsKept
  BY <1>11, OneRow DEF Stop, Exists
<1>12. CASE CrashAndRestart
  <2>1. \A r \in StoryRuns :
          run'[r].status = IF Status(r) = "RUNNING" THEN "PENDING" ELSE Status(r)
    BY <1>12, LifeFields DEF CrashAndRestart, Rows, Status
  <2> QED
    BY <2>1 DEF RowsKept, Status, Exists
<1>13. CASE ActivateProfile \/ UNCHANGED lifeVars
  BY <1>13, SameRows DEF ActivateProfile, lifeVars
<1> QED
  BY <1>1, <1>3, <1>4, <1>5, <1>6, <1>7, <1>8, <1>9, <1>10, <1>11, <1>12, <1>13
  DEF LifeNext, WorkerStep, RequestStep, Executors

-----------------------------------------------------------------------------
(* What is decided.                                                         *)

(* What a decision approved, forked or left in a checkpoint stays so.       *)
LEMMA DecidedGrows ==
  ASSUME LifeTypeOK, DecisionsInv, Grows
  PROVE  /\ \A b \in Blueprints : (Approved(b) => Approved(b)') /\ (Forked(b) => Forked(b)')
         /\ \A b \in Blueprints, t \in Thread : Sound(b, t) => Sound(b, t)'
<1>1. \A d \in Decisions : decision[d].action = "fork" => decision[d].status # "unsent"
  BY DEF DecisionsInv, NotSent
<1>2. \A b \in Blueprints : (Approved(b) => Approved(b)') /\ (Forked(b) => Forked(b)')
  <2>1. \A d \in Decisions : Recorded(d) => decision[d].status # "unsent"
    BY DEF Recorded
  <2>2. \A b \in Blueprints : b # NoStory
    BY RunsOfStory
  <2> QED
    BY <1>1, <2>1, <2>2 DEF Grows, Approved, Forked
<1>3. ASSUME NEW b \in Blueprints, NEW t \in Thread, Sound(b, t)
      PROVE  Sound(b, t)'
  <2>1. t.action = "approve" => Approved(b)'
    BY <1>2, <1>3 DEF Sound
  <2>2. t.dec # NoDecision =>
          /\ decision'[t.dec].status # "unsent"
          /\ decision'[t.dec].action = "fork" => decision'[t.dec].result = b
    <3>1. t.dec # NoDecision => t.dec \in Decisions
      BY DEF Thread
    <3>2. b # NoStory
      BY RunsOfStory
    <3> QED
      BY <1>3, <3>1, <3>2 DEF Sound, Grows
  <2> QED
    BY <2>1, <2>2 DEF Sound
<1> QED
  BY <1>2, <1>3

(* An executor that does not move keeps what it is about.                   *)
LEMMA HandlesGrows ==
  ASSUME LifeTypeOK, PlacesInv, Grows, NEW e \in Executors, executor'[e] = executor[e], Handles(e)
  PROVE  Handles(e)'
<1>1. executor[e].dec # NoDecision => executor[e].dec \in Decisions
  BY LifeFields DEF Execution
<1>2. executor[e].pc \in Graph => Of(e) # NoStory
  BY RunsOfStory DEF PlacesInv, Placed, Of
<1> QED
  BY <1>1, <1>2 DEF Handles, Grows, Of

(* So its story stays decided.                                              *)
LEMMA UnmovedDecided ==
  ASSUME LifeInv, Grows, NEW e \in Executors, executor'[e] = executor[e], DecidedExecution(e)
  PROVE  DecidedExecution(e)'
<1> USE DEF LifeInv
<1>1. Handles(e)'
  BY HandlesGrows DEF DecidedExecution
<1>2. (Of(e) \in Blueprints => Sound(Of(e), executor[e].view))'
  <2>1. executor[e].view \in Thread
    BY LifeFields DEF Execution
  <2>2. ASSUME NEW b \in Blueprints, NEW t \in Thread, b = Of(e), t = executor[e].view
        PROVE  Sound(b, t)'
    BY <2>2, DecidedGrows DEF DecidedExecution
  <2> QED
    BY <2>1, <2>2 DEF Of, Sound, Approved
<1>3. (executor[e].pc \in Producing => Approved(BlueprintOf(Of(e))))'
  <2>1. executor[e].pc \in Producing => BlueprintOf(Of(e)) \in Blueprints
    BY RunsOfStory DEF PlacesInv, Placed, Of
  <2>2. ASSUME NEW b \in Blueprints, b = BlueprintOf(Of(e)), executor[e].pc \in Producing
        PROVE  Approved(b)'
    BY <2>2, DecidedGrows DEF DecidedExecution
  <2> QED
    BY <2>1, <2>2 DEF Of, Approved
<1> QED
  BY <1>1, <1>2, <1>3 DEF DecidedExecution, At

(* An executor that has ended is about nothing.                             *)
LEMMA IdleDecided ==
  ASSUME NEW e \in Executors, executor'[e] = Idle
  PROVE  DecidedExecution(e)'
<1>1. Idle.pc = "idle" /\ Idle.dec = NoDecision /\ Idle.run = NoStory
  BY DEF Idle
<1>2. NoStory \notin Blueprints
  BY RunsOfStory
<1> QED
  BY <1>1, <1>2 DEF DecidedExecution, Handles, At, Of, Producing

(* What an executor of a graph reads, and what it writes to the thread, was *)
(* decided about its run.                                                   *)
LEMMA SoundSteps ==
  ASSUME LifeInv, ~ deleted, NEW e \in Executors, GraphStep(e)
  PROVE  /\ executor'[e] # Idle => Sound(Of(e), executor'[e].view)
         /\ executor'[e].pc = "approve" => executor'[e].view.action = "approve"
         /\ Sound(Of(e), thread'[Of(e)])
         /\ \A b \in Blueprints \ {Of(e)} : thread'[b] = thread[b]
<1> USE DEF LifeInv
<1> USE DEF ExecutorPcs
<1>1. executor[e].pc \in Graph /\ Of(e) \in Blueprints /\ Placed(e)
  BY GraphTurns DEF PlacesInv
<1>2. /\ executor[e] \in Execution /\ executor[e].view \in Thread /\ thread[Of(e)] \in Thread
  BY <1>1, LifeFields DEF Execution
<1>3. /\ Handles(e) /\ Sound(Of(e), executor[e].view) /\ Sound(Of(e), thread[Of(e)])
      /\ At(e, "approve") => executor[e].view.action = "approve"
  BY <1>1 DEF DecidedInv, DecidedExecution, DecidedRun
<1>4. Sound(Of(e), NoThread)
  BY DEF Sound, NoThread
<1>5. Idle.pc = "idle"
  BY DEF Idle
<1>6. \A t \in Thread, at \in {"none", "work", "review", "end"} :
        Sound(Of(e), t) => Sound(Of(e), [t EXCEPT !.at = at])
  BY DEF Sound, Thread
<1>7. ASSUME NEW t \in Thread, Sound(Of(e), t), NEW pc \in ExecutorPcs \ {"idle", "approve"},
             thread' = [thread EXCEPT ![Of(e)] = t], GoToWith(e, pc, t)
      PROVE  /\ Sound(Of(e), executor'[e].view) /\ executor'[e].pc # "approve"
             /\ Sound(Of(e), thread'[Of(e)])
             /\ \A b \in Blueprints \ {Of(e)} : thread'[b] = thread[b]
  <2>1. executor'[e].pc = pc /\ executor'[e].view \in {t, NoThread}
    BY <1>7, Goes
  <2>2. thread'[Of(e)] = t /\ \A b \in Blueprints \ {Of(e)} : thread'[b] = thread[b]
    BY <1>1, <1>7, LifeFields
  <2> QED
    BY <1>4, <1>7, <2>1, <2>2
<1>8. CASE Load(e)
  <2> DEFINE seeded == [thread[Of(e)] EXCEPT !.at = "work"]
             forked == [seeded EXCEPT !.action = "fork", !.dec = executor[e].dec]
  <2>1. seeded \in Thread /\ Sound(Of(e), seeded)
    BY <1>2, <1>3, <1>6, ThreadsOfSteps
  <2>2. CASE executor[e].input = "new"
    <3>1. thread' = [thread EXCEPT ![Of(e)] = seeded] /\ GoToWith(e, "start", seeded)
      BY <1>8, <2>2 DEF Load
    <3> HIDE DEF seeded
    <3> QED
      BY <1>7, <2>1, <3>1
  <2>3. CASE executor[e].input = "fork"
    <3>1. thread' = [thread EXCEPT ![Of(e)] = forked] /\ GoToWith(e, "start", forked)
      BY <1>8, <2>3 DEF Load
    <3>2. forked \in Thread /\ forked.action = "fork" /\ forked.dec = executor[e].dec
      BY <1>2, <2>1 DEF Thread, Execution
    <3>3. executor[e].dec \in Decisions /\ executor[e].dec # NoDecision
      BY <1>1, <1>8, <2>3, StoryAssumption DEF Load, At, Placed, NoDecision
    <3>4. /\ decision[executor[e].dec].status # "unsent"
          /\ decision[executor[e].dec].result = Of(e)
      BY <1>1, <1>3, <1>8, <2>3, <3>3 DEF Handles, Load, At
    <3>5. Sound(Of(e), forked)
      BY <3>2, <3>3, <3>4 DEF Sound
    <3> HIDE DEF seeded, forked
    <3> QED
      BY <1>7, <3>1, <3>2, <3>5
  <2>4. CASE executor[e].input \notin {"new", "fork"}
    <3>1. /\ thread' = thread
          /\ \E pc \in {"start", "approval", "boundary"} : GoToWith(e, pc, thread[Of(e)])
      BY <1>8, <2>4 DEF Load
    <3>2. executor'[e].pc # "approve" /\ executor'[e].view \in {thread[Of(e)], NoThread}
      BY <1>2, <3>1, Goes
    <3> QED
      BY <1>3, <1>4, <3>1, <3>2
  <2> QED
    BY <2>2, <2>3, <2>4
<1>9. CASE Approval(e)
  <2> DEFINE d == executor[e].dec
             action == decision[d].action
             decided == [executor[e].view EXCEPT
                           !.at = IF action = "approve" THEN "end" ELSE "work",
                           !.action = action, !.dec = d]
  <2>1. /\ d \in Decisions /\ d # NoDecision /\ At(e, "approval")
    BY <1>1, <1>9, StoryAssumption DEF Approval, At, Placed, NoDecision
  <2>2. /\ decision[d].status # "unsent" /\ Recorded(d) /\ action # "fork"
        /\ decision[d].about = Of(e)
    BY <1>1, <1>3, <2>1 DEF Handles, At
  <2>3. action \in {"none", "approve", "revise", "reject", "fork"}
    BY <2>1, LifeFields, StoryAssumption DEF DecisionRows
  <2>4. decided \in Thread /\ decided.action = action /\ decided.dec = d
    BY <1>2, <2>1, <2>3 DEF Thread
  <2>5. Sound(Of(e), decided)
    BY <2>1, <2>2, <2>4 DEF Sound, Approved
  <2>6. CASE Exists(Of(e))
    <3>1. /\ thread' = [thread EXCEPT ![Of(e)] = decided]
          /\ \E pc \in {"boundary", "start"} : GoToWith(e, pc, decided)
      BY <1>9, <2>6 DEF Approval
    <3> HIDE DEF decided
    <3> QED
      BY <1>7, <2>4, <2>5, <3>1
  <2>7. CASE ~ Exists(Of(e))
    <3>1. End(e) /\ thread' = thread
      BY <1>9, <2>7 DEF Approval
    <3>2. executor'[e] = Idle
      BY <3>1, Ending
    <3> QED
      BY <1>3, <1>5, <3>1, <3>2
  <2> QED
    BY <2>6, <2>7
<1>10. CASE Work(e)
  <2> DEFINE reviewed == [executor[e].view EXCEPT !.at = "review", !.round = @ + 1]
  <2>1. reviewed \in Thread
    BY <1>2, ThreadsOfSteps
  <2>2. reviewed.action = executor[e].view.action /\ reviewed.dec = executor[e].view.dec
    BY <1>2 DEF Thread
  <2>3. Sound(Of(e), reviewed)
    BY <1>3, <2>2 DEF Sound
  <2> HIDE DEF reviewed
  <2>4. CASE thread' = [thread EXCEPT ![Of(e)] = reviewed] /\ GoToWith(e, "boundary", reviewed)
    BY <1>7, <2>1, <2>3, <2>4
  <2>5. CASE GoTo(e, "failing") /\ UNCHANGED thread
    <3>1. executor'[e].pc = "failing" /\ executor'[e].view = NoThread
      BY <2>5, GoesOn DEF Uses
    <3> QED
      BY <1>3, <1>4, <2>5, <3>1
  <2> QED
    BY <1>10, <2>4, <2>5 DEF Work, reviewed
<1>11. CASE Snapshot(e)
  <2>1. /\ thread' = thread
        /\ \E pc \in {"await", "approve", "failing"} :
             /\ GoToWith(e, pc, thread[Of(e)])
             /\ pc = "approve" => thread[Of(e)].action = "approve"
    BY <1>11 DEF Snapshot
  <2>2. /\ executor'[e].pc = "approve" => /\ thread[Of(e)].action = "approve"
                                          /\ executor'[e].view = thread[Of(e)]
        /\ executor'[e].view \in {thread[Of(e)], NoThread}
    BY <1>2, <2>1, Goes DEF Uses
  <2> QED
    BY <1>3, <1>4, <2>1, <2>2
<1>12. CASE StartWork(e) \/ Failing(e) \/ Boundary(e) \/ AwaitApproval(e) \/ Approve(e)
            \/ Apply(e) \/ RaiseError(e)
  <2>1. /\ thread' = thread
        /\ \/ End(e)
           \/ \E pc \in {"apply", "work", "raised", "answer", "snapshot"} : GoTo(e, pc)
    BY <1>12 DEF StartWork, Failing, Boundary, AwaitApproval, Approve, Apply, RaiseError, OnRow
  <2>2. CASE End(e)
    <3>1. executor'[e] = Idle
      BY <2>2, Ending
    <3> QED
      BY <1>3, <1>5, <2>1, <3>1
  <2>3. CASE \E pc \in {"apply", "work", "raised", "answer", "snapshot"} : GoTo(e, pc)
    <3>1. executor'[e].pc # "approve" /\ executor'[e].view \in {executor[e].view, NoThread}
      BY <2>3, GoesOn
    <3> QED
      BY <1>3, <1>4, <2>1, <3>1
  <2> QED
    BY <2>1, <2>2, <2>3
<1> QED
  BY <1>8, <1>9, <1>10, <1>11, <1>12 DEF GraphStep

(* Every executor that moves works on what was decided.                     *)
LEMMA ExecutionsDecided ==
  ASSUME LifeInv, ~ deleted, [LifeNext]_lifeVars, ~ DeleteProject, PlacesInv', LifeTypeOK'
  PROVE  \A e \in Executors : DecidedExecution(e)'
<1> USE DEF LifeInv
<1> USE DEF ExecutorPcs
<1>1. DecisionsInv' /\ Grows
  BY DecisionsNext
<1>2. ASSUME NEW e \in Executors, DecidedExecution(e)',
             \A f \in Executors \ {e} : executor'[f] = executor[f]
      PROVE  \A f \in Executors : DecidedExecution(f)'
  BY <1>1, <1>2, UnmovedDecided DEF DecidedInv
<1>3. "worker" \in Executors /\ Placed("worker") /\ executor["worker"] \in Execution
  BY LifeFields DEF Executors, PlacesInv
<1>4. ASSUME NEW e \in Executors, End(e)
      PROVE  \A f \in Executors : DecidedExecution(f)'
  BY <1>2, <1>4, Ending, IdleDecided
<1>5. CASE executor' = executor
  BY <1>1, <1>5, UnmovedDecided DEF DecidedInv
<1>6. ASSUME NEW e \in Executors, GraphStep(e)
      PROVE  \A f \in Executors : DecidedExecution(f)'
  <2>1. /\ Of(e) \in Blueprints /\ Of(e) # NoStory
        /\ \A f \in Executors \ {e} : executor'[f] = executor[f]
    BY <1>6, GraphTurns, RunsOfStory DEF PlacesInv
  <2>2. CASE executor'[e] = Idle
    BY <1>2, <2>1, <2>2, IdleDecided
  <2>3. CASE executor'[e] # Idle
    <3>1. /\ executor'[e].pc \in Graph \ {"load"} /\ executor[e].pc \in Graph
          /\ executor'[e].run = executor[e].run /\ executor'[e].dec = executor[e].dec
          /\ executor'[e].pc = "approval" => At(e, "load") /\ executor[e].input = "resume"
      BY <1>6, <2>3, GraphTurns DEF PlacesInv, Load
    <3>2. Handles(e) /\ (executor[e].dec # NoDecision => executor[e].dec \in Decisions)
      BY LifeFields DEF DecidedInv, DecidedExecution, Execution
    <3>3. Handles(e)'
      BY <1>1, <2>1, <3>1, <3>2 DEF Handles, Grows, Of, At, Graph, Handling
    <3>4. /\ Sound(Of(e), executor'[e].view)
          /\ executor'[e].pc = "approve" => executor'[e].view.action = "approve"
      BY <1>6, <2>3, SoundSteps
    <3>5. (Of(e) \in Blueprints => Sound(Of(e), executor[e].view))'
      <4>1. executor'[e].view \in Thread
        BY LifeFields DEF LifeTypeOK
      <4>2. ASSUME NEW b \in Blueprints, NEW t \in Thread, b = Of(e), t = executor'[e].view
            PROVE  Sound(b, t)'
        BY <1>1, <3>4, <4>2, DecidedGrows
      <4> QED
        BY <2>1, <3>1, <4>1, <4>2 DEF Of, Sound, Approved
    <3>6. DecidedExecution(e)'
      BY <3>1, <3>3, <3>4, <3>5 DEF DecidedExecution, At, Graph, Producing
    <3> QED
      BY <1>2, <2>1, <3>6
  <2> QED
    BY <2>2, <2>3
<1>7. ASSUME NEW b \in StoryRuns, NEW pc \in {"begin", "inspect"}, Start(b, pc),
             pc = "inspect" => b \in Productions /\ Approved(BlueprintOf(b))
      PROVE  \A f \in Executors : DecidedExecution(f)'
  <2> DEFINE x == [Idle EXCEPT !.pc = pc, !.run = b]
  <2>1. /\ x \in Execution /\ x.pc = pc /\ x.run = b /\ x.dec = NoDecision /\ x.view = NoThread
    BY LifeFields DEF Execution, Idle
  <2> HIDE DEF x
  <2>2. /\ executor'["worker"] = x
        /\ \A f \in Executors \ {"worker"} : executor'[f] = executor[f]
    BY <1>3, <1>7, <2>1, LifeTurns DEF Start, x
  <2>3. ASSUME NEW c \in Blueprints, pc = "inspect", c = BlueprintOf(b)
        PROVE  Approved(c)'
    BY <1>1, <1>7, <2>3, DecidedGrows
  <2>4. pc = "inspect" => BlueprintOf(b) \in Blueprints
    BY <1>7, RunsOfStory
  <2>5. NoThread.action = "none" /\ NoThread.dec = NoDecision
    BY DEF NoThread
  <2>6. DecidedExecution("worker")'
    BY <2>1, <2>2, <2>3, <2>4, <2>5
    DEF DecidedExecution, Handles, At, Of, Sound, Approved, Producing
  <2> QED
    BY <1>2, <1>3, <2>2, <2>6
<1>8. CASE Claim
  <2>1. CASE \E b \in QueuedBlueprints : Start(b, "begin")
    BY <1>7, <2>1, RunsOfStory DEF QueuedBlueprints
  <2>2. CASE \E p \in QueuedProductions : Start(p, "inspect")
    <3>1. PICK p \in QueuedProductions : Start(p, "inspect")
      BY <2>2
    <3>2. p \in Productions /\ p \in StoryRuns /\ Exists(p)
      BY RunsOfStory DEF QueuedProductions, Exists, Absent
    <3>3. Approved(BlueprintOf(p))
      BY <3>2, RunsOfStory DEF DecidedInv, DecidedRun
    <3> QED
      BY <1>7, <3>1, <3>2, <3>3
  <2>3. CASE \E b \in Handoffs : Start(Production(b), "inspect")
    <3>1. PICK b \in Handoffs : Start(Production(b), "inspect")
      BY <2>3
    <3>2. /\ b \in Blueprints /\ Production(b) \in Productions /\ Production(b) \in StoryRuns
          /\ BlueprintOf(Production(b)) = b
      BY RunsOfStory DEF Handoffs
    <3>3. Approved(b)
      BY <3>2 DEF Handoffs, DecidedInv, DecidedRun
    <3> QED
      BY <1>7, <3>1, <3>2, <3>3
  <2> QED
    BY <1>8, <2>1, <2>2, <2>3 DEF Claim
<1>9. CASE Begin
  <2>1. CASE End("worker")
    BY <1>3, <1>4, <2>1
  <2>2. CASE ~ End("worker")
    <3>1. PICK input \in {"new", "none"} :
            executor' = [executor EXCEPT !["worker"] =
                           [executor["worker"] EXCEPT !.pc = "load", !.input = input]]
      BY <1>3, <1>9, <2>2, LifeFields DEF Begin
    <3> DEFINE x == [executor["worker"] EXCEPT !.pc = "load", !.input = input]
    <3>2. /\ x \in Execution /\ x.pc = "load" /\ x.run = executor["worker"].run
          /\ x.dec = executor["worker"].dec /\ x.view = executor["worker"].view
      BY <1>3 DEF Execution
    <3> HIDE DEF x
    <3>3. /\ executor'["worker"] = x
          /\ \A f \in Executors \ {"worker"} : executor'[f] = executor[f]
      BY <1>3, <3>1, <3>2, LifeTurns DEF x
    <3>4. x.dec = NoDecision /\ x.run \in Blueprints /\ x.view \in Thread
      BY <1>3, <1>9, <3>2 DEF Begin, At, Placed, Execution
    <3>5. ASSUME NEW b \in Blueprints, NEW t \in Thread, b = x.run, t = x.view
          PROVE  Sound(b, t)'
      <4>1. Sound(b, t)
        BY <1>3, <3>2, <3>5 DEF DecidedInv, DecidedExecution, Of
      <4> QED
        BY <1>1, <4>1, DecidedGrows
    <3>6. DecidedExecution("worker")'
      BY <3>2, <3>3, <3>4, <3>5
      DEF DecidedExecution, Handles, At, Of, Sound, Approved, Producing
    <3> QED
      BY <1>2, <1>3, <3>3, <3>6
  <2> QED
    BY <2>1, <2>2
<1>10. CASE Inspect \/ Prepare \/ Produce \/ Scenes
  <2>1. /\ executor["worker"].pc \in Producing
        /\ End("worker") \/ \E pc \in {"prepare", "produce", "handoff", "scenes", "finish"} :
                              GoTo("worker", pc)
    BY <1>10 DEF Inspect, Prepare, Produce, Scenes, At, Producing
  <2>2. ASSUME NEW pc \in {"prepare", "produce", "handoff", "scenes", "finish"},
               GoTo("worker", pc)
        PROVE  \A f \in Executors : DecidedExecution(f)'
    <3>1. /\ executor'["worker"].pc = pc /\ executor'["worker"].run = executor["worker"].run
          /\ executor'["worker"].dec = executor["worker"].dec
          /\ \A f \in Executors \ {"worker"} : executor'[f] = executor[f]
      BY <1>3, <2>2, GoesOn
    <3>2. /\ executor["worker"].run \in Productions /\ executor["worker"].run \notin Blueprints
          /\ BlueprintOf(executor["worker"].run) \in Blueprints
          /\ executor["worker"].dec = NoDecision
      BY <1>3, <2>1, RunsOfStory DEF Placed
    <3>3. ASSUME NEW c \in Blueprints, c = BlueprintOf(executor["worker"].run)
          PROVE  Approved(c)'
      <4>1. Approved(c)
        BY <1>3, <2>1, <3>3 DEF DecidedInv, DecidedExecution, Of
      <4> QED
        BY <1>1, <4>1, DecidedGrows
    <3>4. DecidedExecution("worker")'
      BY <3>1, <3>2, <3>3 DEF DecidedExecution, Handles, At, Of, Approved
    <3> QED
      BY <1>2, <1>3, <3>1, <3>4
  <2> QED
    BY <1>3, <1>4, <2>1, <2>2
<1>11. CASE FailHandoff \/ FinishProduction
  BY <1>3, <1>4, <1>11 DEF FailHandoff, FinishProduction, OnRow
<1>12. ASSUME NEW q \in Requests, RequestStep(q) \/ \E d \in Decisions : Deliver(q, d)
       PROVE  \A f \in Executors : DecidedExecution(f)'
  <2>1. /\ q \in Executors /\ Placed(q) /\ executor[q] \in Execution /\ Handles(q)
    BY LifeFields DEF Executors, PlacesInv, DecidedInv, DecidedExecution
  <2>2. executor[q].pc \in Handling =>
          /\ executor[q].dec \in Decisions /\ executor[q].dec # NoDecision
          /\ Of(q) \in Blueprints /\ Of(q) # NoStory
          /\ executor[q].input = "resume" /\ executor[q].view = NoThread
          /\ decision[executor[q].dec].status # "unsent"
          /\ Of(q) = decision[executor[q].dec].about
    BY <2>1, StoryAssumption, RunsOfStory DEF Placed, Handles, NoDecision, Of
  <2>3. NoThread.action = "none" /\ NoThread.dec = NoDecision
    BY DEF NoThread
  <2>4. CASE Check(q) \/ RecordDecision(q) \/ ResumeGraph(q)
    <3>1. /\ executor[q].pc \in Handling
          /\ \/ End(q)
             \/ At(q, "check") /\ GoTo(q, "record")
             \/ /\ At(q, "record") /\ GoTo(q, "go")
                /\ decision'[executor[q].dec].status \notin {"unsent", "sent"}
             \/ /\ At(q, "go") /\ GoTo(q, "load") /\ Recorded(executor[q].dec)
                /\ decision[executor[q].dec].action # "fork"
      <4>1. CASE RecordDecision(q)
        <5>1. CASE GoTo(q, "go")
          <6>1. executor[q].dec \in Decisions
            BY <2>2, <4>1 DEF RecordDecision, At, Handling
          <6>2. \/ Recorded(executor[q].dec) /\ decision' = decision
                \/ decision' = [decision EXCEPT ![executor[q].dec].status = "PENDING"]
                \/ End(q)
            BY <4>1 DEF RecordDecision
          <6>3. CASE decision' = [decision EXCEPT ![executor[q].dec].status = "PENDING"]
            <7>1. decision[executor[q].dec] \in DecisionRows
              BY <6>1, LifeFields
            <7>2. decision'[executor[q].dec].status = "PENDING"
              BY <6>1, <6>3, <7>1, LifeFields DEF DecisionRows
            <7> QED
              BY <4>1, <5>1, <6>1, <7>2 DEF RecordDecision, At, Handling, Recorded
          <6>4. CASE Recorded(executor[q].dec) /\ decision' = decision
            BY <4>1, <5>1, <6>4 DEF RecordDecision, At, Handling, Recorded
          <6> QED
            BY <4>1, <6>2, <6>3, <6>4 DEF RecordDecision, At, Handling
        <5>2. CASE ~ GoTo(q, "go")
          BY <4>1, <5>2 DEF RecordDecision, At, Handling
        <5> QED
          BY <5>1, <5>2
      <4>2. CASE Check(q)
        BY <4>2 DEF Check, At, Handling
      <4>3. CASE ResumeGraph(q)
        BY <4>3 DEF ResumeGraph, At, Handling
      <4> QED
        BY <2>4, <4>1, <4>2, <4>3
    <3>2. CASE End(q)
      BY <1>4, <2>1, <3>2
    <3>3. ASSUME NEW pc \in {"record", "go", "load"}, GoTo(q, pc),
                 pc = "go" => decision'[executor[q].dec].status \notin {"unsent", "sent"},
                 pc = "load" => /\ Recorded(executor[q].dec)
                                /\ decision[executor[q].dec].action # "fork"
          PROVE  \A f \in Executors : DecidedExecution(f)'
      <4>1. /\ executor'[q].pc = pc /\ executor'[q].run = executor[q].run
            /\ executor'[q].dec = executor[q].dec /\ executor'[q].input = "resume"
            /\ executor'[q].view = NoThread
            /\ \A f \in Executors \ {q} : executor'[f] = executor[f]
        BY <2>1, <2>2, <3>1, <3>3, GoesOn DEF Uses
      <4>2. ASSUME NEW d \in Decisions, d = executor[q].dec
            PROVE  /\ decision'[d].status # "unsent" /\ decision'[d].about = executor[q].run
                   /\ decision'[d].action = decision[d].action
                   /\ Recorded(d) => Recorded(d)'
        BY <1>1, <2>2, <3>1, <4>2 DEF Grows, Of
      <4>3. Handles(q)'
        BY <2>2, <3>1, <3>3, <4>1, <4>2 DEF Handles, Of, Graph, Recorded
      <4>4. DecidedExecution(q)'
        BY <2>3, <4>1, <4>3 DEF DecidedExecution, At, Of, Sound, Producing
      <4> QED
        BY <1>2, <2>1, <4>1, <4>4
    <3> QED
      BY <3>1, <3>2, <3>3
  <2>5. ASSUME NEW b \in Blueprints, At(q, "go"), LoadChild(q, b),
               Recorded(executor[q].dec), decision[executor[q].dec].action = "fork",
               decision'[executor[q].dec].result = b
        PROVE  \A f \in Executors : DecidedExecution(f)'
    <3> DEFINE x == [executor[q] EXCEPT !.pc = "load", !.run = b, !.input = "fork"]
    <3>1. /\ x \in Execution /\ x.pc = "load" /\ x.run = b /\ x.dec = executor[q].dec
          /\ x.input = "fork" /\ x.view = executor[q].view
      BY <2>1, RunsOfStory DEF Execution
    <3> HIDE DEF x
    <3>2. executor'[q] = x /\ \A f \in Executors \ {q} : executor'[f] = executor[f]
      BY <2>1, <2>5, <3>1, LifeTurns, LifeFields DEF LoadChild, x
    <3>3. executor[q].pc \in Handling
      BY <2>5 DEF At, Handling
    <3>4. ASSUME NEW d \in Decisions, d = executor[q].dec
          PROVE  /\ decision'[d].status # "unsent" /\ decision'[d].action = "fork"
                 /\ Recorded(d)'
      BY <1>1, <2>2, <2>5, <3>3, <3>4 DEF Grows
    <3>5. Handles(q)'
      BY <2>2, <2>5, <3>1, <3>2, <3>3, <3>4 DEF Handles, Of, Recorded, Handling
    <3>6. DecidedExecution(q)'
      BY <2>2, <2>3, <3>1, <3>2, <3>3, <3>5 DEF DecidedExecution, At, Of, Sound, Producing
    <3> QED
      BY <1>2, <2>1, <3>2, <3>6
  <2>6. CASE CreateForkRun(q)
    <3>1. /\ executor[q].dec \in Decisions /\ At(q, "go") /\ Recorded(executor[q].dec)
          /\ decision[executor[q].dec].action = "fork"
      BY <2>1, <2>2, <2>6 DEF CreateForkRun, At, Handling, Handles
    <3>2. \/ End(q)
          \/ \E b \in Blueprints : LoadChild(q, b) /\ decision'[executor[q].dec].result = b
      <4>1. decision[executor[q].dec] \in DecisionRows
        BY <3>1, LifeFields
      <4>2. ASSUME NEW b \in Blueprints,
                   decision' = [decision EXCEPT ![executor[q].dec].result = b]
            PROVE  decision'[executor[q].dec].result = b
        BY <3>1, <4>1, <4>2, LifeFields DEF DecisionRows
      <4>3. CASE NewForkChild(q)
        BY <4>2, <4>3 DEF NewForkChild
      <4>4. CASE /\ decision[executor[q].dec].result # NoStory
                 /\ LoadChild(q, decision[executor[q].dec].result)
                 /\ UNCHANGED <<run, decision>>
        BY <4>1, <4>4 DEF DecisionRows
      <4> QED
        BY <2>6, <4>3, <4>4 DEF CreateForkRun
    <3> QED
      BY <1>4, <2>1, <2>5, <3>1, <3>2
  <2>7. CASE GraphStep(q)
    BY <1>6, <2>1, <2>7
  <2>8. ASSUME NEW d \in Decisions, Deliver(q, d)
        PROVE  \A f \in Executors : DecidedExecution(f)'
    <3>1. /\ executor'[q].pc = "check" /\ executor'[q].dec = d
          /\ executor'[q].run = decision'[d].about /\ executor'[q].view = NoThread
          /\ \A f \in Executors \ {q} : executor'[f] = executor[f]
          /\ decision'[d].status # "unsent"
      BY <2>8, Delivered
    <3>2. DecidedExecution(q)'
      BY <2>3, <3>1 DEF DecidedExecution, Handles, At, Of, Sound, Producing, Graph
    <3> QED
      BY <1>2, <2>1, <3>1, <3>2
  <2> QED
    BY <1>12, <2>4, <2>6, <2>7, <2>8 DEF RequestStep
<1>13. ASSUME NEW r \in StoryRuns, Stop(r)
       PROVE  \A f \in Executors : DecidedExecution(f)'
  BY <1>3, <1>4, <1>5, <1>13 DEF Stop
<1>14. CASE CrashAndRestart
  BY <1>14, IdleDecided DEF CrashAndRestart
<1>15. CASE ActivateProfile \/ UNCHANGED lifeVars
  BY <1>5, <1>15 DEF ActivateProfile, lifeVars
<1> QED
  BY <1>3, <1>6, <1>8, <1>9, <1>10, <1>11, <1>12, <1>13, <1>14, <1>15 DEF LifeNext, WorkerStep

(* Only the user deletes a project.                                         *)
LEMMA DeletedOnce ==
  ASSUME [LifeNext]_lifeVars, ~ DeleteProject
  PROVE  deleted' = deleted
  BY DEF LifeNext, WorkerStep, RequestStep, GraphStep, Claim, Begin, Inspect, Prepare, FailHandoff,
         Produce, Scenes, FinishProduction, Check, RecordDecision, CreateForkRun, ResumeGraph,
         Deliver, Load, Approval, StartWork, Work, Failing, Boundary, Snapshot, AwaitApproval,
         Approve, Apply, RaiseError, Stop, ActivateProfile, CrashAndRestart, lifeVars

(* Deleting the project leaves no row and no recorded decision.             *)
LEMMA DeletionDeletes ==
  ASSUME LifeTypeOK, DecisionsInv, DeleteProject
  PROVE  DecisionsInv' /\ DeletedInv'
<1>1. \A d \in Decisions : decision[d] \in DecisionRows
  BY LifeFields
<1>2. \A d \in Decisions :
        /\ ~ Recorded(d)'
        /\ IF Recorded(d)
           THEN /\ decision'[d].status = "sent" /\ decision'[d].about = decision[d].about
                /\ decision'[d].result = NoStory
           ELSE decision'[d] = decision[d]
  BY <1>1 DEF DeleteProject, Recorded, DecisionRows
<1>3. \A r \in StoryRuns : ~ Exists(r)'
  BY DEF DeleteProject, Exists, Status
<1>4. NoStory # Story
  BY DEF NoStory, Story
<1>5. DecisionsInv'
  BY <1>2, <1>4 DEF DecisionsInv, Recorded
<1> QED
  BY <1>2, <1>3, <1>5 DEF DeletedInv

(* Nothing brings a deleted story back.                                     *)
LEMMA DeletedNext ==
  ASSUME LifeInv, [LifeNext]_lifeVars, ~ DeleteProject, LifeTypeOK'
  PROVE  DeletedInv'
<1>1. DecisionsInv' /\ Grows /\ RowsKept /\ deleted' = deleted
  BY DecisionsNext, RowsNext, DeletedOnce
<1> SUFFICES ASSUME deleted
             PROVE  /\ \A r \in StoryRuns : ~ Exists(r)'
                    /\ \A d \in Decisions : ~ Recorded(d)'
  BY <1>1 DEF DeletedInv
<1>2. (\A r \in StoryRuns : ~ Exists(r)) /\ \A d \in Decisions : ~ Recorded(d)
  BY DEF LifeInv, DeletedInv
<1>3. ASSUME NEW r \in StoryRuns, Exists(r)'
      PROVE  FALSE
  <2>1. NewRowOf(r)
    BY <1>1, <1>2, <1>3 DEF RowsKept
  <2>2. r \in Productions => BlueprintOf(r) \in StoryRuns
    BY RunsOfStory
  <2> QED
    BY <1>2, <2>1, <2>2 DEF NewRowOf
<1>4. ASSUME NEW d \in Decisions, Recorded(d)'
      PROVE  FALSE
  <2>1. decision'[d].about \in StoryRuns
    <3>1. decision'[d].status # "unsent"
      BY <1>4 DEF Recorded
    <3> QED
      BY <1>1, <3>1, RunsOfStory DEF DecisionsInv
  <2> QED
    BY <1>1, <1>2, <1>4, <2>1 DEF Grows
<1> QED
  BY <1>3, <1>4

(* What exists was decided.                                                 *)
LEMMA DecidedNext ==
  ASSUME LifeInv, [LifeNext]_lifeVars, ~ DeleteProject, LifeTypeOK', PlacesInv'
  PROVE  DecidedInv'
<1> USE DEF LifeInv
<1>1. DecisionsInv' /\ Grows /\ RowsKept /\ deleted' = deleted
  BY DecisionsNext, RowsNext, DeletedOnce
<1> SUFFICES ASSUME ~ deleted
             PROVE  /\ Exists(Story)' /\ \A b \in Blueprints : DecidedRun(b)'
                    /\ \A e \in Executors : DecidedExecution(e)'
                    /\ \A d \in Decisions : Recorded(d)' => Exists(decision[d].about)'
  BY <1>1 DEF DecidedInv
<1>2. Exists(Story)'
  BY <1>1, RunsOfStory DEF DecidedInv, RowsKept
<1>3. \A e \in Executors : DecidedExecution(e)'
  BY ExecutionsDecided
<1>4. ASSUME NEW d \in Decisions, Recorded(d)'
      PROVE  Exists(decision[d].about)'
  <2>1. decision'[d].about \in StoryRuns
    <3>1. decision'[d].status # "unsent"
      BY <1>4 DEF Recorded
    <3> QED
      BY <1>1, <3>1, RunsOfStory DEF DecisionsInv
  <2>2. Exists(decision'[d].about)
    <3>1. CASE Recorded(d)
      BY <1>1, <3>1 DEF DecidedInv, Grows, Recorded
    <3>2. CASE ~ Recorded(d)
      BY <1>1, <1>4, <3>2 DEF Grows
    <3> QED
      BY <3>1, <3>2
  <2>3. ASSUME NEW r \in StoryRuns, Exists(r)
        PROVE  Exists(r)'
    BY <1>1, <2>3 DEF RowsKept
  <2> QED
    BY <2>1, <2>2, <2>3 DEF Exists, Status
<1>5. ASSUME NEW b \in Blueprints
      PROVE  DecidedRun(b)'
  <2>1. /\ b \in StoryRuns /\ b \notin Productions
        /\ Production(b) \in StoryRuns /\ Production(b) \in Productions
        /\ Production(b) \notin Blueprints \cup {NoStory} /\ BlueprintOf(Production(b)) = b
    BY RunsOfStory
  <2>2. DecidedRun(b)
    BY DEF DecidedInv
  <2>3. (Approved(b) => Approved(b)') /\ (Forked(b) => Forked(b)')
    BY <1>1, DecidedGrows
  <2>4. Sound(b, thread[b])'
    <3>1. Sound(b, thread'[b])
      <4>1. CASE thread'[b] = thread[b]
        BY <2>2, <4>1 DEF DecidedRun
      <4>2. CASE thread'[b] # thread[b]
        <5>1. PICK e \in Executors : GraphStep(e)
          BY <4>2 DEF LifeNext, WorkerStep, RequestStep, Claim, Begin, Inspect, Prepare,
               FailHandoff, Produce, Scenes, FinishProduction, Check, RecordDecision, Executors,
               CreateForkRun, ResumeGraph, Deliver, Stop, ActivateProfile, CrashAndRestart, lifeVars
        <5> QED
          BY <4>2, <5>1, SoundSteps
      <4> QED
        BY <4>1, <4>2
    <3>2. thread'[b] \in Thread
      BY DEF LifeTypeOK
    <3>3. ASSUME NEW t \in Thread, t = thread'[b]
          PROVE  Sound(b, t)'
      BY <1>1, <3>1, <3>3, DecidedGrows
    <3> QED
      BY <3>2, <3>3 DEF Sound
  <2>5. Status(b)' = "SUCCEEDED" => Approved(b)'
    <3> SUFFICES ASSUME Status(b)' = "SUCCEEDED" PROVE Approved(b)
      BY <2>3
    <3>1. CASE Status(b) = "SUCCEEDED"
      BY <2>2, <3>1 DEF DecidedRun
    <3>2. CASE Status(b) # "SUCCEEDED"
      <4>1. PICK e \in Executors : At(e, "approve") /\ Of(e) = b
        BY <1>1, <2>1, <3>2 DEF RowsKept
      <4> QED
        BY <4>1 DEF DecidedInv, DecidedExecution, Sound
    <3> QED
      BY <3>1, <3>2
  <2>6. Exists(b)' /\ b # Story => Forked(b)'
    <3> SUFFICES ASSUME Exists(b)', b # Story PROVE Forked(b)'
      OBVIOUS
    <3>1. CASE Exists(b)
      BY <2>2, <2>3, <3>1 DEF DecidedRun
    <3>2. CASE ~ Exists(b)
      BY <1>1, <2>1, <3>2 DEF RowsKept, NewRowOf, Forked
    <3> QED
      BY <3>1, <3>2
  <2>7. Exists(Production(b))' => Approved(b)'
    <3> SUFFICES ASSUME Exists(Production(b))' PROVE Approved(b)
      BY <2>3
    <3>1. CASE Exists(Production(b))
      BY <2>2, <3>1 DEF DecidedRun
    <3>2. CASE ~ Exists(Production(b))
      <4>1. NewRowOf(Production(b))
        BY <1>1, <2>1, <3>2 DEF RowsKept
      <4>2. \A d \in Decisions : decision'[d].result \in Blueprints \cup {NoStory}
        BY DEF LifeTypeOK
      <4>3. executor["worker"].pc \in Producing /\ Of("worker") = Production(b)
        BY <2>1, <4>1, <4>2 DEF NewRowOf
      <4> QED
        BY <2>1, <4>3 DEF DecidedInv, DecidedExecution, Executors
    <3> QED
      BY <3>1, <3>2
  <2> QED
    BY <2>4, <2>5, <2>6, <2>7 DEF DecidedRun
<1> QED
  BY <1>2, <1>3, <1>4, <1>5

-----------------------------------------------------------------------------
(* The inductive invariant.                                                 *)

(* It holds initially.                                                      *)
LEMMA LifeStarts == LifeInit => LifeInv
<1> SUFFICES ASSUME LifeInit PROVE LifeInv
  OBVIOUS
<1>1. /\ NoThread \in Thread /\ Idle \in Execution /\ NotSent \in DecisionRows
      /\ \A r \in StoryRuns :
           [status |-> IF r = Story THEN "PENDING" ELSE Absent, frozen |-> FALSE, fork |-> FALSE]
             \in Rows
  BY DEF NoThread, Thread, Idle, Execution, ExecutorPcs, NotSent, DecisionRows, Rows, RunStatuses
<1>2. LifeTypeOK
  BY <1>1 DEF LifeInit, LifeTypeOK, Rows, DecisionRows, Execution
<1>3. /\ Idle.pc = "idle" /\ Idle.dec = NoDecision /\ Idle.run = NoStory
      /\ NotSent.status = "unsent" /\ NotSent.action = "none"
      /\ NoThread.action = "none" /\ NoThread.dec = NoDecision
  BY DEF Idle, NotSent, NoThread
<1>4. PlacesInv
  BY <1>3 DEF LifeInit, PlacesInv, Placed, Handling, Graph, Producing
<1>5. DecisionsInv /\ DeletedInv
  BY <1>3 DEF LifeInit, DecisionsInv, DeletedInv, Recorded
<1>6. \A r \in StoryRuns : Status(r) = IF r = Story THEN "PENDING" ELSE Absent
  BY DEF LifeInit, Status
<1>7. DecidedInv
  <2>1. Exists(Story)
    BY <1>6, RunsOfStory DEF Exists, Absent
  <2>2. ASSUME NEW b \in Blueprints PROVE DecidedRun(b)
    <3>1. Production(b) \in StoryRuns /\ Production(b) # Story /\ b \in StoryRuns
      BY RunsOfStory
    <3> QED
      BY <1>3, <1>6, <3>1 DEF LifeInit, DecidedRun, Sound, Exists, Absent
  <2>3. ASSUME NEW e \in Executors PROVE DecidedExecution(e)
    BY <1>3, RunsOfStory DEF LifeInit, DecidedExecution, Handles, At, Of, Producing
  <2>4. \A d \in Decisions : ~ Recorded(d)
    BY <1>3 DEF LifeInit, Recorded
  <2> QED
    BY <2>1, <2>2, <2>3, <2>4 DEF DecidedInv
<1> QED
  BY <1>2, <1>4, <1>5, <1>7 DEF LifeInv

(* Every step preserves it.                                                 *)
LEMMA LifeSteps == LifeInv /\ [LifeNext]_lifeVars => LifeInv'
<1> SUFFICES ASSUME LifeInv, [LifeNext]_lifeVars PROVE LifeInv'
  OBVIOUS
<1>1. LifeTypeOK' /\ PlacesInv'
  BY TypesNext, PlacesNext DEF LifeInv
<1>2. CASE DeleteProject
  <2>1. DecisionsInv' /\ DeletedInv'
    BY <1>2, DeletionDeletes DEF LifeInv
  <2>2. DecidedInv'
    BY <1>2 DEF DeleteProject, DecidedInv
  <2> QED
    BY <1>1, <2>1, <2>2 DEF LifeInv
<1>3. CASE ~ DeleteProject
  BY <1>1, <1>3, DecisionsNext, DeletedNext, DecidedNext DEF LifeInv
<1> QED
  BY <1>2, <1>3

(* It is an invariant of the specification; fairness plays no part.         *)
LEMMA LifeHolds == LifeSpec => []LifeInv
  BY LifeStarts, LifeSteps, PTL DEF LifeSpec

(* The states a story's runs, threads, decisions and executors may be in.   *)
THEOREM LifeTypes == LifeSpec => []LifeTypeOK
<1>1. LifeInv => LifeTypeOK
  BY DEF LifeInv
<1> QED
  BY <1>1, LifeHolds, PTL

(* Whoever executes a run, and however often decisions are delivered, a     *)
(* production exists only of a Blueprint some recorded decision approved,   *)
(* and a child only of a fork; and nothing brings a deleted story back.     *)
THEOREM OnlyDecidedStories == LifeSpec => []StoriesAreDecided
<1>1. LifeInv => StoriesAreDecided
  <2> SUFFICES ASSUME LifeInv, NEW b \in Blueprints
               PROVE  /\ Exists(Production(b)) => Approved(b)
                      /\ Exists(b) /\ b # Story => Forked(b)
                      /\ deleted => ~ Exists(b) /\ ~ Exists(Production(b))
    BY DEF StoriesAreDecided
  <2>1. b \in StoryRuns /\ Production(b) \in StoryRuns
    BY RunsOfStory
  <2>2. CASE deleted
    BY <2>1, <2>2 DEF LifeInv, DeletedInv
  <2>3. CASE ~ deleted
    BY <2>3 DEF LifeInv, DecidedInv, DecidedRun
  <2> QED
    BY <2>2, <2>3
<1> QED
  BY <1>1, LifeHolds, PTL

-----------------------------------------------------------------------------
(* Who decides what becomes of the story's own run.                         *)

(* An executor that may still change the status of the story.               *)
Steering == {"begin", "load", "approval", "start", "work", "failing", "boundary", "snapshot",
             "await", "approve", "go"}
Steers(e) == Of(e) = Story /\ executor[e].pc \in Steering

(* It was sent to answer the review that is open.                           *)
OpenFor(e) ==
  /\ executor[e].dec \in Decisions
  /\ thread[Story].at = "review" /\ thread[Story].round = decision[executor[e].dec].round

(* What it knows of the story, by where it is; and that it was not sent to  *)
(* a review the clients are shown, unless by a decision.                    *)
Steered(e) ==
  LET pc == executor[e].pc
  IN  /\ pc = "go" => OpenFor(e)
      /\ pc = "load" /\ executor[e].input = "resume" => OpenFor(e)
      /\ pc = "load" /\ executor[e].input = "new" => thread[Story].at = "none"
      /\ pc = "approval" => OpenFor(e)
      /\ pc \in {"start", "work", "failing", "approve"} => thread[Story].at # "review"
      /\ pc \in {"approval", "start", "work", "await"} => executor[e].view = thread[Story]
      /\ thread[Story].at = "review" /\ (e = "worker" \/ pc \in {"boundary", "snapshot", "await"})
           => asked[Story] < thread[Story].round

(* Only the deliveries of a fork may be about to answer at once.            *)
SharedFork(e, f) ==
  /\ At(e, "go") /\ At(f, "go") /\ executor[e].dec = executor[f].dec
  /\ decision[executor[e].dec].action = "fork"

(* A queued or running story has no review that clients were shown, and an  *)
(* approved one no review at all.                                           *)
StoryAsked ==
  /\ asked[Story] <= thread[Story].round
  /\ Status(Story) \in {"PENDING", "RUNNING"} /\ thread[Story].at = "review" =>
       asked[Story] < thread[Story].round
  /\ Status(Story) = "SUCCEEDED" => thread[Story].at # "review"

SteeringInv ==
  /\ StoryAsked
  /\ Status(Story) \in {"PENDING", "SUCCEEDED"} => \A e \in Executors : ~ Steers(e)
  /\ \A e \in Executors : Steers(e) => Steered(e)
  /\ \A e, f \in Executors : Steers(e) /\ Steers(f) => e = f \/ SharedFork(e, f)

(* Clients decide about what they were asked, and deliver a decision again  *)
(* while it is being handled only where they may.                           *)
AskedInv == \A d \in Decisions : decision[d].about = Story => decision[d].round <= asked[Story]
SharedInv ==
  \A q, p \in Requests :
    executor[q].dec = executor[p].dec /\ executor[q].dec # NoDecision /\ q # p =>
      decision[executor[q].dec].action \in Overlapping

StoryInv == ~ deleted => SharedInv /\ AskedInv /\ SteeringInv

(* The story's status, thread and reviews.                                  *)
LEMMA StoryTypes ==
  ASSUME LifeTypeOK
  PROVE  /\ Story \in StoryRuns /\ Story \in Blueprints /\ thread[Story] \in Thread
         /\ thread[Story].round \in Nat /\ asked[Story] \in Nat
         /\ \A e \in Executors : executor[e] \in Execution /\ executor[e].view \in Thread
         /\ \A d \in Decisions : decision[d] \in DecisionRows
<1>1. Story \in StoryRuns /\ Story \in Blueprints
  BY RunsOfStory
<1>2. thread[Story] \in Thread /\ asked[Story] \in Nat
  BY <1>1, LifeFields
<1>3. \A e \in Executors : executor[e] \in Execution
  BY LifeFields
<1> QED
  BY <1>1, <1>2, <1>3, LifeFields DEF Thread, Execution

(* An executor of the story with a decision was sent by a recorded one      *)
(* about the story, a fork only as long as it has not gone on.              *)
LEMMA StoryDecisions ==
  ASSUME LifeInv, ~ deleted, NEW e \in Executors, executor[e].dec # NoDecision
  PROVE  /\ executor[e].dec \in Decisions /\ decision[executor[e].dec].status # "unsent"
         /\ Steers(e) => /\ Recorded(executor[e].dec)
                         /\ decision[executor[e].dec].about = Story
                         /\ executor[e].pc # "go" => decision[executor[e].dec].action # "fork"
<1> USE DEF LifeInv
<1>1. executor[e].dec \in Decisions /\ Handles(e)
  BY StoryTypes DEF Execution, DecidedInv, DecidedExecution
<1>2. decision[executor[e].dec].action = "fork" => decision[executor[e].dec].result # Story
  BY <1>1 DEF DecisionsInv
<1>3. Steers(e) => e # "worker"
  BY DEF PlacesInv, Placed
<1>4. Steers(e) => executor[e].pc \in Graph \cup {"go"}
  BY <1>3 DEF Steers, Steering, Graph, PlacesInv, Placed
<1> QED
  BY <1>1, <1>2, <1>4 DEF Handles, Steers, Handling

(* Whatever one executor does, what another one knows of the story stays,   *)
(* as long as the story's thread and reviews stay.                          *)
LEMMA SteeredStays ==
  ASSUME LifeInv, ~ deleted, Grows, NEW e \in Executors, executor'[e] = executor[e],
         thread'[Story] = thread[Story], asked'[Story] = asked[Story], Steers(e), Steered(e)
  PROVE  Steered(e)'
<1>1. executor[e].dec \in Decisions =>
        decision'[executor[e].dec].round = decision[executor[e].dec].round
  BY StoryDecisions, StoryAssumption DEF Grows, NoDecision
<1> QED
  BY <1>1 DEF Steered, OpenFor

(* An executor stops to steer the story, or does not begin to.              *)
LEMMA NotSteering ==
  ASSUME LifeInv, ~ deleted, SteeringInv, Grows, NEW e \in Executors, ~ Steers(e)',
         \A f \in Executors \ {e} : executor'[f] = executor[f],
         thread'[Story] = thread[Story], asked'[Story] = asked[Story],
         Status(Story)' \in {Status(Story), "CANCELLED"}
  PROVE  SteeringInv'
<1>1. StoryAsked'
  BY DEF SteeringInv, StoryAsked
<1>2. \A f \in Executors : Steers(f)' => f # e /\ Steers(f) /\ executor'[f] = executor[f]
  BY DEF Steers, Of
<1>3. (Status(Story) \in {"PENDING", "SUCCEEDED"} => \A f \in Executors : ~ Steers(f))'
  BY <1>2 DEF SteeringInv
<1>4. ASSUME NEW f \in Executors, Steers(f)'
      PROVE  Steered(f)'
  BY <1>2, <1>4, SteeredStays DEF SteeringInv
<1>5. ASSUME NEW f \in Executors, NEW g \in Executors, Steers(f)', Steers(g)'
      PROVE  f = g \/ SharedFork(f, g)'
  <2>1. f = g \/ SharedFork(f, g)
    BY <1>2, <1>5 DEF SteeringInv
  <2>2. executor[f].dec # NoDecision =>
          decision'[executor[f].dec].action = decision[executor[f].dec].action
    BY StoryDecisions DEF Grows
  <2>3. At(f, "go") => executor[f].dec # NoDecision
    BY StoryAssumption DEF At, LifeInv, PlacesInv, Placed, Handling, NoDecision
  <2> QED
    BY <1>2, <1>5, <2>1, <2>2, <2>3 DEF SharedFork, At
<1> QED
  BY <1>1, <1>3, <1>4, <1>5 DEF SteeringInv

(* An executor that steers the story alone does what keeps it so.           *)
LEMMA SteersAlone ==
  ASSUME SteeringInv, NEW e \in Executors, Steers(e), executor[e].pc # "go",
         \A f \in Executors \ {e} : executor'[f] = executor[f],
         StoryAsked', Steers(e)' => Steered(e)' /\ Status(Story)' \notin {"PENDING", "SUCCEEDED"}
  PROVE  SteeringInv'
<1>1. \A f \in Executors \ {e} : ~ Steers(f)
  BY DEF SteeringInv, SharedFork, At
<1>2. \A f \in Executors : Steers(f)' => f = e
  BY <1>1 DEF Steers, Of
<1> QED
  BY <1>2 DEF SteeringInv

(* A step of a graph that does not steer the story leaves it alone.         *)
LEMMA GraphElsewhere ==
  ASSUME LifeInv, ~ deleted, SteeringInv, Grows, NEW e \in Executors, GraphStep(e), ~ Steers(e)
  PROVE  SteeringInv'
<1> USE DEF LifeInv
<1>1. /\ Placed(e) /\ executor[e].pc \in Graph /\ Of(e) \in Blueprints
      /\ \A f \in Executors \ {e} : executor'[f] = executor[f]
  BY GraphTurns DEF PlacesInv
<1>2. Idle.run # Story
  BY RunsOfStory DEF Idle
<1>3. CASE Of(e) # Story
  <2>1. ~ Steers(e)'
    BY <1>1, <1>2, <1>3, GraphTurns DEF Steers, Of
  <2>2. /\ thread'[Story] = thread[Story] /\ asked'[Story] = asked[Story]
        /\ run'[Story] = run[Story]
    BY <1>3, LifeFields, StoryTypes
       DEF GraphStep, Load, Approval, StartWork, Work, Failing, Boundary, Snapshot,
           AwaitApproval, Approve, Apply, RaiseError, OnRow, Become
  <2> QED
    BY <1>1, <2>1, <2>2, NotSteering DEF Status
<1>4. CASE Of(e) = Story
  <2>1. executor[e].pc \in {"raised", "apply", "answer"}
    BY <1>1, <1>4 DEF Steers, Steering, Graph
  <2>2. Apply(e) \/ RaiseError(e)
    BY <2>1 DEF GraphStep, Load, Approval, StartWork, Work, Failing, Boundary, Snapshot,
                AwaitApproval, Approve, At
  <2>3. End(e) /\ UNCHANGED <<run, thread, asked>>
    BY <2>2 DEF Apply, RaiseError
  <2>4. ~ Steers(e)'
    BY <1>2, <2>3, Ending DEF Steers, Of
  <2> QED
    BY <1>1, <2>3, <2>4, NotSteering DEF Status
<1> QED
  BY <1>3, <1>4

(* A step of the graph of the story keeps it steered.                       *)
LEMMA GraphSteers ==
  ASSUME LifeInv, ~ deleted, SteeringInv, Grows, NEW e \in Executors, GraphStep(e), Steers(e)
  PROVE  SteeringInv'
<1> USE DEF LifeInv
<1> USE DEF ExecutorPcs
<1>1. /\ Placed(e) /\ executor[e].pc \in Graph /\ Of(e) = Story /\ executor[e].pc # "go"
      /\ \A f \in Executors \ {e} : executor'[f] = executor[f]
  BY GraphTurns DEF PlacesInv, Graph, Steers
<1>2. /\ Story \in StoryRuns /\ Story \in Blueprints /\ thread[Story] \in Thread
      /\ thread[Story].round \in Nat /\ asked[Story] \in Nat
      /\ executor[e] \in Execution /\ executor[e].view \in Thread
  BY StoryTypes
<1>3. /\ StoryAsked /\ Steered(e) /\ Status(Story) \notin {"PENDING", "SUCCEEDED"}
  BY DEF SteeringInv
<1>4. ASSUME End(e), UNCHANGED <<thread, asked, run>>
      PROVE  SteeringInv'
  <2>1. ~ Steers(e)'
    BY <1>4, Ending, RunsOfStory DEF Steers, Of
  <2> QED
    BY <1>1, <1>4, <2>1, NotSteering DEF Status
<1>5. ASSUME NEW t \in Thread, NEW pc \in ExecutorPcs \ {"go", "load", "approval"},
             GoToWith(e, pc, t), UNCHANGED <<asked, run>>,
             thread' = [thread EXCEPT ![Story] = t], t.round = thread[Story].round,
             t.at # "review", pc # "await"
      PROVE  SteeringInv'
  <2>1. /\ executor'[e].pc = pc /\ thread'[Story] = t
        /\ executor'[e].view = IF Uses(pc) THEN t ELSE NoThread
    BY <1>2, <1>5, Goes, LifeFields
  <2>2. Steered(e)'
    BY <1>5, <2>1 DEF Steered, Uses
  <2>3. StoryAsked'
    BY <1>3, <1>5, <2>1 DEF StoryAsked, Status
  <2> QED
    BY <1>1, <1>3, <1>5, <2>2, <2>3, SteersAlone DEF Status
<1>6. ASSUME NEW pc \in ExecutorPcs \ {"go", "load"}, UNCHANGED <<asked, thread>>,
             GoToWith(e, pc, thread[Story]),
             Status(Story)' \in {Status(Story), "RUNNING", "FAILED"},
             Status(Story)' = "RUNNING" => Status(Story) = "RUNNING" \/ thread[Story].at # "review",
             pc \in {"start", "work", "failing", "approve"} => thread[Story].at # "review",
             pc = "approval" => OpenFor(e),
             /\ thread[Story].at = "review"
             /\ e = "worker" \/ pc \in {"boundary", "snapshot", "await"}
             => asked[Story] < thread[Story].round
      PROVE  SteeringInv'
  <2>1. /\ executor'[e].pc = pc
        /\ executor'[e].view = IF Uses(pc) THEN thread[Story] ELSE NoThread
        /\ executor'[e].dec = executor[e].dec
    BY <1>2, <1>6, Goes
  <2>2. OpenFor(e) => OpenFor(e)'
    <3>1. executor[e].dec \in Decisions =>
            decision'[executor[e].dec].round = decision[executor[e].dec].round
      BY StoryDecisions, StoryAssumption DEF Grows, NoDecision
    <3> QED
      BY <1>6, <2>1, <3>1 DEF OpenFor
  <2>3. Steered(e)'
    BY <1>6, <2>1, <2>2 DEF Steered, Uses
  <2>4. StoryAsked'
    BY <1>3, <1>6 DEF StoryAsked
  <2> QED
    BY <1>1, <1>3, <1>6, <2>3, <2>4, SteersAlone
<1>7. CASE Load(e)
  <2> DEFINE seeded == [thread[Story] EXCEPT !.at = "work"]
  <2>1. At(e, "load") /\ executor[e].input \in {"none", "new", "fork", "resume"}
    BY <1>2, <1>7 DEF Load, Execution
  <2>2. CASE executor[e].input = "new"
    <3>1. /\ seeded \in Thread /\ seeded.round = thread[Story].round /\ seeded.at = "work"
      <4>1. seeded \in Thread
        BY <1>2, ThreadsOfSteps
      <4> QED
        BY <1>2, <4>1 DEF Thread
    <3>2. /\ thread' = [thread EXCEPT ![Story] = seeded] /\ GoToWith(e, "start", seeded)
          /\ UNCHANGED <<asked, run>>
      BY <1>1, <1>7, <2>2 DEF Load
    <3> QED
      BY <1>5, <3>1, <3>2
  <2>3. CASE executor[e].input = "fork"
    <3>1. executor[e].dec \in Decisions /\ Handles(e)
      BY <1>1, <2>1, <2>3 DEF Placed, At, DecidedInv, DecidedExecution
    <3>2. decision[executor[e].dec].action = "fork"
      BY <2>1, <2>3, <3>1, StoryAssumption DEF Handles, At, NoDecision
    <3>3. executor[e].dec # NoDecision
      BY <3>1, StoryAssumption DEF NoDecision
    <3> QED
      BY <1>1, <3>2, <3>3, StoryDecisions
  <2>4. CASE executor[e].input \in {"none", "resume"}
    <3>1. /\ UNCHANGED <<thread, asked, run>>
          /\ GoToWith(e, CASE thread[Story].at = "work" -> "start"
                           [] thread[Story].at = "review" /\ executor[e].input = "resume"
                                -> "approval"
                           [] OTHER -> "boundary", thread[Story])
      BY <1>1, <1>7, <2>4 DEF Load
    <3>2. CASE thread[Story].at = "work"
      <4>1. GoToWith(e, "start", thread[Story])
        BY <3>1, <3>2
      <4> QED
        BY <1>6, <3>1, <3>2, <4>1 DEF Status
    <3>3. CASE thread[Story].at = "review" /\ executor[e].input = "resume"
      <4>1. GoToWith(e, "approval", thread[Story])
        BY <3>1, <3>3
      <4>2. OpenFor(e) /\ e # "worker"
        <5>1. OpenFor(e)
          BY <1>3, <2>1, <3>3 DEF Steered, At
        <5> QED
          BY <1>1, <5>1, StoryAssumption DEF OpenFor, Placed, NoDecision
      <4> QED
        BY <1>6, <3>1, <4>1, <4>2 DEF Status
    <3>4. CASE /\ thread[Story].at # "work"
               /\ ~ (thread[Story].at = "review" /\ executor[e].input = "resume")
      <4>1. GoToWith(e, "boundary", thread[Story])
        BY <3>1, <3>4
      <4>2. thread[Story].at = "review" => e = "worker" /\ asked[Story] < thread[Story].round
        <5>1. thread[Story].at = "review" => executor[e].input = "none"
          BY <2>4, <3>4
        <5>2. executor[e].input = "none" => e = "worker"
          BY <1>1, <2>1 DEF Placed, At, Executors
        <5> QED
          BY <1>3, <5>1, <5>2 DEF Steered
      <4> QED
        BY <1>6, <3>1, <4>1, <4>2 DEF Status
    <3> QED
      BY <3>2, <3>3, <3>4
  <2> QED
    BY <2>1, <2>2, <2>3, <2>4
<1>8. CASE Approval(e)
  <2>1. executor[e].dec \in Decisions /\ executor[e].view = thread[Story]
    BY <1>1, <1>3, <1>8 DEF Approval, At, Placed, Steered
  <2>2. decision[executor[e].dec].action \in {"none", "approve", "revise", "reject", "fork"}
    BY <2>1, LifeFields, StoryAssumption DEF DecisionRows
  <2> DEFINE action == decision[executor[e].dec].action
             decided == [executor[e].view EXCEPT
                           !.at = IF action = "approve" THEN "end" ELSE "work",
                           !.action = action, !.dec = executor[e].dec]
  <2>3. decided \in Thread /\ decided.round = thread[Story].round /\ decided.at # "review"
    BY <1>2, <2>1, <2>2 DEF Thread
  <2>4. Exists(Story)
    BY DEF DecidedInv
  <2>5. /\ thread' = [thread EXCEPT ![Story] = decided] /\ UNCHANGED <<asked, run>>
        /\ GoToWith(e, "boundary", decided) \/ GoToWith(e, "start", decided)
    BY <1>1, <1>8, <2>4 DEF Approval
  <2> HIDE DEF decided
  <2> QED
    BY <1>5, <2>3, <2>5
<1>9. CASE StartWork(e)
  <2>1. Exists(Story)
    BY DEF DecidedInv
  <2>2. executor[e].view = thread[Story] /\ thread[Story].at # "review"
    BY <1>3, <1>9 DEF StartWork, At, Steered
  <2>3. /\ UNCHANGED <<asked, thread>>
        /\ \/ GoToWith(e, "apply", thread[Story]) /\ UNCHANGED run
           \/ Become(Story, "RUNNING") /\ GoToWith(e, "work", thread[Story])
    BY <1>1, <1>9, <2>1, <2>2 DEF StartWork, OnRow, GoTo
  <2>4. Become(Story, "RUNNING") => Status(Story)' = "RUNNING"
    BY <1>2, Becomes DEF RunStatuses
  <2> QED
    BY <1>6, <2>2, <2>3, <2>4 DEF Status
<1>10. CASE Work(e)
  <2>1. executor[e].view = thread[Story] /\ thread[Story].at # "review"
    BY <1>3, <1>10 DEF Work, At, Steered
  <2> DEFINE reviewed == [thread[Story] EXCEPT !.at = "review", !.round = @ + 1]
  <2>2. CASE thread' = [thread EXCEPT ![Story] = reviewed] /\ GoToWith(e, "boundary", reviewed)
    <3>1. reviewed \in Thread /\ reviewed.round = thread[Story].round + 1
      <4>1. reviewed \in Thread
        BY <1>2, ThreadsOfSteps
      <4> QED
        BY <1>2, <4>1 DEF Thread
    <3> HIDE DEF reviewed
    <3>2. thread'[Story] = reviewed /\ executor'[e].pc = "boundary"
      BY <1>2, <2>2, <3>1, Goes, LifeFields
    <3>3. UNCHANGED <<run, asked>>
      BY <1>10 DEF Work
    <3>4. asked'[Story] < thread'[Story].round
      BY <1>2, <1>3, <3>1, <3>2, <3>3 DEF StoryAsked
    <3>5. Steered(e)'
      BY <3>2, <3>4 DEF Steered
    <3>6. StoryAsked'
      BY <1>2, <1>3, <3>1, <3>2, <3>3, <3>4 DEF StoryAsked, Status
    <3> QED
      BY <1>1, <1>3, <3>3, <3>5, <3>6, SteersAlone DEF Status
  <2>3. CASE GoToWith(e, "failing", thread[Story]) /\ UNCHANGED thread
    BY <1>6, <1>10, <2>1, <2>3 DEF Work, Status
  <2> QED
    BY <1>1, <1>10, <2>1, <2>2, <2>3 DEF Work, GoTo
<1>11. CASE Failing(e)
  <2>1. Exists(Story) /\ thread[Story].at # "review"
    BY <1>3, <1>11 DEF DecidedInv, Failing, At, Steered
  <2>2. /\ Become(Story, "FAILED") /\ GoToWith(e, "raised", thread[Story])
        /\ UNCHANGED <<asked, thread>>
    BY <1>1, <1>11, <2>1 DEF Failing, OnRow, GoTo, GoToWith, Uses
  <2>3. Status(Story)' = "FAILED"
    BY <1>2, <2>2, Becomes DEF RunStatuses
  <2> QED
    BY <1>6, <2>1, <2>2, <2>3
<1>12. CASE Boundary(e)
  <2>1. Exists(Story)
    BY DEF DecidedInv
  <2>2. /\ UNCHANGED <<run, asked, thread>>
        /\ GoToWith(e, "answer", thread[Story]) \/ GoToWith(e, "snapshot", thread[Story])
    BY <1>1, <1>12, <2>1 DEF Boundary, OnRow, GoTo, GoToWith, Uses
  <2>3. thread[Story].at = "review" => asked[Story] < thread[Story].round
    BY <1>3, <1>12 DEF Boundary, At, Steered
  <2> QED
    BY <1>6, <2>2, <2>3 DEF Status
<1>13. CASE Snapshot(e)
  <2>1. /\ UNCHANGED <<run, asked, thread>>
        /\ GoToWith(e, CASE thread[Story].at = "review" -> "await"
                         [] thread[Story].at # "review" /\ thread[Story].action = "approve"
                              -> "approve"
                         [] OTHER -> "failing", thread[Story])
    BY <1>1, <1>13 DEF Snapshot
  <2>2. thread[Story].at = "review" => asked[Story] < thread[Story].round
    BY <1>3, <1>13 DEF Snapshot, At, Steered
  <2>3. \/ thread[Story].at = "review" /\ GoToWith(e, "await", thread[Story])
        \/ thread[Story].at # "review" /\ GoToWith(e, "approve", thread[Story])
        \/ thread[Story].at # "review" /\ GoToWith(e, "failing", thread[Story])
    BY <2>1
  <2> QED
    BY <1>6, <2>1, <2>2, <2>3 DEF Status
<1>14. CASE AwaitApproval(e)
  <2>1. Exists(Story) /\ executor[e].view = thread[Story]
    BY <1>3, <1>14 DEF DecidedInv, AwaitApproval, At, Steered
  <2>2. /\ Become(Story, "PAUSED") /\ GoTo(e, "apply") /\ UNCHANGED thread
        /\ asked' = [asked EXCEPT ![Story] = thread[Story].round]
    BY <1>1, <1>14, <2>1 DEF AwaitApproval
  <2>3. /\ Status(Story)' = "PAUSED" /\ executor'[e].pc = "apply"
        /\ asked'[Story] = thread[Story].round
    BY <1>2, <2>2, Becomes, GoesOn, LifeFields DEF RunStatuses
  <2>4. StoryAsked' /\ ~ Steers(e)'
    BY <1>2, <2>2, <2>3 DEF StoryAsked, Steers, Steering
  <2> QED
    BY <1>1, <2>4, SteersAlone
<1>15. CASE Approve(e)
  <2>1. Exists(Story) /\ thread[Story].at # "review"
    BY <1>3, <1>15 DEF DecidedInv, Approve, At, Steered
  <2>2. Become(Story, "SUCCEEDED") /\ GoTo(e, "apply") /\ UNCHANGED <<thread, asked>>
    BY <1>1, <1>15, <2>1 DEF Approve, OnRow
  <2>3. Status(Story)' = "SUCCEEDED" /\ executor'[e].pc = "apply"
    BY <1>2, <2>2, Becomes, GoesOn DEF RunStatuses
  <2>4. StoryAsked' /\ ~ Steers(e)'
    BY <1>3, <2>1, <2>2, <2>3 DEF StoryAsked, Steers, Steering
  <2> QED
    BY <1>1, <2>4, SteersAlone
<1>16. CASE Apply(e) \/ RaiseError(e)
  BY <1>4, <1>16 DEF Apply, RaiseError
<1> QED
  BY <1>7, <1>8, <1>9, <1>10, <1>11, <1>12, <1>13, <1>14, <1>15, <1>16 DEF GraphStep

(* The worker takes the queued story, or another run; it begins or produces *)
(* what it took.                                                            *)
LEMMA WorkerSteers ==
  ASSUME LifeInv, ~ deleted, SteeringInv, Grows, WorkerStep, ~ GraphStep("worker")
  PROVE  SteeringInv'
<1> USE DEF LifeInv
<1> USE DEF ExecutorPcs
<1> DEFINE w == "worker"
<1>1. /\ w \in Executors /\ Placed(w) /\ executor[w].dec = NoDecision
      /\ Idle.run = NoStory /\ NoStory # Story /\ NoStory \notin StoryRuns
  BY RunsOfStory DEF Executors, PlacesInv, Placed, Idle
<1>2. /\ Story \in StoryRuns /\ Story \in Blueprints /\ Story \notin Productions
      /\ thread[Story].round \in Nat /\ asked[Story] \in Nat
      /\ executor[w] \in Execution
  BY <1>1, StoryTypes, RunsOfStory
<1>3. ASSUME \A f \in Executors \ {w} : executor'[f] = executor[f],
             UNCHANGED <<thread, asked>>, run'[Story] = run[Story],
             ~ Steers(w)'
      PROVE  SteeringInv'
  BY <1>1, <1>3, NotSteering DEF Status
<1>4. End(w) => ~ Steers(w)' /\ \A f \in Executors \ {w} : executor'[f] = executor[f]
  BY <1>1, Ending DEF Steers, Of
<1>5. ASSUME NEW r \in StoryRuns, NEW pc \in {"begin", "inspect"}, Start(r, pc)
      PROVE  /\ executor'[w].pc = pc /\ executor'[w].run = r /\ executor'[w].dec = NoDecision
             /\ \A f \in Executors \ {w} : executor'[f] = executor[f]
  <2> DEFINE x == [Idle EXCEPT !.pc = pc, !.run = r]
  <2>1. x \in Execution /\ x.pc = pc /\ x.run = r /\ x.dec = NoDecision
    BY LifeFields DEF Execution, Idle
  <2>2. executor' = [executor EXCEPT ![w] = x]
    BY <1>5 DEF Start
  <2> HIDE DEF x
  <2> QED
    BY <1>1, <2>1, <2>2, LifeTurns
<1>6. CASE Claim
  <2>1. CASE \E b \in QueuedBlueprints :
               /\ run' = [run EXCEPT ![b] = [@ EXCEPT !.status = "RUNNING", !.frozen = TRUE]]
               /\ Start(b, "begin")
    <3>1. PICK b \in QueuedBlueprints :
               /\ run' = [run EXCEPT ![b] = [@ EXCEPT !.status = "RUNNING", !.frozen = TRUE]]
               /\ Start(b, "begin")
      BY <2>1
    <3>2. /\ b \in StoryRuns /\ Status(b) = "PENDING"
          /\ executor'[w].pc = "begin" /\ executor'[w].run = b
          /\ \A f \in Executors \ {w} : executor'[f] = executor[f]
      BY <1>5, <3>1, RunsOfStory DEF QueuedBlueprints
    <3>3. UNCHANGED <<thread, asked>>
      BY <1>6 DEF Claim
    <3>4. CASE b = Story
      <4>1. \A f \in Executors : ~ Steers(f)
        BY <3>2, <3>4 DEF SteeringInv
      <4>2. Status(Story)' = "RUNNING"
        BY <1>2, <3>1, <3>4, LifeFields DEF Status, Rows
      <4>3. thread[Story].at = "review" => asked[Story] < thread[Story].round
        BY <3>2, <3>4 DEF SteeringInv, StoryAsked
      <4>4. StoryAsked'
        BY <3>3, <4>2, <4>3 DEF SteeringInv, StoryAsked
      <4>5. Steered(w)'
        BY <3>2, <3>3, <4>3 DEF Steered
      <4>6. \A f \in Executors : Steers(f)' => f = w
        BY <3>2, <4>1 DEF Steers, Of
      <4> QED
        BY <4>2, <4>4, <4>5, <4>6 DEF SteeringInv
    <3>5. CASE b # Story
      <4>1. run'[Story] = run[Story] /\ ~ Steers(w)'
        BY <1>2, <3>1, <3>2, <3>5, LifeFields DEF Steers, Of
      <4> QED
        BY <1>3, <3>2, <3>3, <4>1
    <3> QED
      BY <3>4, <3>5
  <2>2. CASE \E p \in QueuedProductions : Become(p, "RUNNING") /\ Start(p, "inspect")
    <3>1. PICK p \in QueuedProductions : Become(p, "RUNNING") /\ Start(p, "inspect")
      BY <2>2
    <3>2. p \in StoryRuns /\ p # Story
      BY <1>2, RunsOfStory DEF QueuedProductions
    <3>3. /\ ~ Steers(w)' /\ run'[Story] = run[Story]
          /\ \A f \in Executors \ {w} : executor'[f] = executor[f]
      BY <1>2, <1>5, <3>1, <3>2, LifeFields DEF Steers, Of, Become
    <3> QED
      BY <1>3, <1>6, <3>3 DEF Claim
  <2>3. CASE (\E b \in Handoffs : Start(Production(b), "inspect")) /\ UNCHANGED run
    <3>1. PICK b \in Handoffs : Start(Production(b), "inspect")
      BY <2>3
    <3>2. Production(b) \in StoryRuns /\ Production(b) # Story
      BY <1>2, RunsOfStory DEF Handoffs
    <3>3. /\ ~ Steers(w)' /\ \A f \in Executors \ {w} : executor'[f] = executor[f]
      BY <1>5, <3>1, <3>2 DEF Steers, Of
    <3> QED
      BY <1>3, <1>6, <2>3, <3>3 DEF Claim
  <2> QED
    BY <1>6, <2>1, <2>2, <2>3 DEF Claim
<1>7. CASE Begin
  <2>1. UNCHANGED <<run, thread, asked>> /\ executor[w].pc = "begin"
    BY <1>7 DEF Begin, At
  <2>2. CASE End(w)
    BY <1>3, <1>4, <2>1, <2>2
  <2>3. CASE ~ End(w)
    <3> DEFINE input == IF thread[Of(w)].at = "none" THEN "new" ELSE "none"
               x == [executor[w] EXCEPT !.pc = "load", !.input = input]
    <3>1. x \in Execution /\ x.pc = "load" /\ x.input = input /\ x.run = executor[w].run
      BY <1>2 DEF Execution
    <3>2. executor' = [executor EXCEPT ![w] = x]
      BY <1>7, <2>3 DEF Begin
    <3> HIDE DEF x
    <3>3. /\ executor'[w] = x /\ \A f \in Executors \ {w} : executor'[f] = executor[f]
      BY <1>1, <3>1, <3>2, LifeTurns
    <3>4. CASE Of(w) = Story
      <4>1. Steers(w)
        BY <2>1, <3>4 DEF Steers, Steering
      <4>2. Steered(w) /\ Status(Story) \notin {"PENDING", "SUCCEEDED"} /\ StoryAsked
        BY <1>1, <4>1 DEF SteeringInv
      <4>3. Steered(w)'
        BY <2>1, <3>1, <3>3, <3>4, <4>2 DEF Steered
      <4>4. StoryAsked'
        BY <2>1, <4>2 DEF StoryAsked, Status
      <4> QED
        BY <1>1, <2>1, <3>3, <4>1, <4>2, <4>3, <4>4, SteersAlone DEF Status
    <3>5. CASE Of(w) # Story
      <4>1. ~ Steers(w)'
        BY <3>1, <3>3, <3>5 DEF Steers, Of
      <4> QED
        BY <1>3, <2>1, <3>3, <4>1
    <3> QED
      BY <3>4, <3>5
  <2> QED
    BY <2>2, <2>3
<1>8. CASE Inspect \/ Prepare \/ FailHandoff \/ Produce \/ Scenes \/ FinishProduction
  <2>1. executor[w].pc \in Producing
    BY <1>8 DEF Inspect, Prepare, FailHandoff, Produce, Scenes, FinishProduction, At, Producing
  <2>2. Of(w) \in StoryRuns /\ Of(w) # Story /\ executor[w].run # Story
    BY <1>1, <1>2, <2>1, RunsOfStory DEF Placed, Of
  <2>3. run'[Story] = run[Story] /\ UNCHANGED <<thread, asked>>
    BY <1>2, <1>8, <2>2, LifeFields
       DEF Inspect, Prepare, FailHandoff, Produce, Scenes, FinishProduction, OnRow, Become
  <2>4. \/ End(w)
        \/ \E pc \in {"prepare", "produce", "handoff", "scenes", "finish"} : GoTo(w, pc)
    BY <1>8 DEF Inspect, Prepare, FailHandoff, Produce, Scenes, FinishProduction, OnRow
  <2>5. ASSUME NEW pc \in {"prepare", "produce", "handoff", "scenes", "finish"}, GoTo(w, pc)
        PROVE  ~ Steers(w)' /\ \A f \in Executors \ {w} : executor'[f] = executor[f]
    BY <1>1, <2>2, <2>5, GoesOn DEF Steers, Of
  <2> QED
    BY <1>3, <1>4, <2>3, <2>4, <2>5
<1> QED
  BY <1>6, <1>7, <1>8 DEF WorkerStep

(* While the clients are shown a review, who steers the story was sent by   *)
(* the one decision that is recorded about it; and if a second delivery of  *)
(* it reaches its point of no return too, it is a fork's.                   *)
LEMMA OneAnswer ==
  ASSUME LifeInv, ~ deleted, SteeringInv, AskedInv, SharedInv, Overlapping \subseteq {"fork"},
         DecisionsInv', Grows, NEW q \in Requests, At(q, "record"), Of(q) = Story, OpenFor(q),
         NEW d \in Decisions, d = executor[q].dec, Recorded(d)',
         NEW f \in Executors \ {q}, Steers(f)
  PROVE  /\ At(f, "go") /\ executor[f].dec = executor[q].dec
         /\ decision[executor[f].dec].action = "fork"
<1> USE DEF LifeInv
<1>1. q \in Executors /\ executor[q].dec \in Decisions /\ executor[q].dec # NoDecision
  BY StoryAssumption DEF Executors, OpenFor, NoDecision
<1>2. decision[executor[q].dec].about = Story /\ decision[executor[q].dec].status # "unsent"
  BY <1>1 DEF DecidedInv, DecidedExecution, Handles, At, Handling
<1>3. thread[Story].at = "review" /\ ~ (asked[Story] < thread[Story].round)
  BY <1>1, <1>2, StoryTypes DEF OpenFor, AskedInv, DecisionRows
<1>4. Placed(f) /\ Steered(f) /\ executor[f].input \in {"none", "new", "fork", "resume"}
  BY StoryTypes DEF SteeringInv, PlacesInv, Execution
<1>5. f \in Requests /\ executor[f].pc \in {"load", "approval", "go"}
  BY <1>3, <1>4 DEF Steered, Steers, Steering, Executors, Placed
<1>6. executor[f].pc = "load" => executor[f].input = "resume" /\ executor[f].dec \in Decisions
  <2> SUFFICES ASSUME executor[f].pc = "load"
               PROVE  executor[f].input = "resume" /\ executor[f].dec \in Decisions
    OBVIOUS
  <2>1. executor[f].input \in {"resume", "fork"} /\ executor[f].dec \in Decisions
    BY <1>4, <1>5 DEF Placed
  <2>2. executor[f].dec # NoDecision
    BY <2>1, StoryAssumption DEF NoDecision
  <2>3. decision[executor[f].dec].action # "fork"
    BY <2>2, StoryDecisions
  <2> QED
    BY <2>1, <2>2, <2>3 DEF Handles, DecidedInv, DecidedExecution
<1>7. OpenFor(f)
  BY <1>4, <1>5, <1>6 DEF Steered
<1>8. executor[f].dec \in Decisions /\ executor[f].dec # NoDecision
  BY <1>7, StoryAssumption DEF OpenFor, NoDecision
<1>9. /\ Recorded(executor[f].dec) /\ decision[executor[f].dec].about = Story
      /\ decision[executor[f].dec].status # "unsent"
      /\ executor[f].pc # "go" => decision[executor[f].dec].action # "fork"
  BY <1>8, StoryDecisions
<1>10. executor[f].dec = executor[q].dec
  <2>1. PICK c \in Decisions : c = executor[f].dec
    BY <1>8
  <2>2. Recorded(c)' /\ decision'[c].about = Story /\ decision'[c].round = thread[Story].round
    BY <1>7, <1>9, <2>1 DEF Grows, OpenFor
  <2>3. decision'[d].about = Story /\ decision'[d].round = thread[Story].round
    BY <1>2 DEF Grows, OpenFor
  <2> QED
    BY <2>1, <2>2, <2>3 DEF DecisionsInv, Recorded
<1>11. decision[executor[f].dec].action \in Overlapping
  BY <1>5, <1>8, <1>10 DEF SharedInv
<1> QED
  BY <1>5, <1>9, <1>10, <1>11 DEF At

(* A request reads the status of the run, records its decision, and leaves  *)
(* for the child of its fork or for the graph.                              *)
LEMMA RequestSteers ==
  ASSUME LifeInv, ~ deleted, SteeringInv, AskedInv, SharedInv, Overlapping \subseteq {"fork"},
         DecisionsInv', Grows, NEW q \in Requests,
         Check(q) \/ RecordDecision(q) \/ CreateForkRun(q) \/ ResumeGraph(q)
  PROVE  SteeringInv'
<1> USE DEF LifeInv
<1> USE DEF ExecutorPcs
<1>1. /\ q \in Executors /\ Placed(q) /\ executor[q] \in Execution
      /\ executor[q].pc \in Handling /\ executor[q].dec \in Decisions
      /\ executor[q].dec # NoDecision /\ executor[q].input = "resume"
  <2>1. q \in Executors /\ executor[q].pc \in Handling
    BY DEF Executors, Check, RecordDecision, CreateForkRun, ResumeGraph, At, Handling
  <2> QED
    BY <2>1, StoryTypes, StoryAssumption DEF PlacesInv, Placed, NoDecision
<1>2. /\ Story \in StoryRuns /\ Story \in Blueprints /\ Story # NoStory
      /\ thread[Story].round \in Nat /\ asked[Story] \in Nat
      /\ UNCHANGED <<thread, asked>>
  BY StoryTypes, RunsOfStory DEF Check, RecordDecision, CreateForkRun, ResumeGraph
<1>3. ASSUME \A f \in Executors \ {q} : executor'[f] = executor[f],
             Status(Story)' \in {Status(Story), "CANCELLED"}, ~ Steers(q)'
      PROVE  SteeringInv'
  BY <1>1, <1>2, <1>3, NotSteering
<1>4. End(q) => ~ Steers(q)' /\ \A f \in Executors \ {q} : executor'[f] = executor[f]
  BY <1>1, <1>2, Ending DEF Steers, Of
<1>5. CASE Check(q)
  <2>1. UNCHANGED run /\ (GoTo(q, "record") \/ End(q))
    BY <1>5 DEF Check
  <2>2. GoTo(q, "record") => ~ Steers(q)' /\ \A f \in Executors \ {q} : executor'[f] = executor[f]
    BY <1>1, GoesOn DEF Steers, Steering
  <2> QED
    BY <1>3, <1>4, <2>1, <2>2 DEF Status
<1>6. CASE RecordDecision(q)
  <2>1. UNCHANGED run
    BY <1>6 DEF RecordDecision
  <2>2. CASE End(q)
    BY <1>3, <1>4, <2>1, <2>2 DEF Status
  <2>3. CASE ~ End(q)
    <3>1. /\ At(q, "record") /\ GoTo(q, "go")
          /\ thread[Of(q)].at = "review" /\ thread[Of(q)].round = decision[executor[q].dec].round
          /\ Recorded(executor[q].dec)'
      <4>1. /\ At(q, "record") /\ GoTo(q, "go")
            /\ thread[Of(q)].at = "review" /\ thread[Of(q)].round = decision[executor[q].dec].round
            /\ \/ Recorded(executor[q].dec) /\ UNCHANGED decision
               \/ decision' = [decision EXCEPT ![executor[q].dec].status = "PENDING"]
        BY <1>6, <2>3 DEF RecordDecision
      <4>2. decision[executor[q].dec] \in DecisionRows
        BY <1>1, LifeFields
      <4>3. Recorded(executor[q].dec)'
        <5>1. PICK d \in Decisions : d = executor[q].dec
          BY <1>1
        <5>2. Recorded(d)'
          BY <4>1, <4>2, <5>1, LifeFields DEF Recorded, DecisionRows
        <5>3. executor'[q].dec = d
          BY <1>1, <4>1, <5>1, GoesOn
        <5> QED
          BY <5>2, <5>3 DEF Recorded
      <4> QED
        BY <4>1, <4>3
    <3>2. /\ executor'[q].pc = "go" /\ executor'[q].run = executor[q].run
          /\ executor'[q].dec = executor[q].dec
          /\ \A f \in Executors \ {q} : executor'[f] = executor[f]
      BY <1>1, <3>1, GoesOn
    <3>3. CASE Of(q) # Story
      BY <1>3, <2>1, <3>2, <3>3 DEF Steers, Of, Status
    <3>4. CASE Of(q) = Story
      <4>1. OpenFor(q) /\ Handles(q)
        BY <1>1, <3>1, <3>4 DEF OpenFor, DecidedInv, DecidedExecution
      <4>2. decision[executor[q].dec].about = Story /\ decision[executor[q].dec].status # "unsent"
        BY <1>1, <3>4, <4>1 DEF Handles
      <4>3. \A f \in Executors \ {q} :
              Steers(f) => /\ At(f, "go") /\ executor[f].dec = executor[q].dec
                           /\ decision[executor[f].dec].action = "fork"
        <5>1. PICK d \in Decisions : d = executor[q].dec
          BY <1>1
        <5>2. Recorded(d)'
          BY <3>1, <3>2, <5>1 DEF Recorded
        <5> QED
          BY <3>1, <3>4, <4>1, <5>1, <5>2, OneAnswer
      <4>4. thread[Story].at = "review" /\ ~ (asked[Story] < thread[Story].round)
        BY <1>1, <1>2, <4>1, <4>2, LifeFields DEF OpenFor, AskedInv, DecisionRows
      <4>5. StoryAsked' /\ Status(Story)' \notin {"PENDING", "SUCCEEDED"}
        BY <1>2, <2>1, <4>4 DEF SteeringInv, StoryAsked, Status
      <4>6. PICK d \in Decisions : d = executor[q].dec
        BY <1>1
      <4>7. decision'[d].round = decision[d].round /\ decision'[d].action = decision[d].action
        BY <4>2, <4>6 DEF Grows
      <4>8. Steered(q)'
        <5>1. OpenFor(q)'
          BY <1>2, <3>2, <4>1, <4>6, <4>7 DEF OpenFor
        <5>2. q # "worker"
          BY StoryAssumption
        <5> QED
          BY <3>2, <5>1, <5>2 DEF Steered
      <4>9. ASSUME NEW f \in Executors, Steers(f)'
            PROVE  /\ Steered(f)'
                   /\ f # q => /\ executor'[f].pc = "go" /\ executor'[f].dec = d
                               /\ decision'[d].action = "fork"
        <5>1. f # q => Steers(f) /\ executor'[f] = executor[f]
          BY <3>2, <4>9 DEF Steers, Of
        <5>2. f # q => Steered(f)'
          BY <1>2, <5>1, SteeredStays DEF SteeringInv
        <5> QED
          BY <4>3, <4>6, <4>7, <4>8, <5>1, <5>2 DEF At
      <4>10. ASSUME NEW f \in Executors, NEW g \in Executors, Steers(f)', Steers(g)'
             PROVE  f = g \/ SharedFork(f, g)'
        BY <3>2, <4>6, <4>9, <4>10 DEF SharedFork, At
      <4> QED
        BY <4>5, <4>9, <4>10 DEF SteeringInv
    <3> QED
      BY <3>3, <3>4
  <2> QED
    BY <2>2, <2>3
<1>7. CASE CreateForkRun(q)
  <2>1. ASSUME NEW b \in Blueprints, LoadChild(q, b), b # Story
        PROVE  ~ Steers(q)' /\ \A f \in Executors \ {q} : executor'[f] = executor[f]
    <3> DEFINE x == [executor[q] EXCEPT !.pc = "load", !.run = b, !.input = "fork"]
    <3>1. x \in Execution /\ x.run = b
      BY <1>1, RunsOfStory DEF Execution
    <3>2. executor' = [executor EXCEPT ![q] = x]
      BY <2>1 DEF LoadChild
    <3> HIDE DEF x
    <3> QED
      BY <1>1, <2>1, <3>1, <3>2, LifeTurns DEF Steers, Of
  <2>2. CASE /\ decision[executor[q].dec].result # NoStory /\ UNCHANGED run
             /\ LoadChild(q, decision[executor[q].dec].result)
    <3>1. /\ decision[executor[q].dec].result \in Blueprints
          /\ decision[executor[q].dec].result # Story
      BY <1>1, <1>7, <2>2, LifeFields DEF DecisionRows, DecisionsInv, CreateForkRun
    <3> QED
      BY <1>3, <2>1, <2>2, <3>1 DEF Status
  <2>3. CASE NewForkChild(q)
    <3>1. PICK child \in Blueprints :
            /\ ~ Exists(child) /\ LoadChild(q, child)
            /\ run' = [run EXCEPT ![child] = ForkRow(Of(q)), ![Of(q)].status = "CANCELLED"]
      BY <2>3 DEF NewForkChild
    <3>2. child # Story
      BY <3>1 DEF DecidedInv
    <3>3. Of(q) \in StoryRuns
      BY <1>1, RunsOfStory DEF Placed, Of
    <3>4. Status(Story)' \in {Status(Story), "CANCELLED"}
      <4>1. run[Story] \in Rows
        BY <1>2, LifeFields
      <4>2. run'[Story] = IF Of(q) = Story THEN [run[Story] EXCEPT !.status = "CANCELLED"]
                          ELSE run[Story]
        BY <1>2, <3>1, <3>2, <3>3, LifeFields
      <4> QED
        BY <4>1, <4>2 DEF Status, Rows
    <3> QED
      BY <1>3, <2>1, <3>1, <3>2, <3>4
  <2>4. CASE End(q) /\ UNCHANGED run
    BY <1>3, <1>4, <2>4 DEF Status
  <2> QED
    BY <1>7, <2>2, <2>3, <2>4 DEF CreateForkRun
<1>8. CASE ResumeGraph(q)
  <2>1. UNCHANGED run /\ (End(q) \/ GoTo(q, "load"))
    BY <1>8 DEF ResumeGraph
  <2>2. CASE End(q)
    BY <1>3, <1>4, <2>1, <2>2 DEF Status
  <2>3. CASE GoTo(q, "load")
    <3>1. /\ executor'[q].pc = "load" /\ executor'[q].run = executor[q].run
          /\ executor'[q].dec = executor[q].dec /\ executor'[q].input = "resume"
          /\ \A f \in Executors \ {q} : executor'[f] = executor[f]
      BY <1>1, <2>3, GoesOn
    <3>2. CASE Of(q) # Story
      BY <1>3, <2>1, <3>1, <3>2 DEF Steers, Of, Status
    <3>3. CASE Of(q) = Story
      <4>1. Steers(q) /\ At(q, "go") /\ decision[executor[q].dec].action # "fork"
        BY <1>8, <3>3 DEF ResumeGraph, Steers, Steering, At
      <4>2. OpenFor(q) /\ StoryAsked /\ Status(Story) \notin {"PENDING", "SUCCEEDED"}
        BY <1>1, <4>1 DEF SteeringInv, Steered, At
      <4>3. \A f \in Executors \ {q} : ~ Steers(f)
        BY <1>1, <4>1 DEF SteeringInv, SharedFork
      <4>4. decision[executor[q].dec].status # "unsent"
        BY <1>1, StoryDecisions
      <4>5. OpenFor(q)'
        BY <1>1, <1>2, <3>1, <4>2, <4>4 DEF OpenFor, Grows
      <4>6. Steered(q)' /\ StoryAsked'
        BY <1>2, <2>1, <3>1, <4>2, <4>5, StoryAssumption DEF Steered, StoryAsked, Status
      <4>7. \A f \in Executors : Steers(f)' => f = q
        BY <3>1, <4>3 DEF Steers, Of
      <4> QED
        BY <2>1, <4>2, <4>6, <4>7 DEF SteeringInv, Status
    <3> QED
      BY <3>2, <3>3
  <2> QED
    BY <2>1, <2>2, <2>3
<1> QED
  BY <1>5, <1>6, <1>7, <1>8

(* What is sent keeps what it is about, and only a delivery sends.          *)
LEMMA SameQuestions ==
  ASSUME LifeInv, [LifeNext]_lifeVars,
         \A q \in Requests, d \in Decisions : ~ Deliver(q, d)
  PROVE  \A d \in Decisions :
           /\ decision'[d].about = decision[d].about /\ decision'[d].round = decision[d].round
<1> USE DEF LifeInv
<1>1. \A d \in Decisions : decision[d] \in DecisionRows
  BY LifeFields
<1>2. CASE decision' = decision
  BY <1>2
<1>3. CASE decision' # decision
  <2>1. \/ DeleteProject
        \/ \E e \in Executors : Apply(e) \/ RaiseError(e)
        \/ \E q \in Requests : RecordDecision(q) \/ CreateForkRun(q)
    BY <1>3 DEF LifeNext, WorkerStep, RequestStep, GraphStep, Executors, Claim, Begin, Inspect,
         Prepare, FailHandoff, Produce, Scenes, FinishProduction, Check, ResumeGraph, Load,
         Approval, StartWork, Work, Failing, Boundary, Snapshot, AwaitApproval, Approve, Stop,
         ActivateProfile, CrashAndRestart, lifeVars
  <2>2. ASSUME NEW d \in Decisions,
               \E row \in {[decision[d] EXCEPT !.status = s] : s \in {"PENDING", "FAILED"}}
                          \cup {[decision[d] EXCEPT !.result = b] : b \in Blueprints} :
                 decision' = [decision EXCEPT ![d] = row]
        PROVE  \A c \in Decisions :
                 /\ decision'[c].about = decision[c].about /\ decision'[c].round = decision[c].round
    <3>1. PICK row : /\ decision' = [decision EXCEPT ![d] = row]
                     /\ \/ row \in {[decision[d] EXCEPT !.status = s] : s \in {"PENDING", "FAILED"}}
                        \/ row \in {[decision[d] EXCEPT !.result = b] : b \in Blueprints}
      BY <2>2
    <3>2. row.about = decision[d].about /\ row.round = decision[d].round
      BY <1>1, <3>1 DEF DecisionRows
    <3> QED
      BY <3>1, <3>2, LifeFields
  <2>3. CASE DeleteProject
    BY <1>1, <2>3 DEF DeleteProject, DecisionRows
  <2>4. ASSUME NEW e \in Executors, Apply(e)
        PROVE  \A c \in Decisions :
                 /\ decision'[c].about = decision[c].about /\ decision'[c].round = decision[c].round
    BY <1>1, <2>4 DEF Apply, DecisionRows
  <2>5. ASSUME NEW e \in Executors, RaiseError(e)
        PROVE  \A c \in Decisions :
                 /\ decision'[c].about = decision[c].about /\ decision'[c].round = decision[c].round
    <3>1. executor[e].dec # NoDecision /\ executor[e].dec \in Decisions
          /\ decision' = [decision EXCEPT ![executor[e].dec].status = "FAILED"]
      BY <1>3, <2>5, StoryTypes DEF RaiseError, Execution
    <3> QED
      BY <2>2, <3>1
  <2>6. ASSUME NEW q \in Requests, RecordDecision(q)
        PROVE  \A c \in Decisions :
                 /\ decision'[c].about = decision[c].about /\ decision'[c].round = decision[c].round
    <3>1. executor[q].dec \in Decisions
      BY <2>6 DEF RecordDecision, At, PlacesInv, Placed, Handling, Executors
    <3>2. decision' = [decision EXCEPT ![executor[q].dec].status = "PENDING"]
      BY <1>3, <2>6 DEF RecordDecision
    <3> QED
      BY <2>2, <3>1, <3>2
  <2>7. ASSUME NEW q \in Requests, CreateForkRun(q)
        PROVE  \A c \in Decisions :
                 /\ decision'[c].about = decision[c].about /\ decision'[c].round = decision[c].round
    <3>1. executor[q].dec \in Decisions
      BY <2>7 DEF CreateForkRun, At, PlacesInv, Placed, Handling, Executors
    <3>2. PICK child \in Blueprints :
            decision' = [decision EXCEPT ![executor[q].dec].result = child]
      BY <1>3, <2>7 DEF CreateForkRun, NewForkChild
    <3> QED
      BY <2>2, <3>1, <3>2
  <2> QED
    BY <2>1, <2>3, <2>4, <2>5, <2>6, <2>7
<1> QED
  BY <1>2, <1>3

(* Clients decide about what they were asked.                               *)
LEMMA AskedNext ==
  ASSUME LifeInv, ~ deleted, SteeringInv, AskedInv, [LifeNext]_lifeVars
  PROVE  AskedInv'
<1> USE DEF LifeInv
<1>1. asked[Story] \in Nat /\ thread[Story].round \in Nat /\ Story \in Blueprints
      /\ \A d \in Decisions : decision[d].round \in Nat
  BY StoryTypes DEF DecisionRows
<1>2. asked'[Story] \in Nat /\ asked[Story] <= asked'[Story]
  <2>1. CASE asked' = asked
    BY <1>1, <2>1
  <2>2. CASE asked' # asked
    <3>1. PICK e \in Executors : AwaitApproval(e)
      BY <2>2 DEF LifeNext, WorkerStep, RequestStep, GraphStep, Executors, Claim, Begin, Inspect,
           Prepare, FailHandoff, Produce, Scenes, FinishProduction, Check, RecordDecision,
           CreateForkRun, ResumeGraph, Deliver, Load, Approval, StartWork, Work, Failing, Boundary,
           Snapshot, Approve, Apply, RaiseError, Stop, DeleteProject, ActivateProfile,
           CrashAndRestart, lifeVars
    <3>2. asked' = [asked EXCEPT ![Of(e)] = executor[e].view.round] /\ executor[e].pc = "await"
      BY <2>2, <3>1 DEF AwaitApproval, At
    <3>3. CASE Of(e) = Story
      <4>1. executor[e].view = thread[Story]
        BY <3>2, <3>3 DEF SteeringInv, Steers, Steering, Steered
      <4>2. asked'[Story] = thread[Story].round
        BY <1>1, <3>2, <3>3, <4>1, LifeFields
      <4> QED
        BY <1>1, <4>2 DEF SteeringInv, StoryAsked
    <3>4. CASE Of(e) # Story
      BY <1>1, <3>2, <3>4, LifeFields
    <3> QED
      BY <3>3, <3>4
  <2> QED
    BY <2>1, <2>2
<1>3. CASE \A q \in Requests, d \in Decisions : ~ Deliver(q, d)
  <2>1. \A d \in Decisions :
           /\ decision'[d].about = decision[d].about /\ decision'[d].round = decision[d].round
    BY <1>3, SameQuestions
  <2> QED
    BY <1>1, <1>2, <2>1 DEF AskedInv
<1>4. ASSUME NEW q \in Requests, NEW d \in Decisions, Deliver(q, d)
      PROVE  AskedInv'
  <2>1. asked' = asked
    BY <1>4 DEF Deliver
  <2>2. /\ \A c \in Decisions \ {d} : decision'[c] = decision[c]
        /\ decision'[d] = decision[d] \/ decision'[d].round = asked[decision'[d].about]
    BY <1>4, Delivered
  <2> QED
    BY <1>1, <2>1, <2>2 DEF AskedInv
<1> QED
  BY <1>3, <1>4

(* An executor keeps its decision until it ends or is sent another one.     *)
LEMMA DecisionsKept ==
  ASSUME LifeInv, [LifeNext]_lifeVars, NEW q \in Requests,
         \A d \in Decisions : ~ Deliver(q, d)
  PROVE  executor'[q].dec \in {executor[q].dec, NoDecision}
<1> USE DEF LifeInv
<1> USE DEF ExecutorPcs
<1>1. q \in Executors /\ q # "worker" /\ "worker" \in Executors /\ Placed(q)
      /\ executor[q] \in Execution /\ Idle.dec = NoDecision
  BY StoryAssumption, StoryTypes DEF Executors, PlacesInv, Idle
<1>2. ASSUME NEW e \in Executors, GraphStep(e)
      PROVE  executor'[q].dec \in {executor[q].dec, NoDecision}
  BY <1>1, <1>2, GraphTurns DEF PlacesInv
<1>3. CASE WorkerStep /\ ~ GraphStep("worker")
  <2>1. executor'[q] = executor[q]
    BY <1>1, <1>3, LifeFields
       DEF WorkerStep, Claim, Start, Begin, Inspect, Prepare, FailHandoff, Produce, Scenes,
           FinishProduction, OnRow, GoTo, GoToWith, End
  <2> QED
    BY <2>1
<1>4. ASSUME NEW p \in Requests \ {q}, \/ Check(p) \/ RecordDecision(p) \/ CreateForkRun(p)
                                       \/ ResumeGraph(p) \/ \E d \in Decisions : Deliver(p, d)
      PROVE  executor'[q].dec \in {executor[q].dec, NoDecision}
  <2>1. executor'[q] = executor[q]
    BY <1>1, <1>4, LifeFields
       DEF Check, RecordDecision, CreateForkRun, NewForkChild, LoadChild, ResumeGraph, Deliver,
           GoTo, GoToWith, End
  <2> QED
    BY <2>1
<1>5. CASE Check(q) \/ RecordDecision(q) \/ ResumeGraph(q)
  <2>1. GoTo(q, "record") \/ GoTo(q, "go") \/ GoTo(q, "load") \/ End(q)
    BY <1>5 DEF Check, RecordDecision, ResumeGraph
  <2> QED
    BY <1>1, <2>1, GoesOn, Ending
<1>6. CASE CreateForkRun(q)
  <2>1. End(q) \/ \E b : LoadChild(q, b)
    BY <1>6 DEF CreateForkRun, NewForkChild
  <2>2. ASSUME NEW b, LoadChild(q, b)
        PROVE  executor'[q].dec = executor[q].dec
    <3> DEFINE x == [executor[q] EXCEPT !.pc = "load", !.run = b, !.input = "fork"]
    <3>1. x.dec = executor[q].dec
      BY <1>1 DEF Execution
    <3>2. executor'[q] = x
      BY <1>1, <2>2, LifeFields DEF LoadChild
    <3> QED
      BY <3>1, <3>2
  <2> QED
    BY <1>1, <2>1, <2>2, Ending
<1>7. CASE (\E r \in StoryRuns : Stop(r)) \/ DeleteProject \/ ActivateProfile \/ UNCHANGED lifeVars
  <2>1. executor'[q] = executor[q]
    BY <1>1, <1>7, LifeFields DEF Stop, DeleteProject, ActivateProfile, lifeVars, End
  <2> QED
    BY <2>1
<1>8. CASE CrashAndRestart
  BY <1>1, <1>8 DEF CrashAndRestart
<1>9. \/ \E e \in Executors : GraphStep(e)
      \/ WorkerStep /\ ~ GraphStep("worker")
      \/ \E p \in Requests : \/ Check(p) \/ RecordDecision(p) \/ CreateForkRun(p)
                             \/ ResumeGraph(p) \/ \E d \in Decisions : Deliver(p, d)
      \/ (\E r \in StoryRuns : Stop(r)) \/ DeleteProject \/ ActivateProfile \/ UNCHANGED lifeVars
      \/ CrashAndRestart
  BY DEF LifeNext, WorkerStep, RequestStep, Executors
<1> QED
  BY <1>2, <1>3, <1>4, <1>5, <1>6, <1>7, <1>8, <1>9

(* A decision is delivered again while it is handled only where it may be.  *)
LEMMA SharedNext ==
  ASSUME LifeInv, ~ deleted, Grows, SharedInv, [LifeNext]_lifeVars
  PROVE  SharedInv'
<1> USE DEF LifeInv
<1>1. \A q \in Requests :
        /\ q \in Executors
        /\ executor[q].dec # NoDecision =>
             /\ executor[q].dec \in Decisions
             /\ decision[executor[q].dec].status # "unsent"
             /\ decision'[executor[q].dec].action = decision[executor[q].dec].action
  BY StoryDecisions DEF Executors, Grows
<1>2. CASE \A q \in Requests, d \in Decisions : ~ Deliver(q, d)
  <2>1. \A q \in Requests : executor'[q].dec \in {executor[q].dec, NoDecision}
    BY <1>2, DecisionsKept
  <2> QED
    BY <1>1, <2>1 DEF SharedInv
<1>3. ASSUME NEW q \in Requests, NEW d \in Decisions, Deliver(q, d)
      PROVE  SharedInv'
  <2>1. /\ executor'[q].dec = d /\ \A f \in Executors \ {q} : executor'[f] = executor[f]
        /\ \/ decision[d].status = "unsent"
           \/ /\ decision' = decision
              /\ decision[d].action \in Overlapping \/ \A r \in Requests : executor[r].dec # d
    BY <1>3, Delivered
  <2>2. ASSUME NEW p \in Requests \ {q}, executor[p].dec = d, d # NoDecision
        PROVE  decision'[d].action \in Overlapping
    BY <1>1, <2>1, <2>2
  <2>3. ASSUME NEW p \in Requests, NEW r \in Requests, p # r,
               executor'[p].dec = executor'[r].dec, executor'[p].dec # NoDecision
        PROVE  decision'[executor'[p].dec].action \in Overlapping
    <3>1. CASE p # q /\ r # q
      BY <1>1, <2>1, <2>3, <3>1 DEF SharedInv
    <3>2. CASE p = q
      BY <1>1, <2>1, <2>2, <2>3, <3>2
    <3>3. CASE r = q
      BY <1>1, <2>1, <2>2, <2>3, <3>3
    <3> QED
      BY <3>1, <3>2, <3>3
  <2> QED
    BY <2>3 DEF SharedInv
<1> QED
  BY <1>2, <1>3

(* Every step, but the deletion of the project, keeps the story steered.    *)
LEMMA SteeringNext ==
  ASSUME LifeInv, ~ deleted, SteeringInv, AskedInv, SharedInv, Overlapping \subseteq {"fork"},
         DecisionsInv', Grows, [LifeNext]_lifeVars, ~ DeleteProject
  PROVE  SteeringInv'
<1> USE DEF LifeInv
<1>1. /\ Story \in StoryRuns /\ run[Story] \in Rows /\ NoStory # Story
      /\ Idle.run = NoStory /\ "worker" \in Executors
  BY StoryTypes, RunsOfStory, LifeFields DEF Idle, Executors
<1>2. ASSUME NEW e \in Executors, GraphStep(e)
      PROVE  SteeringInv'
  BY <1>2, GraphElsewhere, GraphSteers
<1>3. CASE WorkerStep /\ ~ GraphStep("worker")
  BY <1>3, WorkerSteers
<1>4. ASSUME NEW q \in Requests, Check(q) \/ RecordDecision(q) \/ CreateForkRun(q) \/ ResumeGraph(q)
      PROVE  SteeringInv'
  BY <1>4, RequestSteers
<1>5. ASSUME NEW q \in Requests, NEW d \in Decisions, Deliver(q, d)
      PROVE  SteeringInv'
  <2>1. /\ q \in Executors /\ ~ Steers(q)' /\ \A f \in Executors \ {q} : executor'[f] = executor[f]
    BY <1>5, Delivered DEF Executors, Steers, Steering
  <2>2. UNCHANGED <<run, thread, asked>>
    BY <1>5 DEF Deliver
  <2> QED
    BY <2>1, <2>2, NotSteering DEF Status
<1>6. ASSUME NEW r \in StoryRuns, Stop(r)
      PROVE  SteeringInv'
  <2>1. UNCHANGED <<thread, asked>> /\ Status(Story)' \in {Status(Story), "CANCELLED"}
    BY <1>1, <1>6, LifeFields DEF Stop, Become, Status, Rows
  <2>2. CASE Of("worker") = r
    <3>1. ~ Steers("worker")' /\ \A f \in Executors \ {"worker"} : executor'[f] = executor[f]
      BY <1>1, <1>6, <2>2, Ending DEF Stop, Steers, Of
    <3> QED
      BY <1>1, <2>1, <3>1, NotSteering
  <2>3. CASE Of("worker") # r
    <3>1. executor' = executor
      BY <1>6, <2>3 DEF Stop
    <3>2. CASE Steers("worker")
      <4>1. r # Story /\ run'[Story] = run[Story]
        BY <1>1, <1>6, <2>3, <3>2, LifeFields DEF Steers, Stop, Become
      <4>2. Steered("worker")' /\ StoryAsked'
        BY <1>1, <2>1, <3>1, <3>2, <4>1, SteeredStays DEF SteeringInv, StoryAsked, Status
      <4>3. executor["worker"].pc # "go"
        BY <1>1, StoryAssumption DEF PlacesInv, Placed, Handling, NoDecision
      <4> QED
        BY <1>1, <2>1, <3>1, <3>2, <4>1, <4>2, <4>3, SteersAlone DEF SteeringInv, Status
    <3>3. CASE ~ Steers("worker")
      <4>1. ~ Steers("worker")'
        BY <3>1, <3>3 DEF Steers, Of
      <4> QED
        BY <1>1, <2>1, <3>1, <4>1, NotSteering
    <3> QED
      BY <3>2, <3>3
  <2> QED
    BY <2>2, <2>3
<1>7. CASE ActivateProfile \/ UNCHANGED lifeVars
  BY <1>7 DEF ActivateProfile, lifeVars, SteeringInv, StoryAsked, Steers, Steered, SharedFork,
      OpenFor, Status, Of, At
<1>8. CASE CrashAndRestart
  <2>1. \A e \in Executors : ~ Steers(e)'
    BY <1>1, <1>8 DEF CrashAndRestart, Steers, Of
  <2>2. /\ UNCHANGED <<thread, asked>>
        /\ Status(Story)' = IF Status(Story) = "RUNNING" THEN "PENDING" ELSE Status(Story)
    BY <1>1, <1>8 DEF CrashAndRestart, Status, Rows
  <2>3. StoryAsked'
    BY <2>2 DEF SteeringInv, StoryAsked
  <2> QED
    BY <2>1, <2>3 DEF SteeringInv
<1> QED
  BY <1>2, <1>3, <1>4, <1>5, <1>6, <1>7, <1>8 DEF LifeNext, WorkerStep, RequestStep, Executors

(* It holds initially.                                                      *)
LEMMA StoryInit == LifeInit => StoryInv
<1> SUFFICES ASSUME LifeInit PROVE SharedInv /\ AskedInv /\ SteeringInv
  BY DEF StoryInv
<1>1. /\ Story \in StoryRuns /\ Story \in Blueprints /\ NoStory # Story /\ 0 <= 0
      /\ Idle.run = NoStory /\ Idle.dec = NoDecision
      /\ NotSent.about = NoStory /\ NoThread.round = 0 /\ NoThread.at = "none"
  BY RunsOfStory DEF Idle, NotSent, NoThread
<1>2. \A q \in Requests : q \in Executors
  BY DEF Executors
<1>3. SharedInv /\ AskedInv
  BY <1>1, <1>2 DEF LifeInit, SharedInv, AskedInv
<1>4. StoryAsked
  BY <1>1 DEF LifeInit, StoryAsked
<1>5. \A e \in Executors : ~ Steers(e)
  BY <1>1 DEF LifeInit, Steers, Of
<1> QED
  BY <1>3, <1>4, <1>5 DEF SteeringInv

(* Every step preserves it, where clients deliver only a fork again while   *)
(* it is being handled.                                                     *)
LEMMA StoryNext ==
  ASSUME Overlapping \subseteq {"fork"}
  PROVE  LifeInv /\ LifeInv' /\ StoryInv /\ [LifeNext]_lifeVars => StoryInv'
<1> SUFFICES ASSUME LifeInv, LifeInv', StoryInv, [LifeNext]_lifeVars, ~ deleted'
             PROVE  SharedInv' /\ AskedInv' /\ SteeringInv'
  BY DEF StoryInv
<1>1. ~ DeleteProject
  BY DEF DeleteProject
<1>2. /\ ~ deleted /\ Grows /\ DecisionsInv'
      /\ SharedInv /\ AskedInv /\ SteeringInv
  BY <1>1, DecisionsNext, DeletedOnce DEF StoryInv
<1> QED
  BY <1>1, <1>2, SharedNext, AskedNext, SteeringNext

(* Nobody who is left takes an approval of the story back.                  *)
LEMMA ApprovedStays ==
  ASSUME LifeInv, ~ deleted, SteeringInv, Status(Story) = "SUCCEEDED", [LifeNext]_lifeVars
  PROVE  Status(Story)' \in {"SUCCEEDED", Absent}
<1> USE DEF LifeInv
<1>1. /\ Story \in StoryRuns /\ Story \in Blueprints /\ Story \notin Productions
      /\ run[Story] \in Rows /\ "worker" \in Executors
  BY StoryTypes, RunsOfStory, LifeFields DEF Executors
<1>2. \A e \in Executors : ~ Steers(e)
  BY DEF SteeringInv
<1>3. run'[Story] = run[Story] => Status(Story)' \in {"SUCCEEDED", Absent}
  BY DEF Status
<1>4. ASSUME NEW e \in Executors, GraphStep(e)
      PROVE  run'[Story] = run[Story]
  <2>1. CASE Of(e) # Story
    BY <1>1, <1>4, <2>1, LifeFields
       DEF GraphStep, Load, Approval, StartWork, Work, Failing, Boundary, Snapshot,
           AwaitApproval, Approve, Apply, RaiseError, OnRow, Become
  <2>2. CASE Of(e) = Story
    <3>1. executor[e].pc \notin Steering
      BY <1>2, <2>2 DEF Steers
    <3> QED
      BY <1>4, <3>1
         DEF GraphStep, Load, Approval, StartWork, Work, Failing, Boundary, Snapshot,
             AwaitApproval, Approve, Apply, RaiseError, At, Steering
  <2> QED
    BY <2>1, <2>2
<1>5. CASE Claim
  <2>1. \A b \in QueuedBlueprints \cup QueuedProductions : b # Story
    BY DEF QueuedBlueprints, QueuedProductions
  <2> QED
    BY <1>1, <1>3, <1>5, <2>1, LifeFields DEF Claim, Become
<1>6. CASE Begin \/ Inspect
  BY <1>3, <1>6 DEF Begin, Inspect
<1>7. CASE Prepare \/ FailHandoff \/ Produce \/ Scenes \/ FinishProduction
  <2>1. Of("worker") # Story
    BY <1>1, <1>7
       DEF Prepare, FailHandoff, Produce, Scenes, FinishProduction, At, PlacesInv, Placed,
           Producing, Of
  <2> QED
    BY <1>1, <1>3, <1>7, <2>1, LifeFields
       DEF Prepare, FailHandoff, Produce, Scenes, FinishProduction, OnRow, Become
<1>8. ASSUME NEW q \in Requests, CreateForkRun(q)
      PROVE  run'[Story] = run[Story]
  <2>1. CASE run' = run
    BY <2>1
  <2>2. CASE run' # run
    <3>1. PICK child \in Blueprints :
            /\ ~ Exists(child)
            /\ run' = [run EXCEPT ![child] = ForkRow(Of(q)), ![Of(q)].status = "CANCELLED"]
      BY <1>8, <2>2 DEF CreateForkRun, NewForkChild
    <3>2. child # Story
      BY <3>1 DEF Exists, Absent
    <3>3. Of(q) # Story
      BY <1>2, <1>8 DEF CreateForkRun, Steers, Steering, At, Executors
    <3> QED
      BY <1>1, <3>1, <3>2, <3>3, LifeFields
  <2> QED
    BY <2>1, <2>2
<1>9. ASSUME NEW q \in Requests, \/ Check(q) \/ RecordDecision(q) \/ ResumeGraph(q)
                                 \/ \E d \in Decisions : Deliver(q, d)
      PROVE  run'[Story] = run[Story]
  BY <1>9 DEF Check, RecordDecision, ResumeGraph, Deliver
<1>10. ASSUME NEW r \in StoryRuns, Stop(r)
       PROVE  run'[Story] = run[Story]
  BY <1>1, <1>10, LifeFields DEF Stop, Become
<1>11. CASE DeleteProject
  BY <1>1, <1>11 DEF DeleteProject, Status
<1>12. CASE ActivateProfile \/ UNCHANGED lifeVars
  BY <1>3, <1>12 DEF ActivateProfile, lifeVars
<1>13. CASE CrashAndRestart
  BY <1>1, <1>13 DEF CrashAndRestart, Status
<1> QED
  BY <1>3, <1>4, <1>5, <1>6, <1>7, <1>8, <1>9, <1>10, <1>11, <1>12, <1>13
     DEF LifeNext, WorkerStep, RequestStep, Executors

(* Where clients deliver no decision but a fork again while it is being     *)
(* handled, the story's own Blueprint, once approved, stays approved until  *)
(* it is deleted: no execution, crash recovery or late decision takes it    *)
(* back.                                                                    *)
THEOREM ApprovalStays ==
  ASSUME Overlapping \subseteq {"fork"}
  PROVE  LifeSpec => ApprovalIsFinal
<1>1. LifeInv /\ LifeInv' /\ StoryInv /\ [LifeNext]_lifeVars => StoryInv'
  BY StoryNext
<1>2. LifeInv /\ StoryInv /\ [LifeNext]_lifeVars =>
        [Status(Story) = "SUCCEEDED" => Status(Story)' \in {"SUCCEEDED", Absent}]_lifeVars
  <2> SUFFICES ASSUME LifeInv, StoryInv, [LifeNext]_lifeVars, Status(Story) = "SUCCEEDED"
               PROVE  Status(Story)' \in {"SUCCEEDED", Absent}
    OBVIOUS
  <2>1. ~ deleted
    BY RunsOfStory DEF LifeInv, DeletedInv, Exists, Absent
  <2> QED
    BY <2>1, ApprovedStays DEF StoryInv
<1> QED
  BY <1>1, <1>2, LifeHolds, StoryInit, PTL DEF LifeSpec, ApprovalIsFinal
=============================================================================
