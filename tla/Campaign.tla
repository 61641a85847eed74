------------------------------ MODULE Campaign ------------------------------
(***************************************************************************)
(* A benchmark campaign: operators prepare the Blueprints of the agentic    *)
(* cases, package them for a human review, apply the reviewed approvals,    *)
(* and run batches of cases, each by a process that saves the one report    *)
(* file after every case.  A process may be lost at any time; its command   *)
(* is given again.                                                          *)
(*                                                                          *)
(* How a Blueprint or a story is produced is one answer here: module        *)
(* StoryLife and module SceneProduction are about that.                     *)
(***************************************************************************)
EXTENDS Integers, FiniteSets

CONSTANTS
  NumCases,     \* cases of the plan, in plan order
  Baselines,    \* those of the single-model baseline
  Runners,      \* concurrent harness processes
  MaxAttempts,  \* bound: attempts per story, versions and failures per Blueprint
  MaxCrashes,   \* bound: processes lost
  CrashInLock   \* may a process be lost while it holds the report lock?

Cases == 1 .. NumCases
Agentic == Cases \ Baselines
ASSUME CampaignAssumption ==
  /\ NumCases \in Nat /\ Baselines \subseteq Cases
  /\ MaxAttempts \in Nat /\ MaxCrashes \in Nat /\ CrashInLock \in BOOLEAN
  /\ Runners \cap {"free", "dead"} = {}

VARIABLES
  blueprint,   \* [Agentic -> status of the Blueprint run, its version, its failures]
  packets,     \* review packets made: [Agentic -> version, 0 when not in it]
  confirmed,   \* human review events: a case and the packet it was reviewed in
  story,       \* [Cases -> status of the run that tells it, and its attempts]
  report,      \* [Cases -> result], the report file
  reportLock,  \* the lock file beside it: "free", its owner, or "dead"
  runner,      \* [Runners -> what the process does]
  crashes

campaignVars == <<blueprint, packets, confirmed, story, report, reportLock, runner, crashes>>

NoResult == [state |-> "none", cause |-> 0]
SuccessResult == [state |-> "succeeded", cause |-> 0]
FailedResult(cause) == [state |-> "failed", cause |-> cause]  \* of the story, or the Blueprint's nth
Result == [state : {"none", "succeeded", "failed"}, cause : Nat]
EmptyReport == [c \in Cases |-> NoResult]
NoForm == [c \in Agentic |-> 0]
FreeRunner == [pc |-> "idle", cases |-> {}, retry |-> FALSE, next |-> 1,
               results |-> EmptyReport, merged |-> EmptyReport, form |-> NoForm, seen |-> NoForm]

CampaignTypeOK ==
  /\ blueprint \in [Agentic -> [status : {"none", "PENDING", "PAUSED", "SUCCEEDED", "FAILED"},
                                version : Nat, failures : Nat]]
  /\ packets \subseteq [Agentic -> Nat] /\ confirmed \subseteq Agentic \X packets
  /\ story \in [Cases -> [status : {"none", "RUNNING", "SUCCEEDED", "FAILED"}, calls : Nat]]
  /\ report \in [Cases -> Result]
  /\ reportLock \in {"free", "dead"} \cup Runners
  /\ runner \in [Runners ->
       [pc : {"idle", "confirm", "resume", "step", "call", "acquire", "stale", "merge",
              "replace", "unlock"},
        cases : SUBSET Cases, retry : BOOLEAN, next : Nat, results : [Cases -> Result],
        merged : [Cases -> Result], form : [Agentic -> Nat], seen : [Agentic -> Nat]]]
  /\ crashes \in Nat

CampaignInit ==
  /\ blueprint = [c \in Agentic |-> [status |-> "none", version |-> 0, failures |-> 0]]
  /\ packets = {} /\ confirmed = {}
  /\ story = [c \in Cases |-> [status |-> "none", calls |-> 0]]
  /\ report = EmptyReport
  /\ reportLock = "free"
  /\ runner = [r \in Runners |-> FreeRunner]
  /\ crashes = 0

Doing(r, pc) == runner[r].pc = pc
Turn(r, state) == runner' = [runner EXCEPT ![r] = state]
GoOn(r, pc) == Turn(r, [runner[r] EXCEPT !.pc = pc])
Quit(r) == Turn(r, FreeRunner)
StatusOf(c) == blueprint[c].status

-----------------------------------------------------------------------------
(* Blueprints.                                                              *)

(* What executing a Blueprint run leaves: the approval boundary, a failure. *)
Executed(c) ==
  {[blueprint[c] EXCEPT !.status = "PAUSED", !.version = @ + 1],
   [blueprint[c] EXCEPT !.status = "FAILED", !.failures = @ + 1]}

(* _persist_case: the run of a case is created once.                        *)
PersistCase(c) ==
  /\ StatusOf(c) = "none"
  /\ blueprint' = [blueprint EXCEPT ![c].status = "PENDING"]
  /\ UNCHANGED <<packets, confirmed, story, report, reportLock, runner, crashes>>

(* prepare-agentic: failed cases are skipped, prepared ones inspected, and  *)
(* what a lost process left is executed again.                              *)
PrepareCase(c) ==
  /\ StatusOf(c) = "PENDING"
  /\ \E after \in Executed(c) : blueprint' = [blueprint EXCEPT ![c] = after]
  /\ UNCHANGED <<packets, confirmed, story, report, reportLock, runner, crashes>>

(* A human revises a waiting Blueprint in the application.                  *)
ReviseElsewhere(c) ==
  /\ StatusOf(c) = "PAUSED" /\ blueprint[c].version < MaxAttempts
  /\ blueprint' = [blueprint EXCEPT ![c].version = @ + 1]
  /\ UNCHANGED <<packets, confirmed, story, report, reportLock, runner, crashes>>

(* package-blueprint-review: every selected case has failed or waits.       *)
Surviving(targets) == {c \in targets : StatusOf(c) # "FAILED"}
Package(targets) ==
  /\ Surviving(targets) # {}
  /\ \A c \in Surviving(targets) : StatusOf(c) = "PAUSED"
  /\ packets' = packets \cup
       {[c \in Agentic |-> IF c \in Surviving(targets) THEN blueprint[c].version ELSE 0]}
  /\ UNCHANGED <<blueprint, confirmed, story, report, reportLock, runner, crashes>>

InPacket(form) == {c \in Agentic : form[c] # 0}

(* Mutant: the Blueprint that waits now is not compared with the packet's.  *)
InspectedAny(form) == TRUE

(* _require_reviewed_reference: every Blueprint is the version reviewed.    *)
Inspected(form) == \A c \in InPacket(form) : blueprint[c].version = form[c]

(* approve-blueprints, with a form that answers yes to every packet case:   *)
(* the packet must cover the selection's survivors; every Blueprint is      *)
(* inspected before the first approval.                                     *)
ApproveStart(r, form, targets) ==
  /\ Doing(r, "idle")
  /\ \A c \in targets : StatusOf(c) # "none"
  /\ InPacket(form) = Surviving(targets)
  /\ Inspected(form)
  /\ Turn(r, [FreeRunner EXCEPT
       !.pc = "confirm", !.form = form, !.cases = InPacket(form),
       !.seen = [c \in Agentic |-> IF c \in InPacket(form) /\ StatusOf(c) = "PAUSED"
                                   THEN blueprint[c].version ELSE 0]])
  /\ UNCHANGED <<blueprint, packets, confirmed, story, report, reportLock, crashes>>

FirstOf(r) == CHOOSE c \in runner[r].cases : \A d \in runner[r].cases : c <= d
CaseDone(r, c) == [runner[r] EXCEPT !.pc = "confirm", !.cases = @ \ {c}]

(* The review event, or for a case that no longer waits the same approval.  *)
Confirm(r) ==
  LET c == FirstOf(r)
      review == <<c, runner[r].form>>
  IN  /\ Doing(r, "confirm")
      /\ \/ runner[r].cases = {} /\ Quit(r) /\ UNCHANGED confirmed
         \/ /\ runner[r].cases # {} /\ runner[r].seen[c] = 0
            /\ IF StatusOf(c) = "SUCCEEDED" /\ review \in confirmed
               THEN Turn(r, CaseDone(r, c)) ELSE Quit(r)
            /\ UNCHANGED confirmed
         \/ /\ runner[r].cases # {} /\ runner[r].seen[c] # 0
            /\ confirmed' = confirmed \cup {review}
            /\ GoOn(r, "resume")
      /\ UNCHANGED <<blueprint, packets, story, report, reportLock, crashes>>

(* The decision is about the interrupt that was inspected; the workflow     *)
(* refuses it when another is open.                                         *)
ResumeReviewed(r) ==
  LET c == FirstOf(r)
  IN  /\ Doing(r, "resume")
      /\ IF StatusOf(c) = "PAUSED" /\ blueprint[c].version = runner[r].seen[c]
         THEN /\ blueprint' = [blueprint EXCEPT ![c].status = "SUCCEEDED"]
              /\ Turn(r, CaseDone(r, c))
         ELSE Quit(r) /\ UNCHANGED blueprint
      /\ UNCHANGED <<packets, confirmed, story, report, reportLock, crashes>>

-----------------------------------------------------------------------------
(* Batches.                                                                 *)

BlueprintFailures(cases) == {c \in cases \cap Agentic : StatusOf(c) = "FAILED"}

(* run-baseline and run-agentic.  An agentic batch starts when each of its  *)
(* Blueprints is approved or has failed, and its failures agree with the    *)
(* prior report.  Concurrent batches are disjoint.                          *)
RunStart(r, cases, retry) ==
  LET failures == BlueprintFailures(cases)
      failure(c) == FailedResult(blueprint[c].failures)
  IN  /\ Doing(r, "idle")
      /\ cases \subseteq Baselines \/ cases \subseteq Agentic
      /\ \A q \in Runners : runner[q].cases \cap cases = {}
      /\ \A c \in cases \cap Agentic : StatusOf(c) \in {"FAILED", "SUCCEEDED"}
      /\ \A c \in failures : report[c] \in {NoResult, failure(c)}
      /\ Turn(r, [FreeRunner EXCEPT
           !.pc = "step", !.cases = cases, !.retry = retry,
           !.results = [c \in Cases |-> IF c \in failures THEN failure(c) ELSE report[c]]])
      /\ UNCHANGED <<blueprint, packets, confirmed, story, report, reportLock, crashes>>

(* Mutant: only the report tells that a story was told.                     *)
ReusableNever(c) == FALSE

(* _load_succeeded_output; SceneProductionService.execute of a finished run *)
Reusable(c) == story[c].status = "SUCCEEDED"

With(r, c, result) == [runner[r] EXCEPT !.results[c] = result, !.next = c + 1]
SaveAfter(r, c, result) == Turn(r, [With(r, c, result) EXCEPT !.pc = "acquire"])

(* run_benchmark_plan: cases in plan order.  From `next` on, `results`      *)
(* still holds the prior results.                                           *)
NextCase(r) == runner[r].next
Carried(r) ==
  LET prior == runner[r].results[NextCase(r)]
  IN  prior # NoResult /\ ~ (runner[r].retry /\ prior.state = "failed")
InPlan(r) == Doing(r, "step") /\ NextCase(r) <= NumCases
MustExecute(r) == InPlan(r) /\ ~ Carried(r) /\ NextCase(r) \in runner[r].cases

(* A case is carried over from the prior results, or left out.              *)
CarryOver(r) ==
  LET c == NextCase(r)
  IN  /\ InPlan(r) /\ ~ MustExecute(r)
      /\ Turn(r, With(r, c, IF Carried(r) THEN runner[r].results[c] ELSE NoResult))
      /\ UNCHANGED <<blueprint, packets, confirmed, story, report, reportLock, crashes>>

LastSave(r) ==
  /\ Doing(r, "step") /\ NextCase(r) = NumCases + 1
  /\ Turn(r, [runner[r] EXCEPT !.pc = "acquire", !.next = @ + 1])
  /\ UNCHANGED <<blueprint, packets, confirmed, story, report, reportLock, crashes>>

(* A retry prepares a failed Blueprint again, which then needs its approval;*)
(* a failure that is not the case's own ends the process.                   *)
RetryBlueprint(r) ==
  LET c == NextCase(r)
  IN  /\ MustExecute(r) /\ c \in BlueprintFailures({c})
      /\ blueprint[c].version < MaxAttempts /\ blueprint[c].failures < MaxAttempts
      /\ \E after \in Executed(c) :
           /\ blueprint' = [blueprint EXCEPT ![c] = after]
           /\ IF after.status = "PAUSED" THEN SaveAfter(r, c, FailedResult(0)) ELSE Quit(r)
      /\ UNCHANGED <<packets, confirmed, story, report, reportLock, crashes>>

ReuseStory(r) ==
  LET c == NextCase(r)
  IN  /\ MustExecute(r) /\ c \notin BlueprintFailures({c}) /\ Reusable(c)
      /\ SaveAfter(r, c, SuccessResult)
      /\ UNCHANGED <<blueprint, packets, confirmed, story, report, reportLock, crashes>>

(* _start_attempt; the handoff of the approved Blueprint.                   *)
StartStory(r) ==
  LET c == NextCase(r)
  IN  /\ MustExecute(r) /\ c \notin BlueprintFailures({c}) /\ ~ Reusable(c)
      /\ story[c].calls < MaxAttempts
      /\ story' = [story EXCEPT ![c] = [status |-> "RUNNING", calls |-> @.calls + 1]]
      /\ GoOn(r, "call")
      /\ UNCHANGED <<blueprint, packets, confirmed, report, reportLock, crashes>>

Ends(r, status) == Doing(r, "call") /\ story' = [story EXCEPT ![NextCase(r)].status = status]

(* _complete_attempt                                                        *)
BaselineTold(r) ==
  /\ NextCase(r) \in Baselines /\ Ends(r, "SUCCEEDED")
  /\ SaveAfter(r, NextCase(r), SuccessResult)
  /\ UNCHANGED <<blueprint, packets, confirmed, report, reportLock, crashes>>

(* _fail_attempt.  What the executor does not recognise ends the process.   *)
BaselineFails(r) ==
  /\ NextCase(r) \in Baselines /\ Ends(r, "FAILED")
  /\ SaveAfter(r, NextCase(r), FailedResult(0)) \/ Quit(r)
  /\ UNCHANGED <<blueprint, packets, confirmed, report, reportLock, crashes>>

(* _assemble_output of the finished production                              *)
AgenticTold(r) ==
  /\ NextCase(r) \in Agentic /\ Ends(r, "SUCCEEDED")
  /\ SaveAfter(r, NextCase(r), SuccessResult)
  /\ UNCHANGED <<blueprint, packets, confirmed, report, reportLock, crashes>>

AgenticFails(r) ==
  /\ NextCase(r) \in Agentic /\ Ends(r, "FAILED")
  /\ SaveAfter(r, NextCase(r), FailedResult(0))
  /\ UNCHANGED <<blueprint, packets, confirmed, report, reportLock, crashes>>

BatchStep(r) ==
  \/ CarryOver(r) \/ LastSave(r) \/ RetryBlueprint(r) \/ ReuseStory(r) \/ StartStory(r)
  \/ BaselineTold(r) \/ BaselineFails(r) \/ AgenticTold(r) \/ AgenticFails(r)

-----------------------------------------------------------------------------
(* The report file (AtomicJsonReportCheckpoint.save).                       *)

(* _report_file_lock: created when there is none; given up after a timeout; *)
(* a waiter removes a lock it finds stale, which is one left by a process   *)
(* that was lost.                                                           *)
AcquireLock(r) ==
  /\ Doing(r, "acquire")
  /\ \/ reportLock = "free" /\ reportLock' = r /\ GoOn(r, "merge")
     \/ reportLock # "free" /\ Quit(r) /\ UNCHANGED reportLock
     \/ reportLock = "dead" /\ GoOn(r, "stale") /\ UNCHANGED reportLock
  /\ UNCHANGED <<blueprint, packets, confirmed, story, report, crashes>>

RemoveStale(r) ==
  /\ Doing(r, "stale")
  /\ reportLock' = "free"
  /\ GoOn(r, "acquire")
  /\ UNCHANGED <<blueprint, packets, confirmed, story, report, crashes>>

(* Mutant: what comes last wins.                                            *)
MergedLatest(persisted, incoming) ==
  [c \in Cases |-> IF incoming[c] # NoResult THEN incoming[c] ELSE persisted[c]]

(* _merge_checkpoint_reports                                                *)
Merged(persisted, incoming) ==
  [c \in Cases |-> IF incoming[c] # NoResult /\ persisted[c].state # "succeeded"
                   THEN incoming[c] ELSE persisted[c]]

MergeReport(r) ==
  LET passed == [c \in Cases |-> IF c < runner[r].next THEN runner[r].results[c] ELSE NoResult]
  IN  /\ Doing(r, "merge")
      /\ Turn(r, [runner[r] EXCEPT !.pc = "replace", !.merged = Merged(report, passed)])
      /\ UNCHANGED <<blueprint, packets, confirmed, story, report, reportLock, crashes>>

ReplaceReport(r) ==
  /\ Doing(r, "replace")
  /\ report' = runner[r].merged
  /\ Turn(r, [runner[r] EXCEPT !.pc = "unlock", !.merged = EmptyReport])
  /\ UNCHANGED <<blueprint, packets, confirmed, story, reportLock, crashes>>

UnlockReport(r) ==
  /\ Doing(r, "unlock")
  /\ reportLock' = "free"
  /\ IF runner[r].next > NumCases + 1 THEN Quit(r) ELSE GoOn(r, "step")
  /\ UNCHANGED <<blueprint, packets, confirmed, story, report, crashes>>

Lose(r) ==
  /\ ~ Doing(r, "idle") /\ crashes < MaxCrashes
  /\ reportLock # r \/ CrashInLock
  /\ crashes' = crashes + 1
  /\ reportLock' = IF reportLock = r THEN "dead" ELSE reportLock
  /\ Quit(r)
  /\ UNCHANGED <<blueprint, packets, confirmed, story, report>>

CampaignNext ==
  \/ \E c \in Agentic : PersistCase(c) \/ PrepareCase(c) \/ ReviseElsewhere(c)
  \/ \E targets \in SUBSET Agentic : Package(targets)
  \/ \E r \in Runners :
       \/ \E form \in packets, targets \in SUBSET Agentic : ApproveStart(r, form, targets)
       \/ Confirm(r) \/ ResumeReviewed(r)
       \/ \E cases \in (SUBSET Cases) \ {{}}, retry \in BOOLEAN : RunStart(r, cases, retry)
       \/ BatchStep(r)
       \/ AcquireLock(r) \/ RemoveStale(r) \/ MergeReport(r) \/ ReplaceReport(r)
       \/ UnlockReport(r) \/ Lose(r)

CampaignSpec == CampaignInit /\ [][CampaignNext]_campaignVars

-----------------------------------------------------------------------------
(* Safety.                                                                  *)

(* A Blueprint is approved only in a version that a human confirmed in a    *)
(* packet, although versions and survivors may change between the packet,   *)
(* the inspection and the approval (approve_reviewed_agentic_cases).        *)
ReviewedApproval ==
  \A c \in Agentic : StatusOf(c) = "SUCCEEDED" =>
    \E form \in packets : <<c, form>> \in confirmed /\ form[c] = blueprint[c].version

(* A told story is never paid for again: not by a batch with an old report, *)
(* by a retry of failures, or after a loss between the story and its save.  *)
SuccessPaidOnce ==
  [][\A c \in Cases : story[c].status = "SUCCEEDED" => story'[c] = story[c]]_campaignVars

(* A success in the report stays there, whatever concurrent batches save    *)
(* from the older reports they started with (_merge_checkpoint_reports).    *)
ReportKeepsSuccess ==
  [][\A c \in Cases : report[c] = SuccessResult => report'[c] = SuccessResult]_campaignVars
=============================================================================
