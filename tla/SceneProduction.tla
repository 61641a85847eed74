--------------------------- MODULE SceneProduction ---------------------------
(***************************************************************************)
(* The scene-production graph: for each unit of an approved Blueprint a     *)
(* writer drafts, a critic and a continuity checker review, and the draft   *)
(* is revised, adjudicated at the last revision, rejected, or entered in    *)
(* the Story Bible and accepted.                                            *)
(*                                                                          *)
(* A node calls its specialist, whose output is committed with the          *)
(* succeeded invocation; later the graph commits the node's update of the   *)
(* checkpoint.  A node that runs again between the two commits finds its    *)
(* output by the fingerprint of its task.  Contents are abstracted to what  *)
(* the reviews decide; an artifact version is its index in outputs.  The    *)
(* pair written by a Story Bible update is one version here.                *)
(***************************************************************************)
EXTENDS Integers, Sequences, FiniteSets

CONSTANTS
  NumUnits,       \* production units of the run
  MaxRevisions,   \* maximum_revision_cycles
  DialogueUnits,  \* units with a configured dialogue pass
  DialogueSteps,  \* max_graph_steps of a dialogue pass
  MaxLosses       \* bound: outputs a node lost before its checkpoint

Units == 1 .. NumUnits
ASSUME ProductionAssumption ==
  /\ NumUnits \in Nat \ {0}
  /\ MaxRevisions \in Nat
  /\ DialogueUnits \subseteq Units
  /\ DialogueSteps \in Nat \ {0}
  /\ MaxLosses \in Nat

CritiqueOps == {"critique", "critic_adjudication"}
ContinuityOps == {"continuity", "continuity_adjudication"}
Adjudications == {"critic_adjudication", "continuity_adjudication"}
DraftOps == {"draft", "dialogue_integration"}
Ops == CritiqueOps \cup ContinuityOps \cup DraftOps \cup {"story_bible_update"}
ProductionNodes == Ops \cup {"dialogue_pass", "accept", "end"}

(* A critique passes, asks for a revision, or has blocking issues: all in   *)
(* the categories an adjudicator may overrule, or not.                      *)
CritiqueVerdicts == {"pass", "revise", "adjudicable", "hard"}
(* A continuity report is clear, or its blocking findings include a non-    *)
(* world contradiction, or they do not.                                     *)
ContinuityVerdicts == {"clear", "contradiction", "ineligible"}
VerdictsOf(op) == CASE op \in CritiqueOps -> CritiqueVerdicts
                    [] op \in ContinuityOps -> ContinuityVerdicts
                    [] OTHER -> {"done"}

Blocking(critique) == critique \in {"adjudicable", "hard"}
Blockers(report) == report # "clear"

NoVersion == 0
Version == Nat
AcceptanceReasons == {"passed_rubric", "revision_limit_reached"}
NoReason == "none"
Causes == {"none", "call", "review"}

VARIABLES
  outputs,  \* succeeded specialist invocations and what they wrote, in order
  cp,       \* the checkpointed ProductionGraphState
  hand,     \* the output the running node holds: version, and whether it called
  status,   \* of the execution: "running", "failed" or "complete"
  cause,    \* why it failed
  losses    \* outputs lost so far

vars == <<outputs, cp, hand, status, cause, losses>>

Task == [op : Ops, unit : Units, rev : Nat, inputs : SUBSET Version]
Output == [task : Task, verdict : CritiqueVerdicts \cup ContinuityVerdicts \cup {"done"},
           scenes : Seq(Version),  \* accepted scenes, of a Story Bible
           live : BOOLEAN]         \* its invocation is SUCCEEDED
Accepted == [draft : Version, critique : Version, continuity : Version,
             bible : Version, rev : Nat, dialogueRuns : Nat, reason : AcceptanceReasons]
Checkpoint ==
  [node : ProductionNodes, unit : Nat, rev : Nat,
   draft : Version, critique : Version, continuity : Version, pending : Version,
   bible : Version, requiresRevision : BOOLEAN, blocking : {"none", "adjudicable", "hard"},
   adjRequired : BOOLEAN, adjCompleted : BOOLEAN, reason : AcceptanceReasons \cup {NoReason},
   critiques : Seq(Version), reports : Seq(Version), dialogueRuns : Nat,
   accepted : Seq(Accepted), steps : Nat]
EmptyHand == [version |-> NoVersion, called |-> FALSE]

TypeOK ==
  /\ outputs \in Seq(Output)
  /\ cp \in Checkpoint
  /\ hand \in [version : Version, called : BOOLEAN]
  /\ status \in {"running", "failed", "complete"}
  /\ cause \in Causes
  /\ losses \in Nat

(* initial_production_state                                                 *)
Init ==
  /\ outputs = << >>
  /\ cp = [node |-> "draft", unit |-> 1, rev |-> 0,
           draft |-> NoVersion, critique |-> NoVersion, continuity |-> NoVersion,
           pending |-> NoVersion, bible |-> NoVersion,
           requiresRevision |-> FALSE, blocking |-> "none",
           adjRequired |-> FALSE, adjCompleted |-> FALSE, reason |-> NoReason,
           critiques |-> << >>, reports |-> << >>, dialogueRuns |-> 0,
           accepted |-> << >>, steps |-> 0]
  /\ hand = EmptyHand
  /\ status = "running"
  /\ cause = "none"
  /\ losses = 0

-----------------------------------------------------------------------------
(* The task of the current node.                                            *)

Elements(s) == {s[i] : i \in DOMAIN s}
AcceptedDrafts == [i \in DOMAIN cp.accepted |-> cp.accepted[i].draft]
ScenesOf(bible) == IF bible = NoVersion THEN << >> ELSE outputs[bible].scenes

(* _current_critique_history: the last n critiques of the run.              *)
Last(s, n) == SubSeq(s, Len(s) - n + 1, Len(s))
(* Mutant: the first critiques of the run.                                  *)
CritiqueHistoryFirst == SubSeq(cp.critiques, 1, cp.rev)
(* critic adjudication looks behind the critique it disputes.               *)
CritiqueHistory ==
  IF cp.node = "critic_adjudication"
  THEN Last(SubSeq(cp.critiques, 1, Len(cp.critiques) - 1), cp.rev)
  ELSE Last(cp.critiques, cp.rev)

(* current_continuity_artifact or pending_continuity_artifact               *)
PreviousContinuity == IF cp.continuity # NoVersion THEN cp.continuity ELSE cp.pending

Inputs ==
  LET canon == Elements(AcceptedDrafts) \cup {cp.bible}
      critiques == Elements(CritiqueHistory)
      reports == Elements(cp.reports)
  IN  CASE cp.node = "draft" ->
             canon \cup (IF cp.rev = 0 THEN {}
                         ELSE {cp.draft, cp.critique, PreviousContinuity} \cup critiques)
        [] cp.node = "dialogue_integration" -> {cp.draft}
        [] cp.node = "critique" -> canon \cup {cp.draft} \cup critiques
        [] cp.node = "critic_adjudication" ->
             canon \cup {cp.draft, cp.critique, cp.continuity} \cup critiques
        [] cp.node = "continuity" -> canon \cup {cp.draft, cp.pending} \cup reports
        [] cp.node = "continuity_adjudication" ->
             canon \cup {cp.draft, cp.continuity} \cup reports
        [] OTHER -> canon \cup {cp.draft, cp.continuity}

CurrentTask == [op |-> cp.node, unit |-> cp.unit, rev |-> cp.rev, inputs |-> Inputs]

(* The SceneProductionStateErrors: what the nodes, the validation of their  *)
(* results and the reading of the final result refuse to go on from.        *)
StateError ==
  \/ cp.node # "end" /\ cp.unit \notin Units
  \/ cp.node \notin {"draft", "end"} /\ cp.draft = NoVersion
  \/ /\ cp.node \in {"critic_adjudication", "continuity_adjudication",
                     "story_bible_update", "accept"}
     /\ cp.continuity = NoVersion
  \/ cp.node \in {"critic_adjudication", "accept"} /\ cp.critique = NoVersion
  \/ /\ cp.node = "draft"
     /\ \/ /\ NoVersion \notin {cp.continuity, cp.pending}
           /\ cp.continuity # cp.pending
        \/ cp.rev > 0 /\ NoVersion \in {cp.draft, cp.critique}
  \/ cp.node \in {"draft", "critique"} /\ Len(cp.critiques) < cp.rev
  \/ cp.node \in {"dialogue_pass", "dialogue_integration"} /\ cp.unit \notin DialogueUnits
  \/ /\ cp.node = "critic_adjudication"
     /\ \/ ~ cp.adjRequired \/ cp.adjCompleted
        \/ cp.rev < 1 \/ cp.rev # MaxRevisions
        \/ cp.blocking # "adjudicable"
        \/ Len(cp.critiques) - 1 < cp.rev
  \/ /\ cp.node = "continuity_adjudication"
     /\ ~ cp.adjRequired \/ cp.adjCompleted \/ cp.rev # MaxRevisions
  \/ cp.node = "story_bible_update" /\ ScenesOf(cp.bible) # AcceptedDrafts
  \/ cp.node = "accept" /\ (cp.reason = NoReason \/ cp.bible = NoVersion)
  \/ /\ cp.node = "end"
     /\ \/ Len(cp.accepted) # NumUnits
        \/ cp.accepted[NumUnits].bible # cp.bible

(* A node that refuses its state fails the run.  No reachable state is      *)
(* refused, which is the property NoStateError, so that failure is no       *)
(* action here.                                                             *)
Running == status = "running"
Ready == Running /\ ~ StateError

Fail(why) == status' = "failed" /\ cause' = why /\ hand' = EmptyHand

-----------------------------------------------------------------------------
(* The specialist's call.                                                   *)

(* Mutant: only what the checkpoint lists is replayed.                      *)
ReplayableFromCheckpoint ==
  {v \in Elements(cp.critiques) \cup Elements(cp.reports) : outputs[v].task = CurrentTask}

Replayable == {v \in DOMAIN outputs : outputs[v].live /\ outputs[v].task = CurrentTask}

(* Mutant: the update is applied to the initial Story Bible.                *)
SuccessorFromInitial == <<cp.draft>>
(* apply_story_bible_update                                                 *)
SuccessorScenes == Append(ScenesOf(cp.bible), cp.draft)

(* The call succeeds and its output is committed.                           *)
Generate ==
  /\ Ready /\ cp.node \in Ops
  /\ hand = EmptyHand /\ Replayable = {}
  /\ \E verdict \in VerdictsOf(cp.node) :
       outputs' = Append(outputs,
                         [task |-> CurrentTask, verdict |-> verdict, live |-> TRUE,
                          scenes |-> IF cp.node = "story_bible_update"
                                     THEN SuccessorScenes
                                     ELSE << >>])
  /\ hand' = [version |-> Len(outputs) + 1, called |-> TRUE]
  /\ UNCHANGED <<cp, status, cause, losses>>

Replay ==
  /\ Ready /\ cp.node \in Ops
  /\ hand = EmptyHand
  /\ \E v \in Replayable : hand' = [version |-> v, called |-> FALSE]
  /\ UNCHANGED <<outputs, cp, status, cause, losses>>

(* Every attempt at the call failed, or the node's observer did.            *)
CallFails ==
  /\ Ready /\ cp.node # "end"
  /\ hand = EmptyHand /\ Replayable = {}
  /\ Fail("call")
  /\ UNCHANGED <<outputs, cp, losses>>

(* The process is lost, or the execution cancelled: the node starts again.  *)
LoseNode ==
  /\ Running /\ hand # EmptyHand /\ losses < MaxLosses
  /\ hand' = EmptyHand
  /\ losses' = losses + 1
  /\ UNCHANGED <<outputs, cp, status, cause>>

(* Cancelled right after the commit of its call: _fail_invocation then      *)
(* marks the invocation FAILED, and the output is not replayed.             *)
CancelAfterCommit ==
  /\ Running /\ hand.called /\ losses < MaxLosses
  /\ outputs' = [outputs EXCEPT ![hand.version].live = FALSE]
  /\ hand' = EmptyHand
  /\ losses' = losses + 1
  /\ UNCHANGED <<cp, status, cause>>

-----------------------------------------------------------------------------
(* The nodes: what each makes of the output it holds.                       *)

(* Mutant: a replayed output is not handed to the node.                     *)
HoldsFresh(node) == Ready /\ cp.node = node /\ hand.called

Holds(node) == Ready /\ cp.node = node /\ hand # EmptyHand
Verdict == outputs[hand.version].verdict

(* The commit of a super-step.                                              *)
Checkpointed(next) ==
  /\ cp' = [next EXCEPT !.steps = @ + 1]
  /\ hand' = EmptyHand
  /\ UNCHANGED <<outputs, status, cause, losses>>

Reviewed(requiresRevision) ==
  IF requiresRevision THEN "revision_limit_reached" ELSE "passed_rubric"

(* A rejection of the draft at the terminal gate.                           *)
RejectUnit == Fail("review") /\ UNCHANGED <<outputs, cp, losses>>

Draft ==
  /\ Holds("draft")
  /\ Checkpointed([cp EXCEPT
       !.draft = hand.version,
       !.continuity = NoVersion,
       !.pending = IF cp.rev = 0 THEN NoVersion ELSE PreviousContinuity,
       !.node = IF cp.unit \in DialogueUnits THEN "dialogue_pass" ELSE "critique"])

(* The dialogue subgraph, whose steps count against the same limit.         *)
DialoguePass ==
  /\ Ready /\ cp.node = "dialogue_pass"
  /\ \E used \in 1 .. DialogueSteps :
       cp' = [cp EXCEPT !.node = "dialogue_integration", !.steps = @ + used]
  /\ UNCHANGED <<outputs, hand, status, cause, losses>>

DialogueIntegration ==
  /\ Holds("dialogue_integration")
  /\ Checkpointed([cp EXCEPT !.draft = hand.version,
                             !.dialogueRuns = @ + 1,
                             !.node = "critique"])

(* Mutant: the verdict is kept where the blocking count belongs.            *)
CritiqueKeepsVerdict ==
  /\ Holds("critique")
  /\ Checkpointed([cp EXCEPT
       !.critique = hand.version, !.reason = NoReason,
       !.requiresRevision = (Verdict # "pass"), !.blocking = Verdict,
       !.critiques = Append(@, hand.version), !.node = "continuity"])

Critique ==
  /\ Holds("critique")
  /\ Checkpointed([cp EXCEPT
       !.critique = hand.version,
       !.reason = NoReason,
       !.requiresRevision = (Verdict # "pass"),
       !.blocking = IF Blocking(Verdict) THEN Verdict ELSE "none",
       !.critiques = Append(@, hand.version),
       !.node = "continuity"])

(* Mutant: adjudication does not wait for the last revision.                *)
EligibleEarly(report) ==
  /\ ~ cp.adjCompleted
  /\ \/ cp.blocking = "adjudicable" /\ cp.rev > 0 /\ ~ Blockers(report)
     \/ cp.blocking = "none" /\ report = "contradiction"

(* _adjudication_status is "eligible".                                      *)
Eligible(report) ==
  /\ ~ cp.adjCompleted
  /\ cp.rev >= MaxRevisions
  /\ \/ cp.blocking = "adjudicable" /\ cp.rev > 0 /\ ~ Blockers(report)
     \/ cp.blocking = "none" /\ report = "contradiction"

(* Mutant: off by one at the last revision.                                 *)
TerminalLate(report) ==
  cp.rev > MaxRevisions /\ (Blockers(report) \/ cp.blocking # "none")
(* _review_disposition raises.                                              *)
Terminal(report) ==
  cp.rev >= MaxRevisions /\ (Blockers(report) \/ cp.blocking # "none")

(* Mutant: off by one at the last revision.                                 *)
NeedsRevisionOnceMore(report) ==
  (Blockers(report) \/ cp.requiresRevision) /\ cp.rev <= MaxRevisions

NeedsRevision(report) ==
  (Blockers(report) \/ cp.requiresRevision) /\ cp.rev < MaxRevisions

Continuity ==
  LET report == Verdict
      checked == [cp EXCEPT !.continuity = hand.version, !.pending = NoVersion,
                            !.adjRequired = FALSE,
                            !.reports = Append(@, hand.version)]
  IN  /\ Holds("continuity")
      /\ \/ /\ Eligible(report)
            /\ Checkpointed([checked EXCEPT
                 !.adjRequired = TRUE,
                 !.node = IF cp.blocking # "none" THEN "critic_adjudication"
                          ELSE "continuity_adjudication"])
         \/ ~ Eligible(report) /\ Terminal(report) /\ RejectUnit
         \/ /\ NeedsRevision(report)
            /\ Checkpointed([checked EXCEPT !.rev = @ + 1, !.reason = NoReason,
                                            !.node = "draft"])
         \/ /\ ~ Eligible(report) /\ ~ Terminal(report) /\ ~ NeedsRevision(report)
            /\ Checkpointed([checked EXCEPT !.reason = Reviewed(cp.requiresRevision),
                                            !.node = "story_bible_update"])

CriticAdjudication ==
  /\ Holds("critic_adjudication")
  /\ \/ Blocking(Verdict) /\ RejectUnit
     \/ /\ ~ Blocking(Verdict)
        /\ Checkpointed([cp EXCEPT
             !.critique = hand.version,
             !.critiques = Append(@, hand.version),
             !.blocking = "none",
             !.requiresRevision = (Verdict # "pass"),
             !.adjRequired = FALSE, !.adjCompleted = TRUE,
             !.reason = Reviewed(Verdict # "pass"),
             !.node = "story_bible_update"])

ContinuityAdjudication ==
  /\ Holds("continuity_adjudication")
  /\ \/ Terminal(Verdict) /\ RejectUnit
     \/ /\ ~ Terminal(Verdict)
        /\ Checkpointed([cp EXCEPT
             !.continuity = hand.version,
             !.reports = Append(@, hand.version),
             !.adjRequired = FALSE, !.adjCompleted = TRUE,
             !.reason = Reviewed(cp.requiresRevision),
             !.node = "story_bible_update"])

StoryBibleUpdate ==
  /\ Holds("story_bible_update")
  /\ Checkpointed([cp EXCEPT !.bible = hand.version, !.node = "accept"])

AcceptedUnit ==
  [draft |-> cp.draft, critique |-> cp.critique, continuity |-> cp.continuity,
   bible |-> cp.bible, rev |-> cp.rev, dialogueRuns |-> cp.dialogueRuns,
   reason |-> cp.reason]

(* Mutant: the unit index is not advanced.                                  *)
AcceptSameUnit ==
  /\ Ready /\ cp.node = "accept"
  /\ Checkpointed([cp EXCEPT
       !.accepted = Append(@, AcceptedUnit), !.rev = 0,
       !.draft = NoVersion, !.critique = NoVersion,
       !.continuity = NoVersion, !.pending = NoVersion, !.reports = << >>,
       !.dialogueRuns = 0, !.reason = NoReason,
       !.requiresRevision = FALSE, !.blocking = "none",
       !.adjRequired = FALSE, !.adjCompleted = FALSE,
       !.node = IF cp.unit = NumUnits THEN "end" ELSE "draft"])

Accept ==
  /\ Ready /\ cp.node = "accept"
  /\ Checkpointed([cp EXCEPT
       !.accepted = Append(@, AcceptedUnit),
       !.unit = @ + 1, !.rev = 0,
       !.draft = NoVersion, !.critique = NoVersion,
       !.continuity = NoVersion, !.pending = NoVersion, !.reports = << >>,
       !.dialogueRuns = 0, !.reason = NoReason,
       !.requiresRevision = FALSE, !.blocking = "none",
       !.adjRequired = FALSE, !.adjCompleted = FALSE,
       !.node = IF cp.unit = NumUnits THEN "end" ELSE "draft"])

(* production_result_from_state                                             *)
Complete ==
  /\ Ready /\ cp.node = "end"
  /\ status' = "complete"
  /\ UNCHANGED <<outputs, cp, hand, cause, losses>>

(* The retry of a failed run resumes its checkpoint.                        *)
Retry ==
  /\ status = "failed"
  /\ status' = "running" /\ cause' = "none"
  /\ UNCHANGED <<outputs, cp, hand, losses>>

Call == Generate \/ Replay \/ CallFails \/ LoseNode \/ CancelAfterCommit
NodeUpdate ==
  \/ Draft \/ DialoguePass \/ DialogueIntegration \/ Critique \/ Continuity
  \/ CriticAdjudication \/ ContinuityAdjudication \/ StoryBibleUpdate \/ Accept

Next == Call \/ NodeUpdate \/ Complete \/ Retry

Spec == Init /\ [][Next]_vars
(* The worker keeps executing the run; nobody has to retry it.              *)
FairSpec == Spec /\ WF_vars(Call \/ NodeUpdate \/ Complete)

-----------------------------------------------------------------------------
(* Safety.                                                                  *)

(* What is accepted was reviewed as it is: the accepted critique and        *)
(* continuity report are about exactly this draft, the report read the      *)
(* Story Bible as it was before this unit, neither blocks, and a critic     *)
(* who still asks for a revision is overruled only at the last one          *)
(* (_accept_node, after any revisions, adjudications, losses and retries).  *)
BibleBefore(i) == IF i = 1 THEN NoVersion ELSE cp.accepted[i - 1].bible
AcceptedReviewed ==
  \A i \in DOMAIN cp.accepted :
    LET a == cp.accepted[i]
        critique == outputs[a.critique]
        report == outputs[a.continuity]
    IN  /\ outputs[a.draft].task.unit = i /\ outputs[a.draft].task.rev = a.rev
        /\ critique.task.op \in CritiqueOps /\ a.draft \in critique.task.inputs
        /\ report.task.op \in ContinuityOps /\ {a.draft, BibleBefore(i)} \subseteq report.task.inputs
        /\ ~ Blocking(critique.verdict) /\ ~ Blockers(report.verdict)
        /\ critique.verdict = "revise" <=> a.reason = "revision_limit_reached"
        /\ critique.verdict = "revise" => a.rev = MaxRevisions

(* The canonical Story Bible lists exactly the accepted drafts, in order;   *)
(* only between the Story Bible update and the acceptance of its unit is it *)
(* one scene ahead (_validate_story_bible_update).                          *)
CanonicalBible ==
  /\ ScenesOf(cp.bible) = IF cp.node = "accept" THEN Append(AcceptedDrafts, cp.draft)
                          ELSE AcceptedDrafts
  /\ \A i \in DOMAIN cp.accepted :
       ScenesOf(cp.accepted[i].bible) = SubSeq(AcceptedDrafts, 1, i)

(* A revision, its critic and the adjudicator are given the critiques of    *)
(* revisions 0, 1, ... of this very unit (_current_critique_history slices  *)
(* a list shared by all units, which adjudications lengthen), and a re-     *)
(* check is given the report on the revision before.                        *)
HistoryIsExact ==
  /\ cp.node \in {"draft", "critique", "critic_adjudication"} /\ ~ StateError =>
       \A k \in 1 .. cp.rev :
         LET task == outputs[CritiqueHistory[k]].task
         IN  task.op = "critique" /\ task.unit = cp.unit /\ task.rev = k - 1
  /\ cp.node = "continuity" /\ cp.rev > 0 =>
       LET task == outputs[cp.pending].task
       IN  task.op = "continuity" /\ task.unit = cp.unit /\ task.rev = cp.rev - 1

(* The checkpoint never reaches a state its own nodes refuse.               *)
NoStateError == Running => ~ StateError

(* Adjudication is the last word on a unit: no draft, critique or report of *)
(* the unit is asked for after one, and it is asked for at most once.       *)
AdjudicationIsLast ==
  \A i, j \in DOMAIN outputs :
    /\ i < j /\ outputs[i].live
    /\ outputs[i].task.op \in Adjudications
    /\ outputs[j].task.unit = outputs[i].task.unit
    => outputs[j].task.op = "story_bible_update"

(* The run stays inside the recursion limit it was given, max_graph_steps,  *)
(* whatever the reviews say.                                                *)
MaxGraphSteps ==
  LET attempts == 1 + MaxRevisions
      dialogues == Cardinality(DialogueUnits)
  IN  NumUnits * (attempts * 3 + 3) + dialogues * attempts * (DialogueSteps + 1)
StepsWithinEnvelope == cp.steps <= MaxGraphSteps

(* A production implements StoryCanon.                                      *)
Canon == INSTANCE StoryCanon WITH
  drafts <- {v \in DOMAIN outputs : outputs[v].task.op \in DraftOps},
  canon <- AcceptedDrafts,
  bible <- ScenesOf(cp.bible),
  complete <- (status = "complete")
CanonSpec == Canon!Spec

-----------------------------------------------------------------------------
(* Liveness, under FairSpec: an execution of the production ends.           *)
ProductionEnds == status = "running" ~> status # "running"
=============================================================================
