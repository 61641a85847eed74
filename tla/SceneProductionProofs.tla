----------------------- MODULE SceneProductionProofs -----------------------
(***************************************************************************)
(* Proofs about SceneProduction, for every number of units and revisions,   *)
(* every set of dialogue units and every number of losses.                  *)
(***************************************************************************)
EXTENDS SceneProduction, TLAPS, SequenceTheorems, FiniteSetTheorems

-----------------------------------------------------------------------------
(* The inductive invariant.  Every node knows which draft, critique and     *)
(* report the checkpoint holds: of which task, and what they decided.  No   *)
(* output is ahead of the checkpoint: it was made for an earlier unit, an   *)
(* earlier node of this one, or the very task of the current node.  That is *)
(* what lets a node that starts again replay its own output and no other.   *)

(* The order of the nodes in a revision, and of the nodes of a unit.        *)
OpRank(op) ==
  CASE op = "draft" -> 1
    [] op = "dialogue_pass" -> 2
    [] op = "dialogue_integration" -> 3
    [] op = "critique" -> 4
    [] op = "continuity" -> 5
    [] op \in Adjudications -> 6
    [] op = "story_bible_update" -> 7
    [] op = "accept" -> 8
    [] OTHER -> 0
Rank(rev, op) == 10 * rev + OpRank(op)

(* The nodes that already have a draft, a critique and a report of this     *)
(* revision, and those of a unit that passed its reviews.                   *)
Drafted == ProductionNodes \ {"draft", "end"}
Criticised == {"continuity", "story_bible_update", "accept"} \cup Adjudications
Checked == {"story_bible_update", "accept"} \cup Adjudications
Passed == {"story_bible_update", "accept"}
Dialogue == {"dialogue_pass", "dialogue_integration"}

About(v, ops, unit, rev) ==
  /\ v \in DOMAIN outputs
  /\ outputs[v].task.op \in ops
  /\ outputs[v].task.unit = unit /\ outputs[v].task.rev = rev

Position ==
  /\ cp.unit = Len(cp.accepted) + 1 /\ cp.unit <= NumUnits + 1
  /\ cp.node = "end" <=> cp.unit = NumUnits + 1
  /\ cp.rev <= MaxRevisions
  /\ cp.node = "end" => cp.rev = 0
  /\ cp.node \in Dialogue => cp.unit \in DialogueUnits
  /\ cp.node \in Adjudications => cp.adjRequired /\ cp.rev = MaxRevisions
  /\ cp.adjCompleted => cp.node \in Passed

HandInv ==
  hand # EmptyHand => /\ cp.node \in Ops
                      /\ hand.version \in DOMAIN outputs
                      /\ outputs[hand.version].task = CurrentTask

DraftInv ==
  /\ cp.node \in Drafted => About(cp.draft, DraftOps, cp.unit, cp.rev)
  /\ cp.node = "draft" /\ cp.rev > 0 => {cp.draft, cp.critique} \subseteq DOMAIN outputs

CritiqueInv ==
  cp.node \in Criticised =>
    /\ About(cp.critique, CritiqueOps, cp.unit, cp.rev)
    /\ cp.draft \in outputs[cp.critique].task.inputs
    /\ cp.requiresRevision = (outputs[cp.critique].verdict # "pass")
    /\ cp.blocking = IF Blocking(outputs[cp.critique].verdict)
                     THEN outputs[cp.critique].verdict
                     ELSE "none"

ReportInv ==
  /\ cp.node \in Checked =>
       /\ About(cp.continuity, ContinuityOps, cp.unit, cp.rev)
       /\ {cp.draft, BibleBefore(cp.unit)} \subseteq outputs[cp.continuity].task.inputs
  /\ cp.node = "critic_adjudication" =>
       /\ cp.blocking = "adjudicable" /\ cp.rev > 0
       /\ ~ Blockers(outputs[cp.continuity].verdict)
  /\ cp.node = "continuity_adjudication" => cp.blocking = "none"

PassedInv ==
  cp.node \in Passed =>
    /\ cp.blocking = "none" /\ ~ Blockers(outputs[cp.continuity].verdict)
    /\ cp.reason = Reviewed(cp.requiresRevision)
    /\ cp.requiresRevision => cp.rev = MaxRevisions

(* The report of the revision before is handed from field to field.         *)
PreviousInv ==
  /\ cp.node = "draft" =>
       /\ cp.pending = NoVersion
       /\ IF cp.rev = 0 THEN cp.continuity = NoVersion
          ELSE About(cp.continuity, {"continuity"}, cp.unit, cp.rev - 1)
  /\ cp.node \in Dialogue \cup {"critique", "continuity"} /\ cp.rev > 0 =>
       About(cp.pending, {"continuity"}, cp.unit, cp.rev - 1)

(* The critiques at the end of the list are those of this unit, one of each *)
(* revision; the current one is among them once it is made.                 *)
Heard == IF cp.node \in {"continuity"} \cup Adjudications THEN cp.rev + 1 ELSE cp.rev
HistoryInv ==
  cp.node \notin Passed \cup {"end"} =>
    /\ Heard <= Len(cp.critiques)
    /\ \A k \in 1 .. Heard :
         About(cp.critiques[Len(cp.critiques) - Heard + k], {"critique"}, cp.unit, k - 1)

CanonInv ==
  /\ cp.node # "accept" => cp.bible = BibleBefore(cp.unit)
  /\ cp.node = "accept" =>
       /\ cp.bible \in DOMAIN outputs
       /\ outputs[cp.bible].scenes = Append(AcceptedDrafts, cp.draft)
  /\ \A i \in DOMAIN cp.accepted :
       LET a == cp.accepted[i]
       IN  /\ {a.draft, a.critique, a.continuity, a.bible} \subseteq DOMAIN outputs
           /\ outputs[a.bible].scenes = SubSeq(AcceptedDrafts, 1, i)

BehindInv ==
  \A v \in DOMAIN outputs :
    LET task == outputs[v].task
    IN  /\ \/ task.unit < cp.unit
           \/ task.unit = cp.unit /\ Rank(task.rev, task.op) < Rank(cp.rev, cp.node)
           \/ task = CurrentTask
        /\ outputs[v].verdict \in VerdictsOf(task.op)
        /\ task.op \in Adjudications => task.rev = MaxRevisions
        /\ cp.node = "story_bible_update" /\ task = CurrentTask =>
             outputs[v].scenes = Append(AcceptedDrafts, cp.draft)

(* What the nodes so far may have counted against the limit.                *)
Attempts == 1 + MaxRevisions
UnitSteps == Attempts * 3 + 3
DialoguesSteps == Attempts * (DialogueSteps + 1)
NodeSteps(node, dialogue) ==
  CASE node \in {"draft", "end"} -> 0
    [] node = "dialogue_pass" -> 1
    [] node = "dialogue_integration" -> 1 + DialogueSteps
    [] node = "critique" -> 1 + dialogue
    [] node = "continuity" -> 2 + dialogue
    [] node \in Adjudications -> 3 + dialogue
    [] node = "story_bible_update" -> 4 + dialogue
    [] OTHER -> 5 + dialogue
DialogueCost(unit) == IF unit \in DialogueUnits THEN DialogueSteps + 1 ELSE 0
DialoguesBefore(unit) == Cardinality(DialogueUnits \cap 1 .. (unit - 1))
StepsInv ==
  cp.steps <= (cp.unit - 1) * UnitSteps + DialoguesBefore(cp.unit) * DialoguesSteps
              + cp.rev * (3 + DialogueCost(cp.unit))
              + NodeSteps(cp.node, DialogueCost(cp.unit))

(* What the checkpoint says of the unit in work, and of the canon.          *)
HoldsOutputs ==
  Position /\ DraftInv /\ CritiqueInv /\ ReportInv /\ PassedInv /\ PreviousInv /\ HistoryInv
HoldsCanon == CanonInv /\ AcceptedReviewed /\ StepsInv

IInv == TypeOK /\ HoldsOutputs /\ HoldsCanon /\ HandInv /\ BehindInv /\ AdjudicationIsLast

-----------------------------------------------------------------------------
(* Types.                                                                   *)

(* A state its node does not refuse is at a unit of the run, unless it is   *)
(* the end.                                                                 *)
LEMMA ReadyUnit ==
  ASSUME Ready, cp.node # "end"
  PROVE  cp.unit \in Units
  BY DEF Ready, StateError

(* The drafts of the accepted units, in order.                              *)
LEMMA DraftsType ==
  ASSUME TypeOK
  PROVE  /\ AcceptedDrafts \in Seq(Version)
         /\ Len(AcceptedDrafts) = Len(cp.accepted)
         /\ \A i \in 1 .. Len(cp.accepted) : AcceptedDrafts[i] = cp.accepted[i].draft
         /\ \A i \in 1 .. Len(cp.accepted) : cp.accepted[i] \in Accepted
         /\ DOMAIN cp.accepted = 1 .. Len(cp.accepted)
         /\ Len(cp.accepted) \in Nat
<1>1. cp.accepted \in Seq(Accepted)
  BY DEF TypeOK, Checkpoint
<1>2. /\ DOMAIN cp.accepted = 1 .. Len(cp.accepted) /\ Len(cp.accepted) \in Nat
      /\ \A i \in 1 .. Len(cp.accepted) : cp.accepted[i] \in Accepted
  BY <1>1, LenProperties, ElementOfSeq
<1>3. \A i \in 1 .. Len(cp.accepted) : cp.accepted[i].draft \in Version
  BY <1>2 DEF Accepted
<1>4. [i \in 1 .. Len(cp.accepted) |-> cp.accepted[i].draft] \in Seq(Version)
  BY <1>2, <1>3, IsASeq
<1>5. AcceptedDrafts = [i \in 1 .. Len(cp.accepted) |-> cp.accepted[i].draft]
  BY <1>2 DEF AcceptedDrafts
<1>6. Len(AcceptedDrafts) = Len(cp.accepted)
  BY <1>2, <1>4, <1>5
<1> QED
  BY <1>2, <1>4, <1>5, <1>6

(* The elements of a sequence of versions.                                  *)
LEMMA ElementsType ==
  ASSUME NEW s \in Seq(Version)
  PROVE  Elements(s) \subseteq Version
  BY LenProperties, ElementOfSeq DEF Elements

(* The critiques a node is handed exist where its state is not refused.     *)
LEMMA HistoryType ==
  ASSUME TypeOK, ~ StateError, cp.node \in {"draft", "critique", "critic_adjudication"}
  PROVE  CritiqueHistory \in Seq(Version)
<1> DEFINE L == Len(cp.critiques)
<1>1. /\ L \in Nat /\ cp.rev \in Nat /\ cp.critiques \in Seq(Version)
      /\ \A k \in 1 .. L : cp.critiques[k] \in Version
  BY LenProperties, ElementOfSeq DEF TypeOK, Checkpoint
<1>2. CASE cp.node = "critic_adjudication"
  <2> DEFINE others == SubSeq(cp.critiques, 1, L - 1)
  <2>1. cp.rev <= L - 1
    BY <1>1, <1>2 DEF StateError
  <2>2. /\ others \in Seq(Version)
        /\ Len(others) = L - 1
        /\ \A k \in 1 .. L - 1 : others[k] \in Version
    <3>1. others \in Seq(Version) /\ Len(others) = IF 1 <= L - 1 THEN L - 1 - 1 + 1 ELSE 0
      BY <1>1, SubSeqProperties
    <3> HIDE DEF others
    <3> QED
      BY <1>1, <2>1, <3>1, ElementOfSeq
  <2> HIDE DEF others
  <2>3. SubSeq(others, Len(others) - cp.rev + 1, Len(others)) \in Seq(Version)
    BY <1>1, <2>1, <2>2, SubSeqProperties
  <2> QED
    BY <1>2, <2>3 DEF CritiqueHistory, Last, others
<1>3. CASE cp.node \in {"draft", "critique"}
  <2>1. cp.rev <= L
    BY <1>1, <1>3 DEF StateError
  <2>2. SubSeq(cp.critiques, L - cp.rev + 1, L) \in Seq(Version)
    BY <1>1, <2>1, SubSeqProperties
  <2> QED
    BY <1>3, <2>2 DEF CritiqueHistory, Last
<1> QED
  BY <1>2, <1>3

(* The task of a node is a task.                                            *)
LEMMA TaskType ==
  ASSUME TypeOK, Ready, cp.node \in Ops
  PROVE  CurrentTask \in Task
<1>1. cp.unit \in Units /\ ~ StateError
  BY ReadyUnit DEF Ready, Ops, CritiqueOps, ContinuityOps, DraftOps
<1>2. /\ {cp.draft, cp.critique, cp.continuity, cp.pending, cp.bible} \subseteq Version
      /\ cp.rev \in Nat /\ cp.reports \in Seq(Version)
  BY DEF TypeOK, Checkpoint
<1>3. Elements(AcceptedDrafts) \subseteq Version /\ Elements(cp.reports) \subseteq Version
  BY <1>2, DraftsType, ElementsType
<1>4. cp.node \in {"draft", "critique", "critic_adjudication"} =>
        Elements(CritiqueHistory) \subseteq Version
  BY <1>1, HistoryType, ElementsType
<1>5. PreviousContinuity \in Version
  BY <1>2 DEF PreviousContinuity
<1>6. Inputs \subseteq Version
  BY <1>2, <1>3, <1>4, <1>5 DEF Inputs
<1> QED
  BY <1>1, <1>2, <1>6 DEF CurrentTask, Task

(* The versions the outputs may have.                                       *)
LEMMA OutputsDomain ==
  ASSUME TypeOK
  PROVE  /\ DOMAIN outputs = 1 .. Len(outputs) /\ Len(outputs) \in Nat
         /\ \A v \in DOMAIN outputs : outputs[v] \in Output
  BY LenProperties, ElementOfSeq DEF TypeOK

(* A call appends a well-typed output.                                      *)
LEMMA GenerateType ==
  ASSUME TypeOK, Generate
  PROVE  TypeOK'
<1>1. PICK verdict \in VerdictsOf(cp.node) :
        outputs' = Append(outputs,
                          [task |-> CurrentTask, verdict |-> verdict, live |-> TRUE,
                           scenes |-> IF cp.node = "story_bible_update"
                                      THEN SuccessorScenes
                                      ELSE << >>])
  BY DEF Generate
<1> DEFINE scenes == IF cp.node = "story_bible_update" THEN SuccessorScenes ELSE << >>
           output == [task |-> CurrentTask, verdict |-> verdict, live |-> TRUE,
                      scenes |-> scenes]
<1>2. CurrentTask \in Task /\ ~ StateError
  BY TaskType DEF Generate, Ready
<1>3. verdict \in CritiqueVerdicts \cup ContinuityVerdicts \cup {"done"}
  BY <1>1 DEF VerdictsOf, CritiqueVerdicts, ContinuityVerdicts
<1>4. scenes \in Seq(Version)
  <2>1. CASE cp.node = "story_bible_update"
    <3>1. ScenesOf(cp.bible) = AcceptedDrafts
      BY <1>2, <2>1 DEF StateError
    <3>2. cp.draft \in Version
      BY DEF TypeOK, Checkpoint
    <3> QED
      BY <2>1, <3>1, <3>2, DraftsType, AppendProperties DEF SuccessorScenes
  <2>2. CASE cp.node # "story_bible_update"
    BY <2>2, EmptySeq
  <2> QED
    BY <2>1, <2>2
<1> HIDE DEF scenes
<1>5. output \in Output
  BY <1>2, <1>3, <1>4 DEF Output
<1>6. outputs' \in Seq(Output)
  BY <1>1, <1>5, AppendProperties DEF TypeOK, scenes
<1>7. hand' \in [version : Version, called : BOOLEAN]
  BY OutputsDomain DEF Generate, Version
<1> QED
  BY <1>6, <1>7 DEF Generate, TypeOK

(* The other steps of a call.                                               *)
LEMMA CallType ==
  ASSUME TypeOK, Replay \/ CallFails \/ LoseNode \/ CancelAfterCommit
  PROVE  TypeOK'
<1>1. CASE Replay
  BY <1>1, OutputsDomain DEF Replay, Replayable, TypeOK, Version
<1>2. CASE CallFails
  BY <1>2 DEF CallFails, Fail, TypeOK, Causes, EmptyHand, NoVersion, Version
<1>3. CASE LoseNode
  BY <1>3, ProductionAssumption DEF LoseNode, TypeOK, EmptyHand, NoVersion, Version
<1>4. CASE CancelAfterCommit
  <2>1. outputs' \in Seq(Output)
    <3>1. CASE hand.version \in DOMAIN outputs
      <4> DEFINE output == [outputs[hand.version] EXCEPT !.live = FALSE]
      <4>1. output \in Output
        BY <3>1, OutputsDomain DEF Output
      <4>2. outputs' = [outputs EXCEPT ![hand.version] = output]
        BY <1>4 DEF CancelAfterCommit
      <4> HIDE DEF output
      <4> QED
        BY <3>1, <4>1, <4>2, OutputsDomain, ExceptSeq DEF TypeOK
    <3>2. CASE hand.version \notin DOMAIN outputs
      <4>1. outputs' = outputs
        BY <1>4, <3>2, OutputsDomain DEF CancelAfterCommit, TypeOK
      <4> QED
        BY <4>1 DEF TypeOK
    <3> QED
      BY <3>1, <3>2
  <2> QED
    BY <1>4, <2>1 DEF CancelAfterCommit, TypeOK, EmptyHand, NoVersion, Version
<1> QED
  BY <1>1, <1>2, <1>3, <1>4

(* A checkpointed update of a well-typed state is well typed.               *)
LEMMA CheckpointedType ==
  ASSUME TypeOK, NEW next \in Checkpoint, Checkpointed(next)
  PROVE  TypeOK'
<1>1. cp' \in Checkpoint
  BY DEF Checkpointed, Checkpoint
<1> QED
  BY <1>1 DEF Checkpointed, TypeOK, EmptyHand, NoVersion, Version

-----------------------------------------------------------------------------
(* Steps that leave the checkpoint alone.                                   *)

(* Outputs are only added: what one was made for and what it decided stays. *)
Grows ==
  /\ cp' = cp
  /\ \A v \in DOMAIN outputs :
       /\ v \in DOMAIN outputs'
       /\ outputs'[v].task = outputs[v].task
       /\ outputs'[v].verdict = outputs[v].verdict
       /\ outputs'[v].scenes = outputs[v].scenes

(* What the checkpoint says of the unit in work.                            *)
LEMMA GrowthKeepsOutputs ==
  ASSUME TypeOK, HoldsOutputs, Grows
  PROVE  HoldsOutputs'
<1> USE DEF HoldsOutputs
<1>0. cp' = cp
  BY DEF Grows
<1>1. Position'
  BY <1>0 DEF Position
<1>2. DraftInv'
  BY DEF DraftInv, About, Grows
<1>3. CritiqueInv'
  BY DEF CritiqueInv, About, Grows
<1>4. ReportInv'
  <2>1. BibleBefore(cp.unit)' = BibleBefore(cp.unit)
    BY <1>0 DEF BibleBefore
  <2>2. cp.node = "critic_adjudication" => cp.node \in Checked
    BY DEF Checked, Adjudications
  <2> QED
    BY <2>1, <2>2 DEF ReportInv, About, Grows
<1>5. PassedInv'
  <2>1. cp.node \in Passed => cp.continuity \in DOMAIN outputs
    BY DEF ReportInv, About, Checked, Passed
  <2> QED
    BY <2>1 DEF PassedInv, Grows
<1>6. PreviousInv'
  BY DEF PreviousInv, About, Grows
<1>7. HistoryInv'
  BY DEF HistoryInv, Heard, About, Grows
<1> QED
  BY <1>1, <1>2, <1>3, <1>4, <1>5, <1>6, <1>7

(* What the checkpoint says of the canon.                                   *)
LEMMA GrowthKeepsCanon ==
  ASSUME TypeOK, HoldsCanon, Grows
  PROVE  HoldsCanon'
<1> USE DEF HoldsCanon
<1>0. cp' = cp /\ AcceptedDrafts' = AcceptedDrafts
  BY DEF Grows, AcceptedDrafts
<1>1. CanonInv'
  <2>1. BibleBefore(cp.unit)' = BibleBefore(cp.unit)
    BY <1>0 DEF BibleBefore
  <2> QED
    BY <1>0, <2>1 DEF CanonInv, Grows
<1>2. AcceptedReviewed'
  <2> SUFFICES ASSUME NEW i \in DOMAIN cp.accepted
               PROVE  LET a == cp.accepted[i]
                          critique == outputs'[a.critique]
                          report == outputs'[a.continuity]
                      IN  /\ outputs'[a.draft].task.unit = i
                          /\ outputs'[a.draft].task.rev = a.rev
                          /\ critique.task.op \in CritiqueOps /\ a.draft \in critique.task.inputs
                          /\ report.task.op \in ContinuityOps
                          /\ {a.draft, BibleBefore(i)} \subseteq report.task.inputs
                          /\ ~ Blocking(critique.verdict) /\ ~ Blockers(report.verdict)
                          /\ critique.verdict = "revise" <=> a.reason = "revision_limit_reached"
                          /\ critique.verdict = "revise" => a.rev = MaxRevisions
    BY <1>0 DEF AcceptedReviewed, BibleBefore
  <2> DEFINE a == cp.accepted[i]
  <2>1. {a.draft, a.critique, a.continuity} \subseteq DOMAIN outputs
    BY DEF CanonInv
  <2> QED
    BY <2>1 DEF AcceptedReviewed, Grows
<1>3. StepsInv'
  BY <1>0 DEF StepsInv, DialoguesBefore, DialogueCost
<1> QED
  BY <1>1, <1>2, <1>3

(* A call appends an output that was made for the current task.             *)
LEMMA GenerateStep ==
  ASSUME TypeOK, Generate
  PROVE  /\ TypeOK' /\ Grows
         /\ cp.node \in Ops /\ ~ StateError
         /\ hand'.version = Len(outputs) + 1
         /\ DOMAIN outputs' = DOMAIN outputs \cup {Len(outputs) + 1}
         /\ \A v \in DOMAIN outputs : outputs'[v] = outputs[v]
         /\ outputs'[Len(outputs) + 1].task = CurrentTask
         /\ outputs'[Len(outputs) + 1].verdict \in VerdictsOf(cp.node)
         /\ cp.node = "story_bible_update" =>
              outputs'[Len(outputs) + 1].scenes = SuccessorScenes
<1>1. PICK verdict \in VerdictsOf(cp.node) :
        outputs' = Append(outputs,
                          [task |-> CurrentTask, verdict |-> verdict, live |-> TRUE,
                           scenes |-> IF cp.node = "story_bible_update"
                                      THEN SuccessorScenes
                                      ELSE << >>])
  BY DEF Generate
<1> DEFINE output == [task |-> CurrentTask, verdict |-> verdict, live |-> TRUE,
                      scenes |-> IF cp.node = "story_bible_update"
                                 THEN SuccessorScenes
                                 ELSE << >>]
<1>2. TypeOK'
  BY GenerateType
<1>3. /\ DOMAIN outputs = 1 .. Len(outputs) /\ Len(outputs) \in Nat
      /\ DOMAIN outputs' = 1 .. Len(outputs')
  BY <1>2, OutputsDomain DEF TypeOK
<1>4. /\ Len(outputs') = Len(outputs) + 1
      /\ \A v \in DOMAIN outputs : outputs'[v] = outputs[v]
      /\ outputs'[Len(outputs) + 1] = output
  <2> HIDE DEF output
  <2> QED
    BY <1>1, <1>3 DEF output, TypeOK
<1> QED
  BY <1>2, <1>3, <1>4 DEF Generate, Grows, Ready

(* It keeps the invariant.  An adjudication that the new output follows in  *)
(* its unit was made for an earlier node, which only the Story Bible update *)
(* has before it, or for this very task, which would have been replayed.    *)
LEMMA GenerateKeeps ==
  ASSUME IInv, Generate
  PROVE  IInv'
<1> DEFINE new == Len(outputs) + 1
<1>0. TypeOK /\ HoldsOutputs /\ HoldsCanon /\ BehindInv /\ AdjudicationIsLast
  BY DEF IInv
<1>1. /\ TypeOK' /\ Grows
      /\ cp.node \in Ops /\ ~ StateError
      /\ hand'.version = new
      /\ DOMAIN outputs' = DOMAIN outputs \cup {new}
      /\ \A v \in DOMAIN outputs : outputs'[v] = outputs[v]
      /\ outputs'[new].task = CurrentTask
      /\ outputs'[new].verdict \in VerdictsOf(cp.node)
      /\ cp.node = "story_bible_update" => outputs'[new].scenes = SuccessorScenes
  BY <1>0, GenerateStep
<1>2. cp' = cp /\ CurrentTask' = CurrentTask /\ AcceptedDrafts' = AcceptedDrafts
  BY <1>1 DEF Grows, CurrentTask, Inputs, AcceptedDrafts, CritiqueHistory, PreviousContinuity
<1>3. HoldsOutputs' /\ HoldsCanon'
  BY <1>0, <1>1, GrowthKeepsOutputs, GrowthKeepsCanon
<1>4. HandInv'
  BY <1>1, <1>2 DEF HandInv
<1>5. BehindInv'
  <2>1. cp.node \in Adjudications => cp.rev = MaxRevisions
    BY <1>0 DEF HoldsOutputs, Position
  <2>2. cp.node = "story_bible_update" => SuccessorScenes = Append(AcceptedDrafts, cp.draft)
    BY <1>1 DEF StateError, SuccessorScenes
  <2>3. CurrentTask.op = cp.node /\ CurrentTask.rev = cp.rev
    BY DEF CurrentTask
  <2> QED
    BY <1>0, <1>1, <1>2, <2>1, <2>2, <2>3 DEF BehindInv
<1>6. AdjudicationIsLast'
  <2> SUFFICES ASSUME NEW i \in DOMAIN outputs', NEW j \in DOMAIN outputs',
                      i < j, outputs'[i].live, outputs'[i].task.op \in Adjudications,
                      outputs'[j].task.unit = outputs'[i].task.unit
               PROVE  outputs'[j].task.op = "story_bible_update"
    BY DEF AdjudicationIsLast
  <2>1. CASE j \in DOMAIN outputs
    <3>1. i \in DOMAIN outputs
      BY <1>0, <1>1, <2>1, OutputsDomain
    <3> QED
      BY <1>0, <1>1, <2>1, <3>1 DEF AdjudicationIsLast
  <2>2. CASE j = new
    <3>1. i \in DOMAIN outputs /\ outputs'[i] = outputs[i]
      BY <1>0, <1>1, <2>2, OutputsDomain
    <3>2. outputs[i].task # CurrentTask
      BY <3>1 DEF Generate, Replayable
    <3>3. /\ outputs[i].task.unit = cp.unit
          /\ outputs[i].task.rev = MaxRevisions
          /\ Rank(outputs[i].task.rev, outputs[i].task.op) < Rank(cp.rev, cp.node)
      <4>1. outputs[i].task.unit = cp.unit
        BY <1>1, <2>2, <3>1 DEF CurrentTask
      <4>2. cp.unit \in Nat
        BY <1>0 DEF TypeOK, Checkpoint
      <4> QED
        BY <1>0, <3>1, <3>2, <4>1, <4>2 DEF BehindInv
    <3>4. MaxRevisions \in Nat /\ cp.rev \in Nat /\ cp.rev <= MaxRevisions
      BY <1>0, ProductionAssumption DEF HoldsOutputs, Position, TypeOK, Checkpoint
    <3>5. OpRank(cp.node) > 6
      <4>1. OpRank(outputs[i].task.op) = 6
        BY <3>1 DEF OpRank, Adjudications
      <4>2. OpRank(cp.node) \in Nat
        BY DEF OpRank
      <4> QED
        BY <3>3, <3>4, <4>1, <4>2 DEF Rank
    <3>6. cp.node = "story_bible_update"
      BY <1>1, <3>5 DEF OpRank, Ops, CritiqueOps, ContinuityOps, DraftOps, Adjudications
    <3> QED
      BY <1>1, <2>2, <3>6 DEF CurrentTask
  <2> QED
    BY <1>1, <2>1, <2>2
<1> QED
  BY <1>1, <1>3, <1>4, <1>5, <1>6 DEF IInv

(* The rest of a call takes an output up, drops it or fails the run.        *)
LEMMA CallKeeps ==
  ASSUME IInv, Replay \/ CallFails \/ LoseNode \/ CancelAfterCommit
  PROVE  IInv'
<1>0. TypeOK /\ HoldsOutputs /\ HoldsCanon /\ HandInv /\ BehindInv /\ AdjudicationIsLast
  BY DEF IInv
<1>1. TypeOK'
  BY <1>0, CallType
<1>2. /\ Grows
      /\ DOMAIN outputs' = DOMAIN outputs
      /\ \A v \in DOMAIN outputs : outputs'[v].live => outputs[v].live
  <2>1. CASE outputs' = outputs /\ cp' = cp
    BY <2>1 DEF Grows
  <2>2. CASE CancelAfterCommit
    <3>1. hand # EmptyHand
      BY <2>2 DEF CancelAfterCommit, EmptyHand
    <3>2. hand.version \in DOMAIN outputs /\ outputs[hand.version] \in Output
      BY <1>0, <3>1, OutputsDomain DEF HandInv
    <3>3. /\ cp' = cp
          /\ outputs' = [outputs EXCEPT ![hand.version].live = FALSE]
      BY <2>2 DEF CancelAfterCommit
    <3>4. DOMAIN outputs' = DOMAIN outputs
      BY <3>3
    <3>5. ASSUME NEW v \in DOMAIN outputs
          PROVE  /\ outputs'[v].task = outputs[v].task
                 /\ outputs'[v].verdict = outputs[v].verdict
                 /\ outputs'[v].scenes = outputs[v].scenes
                 /\ outputs'[v].live => outputs[v].live
      <4>1. CASE v = hand.version
        <5>1. outputs'[v] = [outputs[v] EXCEPT !.live = FALSE]
          BY <3>3, <4>1
        <5> QED
          BY <3>2, <4>1, <5>1 DEF Output
      <4>2. CASE v # hand.version
        BY <3>3, <4>2
      <4> QED
        BY <4>1, <4>2
    <3> QED
      BY <3>3, <3>4, <3>5 DEF Grows
  <2> QED
    BY <2>1, <2>2 DEF Replay, CallFails, LoseNode
<1>3. cp' = cp /\ CurrentTask' = CurrentTask /\ AcceptedDrafts' = AcceptedDrafts
  BY <1>2 DEF Grows, CurrentTask, Inputs, AcceptedDrafts, CritiqueHistory, PreviousContinuity
<1>4. HoldsOutputs' /\ HoldsCanon'
  BY <1>0, <1>2, GrowthKeepsOutputs, GrowthKeepsCanon
<1>5. HandInv'
  <2>1. CASE Replay
    BY <1>3, <2>1 DEF Replay, Replayable, HandInv
  <2>2. CASE hand' = EmptyHand
    BY <2>2 DEF HandInv, EmptyHand
  <2> QED
    BY <2>1, <2>2 DEF CallFails, Fail, LoseNode, CancelAfterCommit
<1>6. BehindInv'
  BY <1>0, <1>2, <1>3 DEF BehindInv, Grows
<1>7. AdjudicationIsLast'
  BY <1>0, <1>2 DEF AdjudicationIsLast, Grows
<1> QED
  BY <1>1, <1>4, <1>5, <1>6, <1>7 DEF IInv

(* A rejection, the end of the production, a retry and a stutter change     *)
(* neither the checkpoint nor the outputs.                                  *)
LEMMA RestKeeps ==
  ASSUME IInv, RejectUnit \/ Complete \/ Retry \/ UNCHANGED vars
  PROVE  IInv'
<1>0. TypeOK /\ HoldsOutputs /\ HoldsCanon /\ HandInv /\ BehindInv /\ AdjudicationIsLast
  BY DEF IInv
<1>1. outputs' = outputs /\ cp' = cp /\ (hand' = hand \/ hand' = EmptyHand)
  BY DEF RejectUnit, Fail, Complete, Retry, vars
<1>2. TypeOK'
  <2>0. EmptyHand \in [version : Version, called : BOOLEAN]
    BY DEF EmptyHand, NoVersion, Version
  <2>1. hand' \in [version : Version, called : BOOLEAN]
    BY <1>0, <1>1, <2>0 DEF TypeOK
  <2>2. /\ status' \in {"running", "failed", "complete"}
        /\ cause' \in Causes
        /\ losses' = losses
    BY <1>0 DEF TypeOK, RejectUnit, Fail, Complete, Retry, vars, Causes
  <2> QED
    BY <1>0, <1>1, <2>1, <2>2 DEF TypeOK
<1>3. Grows
  BY <1>1 DEF Grows
<1>4. CurrentTask' = CurrentTask /\ AcceptedDrafts' = AcceptedDrafts
  BY <1>1 DEF CurrentTask, Inputs, AcceptedDrafts, CritiqueHistory, PreviousContinuity
<1>5. HoldsOutputs' /\ HoldsCanon'
  BY <1>0, <1>3, GrowthKeepsOutputs, GrowthKeepsCanon
<1>6. HandInv'
  BY <1>0, <1>1, <1>4 DEF HandInv, EmptyHand
<1>7. BehindInv' /\ AdjudicationIsLast'
  BY <1>0, <1>1, <1>4 DEF BehindInv, AdjudicationIsLast
<1> QED
  BY <1>2, <1>5, <1>6, <1>7 DEF IInv

-----------------------------------------------------------------------------
(* Steps that move the checkpoint.                                          *)

(* The numbers the inductive invariant compares.                            *)
LEMMA RankType ==
  ASSUME NEW rev \in Nat, NEW op
  PROVE  OpRank(op) \in 0 .. 8 /\ Rank(rev, op) \in Nat
<1>1. OpRank(op) \in 0 .. 8
  BY DEF OpRank
<1> QED
  BY <1>1 DEF Rank

(* A checkpoint that moves on leaves every output behind.                   *)
LEMMA MovesOn ==
  ASSUME TypeOK, TypeOK', BehindInv, outputs' = outputs,
         \/ cp.unit < cp'.unit
         \/ cp.unit = cp'.unit /\ Rank(cp.rev, cp.node) < Rank(cp'.rev, cp'.node)
  PROVE  BehindInv'
<1>0. cp.unit \in Nat /\ cp.rev \in Nat /\ cp'.unit \in Nat /\ cp'.rev \in Nat
  BY DEF TypeOK, Checkpoint
<1>1. Rank(cp.rev, cp.node) \in Nat /\ Rank(cp'.rev, cp'.node) \in Nat
  BY <1>0, RankType
<1>2. ASSUME NEW v \in DOMAIN outputs
      PROVE  LET task == outputs[v].task
             IN  /\ \/ task.unit < cp'.unit
                    \/ /\ task.unit = cp'.unit
                       /\ Rank(task.rev, task.op) < Rank(cp'.rev, cp'.node)
                 /\ task # CurrentTask'
                 /\ outputs[v].verdict \in VerdictsOf(task.op)
                 /\ task.op \in Adjudications => task.rev = MaxRevisions
  <2> DEFINE task == outputs[v].task
  <2>1. task.unit \in Nat /\ task.rev \in Nat
    BY OutputsDomain DEF Output, Task, Units
  <2>2. Rank(task.rev, task.op) \in Nat
    BY <2>1, RankType
  <2>3. task = CurrentTask => task.unit = cp.unit /\ task.rev = cp.rev /\ task.op = cp.node
    BY DEF CurrentTask
  <2>4. \/ task.unit < cp.unit
        \/ task.unit = cp.unit /\ Rank(task.rev, task.op) <= Rank(cp.rev, cp.node)
    BY <1>1, <2>2, <2>3 DEF BehindInv
  <2>5. \/ task.unit < cp'.unit
        \/ task.unit = cp'.unit /\ Rank(task.rev, task.op) < Rank(cp'.rev, cp'.node)
    BY <1>0, <1>1, <2>1, <2>2, <2>4
  <2>6. task = CurrentTask' => task.unit = cp'.unit /\ task.rev = cp'.rev /\ task.op = cp'.node
    BY DEF CurrentTask
  <2>7. task # CurrentTask'
    BY <1>0, <1>1, <2>5, <2>6
  <2> QED
    BY <2>5, <2>7 DEF BehindInv
<1> QED
  BY <1>2 DEF BehindInv

(* A step of the unit in work that enters and accepts nothing.              *)
WorksOn ==
  /\ outputs' = outputs /\ hand' = EmptyHand
  /\ cp'.unit = cp.unit /\ cp'.bible = cp.bible /\ cp'.accepted = cp.accepted
  /\ cp.node \notin {"accept", "end"} /\ cp'.node \notin {"accept", "end"}
  /\ Rank(cp.rev, cp.node) < Rank(cp'.rev, cp'.node)

(* Such a step keeps the canon, and leaves every output behind it.          *)
LEMMA WorkKeepsCanon ==
  ASSUME IInv, TypeOK', WorksOn
  PROVE  /\ CanonInv' /\ AcceptedReviewed'
         /\ HandInv' /\ BehindInv' /\ AdjudicationIsLast'
<1> USE DEF WorksOn
<1>0. TypeOK /\ CanonInv /\ AcceptedReviewed /\ BehindInv /\ AdjudicationIsLast
  BY DEF IInv, HoldsCanon
<1>1. AcceptedDrafts' = AcceptedDrafts
  BY DEF AcceptedDrafts
<1>2. CanonInv'
  BY <1>0, <1>1 DEF CanonInv, BibleBefore
<1>3. AcceptedReviewed'
  BY <1>0 DEF AcceptedReviewed, BibleBefore
<1>4. HandInv' /\ AdjudicationIsLast'
  BY <1>0 DEF HandInv, EmptyHand, AdjudicationIsLast
<1>5. BehindInv'
  BY <1>0, MovesOn
<1> QED
  BY <1>2, <1>3, <1>4, <1>5

(* The cost of the units before is a number.                                *)
LEMMA StepsType ==
  ASSUME NEW unit \in Nat
  PROVE  /\ UnitSteps \in Nat /\ DialoguesSteps \in Nat
         /\ IsFiniteSet(DialogueUnits \cap 1 .. (unit - 1))
         /\ DialoguesBefore(unit) \in Nat
         /\ DialogueCost(unit) \in Nat
<1>1. UnitSteps \in Nat /\ DialoguesSteps \in Nat /\ DialogueCost(unit) \in Nat
  BY ProductionAssumption DEF UnitSteps, DialoguesSteps, Attempts, DialogueCost
<1>2. /\ IsFiniteSet(DialogueUnits \cap 1 .. (unit - 1))
      /\ DialoguesBefore(unit) \in Nat
  <2>1. IsFiniteSet(1 .. (unit - 1))
    BY FS_Interval
  <2>2. IsFiniteSet(DialogueUnits \cap 1 .. (unit - 1))
    BY <2>1, FS_Intersection
  <2> QED
    BY <2>2, FS_CardinalityType DEF DialoguesBefore
<1> QED
  BY <1>1, <1>2

(* The share of each node, and of a dialogue.                               *)
LEMMA NodeStepsOf ==
  ASSUME NEW cost \in Nat
  PROVE  /\ NodeSteps("draft", cost) = 0 /\ NodeSteps("end", cost) = 0
         /\ NodeSteps("dialogue_pass", cost) = 1
         /\ NodeSteps("dialogue_integration", cost) = 1 + DialogueSteps
         /\ NodeSteps("critique", cost) = 1 + cost
         /\ NodeSteps("continuity", cost) = 2 + cost
         /\ \A node \in Adjudications : NodeSteps(node, cost) = 3 + cost
         /\ NodeSteps("story_bible_update", cost) = 4 + cost
         /\ NodeSteps("accept", cost) = 5 + cost
  BY DEF NodeSteps, Adjudications

(* A dialogue costs its steps and the integration, in the units with one.   *)
LEMMA DialogueCostOf ==
  ASSUME NEW unit
  PROVE  /\ DialogueCost(unit) \in Nat
         /\ unit \in DialogueUnits => DialogueCost(unit) = DialogueSteps + 1
         /\ unit \notin DialogueUnits => DialogueCost(unit) = 0
  BY ProductionAssumption DEF DialogueCost

(* A node of the same revision stays within its share of the limit.         *)
LEMMA SameRevisionSteps ==
  ASSUME TypeOK, TypeOK', StepsInv, cp'.unit = cp.unit, cp'.rev = cp.rev,
         cp'.steps - cp.steps <= NodeSteps(cp'.node, DialogueCost(cp.unit))
                                 - NodeSteps(cp.node, DialogueCost(cp.unit))
  PROVE  StepsInv'
<1> DEFINE before == (cp.unit - 1) * UnitSteps + DialoguesBefore(cp.unit) * DialoguesSteps
           cost == DialogueCost(cp.unit)
           revisions == cp.rev * (3 + cost)
<1>1. cp.unit \in Nat /\ cp.rev \in Nat /\ cp.steps \in Nat /\ cp'.steps \in Nat
  BY DEF TypeOK, Checkpoint
<1>2. cost \in Nat /\ before \in Int /\ revisions \in Int
  <2>1. /\ cost \in Nat /\ UnitSteps \in Nat /\ DialoguesSteps \in Nat
        /\ DialoguesBefore(cp.unit) \in Nat
    BY <1>1, StepsType
  <2>2. before \in Int
    BY <1>1, <2>1
  <2>3. revisions \in Int
    <3> HIDE DEF cost
    <3> QED
      BY <1>1, <2>1
  <2> QED
    BY <2>1, <2>2, <2>3
<1>3. NodeSteps(cp.node, cost) \in Nat /\ NodeSteps(cp'.node, cost) \in Nat
  <2> HIDE DEF cost
  <2> QED
    BY <1>2, ProductionAssumption DEF NodeSteps
<1>4. cp.steps <= before + revisions + NodeSteps(cp.node, cost)
  BY DEF StepsInv
<1>5. cp'.steps <= before + revisions + NodeSteps(cp'.node, cost)
  <2> HIDE DEF before, cost, revisions
  <2>1. cp'.steps - cp.steps <= NodeSteps(cp'.node, cost) - NodeSteps(cp.node, cost)
    BY DEF cost
  <2> QED
    BY <1>1, <1>2, <1>3, <1>4, <2>1
<1> QED
  BY <1>5 DEF StepsInv, DialoguesBefore, DialogueCost

(* The nodes, by name.                                                      *)
LEMMA NodeNames ==
  /\ ProductionNodes =
       {"draft", "dialogue_pass", "dialogue_integration", "critique", "critic_adjudication",
        "continuity", "continuity_adjudication", "story_bible_update", "accept", "end"}
  /\ Ops = ProductionNodes \ {"dialogue_pass", "accept", "end"}
  BY DEF ProductionNodes, Ops, CritiqueOps, ContinuityOps, DraftOps

(* The verdicts, by the task they are given of.                             *)
LEMMA VerdictsByOp ==
  /\ \A op \in CritiqueOps : VerdictsOf(op) = CritiqueVerdicts
  /\ \A op \in ContinuityOps : VerdictsOf(op) = ContinuityVerdicts
  BY DEF VerdictsOf, CritiqueOps, ContinuityOps

(* Every conjunct of the invariant, by name.                                *)
LEMMA Parts ==
  ASSUME IInv
  PROVE  /\ TypeOK /\ HoldsOutputs /\ HoldsCanon /\ HandInv /\ BehindInv /\ AdjudicationIsLast
         /\ Position /\ DraftInv /\ CritiqueInv /\ ReportInv /\ PassedInv /\ PreviousInv
         /\ HistoryInv /\ CanonInv /\ AcceptedReviewed /\ StepsInv
  BY DEF IInv, HoldsOutputs, HoldsCanon

(* What a node holds is its output.                                         *)
LEMMA HeldOutput ==
  ASSUME IInv, NEW node \in Ops, Holds(node)
  PROVE  /\ ~ StateError /\ cp.node = node /\ cp.unit \in Units
         /\ hand.version \in DOMAIN outputs
         /\ outputs[hand.version].task = CurrentTask
         /\ Verdict \in VerdictsOf(node)
<1>1. ~ StateError /\ cp.node = node /\ hand # EmptyHand
  BY DEF Holds, Ready
<1>2. hand.version \in DOMAIN outputs /\ outputs[hand.version].task = CurrentTask
  BY <1>1, Parts DEF HandInv
<1>3. Verdict \in VerdictsOf(node)
  BY <1>1, <1>2, Parts DEF BehindInv, Verdict, CurrentTask
<1>4. cp.unit \in Units
  BY <1>1 DEF StateError, Ops, CritiqueOps, ContinuityOps, DraftOps
<1> QED
  BY <1>1, <1>2, <1>3, <1>4

(* A draft is about the current revision; the report it was asked to answer *)
(* is kept for the re-check.                                                *)
LEMMA DraftKeeps ==
  ASSUME IInv, Draft
  PROVE  IInv'
<1> DEFINE next == [cp EXCEPT
             !.draft = hand.version,
             !.continuity = NoVersion,
             !.pending = IF cp.rev = 0 THEN NoVersion ELSE PreviousContinuity,
             !.node = IF cp.unit \in DialogueUnits THEN "dialogue_pass" ELSE "critique"]
<1>1. /\ cp \in Checkpoint /\ hand.version \in Version
      /\ cp.node = "draft" /\ cp.unit \in Units /\ hand.version \in DOMAIN outputs
      /\ outputs[hand.version].task = CurrentTask
  BY Parts, HeldOutput DEF Draft, TypeOK, Ops, DraftOps
<1>2. next \in Checkpoint
  <2>1. PreviousContinuity \in Version
    BY <1>1 DEF PreviousContinuity, Checkpoint
  <2> QED
    BY <1>1, <2>1 DEF Checkpoint, NoVersion, Version, ProductionNodes, Ops, CritiqueOps
<1>3. /\ cp' = [next EXCEPT !.steps = @ + 1]
      /\ TypeOK' /\ outputs' = outputs /\ hand' = EmptyHand
  BY <1>2, Parts, CheckpointedType DEF Draft, Checkpointed
<1>4. /\ cp'.node = IF cp.unit \in DialogueUnits THEN "dialogue_pass" ELSE "critique"
      /\ cp'.unit = cp.unit /\ cp'.rev = cp.rev
      /\ cp'.draft = hand.version
      /\ cp'.pending = IF cp.rev = 0 THEN NoVersion ELSE PreviousContinuity
      /\ cp'.bible = cp.bible /\ cp'.accepted = cp.accepted /\ cp'.critiques = cp.critiques
      /\ cp'.adjCompleted = cp.adjCompleted
      /\ cp'.steps = cp.steps + 1
  BY <1>1, <1>3 DEF Checkpoint
<1> HIDE DEF next
<1>5. WorksOn
  BY <1>1, <1>3, <1>4 DEF WorksOn, Rank, OpRank, Checkpoint, Adjudications
<1>6. Position'
  BY <1>1, <1>4, Parts DEF Position, Passed, Adjudications, Dialogue, Units
<1>7. DraftInv'
  BY <1>1, <1>3, <1>4 DEF DraftInv, About, CurrentTask, DraftOps
<1>8. CritiqueInv' /\ ReportInv' /\ PassedInv'
  BY <1>4 DEF CritiqueInv, ReportInv, PassedInv, Criticised, Checked, Passed, Adjudications
<1>9. PreviousInv'
  <2>1. cp.rev > 0 => About(cp.continuity, {"continuity"}, cp.unit, cp.rev - 1)
    BY <1>1, Parts DEF PreviousInv, Checkpoint, Version
  <2>2. cp.rev > 0 => PreviousContinuity = cp.continuity
    BY <2>1, Parts, OutputsDomain DEF About, PreviousContinuity, NoVersion
  <2> QED
    BY <1>1, <1>3, <1>4, <2>1, <2>2 DEF PreviousInv, About, Checkpoint
<1>10. HistoryInv'
  BY <1>1, <1>3, <1>4, Parts DEF HistoryInv, Heard, About, Passed, Adjudications
<1>11. StepsInv'
  <2>1. cp'.steps - cp.steps = 1
    BY <1>1, <1>4 DEF Checkpoint
  <2>2. NodeSteps(cp'.node, DialogueCost(cp.unit)) - NodeSteps(cp.node, DialogueCost(cp.unit)) = 1
    BY <1>1, <1>4, DialogueCostOf, NodeStepsOf
  <2> QED
    BY <1>3, <1>4, <2>1, <2>2, Parts, SameRevisionSteps
<1> QED
  BY <1>3, <1>5, <1>6, <1>7, <1>8, <1>9, <1>10, <1>11, WorkKeepsCanon, Parts
     DEF IInv, HoldsOutputs, HoldsCanon

(* The dialogue pass changes no content of the checkpoint.                  *)
LEMMA DialoguePassKeeps ==
  ASSUME IInv, DialoguePass
  PROVE  IInv'
<1>0. PICK used \in 1 .. DialogueSteps :
        cp' = [cp EXCEPT !.node = "dialogue_integration", !.steps = @ + used]
  BY DEF DialoguePass
<1>1. /\ cp \in Checkpoint /\ cp.node = "dialogue_pass" /\ cp.unit \in DialogueUnits
      /\ outputs' = outputs /\ used \in Nat /\ used <= DialogueSteps
  BY Parts, ProductionAssumption DEF DialoguePass, TypeOK, Position, Dialogue
<1>2. hand = EmptyHand /\ hand' = EmptyHand
  BY <1>1, Parts DEF HandInv, DialoguePass, Ops, CritiqueOps, ContinuityOps, DraftOps
<1>3. TypeOK'
  <2>1. "dialogue_integration" \in ProductionNodes
    BY NodeNames
  <2>2. cp.steps + used \in Nat
    BY <1>1 DEF Checkpoint
  <2>3. cp' \in Checkpoint
    BY <1>0, <1>1, <2>1, <2>2 DEF Checkpoint
  <2> QED
    BY <2>3, Parts DEF TypeOK, DialoguePass
<1>4. /\ cp'.node = "dialogue_integration"
      /\ cp'.unit = cp.unit /\ cp'.rev = cp.rev
      /\ cp'.draft = cp.draft /\ cp'.pending = cp.pending
      /\ cp'.bible = cp.bible /\ cp'.accepted = cp.accepted /\ cp'.critiques = cp.critiques
      /\ cp'.adjCompleted = cp.adjCompleted
      /\ cp'.steps = cp.steps + used
  BY <1>0, <1>1 DEF Checkpoint
<1>5. WorksOn
  BY <1>1, <1>2, <1>4 DEF WorksOn, Rank, OpRank, Checkpoint, Adjudications
<1>6. Position'
  BY <1>1, <1>4, Parts DEF Position, Passed, Adjudications, Dialogue
<1>7. DraftInv'
  BY <1>1, <1>4, Parts DEF DraftInv, About, Drafted, ProductionNodes, Ops, DraftOps
<1>8. CritiqueInv' /\ ReportInv' /\ PassedInv'
  BY <1>4 DEF CritiqueInv, ReportInv, PassedInv, Criticised, Checked, Passed, Adjudications
<1>9. PreviousInv'
  BY <1>1, <1>4, Parts DEF PreviousInv, About, Dialogue
<1>10. HistoryInv'
  BY <1>1, <1>4, Parts DEF HistoryInv, Heard, About, Passed, Adjudications
<1>11. StepsInv'
  <2>1. cp'.steps - cp.steps <= DialogueSteps
    BY <1>1, <1>4, ProductionAssumption DEF Checkpoint
  <2>2. NodeSteps(cp'.node, DialogueCost(cp.unit)) - NodeSteps(cp.node, DialogueCost(cp.unit))
        = DialogueSteps
    BY <1>1, <1>4, ProductionAssumption, DialogueCostOf, NodeStepsOf
  <2> QED
    BY <1>3, <1>4, <2>1, <2>2, Parts, SameRevisionSteps
<1> QED
  BY <1>3, <1>5, <1>6, <1>7, <1>8, <1>9, <1>10, <1>11, WorkKeepsCanon, Parts
     DEF IInv, HoldsOutputs, HoldsCanon

(* An integrated draft replaces the one the dialogue was written for.       *)
LEMMA DialogueIntegrationKeeps ==
  ASSUME IInv, DialogueIntegration
  PROVE  IInv'
<1> DEFINE next == [cp EXCEPT !.draft = hand.version,
                              !.dialogueRuns = @ + 1,
                              !.node = "critique"]
<1>1. /\ cp \in Checkpoint /\ hand.version \in Version
      /\ cp.node = "dialogue_integration" /\ cp.unit \in Units /\ cp.unit \in DialogueUnits
      /\ hand.version \in DOMAIN outputs /\ outputs[hand.version].task = CurrentTask
  BY Parts, HeldOutput DEF DialogueIntegration, TypeOK, Ops, DraftOps, Position, Dialogue
<1>2. next \in Checkpoint
  <2>1. "critique" \in ProductionNodes
    BY NodeNames
  <2>2. cp.dialogueRuns + 1 \in Nat
    BY <1>1 DEF Checkpoint
  <2> QED
    BY <1>1, <2>1, <2>2 DEF Checkpoint
<1>3. /\ cp' = [next EXCEPT !.steps = @ + 1]
      /\ TypeOK' /\ outputs' = outputs /\ hand' = EmptyHand
  BY <1>2, Parts, CheckpointedType DEF DialogueIntegration, Checkpointed
<1>4. /\ cp'.node = "critique"
      /\ cp'.unit = cp.unit /\ cp'.rev = cp.rev
      /\ cp'.draft = hand.version /\ cp'.pending = cp.pending
      /\ cp'.bible = cp.bible /\ cp'.accepted = cp.accepted /\ cp'.critiques = cp.critiques
      /\ cp'.adjCompleted = cp.adjCompleted
      /\ cp'.steps = cp.steps + 1
  BY <1>1, <1>3 DEF Checkpoint
<1> HIDE DEF next
<1>5. WorksOn
  BY <1>1, <1>3, <1>4 DEF WorksOn, Rank, OpRank, Checkpoint, Adjudications
<1>6. Position'
  BY <1>1, <1>4, Parts DEF Position, Passed, Adjudications, Dialogue
<1>7. DraftInv'
  BY <1>1, <1>3, <1>4 DEF DraftInv, About, CurrentTask, DraftOps
<1>8. CritiqueInv' /\ ReportInv' /\ PassedInv'
  BY <1>4 DEF CritiqueInv, ReportInv, PassedInv, Criticised, Checked, Passed, Adjudications
<1>9. PreviousInv'
  BY <1>1, <1>3, <1>4, Parts DEF PreviousInv, About, Dialogue
<1>10. HistoryInv'
  BY <1>1, <1>3, <1>4, Parts DEF HistoryInv, Heard, About, Passed, Adjudications
<1>11. StepsInv'
  <2>1. cp'.steps - cp.steps = 1
    BY <1>1, <1>4 DEF Checkpoint
  <2>2. NodeSteps(cp'.node, DialogueCost(cp.unit)) - NodeSteps(cp.node, DialogueCost(cp.unit)) = 1
    BY <1>1, <1>4, ProductionAssumption, DialogueCostOf, NodeStepsOf
  <2> QED
    BY <1>3, <1>4, <2>1, <2>2, Parts, SameRevisionSteps
<1> QED
  BY <1>3, <1>5, <1>6, <1>7, <1>8, <1>9, <1>10, <1>11, WorkKeepsCanon, Parts
     DEF IInv, HoldsOutputs, HoldsCanon

(* A critique joins the list behind those of the revisions before.          *)
LEMMA CritiqueKeeps ==
  ASSUME IInv, Critique
  PROVE  IInv'
<1> DEFINE blocks == IF Blocking(Verdict) THEN Verdict ELSE "none"
           next == [cp EXCEPT
             !.critique = hand.version,
             !.reason = NoReason,
             !.requiresRevision = (Verdict # "pass"),
             !.blocking = blocks,
             !.critiques = Append(@, hand.version),
             !.node = "continuity"]
<1>1. /\ cp \in Checkpoint /\ hand.version \in Version
      /\ cp.node = "critique" /\ cp.unit \in Units
      /\ hand.version \in DOMAIN outputs /\ outputs[hand.version].task = CurrentTask
      /\ Verdict \in CritiqueVerdicts
  <2>1. Verdict \in VerdictsOf("critique") => Verdict \in CritiqueVerdicts
    BY VerdictsByOp DEF CritiqueOps
  <2> QED
    BY <2>1, Parts, HeldOutput DEF Critique, TypeOK, Ops, CritiqueOps
<1>2. next \in Checkpoint
  <2>1. "continuity" \in ProductionNodes
    BY NodeNames
  <2>2. cp.critiques \in Seq(Version) /\ Append(cp.critiques, hand.version) \in Seq(Version)
    BY <1>1, AppendProperties DEF Checkpoint
  <2>3. blocks \in {"none", "adjudicable", "hard"}
    BY <1>1 DEF Blocking, CritiqueVerdicts
  <2> HIDE DEF blocks
  <2> QED
    BY <1>1, <2>1, <2>2, <2>3 DEF Checkpoint
<1>3. /\ cp' = [next EXCEPT !.steps = @ + 1]
      /\ TypeOK' /\ outputs' = outputs /\ hand' = EmptyHand
  BY <1>2, Parts, CheckpointedType DEF Critique, Checkpointed
<1>4. /\ cp'.node = "continuity"
      /\ cp'.unit = cp.unit /\ cp'.rev = cp.rev
      /\ cp'.draft = cp.draft /\ cp'.critique = hand.version /\ cp'.pending = cp.pending
      /\ cp'.requiresRevision = (Verdict # "pass") /\ cp'.blocking = blocks
      /\ cp'.bible = cp.bible /\ cp'.accepted = cp.accepted
      /\ cp'.critiques = Append(cp.critiques, hand.version)
      /\ cp'.adjCompleted = cp.adjCompleted
      /\ cp'.steps = cp.steps + 1
  <2> HIDE DEF blocks
  <2> QED
    BY <1>1, <1>3 DEF Checkpoint
<1> HIDE DEF next
<1>5. WorksOn
  BY <1>1, <1>3, <1>4 DEF WorksOn, Rank, OpRank, Checkpoint, Adjudications
<1>6. Position'
  BY <1>1, <1>4, Parts DEF Position, Passed, Adjudications, Dialogue
<1>7. DraftInv'
  BY <1>1, <1>3, <1>4, Parts, NodeNames DEF DraftInv, About, Drafted
<1>8. CritiqueInv' /\ ReportInv' /\ PassedInv'
  <2>1. cp.draft \in CurrentTask.inputs
    BY <1>1 DEF CurrentTask, Inputs
  <2>2. CurrentTask.op = "critique" /\ CurrentTask.unit = cp.unit /\ CurrentTask.rev = cp.rev
    BY <1>1 DEF CurrentTask
  <2>3. CritiqueInv'
    BY <1>1, <1>3, <1>4, <2>1, <2>2 DEF CritiqueInv, About, CritiqueOps, Verdict
  <2> QED
    BY <1>4, <2>3 DEF ReportInv, PassedInv, Checked, Passed, Adjudications
<1>9. PreviousInv'
  BY <1>1, <1>3, <1>4, Parts DEF PreviousInv, About, Dialogue
<1>10. HistoryInv'
  <2> DEFINE L == Len(cp.critiques)
  <2>1. L \in Nat /\ cp.rev \in Nat /\ cp.critiques \in Seq(Version)
    BY <1>1, LenProperties DEF Checkpoint
  <2>2. /\ cp.rev <= L
        /\ \A k \in 1 .. cp.rev :
             About(cp.critiques[L - cp.rev + k], {"critique"}, cp.unit, k - 1)
    BY <1>1, Parts DEF HistoryInv, Heard, Passed, Adjudications
  <2>3. /\ Len(cp'.critiques) = L + 1
        /\ \A k \in 1 .. L : cp'.critiques[k] = cp.critiques[k]
        /\ cp'.critiques[L + 1] = hand.version
    BY <1>1, <1>4, <2>1, AppendProperties
  <2>4. Heard' = cp.rev + 1
    BY <1>4 DEF Heard
  <2>5. ASSUME NEW k \in 1 .. Heard'
        PROVE  LET v == cp'.critiques[Len(cp'.critiques) - Heard' + k]
               IN  /\ v \in DOMAIN outputs
                   /\ outputs[v].task.op = "critique"
                   /\ outputs[v].task.unit = cp.unit /\ outputs[v].task.rev = k - 1
    <3> HIDE DEF L
    <3>1. Len(cp'.critiques) - Heard' + k = L - cp.rev + k
      BY <2>1, <2>3, <2>4
    <3>2. CASE k \in 1 .. cp.rev
      <4>1. L - cp.rev + k \in 1 .. L
        BY <2>1, <2>2, <3>2
      <4> QED
        BY <2>2, <2>3, <3>1, <3>2, <4>1 DEF About
    <3>3. CASE k = cp.rev + 1
      <4>1. L - cp.rev + k = L + 1 /\ k - 1 = cp.rev
        BY <2>1, <3>3
      <4> QED
        BY <1>1, <2>3, <3>1, <4>1 DEF CurrentTask
    <3> QED
      BY <2>1, <2>4, <3>2, <3>3
  <2>6. Heard' <= Len(cp'.critiques)
    BY <2>1, <2>2, <2>3, <2>4
  <2> QED
    BY <1>3, <1>4, <2>5, <2>6 DEF HistoryInv, About
<1>11. StepsInv'
  <2>1. cp'.steps - cp.steps = 1
    BY <1>1, <1>4 DEF Checkpoint
  <2>2. NodeSteps(cp'.node, DialogueCost(cp.unit)) - NodeSteps(cp.node, DialogueCost(cp.unit)) = 1
    BY <1>1, <1>4, DialogueCostOf, NodeStepsOf
  <2> QED
    BY <1>3, <1>4, <2>1, <2>2, Parts, SameRevisionSteps
<1> QED
  BY <1>3, <1>5, <1>6, <1>7, <1>8, <1>9, <1>10, <1>11, WorkKeepsCanon, Parts
     DEF IInv, HoldsOutputs, HoldsCanon

(* The checkpoint of every outcome of a continuity check.                   *)
CheckedCheckpoint ==
  [cp EXCEPT !.continuity = hand.version, !.pending = NoVersion, !.adjRequired = FALSE,
             !.reports = Append(@, hand.version)]

(* What a continuity checker reports is about the current draft, with the   *)
(* Story Bible as it was before this unit.                                  *)
LEMMA HeldReport ==
  ASSUME IInv, Holds("continuity")
  PROVE  /\ cp \in Checkpoint /\ CheckedCheckpoint \in Checkpoint
         /\ hand.version \in Version /\ cp.node = "continuity" /\ cp.unit \in Units
         /\ Verdict \in ContinuityVerdicts
         /\ About(hand.version, {"continuity"}, cp.unit, cp.rev)
         /\ {cp.draft, BibleBefore(cp.unit)} \subseteq outputs[hand.version].task.inputs
<1>1. /\ cp \in Checkpoint /\ hand.version \in Version
      /\ cp.node = "continuity" /\ cp.unit \in Units
      /\ hand.version \in DOMAIN outputs /\ outputs[hand.version].task = CurrentTask
      /\ Verdict \in ContinuityVerdicts
  <2>1. Verdict \in VerdictsOf("continuity") => Verdict \in ContinuityVerdicts
    BY VerdictsByOp DEF ContinuityOps
  <2> QED
    BY <2>1, Parts, HeldOutput, NodeNames DEF TypeOK
<1>2. CheckedCheckpoint \in Checkpoint
  <2>1. cp.reports \in Seq(Version) /\ Append(cp.reports, hand.version) \in Seq(Version)
    BY <1>1, AppendProperties DEF Checkpoint
  <2> QED
    BY <1>1, <2>1 DEF CheckedCheckpoint, Checkpoint, NoVersion, Version
<1>3. cp.bible = BibleBefore(cp.unit)
  BY <1>1, Parts DEF CanonInv
<1>4. {cp.draft, BibleBefore(cp.unit)} \subseteq CurrentTask.inputs
  BY <1>1, <1>3 DEF CurrentTask, Inputs
<1> QED
  BY <1>1, <1>2, <1>4 DEF About, CurrentTask

(* An eligible conflict is adjudicated at the last revision.                *)
LEMMA AdjudicateKeeps ==
  ASSUME IInv, Holds("continuity"), Eligible(Verdict),
         Checkpointed([CheckedCheckpoint EXCEPT
           !.adjRequired = TRUE,
           !.node = IF cp.blocking # "none" THEN "critic_adjudication"
                    ELSE "continuity_adjudication"])
  PROVE  IInv'
<1> DEFINE node == IF cp.blocking # "none" THEN "critic_adjudication"
                   ELSE "continuity_adjudication"
           next == [CheckedCheckpoint EXCEPT !.adjRequired = TRUE, !.node = node]
<1>1. /\ cp \in Checkpoint /\ CheckedCheckpoint \in Checkpoint
      /\ hand.version \in Version /\ cp.node = "continuity" /\ cp.unit \in Units
      /\ Verdict \in ContinuityVerdicts
      /\ About(hand.version, {"continuity"}, cp.unit, cp.rev)
      /\ {cp.draft, BibleBefore(cp.unit)} \subseteq outputs[hand.version].task.inputs
  BY HeldReport
<1>2. node \in Adjudications /\ node \in ProductionNodes
  BY NodeNames DEF Adjudications
<1>3. next \in Checkpoint
  <2> HIDE DEF node
  <2> QED
    BY <1>1, <1>2 DEF Checkpoint
<1>4. /\ cp' = [next EXCEPT !.steps = @ + 1]
      /\ TypeOK' /\ outputs' = outputs /\ hand' = EmptyHand
  BY <1>3, Parts, CheckpointedType DEF Checkpointed
<1>5. /\ cp'.node = node
      /\ cp'.unit = cp.unit /\ cp'.rev = cp.rev
      /\ cp'.draft = cp.draft /\ cp'.critique = cp.critique /\ cp'.continuity = hand.version
      /\ cp'.requiresRevision = cp.requiresRevision /\ cp'.blocking = cp.blocking
      /\ cp'.bible = cp.bible /\ cp'.accepted = cp.accepted /\ cp'.critiques = cp.critiques
      /\ cp'.adjRequired = TRUE /\ cp'.adjCompleted = cp.adjCompleted
      /\ cp'.steps = cp.steps + 1
  <2> HIDE DEF node
  <2> QED
    BY <1>1, <1>4 DEF CheckedCheckpoint, Checkpoint
<1> HIDE DEF next
<1>6. /\ cp.rev = MaxRevisions /\ ~ cp.adjCompleted
      /\ \/ node = "critic_adjudication" /\ cp.blocking = "adjudicable" /\ cp.rev > 0
            /\ ~ Blockers(Verdict)
         \/ node = "continuity_adjudication" /\ cp.blocking = "none"
  <2>1. cp.rev \in Nat /\ cp.rev <= MaxRevisions /\ cp.rev >= MaxRevisions
    BY <1>1, Parts DEF Eligible, Position, Checkpoint
  <2>2. cp.rev = MaxRevisions
    BY <2>1, ProductionAssumption
  <2> QED
    BY <2>2 DEF Eligible
<1>7. WorksOn
  <2>1. OpRank(node) = 6 /\ OpRank("continuity") = 5
    BY <1>2 DEF OpRank, Adjudications
  <2> HIDE DEF node
  <2>2. cp.rev \in Nat
    BY <1>1 DEF Checkpoint
  <2>3. Rank(cp.rev, "continuity") < Rank(cp.rev, node)
    BY <2>1, <2>2 DEF Rank
  <2> QED
    BY <1>1, <1>2, <1>4, <1>5, <2>3 DEF WorksOn, Adjudications
<1> HIDE DEF node
<1>8. Position'
  BY <1>1, <1>2, <1>5, <1>6, Parts DEF Position, Passed, Adjudications, Dialogue
<1>9. DraftInv'
  BY <1>1, <1>2, <1>4, <1>5, Parts, NodeNames DEF DraftInv, About, Drafted, Adjudications
<1>10. CritiqueInv' /\ ReportInv' /\ PassedInv'
  <2>1. CritiqueInv'
    BY <1>1, <1>4, <1>5, Parts DEF CritiqueInv, About, Criticised
  <2>2. BibleBefore(cp.unit)' = BibleBefore(cp.unit)
    BY <1>5 DEF BibleBefore
  <2>3. ReportInv'
    BY <1>1, <1>4, <1>5, <1>6, <2>2 DEF ReportInv, About, ContinuityOps, Verdict
  <2> QED
    BY <1>2, <1>5, <2>1, <2>3 DEF PassedInv, Passed, Adjudications
<1>11. PreviousInv'
  BY <1>2, <1>5 DEF PreviousInv, Dialogue, Adjudications
<1>12. HistoryInv'
  <2>1. Heard' = Heard
    BY <1>1, <1>2, <1>5 DEF Heard
  <2>2. cp.node \notin Passed \cup {"end"}
    BY <1>1 DEF Passed
  <2> QED
    BY <1>4, <1>5, <2>1, <2>2, Parts DEF HistoryInv, About
<1>13. StepsInv'
  <2>1. cp'.steps - cp.steps = 1
    BY <1>1, <1>5 DEF Checkpoint
  <2>2. NodeSteps(cp'.node, DialogueCost(cp.unit)) - NodeSteps(cp.node, DialogueCost(cp.unit)) = 1
    BY <1>1, <1>2, <1>5, DialogueCostOf, NodeStepsOf
  <2> QED
    BY <1>4, <1>5, <2>1, <2>2, Parts, SameRevisionSteps
<1> QED
  BY <1>4, <1>7, <1>8, <1>9, <1>10, <1>11, <1>12, <1>13, WorkKeepsCanon, Parts
     DEF IInv, HoldsOutputs, HoldsCanon

(* A revision costs what its nodes may count.                               *)
LEMMA NextRevisionSteps ==
  ASSUME TypeOK, TypeOK', StepsInv, cp.node = "continuity", cp'.node = "draft",
         cp'.unit = cp.unit, cp'.rev = cp.rev + 1, cp'.steps = cp.steps + 1
  PROVE  StepsInv'
<1> DEFINE before == (cp.unit - 1) * UnitSteps + DialoguesBefore(cp.unit) * DialoguesSteps
           cost == DialogueCost(cp.unit)
<1>1. cp.unit \in Nat /\ cp.rev \in Nat /\ cp.steps \in Nat
  BY DEF TypeOK, Checkpoint
<1>2. cost \in Nat /\ before \in Int
  <2>1. /\ cost \in Nat /\ UnitSteps \in Nat /\ DialoguesSteps \in Nat
        /\ DialoguesBefore(cp.unit) \in Nat
    BY <1>1, StepsType
  <2> QED
    BY <1>1, <2>1
<1>3. NodeSteps(cp.node, cost) = 2 + cost /\ NodeSteps(cp'.node, cost) = 0
  BY <1>2, NodeStepsOf
<1>4. cp.steps <= before + cp.rev * (3 + cost) + NodeSteps(cp.node, cost)
  BY DEF StepsInv
<1>5. cp'.steps <= before + cp'.rev * (3 + cost) + NodeSteps(cp'.node, cost)
  <2> HIDE DEF before, cost
  <2>1. (cp.rev + 1) * (3 + cost) = cp.rev * (3 + cost) + 3 + cost
    BY <1>1, <1>2
  <2>2. cp.rev * (3 + cost) \in Int
    BY <1>1, <1>2
  <2> QED
    BY <1>1, <1>2, <1>3, <1>4, <2>1, <2>2
<1> QED
  BY <1>5 DEF StepsInv, DialoguesBefore, DialogueCost

(* A revision starts from the draft, the critique and the report that       *)
(* asked for it.                                                            *)
LEMMA ReviseKeeps ==
  ASSUME IInv, Holds("continuity"), NeedsRevision(Verdict),
         Checkpointed([CheckedCheckpoint EXCEPT !.rev = @ + 1, !.reason = NoReason,
                                                !.node = "draft"])
  PROVE  IInv'
<1> DEFINE next == [CheckedCheckpoint EXCEPT !.rev = @ + 1, !.reason = NoReason,
                                             !.node = "draft"]
<1>1. /\ cp \in Checkpoint /\ CheckedCheckpoint \in Checkpoint
      /\ hand.version \in Version /\ cp.node = "continuity" /\ cp.unit \in Units
      /\ About(hand.version, {"continuity"}, cp.unit, cp.rev)
  BY HeldReport
<1>2. next \in Checkpoint
  <2>1. "draft" \in ProductionNodes /\ CheckedCheckpoint.rev + 1 \in Nat
    BY <1>1, NodeNames DEF Checkpoint
  <2> QED
    BY <1>1, <2>1 DEF Checkpoint
<1>3. /\ cp' = [next EXCEPT !.steps = @ + 1]
      /\ TypeOK' /\ outputs' = outputs /\ hand' = EmptyHand
  BY <1>2, Parts, CheckpointedType DEF Checkpointed
<1>4. /\ cp'.node = "draft"
      /\ cp'.unit = cp.unit /\ cp'.rev = cp.rev + 1
      /\ cp'.draft = cp.draft /\ cp'.critique = cp.critique /\ cp'.continuity = hand.version
      /\ cp'.pending = NoVersion
      /\ cp'.bible = cp.bible /\ cp'.accepted = cp.accepted /\ cp'.critiques = cp.critiques
      /\ cp'.adjCompleted = cp.adjCompleted
      /\ cp'.steps = cp.steps + 1
  BY <1>1, <1>3 DEF CheckedCheckpoint, Checkpoint
<1> HIDE DEF next
<1>5. WorksOn
  <2>1. cp.rev \in Nat
    BY <1>1 DEF Checkpoint
  <2>2. Rank(cp.rev, "continuity") < Rank(cp.rev + 1, "draft")
    BY <2>1 DEF Rank, OpRank, Adjudications
  <2> QED
    BY <1>1, <1>3, <1>4, <2>2 DEF WorksOn
<1>6. Position'
  <2>0. cp.rev \in Nat /\ cp.rev < MaxRevisions
    BY <1>1 DEF NeedsRevision, Checkpoint
  <2>1. cp.rev + 1 <= MaxRevisions
    BY <2>0, ProductionAssumption
  <2>2. ~ cp.adjCompleted
    BY <1>1, Parts DEF Position, Passed
  <2>3. /\ cp.unit = Len(cp.accepted) + 1 /\ cp.unit <= NumUnits + 1
        /\ cp.unit # NumUnits + 1
    BY <1>1, Parts DEF Position
  <2> QED
    BY <1>4, <2>1, <2>2, <2>3 DEF Position, Adjudications, Dialogue
<1>7. DraftInv'
  BY <1>1, <1>3, <1>4, Parts, NodeNames
     DEF DraftInv, CritiqueInv, About, Drafted, Criticised
<1>8. CritiqueInv' /\ ReportInv' /\ PassedInv'
  BY <1>4 DEF CritiqueInv, ReportInv, PassedInv, Criticised, Checked, Passed, Adjudications
<1>9. PreviousInv'
  <2>0. cp.rev \in Nat
    BY <1>1 DEF Checkpoint
  <2>1. cp'.rev # 0 /\ cp'.rev - 1 = cp.rev
    BY <1>4, <2>0
  <2> QED
    BY <1>1, <1>3, <1>4, <2>1 DEF PreviousInv, About, Dialogue
<1>10. HistoryInv'
  <2>1. Heard' = Heard
    BY <1>1, <1>4 DEF Heard, Adjudications
  <2>2. cp.node \notin Passed \cup {"end"}
    BY <1>1 DEF Passed
  <2> QED
    BY <1>3, <1>4, <2>1, <2>2, Parts DEF HistoryInv, About
<1>11. StepsInv'
  BY <1>1, <1>3, <1>4, Parts, NextRevisionSteps
<1> QED
  BY <1>3, <1>5, <1>6, <1>7, <1>8, <1>9, <1>10, <1>11, WorkKeepsCanon, Parts
     DEF IInv, HoldsOutputs, HoldsCanon

(* A draft that neither review stops, or only a critic at the last          *)
(* revision, goes on to the Story Bible.                                    *)
LEMMA PassKeeps ==
  ASSUME IInv, Holds("continuity"),
         ~ Eligible(Verdict), ~ Terminal(Verdict), ~ NeedsRevision(Verdict),
         Checkpointed([CheckedCheckpoint EXCEPT !.reason = Reviewed(cp.requiresRevision),
                                                !.node = "story_bible_update"])
  PROVE  IInv'
<1> DEFINE next == [CheckedCheckpoint EXCEPT !.reason = Reviewed(cp.requiresRevision),
                                             !.node = "story_bible_update"]
<1>1. /\ cp \in Checkpoint /\ CheckedCheckpoint \in Checkpoint
      /\ hand.version \in Version /\ cp.node = "continuity" /\ cp.unit \in Units
      /\ About(hand.version, {"continuity"}, cp.unit, cp.rev)
      /\ {cp.draft, BibleBefore(cp.unit)} \subseteq outputs[hand.version].task.inputs
  BY HeldReport
<1>2. next \in Checkpoint
  <2>1. /\ "story_bible_update" \in ProductionNodes
        /\ Reviewed(cp.requiresRevision) \in AcceptanceReasons
    BY NodeNames DEF Reviewed, AcceptanceReasons
  <2> QED
    BY <1>1, <2>1 DEF Checkpoint
<1>3. /\ cp' = [next EXCEPT !.steps = @ + 1]
      /\ TypeOK' /\ outputs' = outputs /\ hand' = EmptyHand
  BY <1>2, Parts, CheckpointedType DEF Checkpointed
<1>4. /\ cp'.node = "story_bible_update"
      /\ cp'.unit = cp.unit /\ cp'.rev = cp.rev
      /\ cp'.draft = cp.draft /\ cp'.critique = cp.critique /\ cp'.continuity = hand.version
      /\ cp'.requiresRevision = cp.requiresRevision /\ cp'.blocking = cp.blocking
      /\ cp'.reason = Reviewed(cp.requiresRevision)
      /\ cp'.bible = cp.bible /\ cp'.accepted = cp.accepted
      /\ cp'.steps = cp.steps + 1
  BY <1>1, <1>3 DEF CheckedCheckpoint, Checkpoint
<1> HIDE DEF next
<1>5. WorksOn
  <2>1. cp.rev \in Nat
    BY <1>1 DEF Checkpoint
  <2>2. Rank(cp.rev, "continuity") < Rank(cp.rev, "story_bible_update")
    BY <2>1 DEF Rank, OpRank, Adjudications
  <2> QED
    BY <1>1, <1>3, <1>4, <2>2 DEF WorksOn
<1>6. Position'
  BY <1>1, <1>4, Parts DEF Position, Passed, Adjudications, Dialogue
<1>7. DraftInv'
  BY <1>1, <1>3, <1>4, Parts, NodeNames DEF DraftInv, About, Drafted
<1>8. CritiqueInv'
  BY <1>1, <1>3, <1>4, Parts DEF CritiqueInv, About, Criticised
<1>9. ReportInv'
  <2>1. BibleBefore(cp.unit)' = BibleBefore(cp.unit)
    BY <1>4 DEF BibleBefore
  <2> QED
    BY <1>1, <1>3, <1>4, <2>1 DEF ReportInv, About, ContinuityOps
<1>10. PassedInv'
  <2>1. cp.rev \in Nat /\ cp.rev <= MaxRevisions /\ MaxRevisions \in Nat
    BY <1>1, Parts, ProductionAssumption DEF Position, Checkpoint
  <2>2. ~ cp.requiresRevision => cp.blocking = "none"
    BY <1>1, Parts DEF CritiqueInv, Criticised, Blocking
  <2>3. CASE cp.rev < MaxRevisions
    <3>1. ~ Blockers(Verdict) /\ ~ cp.requiresRevision
      BY <2>3 DEF NeedsRevision
    <3> QED
      BY <1>3, <1>4, <2>2, <3>1 DEF PassedInv, Verdict
  <2>4. CASE cp.rev = MaxRevisions
    <3>1. ~ Blockers(Verdict) /\ cp.blocking = "none"
      BY <2>1, <2>4 DEF Terminal
    <3> QED
      BY <1>3, <1>4, <2>4, <3>1 DEF PassedInv, Verdict
  <2> QED
    BY <2>1, <2>3, <2>4
<1>11. PreviousInv' /\ HistoryInv'
  BY <1>4 DEF PreviousInv, HistoryInv, Dialogue, Passed
<1>12. StepsInv'
  <2>1. cp'.steps - cp.steps = 1
    BY <1>1, <1>4 DEF Checkpoint
  <2>2. NodeSteps(cp'.node, DialogueCost(cp.unit)) - NodeSteps(cp.node, DialogueCost(cp.unit)) = 2
    BY <1>1, <1>4, DialogueCostOf, NodeStepsOf
  <2> QED
    BY <1>3, <1>4, <2>1, <2>2, Parts, SameRevisionSteps
<1> QED
  BY <1>3, <1>5, <1>6, <1>7, <1>8, <1>9, <1>10, <1>11, <1>12, WorkKeepsCanon, Parts
     DEF IInv, HoldsOutputs, HoldsCanon

(* A critic overruled at the last revision leaves a draft whose report is   *)
(* clear.                                                                   *)
LEMMA CriticAdjudicationKeeps ==
  ASSUME IInv, CriticAdjudication
  PROVE  IInv'
<1>0. CASE RejectUnit
  BY <1>0, RestKeeps
<1>a. CASE ~ Blocking(Verdict) /\ ~ RejectUnit
  <2> DEFINE next == [cp EXCEPT
               !.critique = hand.version,
               !.critiques = Append(@, hand.version),
               !.blocking = "none",
               !.requiresRevision = (Verdict # "pass"),
               !.adjRequired = FALSE, !.adjCompleted = TRUE,
               !.reason = Reviewed(Verdict # "pass"),
               !.node = "story_bible_update"]
  <2>1. /\ cp \in Checkpoint /\ hand.version \in Version
        /\ cp.node = "critic_adjudication" /\ cp.unit \in Units
        /\ hand.version \in DOMAIN outputs /\ outputs[hand.version].task = CurrentTask
    BY Parts, HeldOutput, NodeNames DEF CriticAdjudication, TypeOK
  <2>2. next \in Checkpoint
    <3>1. /\ "story_bible_update" \in ProductionNodes
          /\ Reviewed(Verdict # "pass") \in AcceptanceReasons
      BY NodeNames DEF Reviewed, AcceptanceReasons
    <3>2. Append(cp.critiques, hand.version) \in Seq(Version)
      BY <2>1, AppendProperties DEF Checkpoint
    <3> QED
      BY <2>1, <3>1, <3>2 DEF Checkpoint
  <2>3. /\ cp' = [next EXCEPT !.steps = @ + 1]
        /\ TypeOK' /\ outputs' = outputs /\ hand' = EmptyHand
    BY <1>a, <2>2, Parts, CheckpointedType DEF CriticAdjudication, Checkpointed
  <2>4. /\ cp'.node = "story_bible_update"
        /\ cp'.unit = cp.unit /\ cp'.rev = cp.rev
        /\ cp'.draft = cp.draft /\ cp'.critique = hand.version /\ cp'.continuity = cp.continuity
        /\ cp'.requiresRevision = (Verdict # "pass") /\ cp'.blocking = "none"
        /\ cp'.reason = Reviewed(Verdict # "pass")
        /\ cp'.bible = cp.bible /\ cp'.accepted = cp.accepted
        /\ cp'.steps = cp.steps + 1
    BY <2>1, <2>3 DEF Checkpoint
  <2> HIDE DEF next
  <2>5. WorksOn
    <3>1. cp.rev \in Nat
      BY <2>1 DEF Checkpoint
    <3>2. Rank(cp.rev, "critic_adjudication") < Rank(cp.rev, "story_bible_update")
      BY <3>1 DEF Rank, OpRank, Adjudications
    <3> QED
      BY <2>1, <2>3, <2>4, <3>2 DEF WorksOn
  <2>6. Position'
    BY <2>1, <2>4, Parts DEF Position, Passed, Adjudications, Dialogue
  <2>7. DraftInv'
    BY <2>1, <2>3, <2>4, Parts, NodeNames DEF DraftInv, About, Drafted
  <2>8. CritiqueInv'
    <3>1. cp.draft \in CurrentTask.inputs
      BY <2>1 DEF CurrentTask, Inputs
    <3>2. /\ CurrentTask.op = "critic_adjudication"
          /\ CurrentTask.unit = cp.unit /\ CurrentTask.rev = cp.rev
      BY <2>1 DEF CurrentTask
    <3> QED
      BY <1>a, <2>1, <2>3, <2>4, <3>1, <3>2 DEF CritiqueInv, About, CritiqueOps, Verdict
  <2>9. ReportInv' /\ PassedInv'
    <3>1. BibleBefore(cp.unit)' = BibleBefore(cp.unit)
      BY <2>4 DEF BibleBefore
    <3>2. ReportInv'
      BY <2>1, <2>3, <2>4, <3>1, Parts DEF ReportInv, About, Checked, Adjudications
    <3>3. cp.rev = MaxRevisions /\ ~ Blockers(outputs[cp.continuity].verdict)
      BY <2>1, Parts DEF Position, ReportInv, Adjudications
    <3> QED
      BY <2>3, <2>4, <3>2, <3>3 DEF PassedInv
  <2>10. PreviousInv' /\ HistoryInv'
    BY <2>4 DEF PreviousInv, HistoryInv, Dialogue, Passed
  <2>11. StepsInv'
    <3>1. cp'.steps - cp.steps = 1
      BY <2>1, <2>4 DEF Checkpoint
    <3>2. NodeSteps(cp'.node, DialogueCost(cp.unit)) - NodeSteps(cp.node, DialogueCost(cp.unit))
          = 1
      BY <2>1, <2>4, DialogueCostOf, NodeStepsOf DEF Adjudications
    <3> QED
      BY <2>3, <2>4, <3>1, <3>2, Parts, SameRevisionSteps
  <2> QED
    BY <2>3, <2>5, <2>6, <2>7, <2>8, <2>9, <2>10, <2>11, WorkKeepsCanon, Parts
       DEF IInv, HoldsOutputs, HoldsCanon
<1> QED
  BY <1>0, <1>a DEF CriticAdjudication

(* So does a continuity report overruled there.                             *)
LEMMA ContinuityAdjudicationKeeps ==
  ASSUME IInv, ContinuityAdjudication
  PROVE  IInv'
<1>0. CASE RejectUnit
  BY <1>0, RestKeeps
<1>a. CASE ~ Terminal(Verdict) /\ ~ RejectUnit
  <2> DEFINE next == [cp EXCEPT
               !.continuity = hand.version,
               !.reports = Append(@, hand.version),
               !.adjRequired = FALSE, !.adjCompleted = TRUE,
               !.reason = Reviewed(cp.requiresRevision),
               !.node = "story_bible_update"]
  <2>1. /\ cp \in Checkpoint /\ hand.version \in Version
        /\ cp.node = "continuity_adjudication" /\ cp.unit \in Units
        /\ hand.version \in DOMAIN outputs /\ outputs[hand.version].task = CurrentTask
    BY Parts, HeldOutput, NodeNames DEF ContinuityAdjudication, TypeOK
  <2>2. next \in Checkpoint
    <3>1. /\ "story_bible_update" \in ProductionNodes
          /\ Reviewed(cp.requiresRevision) \in AcceptanceReasons
      BY NodeNames DEF Reviewed, AcceptanceReasons
    <3>2. Append(cp.reports, hand.version) \in Seq(Version)
      BY <2>1, AppendProperties DEF Checkpoint
    <3> QED
      BY <2>1, <3>1, <3>2 DEF Checkpoint
  <2>3. /\ cp' = [next EXCEPT !.steps = @ + 1]
        /\ TypeOK' /\ outputs' = outputs /\ hand' = EmptyHand
    BY <1>a, <2>2, Parts, CheckpointedType DEF ContinuityAdjudication, Checkpointed
  <2>4. /\ cp'.node = "story_bible_update"
        /\ cp'.unit = cp.unit /\ cp'.rev = cp.rev
        /\ cp'.draft = cp.draft /\ cp'.critique = cp.critique /\ cp'.continuity = hand.version
        /\ cp'.requiresRevision = cp.requiresRevision /\ cp'.blocking = cp.blocking
        /\ cp'.reason = Reviewed(cp.requiresRevision)
        /\ cp'.bible = cp.bible /\ cp'.accepted = cp.accepted
        /\ cp'.steps = cp.steps + 1
    BY <2>1, <2>3 DEF Checkpoint
  <2> HIDE DEF next
  <2>5. WorksOn
    <3>1. cp.rev \in Nat
      BY <2>1 DEF Checkpoint
    <3>2. Rank(cp.rev, "continuity_adjudication") < Rank(cp.rev, "story_bible_update")
      BY <3>1 DEF Rank, OpRank, Adjudications
    <3> QED
      BY <2>1, <2>3, <2>4, <3>2 DEF WorksOn
  <2>6. Position'
    BY <2>1, <2>4, Parts DEF Position, Passed, Adjudications, Dialogue
  <2>7. DraftInv'
    BY <2>1, <2>3, <2>4, Parts, NodeNames DEF DraftInv, About, Drafted
  <2>8. CritiqueInv'
    BY <2>1, <2>3, <2>4, Parts DEF CritiqueInv, About, Criticised, Adjudications
  <2>9. ReportInv' /\ PassedInv'
    <3>1. BibleBefore(cp.unit)' = BibleBefore(cp.unit) /\ cp.bible = BibleBefore(cp.unit)
      BY <2>1, <2>4, Parts DEF BibleBefore, CanonInv
    <3>2. {cp.draft, cp.bible} \subseteq CurrentTask.inputs
      BY <2>1 DEF CurrentTask, Inputs
    <3>3. /\ CurrentTask.op = "continuity_adjudication"
          /\ CurrentTask.unit = cp.unit /\ CurrentTask.rev = cp.rev
      BY <2>1 DEF CurrentTask
    <3>4. ReportInv'
      BY <2>1, <2>3, <2>4, <3>1, <3>2, <3>3 DEF ReportInv, About, ContinuityOps
    <3>5. cp.rev = MaxRevisions /\ cp.blocking = "none"
      BY <2>1, Parts DEF Position, ReportInv, Adjudications
    <3>6. ~ Blockers(Verdict)
      BY <1>a, <3>5, ProductionAssumption DEF Terminal
    <3> QED
      BY <2>3, <2>4, <3>4, <3>5, <3>6 DEF PassedInv, Verdict
  <2>10. PreviousInv' /\ HistoryInv'
    BY <2>4 DEF PreviousInv, HistoryInv, Dialogue, Passed
  <2>11. StepsInv'
    <3>1. cp'.steps - cp.steps = 1
      BY <2>1, <2>4 DEF Checkpoint
    <3>2. NodeSteps(cp'.node, DialogueCost(cp.unit)) - NodeSteps(cp.node, DialogueCost(cp.unit))
          = 1
      BY <2>1, <2>4, DialogueCostOf, NodeStepsOf DEF Adjudications
    <3> QED
      BY <2>3, <2>4, <3>1, <3>2, Parts, SameRevisionSteps
  <2> QED
    BY <2>3, <2>5, <2>6, <2>7, <2>8, <2>9, <2>10, <2>11, WorkKeepsCanon, Parts
       DEF IInv, HoldsOutputs, HoldsCanon
<1> QED
  BY <1>0, <1>a DEF ContinuityAdjudication

(* The outcomes of a continuity check.                                      *)
LEMMA ContinuityKeeps ==
  ASSUME IInv, Continuity
  PROVE  IInv'
  BY AdjudicateKeeps, RestKeeps, ReviseKeeps, PassKeeps DEF Continuity, CheckedCheckpoint

(* The Story Bible is one scene ahead until its unit is accepted.           *)
LEMMA StoryBibleUpdateKeeps ==
  ASSUME IInv, StoryBibleUpdate
  PROVE  IInv'
<1> DEFINE next == [cp EXCEPT !.bible = hand.version, !.node = "accept"]
<1>1. /\ cp \in Checkpoint /\ hand.version \in Version
      /\ cp.node = "story_bible_update" /\ cp.unit \in Units
      /\ hand.version \in DOMAIN outputs /\ outputs[hand.version].task = CurrentTask
  BY Parts, HeldOutput, NodeNames DEF StoryBibleUpdate, TypeOK
<1>2. next \in Checkpoint
  <2>1. "accept" \in ProductionNodes
    BY NodeNames
  <2> QED
    BY <1>1, <2>1 DEF Checkpoint
<1>3. /\ cp' = [next EXCEPT !.steps = @ + 1]
      /\ TypeOK' /\ outputs' = outputs /\ hand' = EmptyHand
  BY <1>2, Parts, CheckpointedType DEF StoryBibleUpdate, Checkpointed
<1>4. /\ cp'.node = "accept"
      /\ cp'.unit = cp.unit /\ cp'.rev = cp.rev
      /\ cp'.draft = cp.draft /\ cp'.critique = cp.critique /\ cp'.continuity = cp.continuity
      /\ cp'.requiresRevision = cp.requiresRevision /\ cp'.blocking = cp.blocking
      /\ cp'.reason = cp.reason
      /\ cp'.bible = hand.version /\ cp'.accepted = cp.accepted
      /\ cp'.steps = cp.steps + 1
  BY <1>1, <1>3 DEF Checkpoint
<1> HIDE DEF next
<1>5. Position'
  BY <1>1, <1>4, Parts DEF Position, Passed, Adjudications, Dialogue
<1>6. DraftInv'
  BY <1>1, <1>3, <1>4, Parts, NodeNames DEF DraftInv, About, Drafted
<1>7. CritiqueInv'
  BY <1>1, <1>3, <1>4, Parts DEF CritiqueInv, About, Criticised
<1>8. ReportInv'
  <2>1. BibleBefore(cp.unit)' = BibleBefore(cp.unit)
    BY <1>4 DEF BibleBefore
  <2> QED
    BY <1>1, <1>3, <1>4, <2>1, Parts DEF ReportInv, About, Checked
<1>9. PassedInv' /\ PreviousInv' /\ HistoryInv'
  BY <1>1, <1>3, <1>4, Parts DEF PassedInv, PreviousInv, HistoryInv, Dialogue, Passed
<1>10. CanonInv'
  <2>1. outputs[hand.version].scenes = Append(AcceptedDrafts, cp.draft)
    BY <1>1, Parts DEF BehindInv
  <2>2. AcceptedDrafts' = AcceptedDrafts
    BY <1>4 DEF AcceptedDrafts
  <2> QED
    BY <1>1, <1>3, <1>4, <2>1, <2>2, Parts DEF CanonInv
<1>11. AcceptedReviewed'
  BY <1>3, <1>4, Parts DEF AcceptedReviewed, BibleBefore
<1>12. StepsInv'
  <2>1. cp'.steps - cp.steps = 1
    BY <1>1, <1>4 DEF Checkpoint
  <2>2. NodeSteps(cp'.node, DialogueCost(cp.unit)) - NodeSteps(cp.node, DialogueCost(cp.unit)) = 1
    BY <1>1, <1>4, DialogueCostOf, NodeStepsOf
  <2> QED
    BY <1>3, <1>4, <2>1, <2>2, Parts, SameRevisionSteps
<1>13. BehindInv'
  <2>1. cp.rev \in Nat
    BY <1>1 DEF Checkpoint
  <2>2. Rank(cp.rev, "story_bible_update") < Rank(cp.rev, "accept")
    BY <2>1 DEF Rank, OpRank, Adjudications
  <2> QED
    BY <1>1, <1>3, <1>4, <2>2, Parts, MovesOn
<1>14. HandInv' /\ AdjudicationIsLast'
  BY <1>3, Parts DEF HandInv, EmptyHand, AdjudicationIsLast
<1> QED
  BY <1>3, <1>5, <1>6, <1>7, <1>8, <1>9, <1>10, <1>11, <1>12, <1>13, <1>14
     DEF IInv, HoldsOutputs, HoldsCanon

(* A prefix of a sequence is one of the sequence with an element more.      *)
LEMMA PrefixOfAppend ==
  ASSUME NEW S, NEW s \in Seq(S), NEW e \in S, NEW i \in 0 .. Len(s)
  PROVE  SubSeq(Append(s, e), 1, i) = SubSeq(s, 1, i)
<1>1. /\ Len(s) \in Nat /\ Append(s, e) \in Seq(S)
      /\ \A k \in 1 .. Len(s) : Append(s, e)[k] = s[k] /\ s[k] \in S
  BY LenProperties, AppendProperties, ElementOfSeq
<1>2. /\ SubSeq(s, 1, i) \in Seq(S) /\ Len(SubSeq(s, 1, i)) = i
      /\ \A k \in 1 .. i : SubSeq(s, 1, i)[k] = s[k]
  BY <1>1, SubSeqProperties
<1>3. /\ SubSeq(Append(s, e), 1, i) \in Seq(S) /\ Len(SubSeq(Append(s, e), 1, i)) = i
      /\ \A k \in 1 .. i : SubSeq(Append(s, e), 1, i)[k] = Append(s, e)[k]
  BY <1>1, SubSeqProperties
<1> QED
  BY <1>1, <1>2, <1>3, SeqEqual

(* The units before the next one are this one and those before it.          *)
LEMMA DialoguesOfNext ==
  ASSUME NEW unit \in Units, NEW next, next = unit + 1
  PROVE  DialoguesBefore(next) = IF unit \in DialogueUnits THEN DialoguesBefore(unit) + 1
                                 ELSE DialoguesBefore(unit)
<1> DEFINE before == DialogueUnits \cap 1 .. (unit - 1)
<1>1. unit \in Nat /\ unit >= 1
  BY ProductionAssumption DEF Units
<1>a. IsFiniteSet(before)
  BY <1>1, StepsType
<1>2. next - 1 = unit /\ 1 .. unit = 1 .. (unit - 1) \cup {unit} /\ unit \notin 1 .. (unit - 1)
  BY <1>1
<1>3. DialoguesBefore(unit) = Cardinality(before)
  BY DEF DialoguesBefore
<1>4. DialoguesBefore(next) = Cardinality(DialogueUnits \cap 1 .. unit)
  BY <1>2 DEF DialoguesBefore
<1>5. CASE unit \in DialogueUnits
  <2>1. DialogueUnits \cap 1 .. unit = before \cup {unit} /\ unit \notin before
    BY <1>2, <1>5
  <2> HIDE DEF before
  <2>2. Cardinality(before \cup {unit}) = Cardinality(before) + 1
    BY <1>a, <2>1, FS_AddElement
  <2> QED
    BY <1>3, <1>4, <1>5, <2>1, <2>2
<1>6. CASE unit \notin DialogueUnits
  <2>1. DialogueUnits \cap 1 .. unit = before
    BY <1>2, <1>6
  <2> HIDE DEF before
  <2> QED
    BY <1>3, <1>4, <1>6, <2>1
<1> QED
  BY <1>5, <1>6

(* A unit costs no more than its share, however often it was revised.       *)
LEMMA UnitShare ==
  ASSUME NEW unit \in Units, NEW next, next = unit + 1, NEW rev \in Nat, rev <= MaxRevisions
  PROVE  (unit - 1) * UnitSteps + DialoguesBefore(unit) * DialoguesSteps
           + rev * (3 + DialogueCost(unit)) + (5 + DialogueCost(unit)) + 1
         <= unit * UnitSteps + DialoguesBefore(next) * DialoguesSteps
<1> DEFINE units == (unit - 1) * UnitSteps
           before == DialoguesBefore(unit)
           cost == DialogueCost(unit)
<1>1. unit \in Nat /\ MaxRevisions \in Nat /\ DialogueSteps \in Nat
  BY ProductionAssumption DEF Units
<1>2. /\ cost \in Nat /\ UnitSteps \in Nat /\ DialoguesSteps \in Nat
      /\ before \in Nat
  BY <1>1, StepsType
<1>3. units + UnitSteps = unit * UnitSteps /\ units \in Int
  BY <1>1, <1>2
<1>4. rev * (3 + cost) + 3 + cost <= Attempts * 3 + Attempts * cost
  <2> HIDE DEF cost
  <2>1. (rev + 1) * (3 + cost) <= Attempts * (3 + cost)
    BY <1>1, <1>2 DEF Attempts
  <2>2. /\ (rev + 1) * (3 + cost) = rev * (3 + cost) + 3 + cost
        /\ Attempts * (3 + cost) = Attempts * 3 + Attempts * cost
    BY <1>1, <1>2 DEF Attempts
  <2> QED
    BY <2>1, <2>2
<1>5. before * DialoguesSteps + Attempts * cost = DialoguesBefore(next) * DialoguesSteps
  <2>1. CASE unit \in DialogueUnits
    <3>1. cost = DialogueSteps + 1 /\ DialoguesBefore(next) = before + 1
      BY <2>1, DialogueCostOf, DialoguesOfNext
    <3> HIDE DEF cost, before
    <3>2. Attempts * cost = DialoguesSteps
      BY <3>1 DEF DialoguesSteps
    <3> QED
      BY <1>2, <3>1, <3>2
  <2>2. CASE unit \notin DialogueUnits
    <3>1. cost = 0 /\ DialoguesBefore(next) = before
      BY <2>2, DialogueCostOf, DialoguesOfNext
    <3>2. Attempts * 0 = 0
      BY <1>1 DEF Attempts
    <3> HIDE DEF cost, before
    <3> QED
      BY <1>2, <3>1, <3>2
  <2> QED
    BY <2>1, <2>2
<1>6. UnitSteps = Attempts * 3 + 3 /\ Attempts \in Nat
  BY <1>1 DEF UnitSteps, Attempts
<1>7. /\ before * DialoguesSteps \in Int /\ rev * (3 + cost) \in Int
      /\ Attempts * cost \in Int /\ unit * UnitSteps \in Int
  <2> HIDE DEF cost, before
  <2> QED
    BY <1>1, <1>2, <1>6
<1>8. units + before * DialoguesSteps + rev * (3 + cost) + (5 + cost) + 1
      <= unit * UnitSteps + DialoguesBefore(next) * DialoguesSteps
  <2> HIDE DEF units, before, cost
  <2> QED
    BY <1>1, <1>2, <1>3, <1>4, <1>5, <1>6, <1>7
<1> QED
  BY <1>8

(* The acceptance of a unit keeps the run within its limit.                 *)
LEMMA NextUnitSteps ==
  ASSUME TypeOK, TypeOK', StepsInv, Position, cp.node = "accept", cp.unit \in Units,
         cp'.node \in {"draft", "end"}, cp'.unit = cp.unit + 1, cp'.rev = 0,
         cp'.steps = cp.steps + 1
  PROVE  StepsInv'
<1> DEFINE sum == (cp.unit - 1) * UnitSteps + DialoguesBefore(cp.unit) * DialoguesSteps
                  + cp.rev * (3 + DialogueCost(cp.unit))
           next == cp.unit + 1
<1>1. /\ cp.unit \in Nat /\ cp.rev \in Nat /\ cp.steps \in Nat /\ cp.rev <= MaxRevisions
      /\ next \in Nat
  BY DEF TypeOK, Checkpoint, Position
<1>2. /\ DialogueCost(cp.unit) \in Nat /\ UnitSteps \in Nat /\ DialoguesSteps \in Nat
      /\ DialoguesBefore(cp.unit) \in Nat /\ DialoguesBefore(next) \in Nat
  BY <1>1, StepsType
<1>3. /\ NodeSteps(cp.node, DialogueCost(cp.unit)) = 5 + DialogueCost(cp.unit)
      /\ NodeSteps(cp'.node, DialogueCost(cp'.unit)) = 0
  BY <1>2, NodeStepsOf, DialogueCostOf
<1>4. cp.steps <= sum + (5 + DialogueCost(cp.unit))
  BY <1>3 DEF StepsInv
<1>5. sum + (5 + DialogueCost(cp.unit)) + 1
      <= cp.unit * UnitSteps + DialoguesBefore(next) * DialoguesSteps
  BY <1>1, UnitShare
<1>6. sum \in Int /\ cp.unit * UnitSteps + DialoguesBefore(next) * DialoguesSteps \in Int
  <2> HIDE DEF next
  <2> QED
    BY <1>1, <1>2
<1>7. cp'.steps <= cp.unit * UnitSteps + DialoguesBefore(next) * DialoguesSteps
  <2> HIDE DEF sum, next
  <2> QED
    BY <1>1, <1>2, <1>4, <1>5, <1>6
<1>8. /\ cp'.unit - 1 = cp.unit
      /\ cp'.rev * (3 + DialogueCost(cp'.unit)) = 0
  BY <1>1, DialogueCostOf
<1>9. (cp'.unit - 1) * UnitSteps + DialoguesBefore(cp'.unit) * DialoguesSteps
         + cp'.rev * (3 + DialogueCost(cp'.unit)) + NodeSteps(cp'.node, DialogueCost(cp'.unit))
       = cp.unit * UnitSteps + DialoguesBefore(next) * DialoguesSteps
  BY <1>1, <1>2, <1>3, <1>6, <1>8
<1> QED
  BY <1>7, <1>9 DEF StepsInv, DialoguesBefore, DialogueCost

(* Accepting a unit makes its draft canonical, with the review it passed.   *)
LEMMA AcceptKeeps ==
  ASSUME IInv, Accept
  PROVE  IInv'
<1> DEFINE next == [cp EXCEPT
             !.accepted = Append(@, AcceptedUnit),
             !.unit = @ + 1, !.rev = 0,
             !.draft = NoVersion, !.critique = NoVersion,
             !.continuity = NoVersion, !.pending = NoVersion, !.reports = << >>,
             !.dialogueRuns = 0, !.reason = NoReason,
             !.requiresRevision = FALSE, !.blocking = "none",
             !.adjRequired = FALSE, !.adjCompleted = FALSE,
             !.node = IF cp.unit = NumUnits THEN "end" ELSE "draft"]
           n == Len(cp.accepted)
<1>1. /\ cp \in Checkpoint /\ cp.node = "accept" /\ cp.unit \in Units
      /\ cp.reason \in AcceptanceReasons
  BY Parts, ReadyUnit DEF Accept, Ready, StateError, TypeOK, Checkpoint
<1>2. AcceptedUnit \in Accepted
  BY <1>1 DEF AcceptedUnit, Accepted, Checkpoint
<1>3. /\ n \in Nat /\ DOMAIN cp.accepted = 1 .. n
      /\ cp.accepted \in Seq(Accepted) /\ cp.unit = n + 1
  BY <1>1, Parts, DraftsType DEF Checkpoint, Position
<1>4. /\ Append(cp.accepted, AcceptedUnit) \in Seq(Accepted)
      /\ Len(Append(cp.accepted, AcceptedUnit)) = n + 1
      /\ \A i \in 1 .. n : Append(cp.accepted, AcceptedUnit)[i] = cp.accepted[i]
      /\ Append(cp.accepted, AcceptedUnit)[n + 1] = AcceptedUnit
  BY <1>2, <1>3, AppendProperties
<1>5. next \in Checkpoint
  <2>1. "end" \in ProductionNodes /\ "draft" \in ProductionNodes
    BY NodeNames
  <2>2. << >> \in Seq(Version) /\ cp.unit + 1 \in Nat /\ NoVersion \in Version
    BY <1>1, EmptySeq DEF Checkpoint, NoVersion, Version
  <2> HIDE DEF n
  <2> QED
    BY <1>1, <1>4, <2>1, <2>2 DEF Checkpoint
<1>6. /\ cp' = [next EXCEPT !.steps = @ + 1]
      /\ TypeOK' /\ outputs' = outputs /\ hand' = EmptyHand
  BY <1>5, Parts, CheckpointedType DEF Accept, Checkpointed
<1>7. /\ cp'.node = IF cp.unit = NumUnits THEN "end" ELSE "draft"
      /\ cp'.unit = cp.unit + 1 /\ cp'.rev = 0
      /\ cp'.accepted = Append(cp.accepted, AcceptedUnit)
      /\ cp'.continuity = NoVersion /\ cp'.pending = NoVersion
      /\ cp'.bible = cp.bible
      /\ cp'.critiques = cp.critiques
      /\ cp'.adjCompleted = FALSE
      /\ cp'.steps = cp.steps + 1
  BY <1>1, <1>6 DEF Checkpoint
<1> HIDE DEF next
<1>8. /\ DOMAIN cp'.accepted = 1 .. n + 1 /\ Len(cp'.accepted) = n + 1
      /\ \A i \in 1 .. n : cp'.accepted[i] = cp.accepted[i]
      /\ cp'.accepted[n + 1] = AcceptedUnit
  BY <1>3, <1>4, <1>7, LenProperties
<1>9. Position'
  <2>1. cp.unit \in Nat /\ cp.unit <= NumUnits
    BY <1>1, ProductionAssumption DEF Units
  <2> QED
    BY <1>3, <1>7, <1>8, <2>1, ProductionAssumption DEF Position, Adjudications, Dialogue
<1>10. DraftInv' /\ CritiqueInv' /\ ReportInv' /\ PassedInv' /\ PreviousInv'
  <2>1. cp'.node \in {"draft", "end"} /\ cp'.rev = 0
    BY <1>7
  <2> QED
    BY <1>7, <2>1
       DEF DraftInv, CritiqueInv, ReportInv, PassedInv, PreviousInv, Drafted, Criticised, Checked,
           Passed, Dialogue, Adjudications
<1>11. HistoryInv'
  <2>1. Heard' = 0
    BY <1>7 DEF Heard, Adjudications
  <2>2. Len(cp.critiques) \in Nat
    BY <1>1, LenProperties DEF Checkpoint
  <2> QED
    BY <1>7, <2>1, <2>2 DEF HistoryInv
<1>12. AcceptedDrafts' = Append(AcceptedDrafts, cp.draft)
  <2>1. /\ AcceptedDrafts \in Seq(Version) /\ Len(AcceptedDrafts) = n
        /\ \A i \in 1 .. n : AcceptedDrafts[i] = cp.accepted[i].draft
        /\ cp.draft \in Version
    BY <1>1, Parts, DraftsType DEF Checkpoint
  <2>2. /\ Append(AcceptedDrafts, cp.draft) \in Seq(Version)
        /\ Len(Append(AcceptedDrafts, cp.draft)) = n + 1
        /\ \A i \in 1 .. n : Append(AcceptedDrafts, cp.draft)[i] = cp.accepted[i].draft
        /\ Append(AcceptedDrafts, cp.draft)[n + 1] = cp.draft
    BY <2>1, AppendProperties
  <2>3. /\ AcceptedDrafts' \in Seq(Version) /\ Len(AcceptedDrafts') = n + 1
        /\ \A i \in 1 .. n + 1 : AcceptedDrafts'[i] = cp'.accepted[i].draft
    <3>1. AcceptedDrafts' = [i \in 1 .. n + 1 |-> cp'.accepted[i].draft]
      BY <1>8 DEF AcceptedDrafts
    <3>2. \A i \in 1 .. n + 1 : cp'.accepted[i] \in Accepted
      BY <1>4, <1>7, <1>8, ElementOfSeq
    <3>a. \A i \in 1 .. n + 1 : cp'.accepted[i].draft \in Version
      BY <3>2 DEF Accepted
    <3>3. n + 1 \in Nat
      BY <1>3
    <3> QED
      BY <3>1, <3>a, <3>3, IsASeq, LenProperties
  <2>4. \A i \in 1 .. n + 1 : AcceptedDrafts'[i] = Append(AcceptedDrafts, cp.draft)[i]
    <3>1. cp'.accepted[n + 1].draft = cp.draft
      BY <1>8 DEF AcceptedUnit
    <3>2. \A i \in 1 .. n + 1 : i \in 1 .. n \/ i = n + 1
      BY <1>3
    <3> QED
      BY <1>8, <2>2, <2>3, <3>1, <3>2
  <2> QED
    BY <2>2, <2>3, <2>4, SeqEqual
<1>13. /\ cp.bible \in DOMAIN outputs
       /\ outputs[cp.bible].scenes = Append(AcceptedDrafts, cp.draft)
       /\ \A i \in 1 .. n :
            LET a == cp.accepted[i]
            IN  /\ {a.draft, a.critique, a.continuity, a.bible} \subseteq DOMAIN outputs
                /\ outputs[a.bible].scenes = SubSeq(AcceptedDrafts, 1, i)
  BY <1>1, <1>3, Parts DEF CanonInv
<1>14. /\ About(cp.draft, DraftOps, cp.unit, cp.rev)
       /\ About(cp.critique, CritiqueOps, cp.unit, cp.rev)
       /\ cp.draft \in outputs[cp.critique].task.inputs
       /\ About(cp.continuity, ContinuityOps, cp.unit, cp.rev)
       /\ {cp.draft, BibleBefore(cp.unit)} \subseteq outputs[cp.continuity].task.inputs
  BY <1>1, Parts, NodeNames
     DEF DraftInv, CritiqueInv, ReportInv, Drafted, Criticised, Checked
<1>15. \A i \in 1 .. n + 1 : BibleBefore(i)' = BibleBefore(i)
  <2> SUFFICES ASSUME NEW i \in 1 .. n + 1
               PROVE  (IF i = 1 THEN NoVersion ELSE cp'.accepted[i - 1].bible)
                      = (IF i = 1 THEN NoVersion ELSE cp.accepted[i - 1].bible)
    BY DEF BibleBefore
  <2>1. i # 1 => i - 1 \in 1 .. n
    BY <1>3
  <2> QED
    BY <1>8, <2>1
<1>16. CanonInv'
  <2>1. cp'.bible = BibleBefore(cp.unit)'
    <3>1. cp'.unit = n + 2 /\ n + 2 # 1 /\ n + 2 - 1 = n + 1
      BY <1>3, <1>7
    <3>2. AcceptedUnit.bible = cp.bible
      BY DEF AcceptedUnit
    <3> QED
      BY <1>7, <1>8, <3>1, <3>2 DEF BibleBefore
  <2>2. ASSUME NEW i \in 1 .. n + 1
        PROVE  LET a == cp'.accepted[i]
               IN  /\ {a.draft, a.critique, a.continuity, a.bible} \subseteq DOMAIN outputs
                   /\ outputs[a.bible].scenes = SubSeq(AcceptedDrafts', 1, i)
    <3>1. /\ AcceptedDrafts \in Seq(Version) /\ Len(AcceptedDrafts) = n /\ cp.draft \in Version
          /\ Append(AcceptedDrafts, cp.draft) \in Seq(Version)
          /\ Len(Append(AcceptedDrafts, cp.draft)) = n + 1
      BY <1>1, <1>3, Parts, DraftsType, AppendProperties DEF Checkpoint
    <3>2. CASE i \in 1 .. n
      <4>1. i \in 0 .. n
        BY <1>3, <3>2
      <4>2. SubSeq(AcceptedDrafts', 1, i) = SubSeq(AcceptedDrafts, 1, i)
        BY <1>12, <3>1, <4>1, PrefixOfAppend
      <4> QED
        BY <1>8, <1>13, <3>2, <4>2
    <3>3. CASE i = n + 1
      <4>1. SubSeq(AcceptedDrafts', 1, i) = Append(AcceptedDrafts, cp.draft)
        BY <1>12, <3>1, <3>3, SubSeqFull
      <4>2. /\ AcceptedUnit.draft = cp.draft /\ AcceptedUnit.critique = cp.critique
            /\ AcceptedUnit.continuity = cp.continuity /\ AcceptedUnit.bible = cp.bible
        BY DEF AcceptedUnit
      <4> QED
        BY <1>8, <1>13, <1>14, <3>3, <4>1, <4>2 DEF About
    <3> QED
      BY <1>3, <3>2, <3>3
  <2>3. cp'.node # "accept"
    BY <1>7
  <2> QED
    BY <1>6, <1>8, <2>1, <2>2, <2>3 DEF CanonInv
<1>17. AcceptedReviewed'
  <2> SUFFICES ASSUME NEW i \in 1 .. n + 1
               PROVE  LET a == cp'.accepted[i]
                          critique == outputs[a.critique]
                          report == outputs[a.continuity]
                      IN  /\ outputs[a.draft].task.unit = i
                          /\ outputs[a.draft].task.rev = a.rev
                          /\ critique.task.op \in CritiqueOps /\ a.draft \in critique.task.inputs
                          /\ report.task.op \in ContinuityOps
                          /\ {a.draft, BibleBefore(i)} \subseteq report.task.inputs
                          /\ ~ Blocking(critique.verdict) /\ ~ Blockers(report.verdict)
                          /\ critique.verdict = "revise" <=> a.reason = "revision_limit_reached"
                          /\ critique.verdict = "revise" => a.rev = MaxRevisions
    BY <1>6, <1>8, <1>15 DEF AcceptedReviewed
  <2>1. CASE i \in 1 .. n
    <3>1. i \in DOMAIN cp.accepted /\ cp'.accepted[i] = cp.accepted[i]
      BY <1>3, <1>8, <2>1
    <3> QED
      BY <3>1, Parts DEF AcceptedReviewed
  <2>2. CASE i = n + 1
    <3>1. /\ cp'.accepted[i].draft = cp.draft /\ cp'.accepted[i].critique = cp.critique
          /\ cp'.accepted[i].continuity = cp.continuity /\ cp'.accepted[i].rev = cp.rev
          /\ cp'.accepted[i].reason = cp.reason
      BY <1>8, <2>2 DEF AcceptedUnit
    <3>2. /\ cp.requiresRevision = (outputs[cp.critique].verdict # "pass")
          /\ cp.blocking = IF Blocking(outputs[cp.critique].verdict)
                           THEN outputs[cp.critique].verdict
                           ELSE "none"
      BY <1>1, Parts DEF CritiqueInv, Criticised
    <3>3. /\ cp.blocking = "none" /\ ~ Blockers(outputs[cp.continuity].verdict)
          /\ cp.reason = Reviewed(cp.requiresRevision)
          /\ cp.requiresRevision => cp.rev = MaxRevisions
      BY <1>1, Parts DEF PassedInv, Passed
    <3>4. outputs[cp.critique].verdict \in CritiqueVerdicts
      BY <1>14, Parts, VerdictsByOp DEF BehindInv, About
    <3>5. ~ Blocking(outputs[cp.critique].verdict)
      BY <3>2, <3>3 DEF Blocking
    <3>6. cp.requiresRevision <=> outputs[cp.critique].verdict = "revise"
      BY <3>2, <3>4, <3>5 DEF Blocking, CritiqueVerdicts
    <3>7. outputs[cp.critique].verdict = "revise" <=> cp.reason = "revision_limit_reached"
      BY <3>3, <3>6 DEF Reviewed
    <3> QED
      BY <1>3, <1>14, <2>2, <3>1, <3>3, <3>5, <3>6, <3>7 DEF About
  <2> QED
    BY <1>3, <2>1, <2>2
<1>18. StepsInv'
  BY <1>1, <1>6, <1>7, Parts, NextUnitSteps
<1>19. BehindInv'
  <2>1. cp.unit < cp'.unit
    BY <1>1, <1>7 DEF Checkpoint
  <2> QED
    BY <1>6, <2>1, Parts, MovesOn
<1>20. HandInv' /\ AdjudicationIsLast'
  BY <1>6, Parts DEF HandInv, EmptyHand, AdjudicationIsLast
<1> QED
  BY <1>6, <1>9, <1>10, <1>11, <1>16, <1>17, <1>18, <1>19, <1>20
     DEF IInv, HoldsOutputs, HoldsCanon

-----------------------------------------------------------------------------
(* The invariance.                                                          *)

(* The initial checkpoint satisfies it: nothing is drafted yet.              *)
LEMMA InitInv ==
  ASSUME Init
  PROVE  IInv
<1>1. /\ outputs = << >> /\ hand = EmptyHand
      /\ cp.node = "draft" /\ cp.unit = 1 /\ cp.rev = 0
      /\ cp.continuity = NoVersion /\ cp.pending = NoVersion /\ cp.bible = NoVersion
      /\ cp.adjCompleted = FALSE
      /\ cp.critiques = << >> /\ cp.accepted = << >> /\ cp.steps = 0
  BY DEF Init
<1>2. DOMAIN outputs = {} /\ DOMAIN cp.accepted = {} /\ Len(cp.accepted) = 0
      /\ Len(cp.critiques) = 0
  BY <1>1
<1>3. TypeOK
  <2>1. "draft" \in ProductionNodes
    BY NodeNames
  <2>2. /\ << >> \in Seq(Version) /\ << >> \in Seq(Accepted) /\ << >> \in Seq(Output)
        /\ NoVersion \in Version
    BY EmptySeq DEF NoVersion, Version
  <2>3. cp \in Checkpoint
    BY <2>1, <2>2 DEF Init, Checkpoint
  <2> QED
    BY <2>2, <2>3 DEF Init, TypeOK, EmptyHand, Causes
<1>4. Position
  BY <1>1, <1>2, ProductionAssumption DEF Position, Dialogue, Adjudications
<1>5. DraftInv /\ CritiqueInv /\ ReportInv /\ PassedInv /\ PreviousInv
  BY <1>1 DEF DraftInv, CritiqueInv, ReportInv, PassedInv, PreviousInv, Drafted, Criticised,
              Checked, Passed, Dialogue, Adjudications
<1>6. HistoryInv
  <2>1. Heard = 0
    BY <1>1 DEF Heard, Adjudications
  <2> QED
    BY <1>2, <2>1 DEF HistoryInv
<1>7. CanonInv /\ AcceptedReviewed
  BY <1>1, <1>2 DEF CanonInv, AcceptedReviewed, BibleBefore
<1>8. StepsInv
  <2>1. /\ DialogueCost(1) \in Nat /\ UnitSteps \in Nat /\ DialoguesSteps \in Nat
        /\ DialoguesBefore(1) \in Nat
    BY StepsType
  <2>2. NodeSteps("draft", DialogueCost(1)) = 0
    BY <2>1, NodeStepsOf
  <2>3. /\ (1 - 1) * UnitSteps = 0 /\ 0 * (3 + DialogueCost(1)) = 0
        /\ DialoguesBefore(1) * DialoguesSteps \in Nat
    BY <2>1
  <2>4. 0 <= (1 - 1) * UnitSteps + DialoguesBefore(1) * DialoguesSteps
             + 0 * (3 + DialogueCost(1)) + NodeSteps("draft", DialogueCost(1))
    BY <2>2, <2>3
  <2> QED
    BY <1>1, <2>4 DEF StepsInv
<1>9. HandInv /\ BehindInv /\ AdjudicationIsLast
  BY <1>1, <1>2 DEF HandInv, BehindInv, AdjudicationIsLast
<1> QED
  BY <1>3, <1>4, <1>5, <1>6, <1>7, <1>8, <1>9 DEF IInv, HoldsOutputs, HoldsCanon

(* Every step keeps it.                                                     *)
LEMMA NextKeeps ==
  ASSUME IInv, [Next]_vars
  PROVE  IInv'
<1>1. CASE Call
  BY <1>1, GenerateKeeps, CallKeeps DEF Call
<1>2. CASE NodeUpdate
  BY <1>2, DraftKeeps, DialoguePassKeeps, DialogueIntegrationKeeps, CritiqueKeeps,
     ContinuityKeeps, CriticAdjudicationKeeps, ContinuityAdjudicationKeeps,
     StoryBibleUpdateKeeps, AcceptKeeps
     DEF NodeUpdate
<1>3. CASE Complete \/ Retry \/ UNCHANGED vars
  BY <1>3, RestKeeps
<1> QED
  BY <1>1, <1>2, <1>3 DEF Next

(* It is an invariant of the production.                                    *)
LEMMA Invariance == Spec => []IInv
<1>1. Init => IInv
  BY InitInv
<1>2. IInv /\ [Next]_vars => IInv'
  BY NextKeeps
<1> QED
  BY <1>1, <1>2, PTL DEF Spec

-----------------------------------------------------------------------------
(* What follows from the invariant.                                         *)

(* The Story Bible of the checkpoint lists the accepted drafts.             *)
LEMMA CanonicalFromInv ==
  ASSUME IInv
  PROVE  CanonicalBible
<1>1. /\ AcceptedDrafts \in Seq(Version) /\ Len(AcceptedDrafts) = Len(cp.accepted)
      /\ DOMAIN cp.accepted = 1 .. Len(cp.accepted) /\ Len(cp.accepted) \in Nat
  BY Parts, DraftsType
<1>2. \A v \in DOMAIN outputs : v # NoVersion
  BY Parts, OutputsDomain DEF NoVersion
<1>3. \A i \in DOMAIN cp.accepted : ScenesOf(cp.accepted[i].bible) = SubSeq(AcceptedDrafts, 1, i)
  BY <1>2, Parts DEF CanonInv, ScenesOf
<1>4. CASE cp.node = "accept"
  BY <1>2, <1>3, <1>4, Parts DEF CanonInv, CanonicalBible, ScenesOf
<1>5. CASE cp.node # "accept"
  <2>1. cp.bible = BibleBefore(cp.unit) /\ cp.unit = Len(cp.accepted) + 1
    BY <1>5, Parts DEF CanonInv, Position
  <2>2. CASE cp.unit = 1
    <3>1. cp.bible = NoVersion /\ Len(AcceptedDrafts) = 0
      BY <1>1, <2>1, <2>2 DEF BibleBefore
    <3>2. AcceptedDrafts = << >>
      BY <1>1, <3>1, EmptySeq
    <3> QED
      BY <1>3, <1>5, <3>1, <3>2 DEF CanonicalBible, ScenesOf
  <2>3. CASE cp.unit # 1
    <3>1. /\ cp.unit - 1 \in DOMAIN cp.accepted /\ cp.unit - 1 = Len(AcceptedDrafts)
          /\ cp.bible = cp.accepted[cp.unit - 1].bible
      BY <1>1, <2>1, <2>3 DEF BibleBefore
    <3>2. ScenesOf(cp.bible) = SubSeq(AcceptedDrafts, 1, Len(AcceptedDrafts))
      BY <1>3, <3>1
    <3> QED
      BY <1>1, <1>3, <1>5, <3>2, SubSeqFull DEF CanonicalBible
  <2> QED
    BY <2>2, <2>3
<1> QED
  BY <1>4, <1>5

(* The state of every node is one it takes.                                 *)
LEMMA NoErrorFromInv ==
  ASSUME IInv
  PROVE  ~ StateError
<1>1. /\ cp.unit \in Nat /\ cp.rev \in Nat /\ Len(cp.critiques) \in Nat
      /\ Len(cp.accepted) \in Nat /\ MaxRevisions \in Nat /\ NumUnits \in Nat \ {0}
      /\ cp.node \in ProductionNodes
  BY Parts, LenProperties, ProductionAssumption DEF TypeOK, Checkpoint
<1>2. \A v \in DOMAIN outputs : v # NoVersion
  BY Parts, OutputsDomain DEF NoVersion
<1>3. /\ cp.unit = Len(cp.accepted) + 1 /\ cp.unit <= NumUnits + 1
      /\ cp.node = "end" <=> cp.unit = NumUnits + 1
      /\ cp.node \in Dialogue => cp.unit \in DialogueUnits
      /\ cp.node \in Adjudications => cp.adjRequired /\ ~ cp.adjCompleted /\ cp.rev = MaxRevisions
  BY Parts DEF Position, Passed, Adjudications
<1>4. cp.node # "end" => cp.unit \in Units
  BY <1>1, <1>3 DEF Units
<1>5. cp.node \notin {"draft", "end"} => cp.draft # NoVersion
  BY <1>1, <1>2, Parts DEF DraftInv, Drafted, About
<1>6. cp.node \in Checked => cp.continuity # NoVersion /\ cp.critique # NoVersion
  BY <1>2, Parts DEF ReportInv, CritiqueInv, Checked, Criticised, About
<1>7. cp.node = "draft" =>
        /\ cp.pending = NoVersion
        /\ cp.rev > 0 => NoVersion \notin {cp.draft, cp.critique}
  BY <1>2, Parts DEF DraftInv, PreviousInv
<1>8. /\ cp.node \in {"draft", "critique"} => cp.rev <= Len(cp.critiques)
      /\ cp.node = "critic_adjudication" => cp.rev + 1 <= Len(cp.critiques)
  BY Parts DEF HistoryInv, Heard, Passed, Adjudications
<1>9. cp.node = "critic_adjudication" => cp.blocking = "adjudicable" /\ cp.rev > 0
  BY Parts DEF ReportInv
<1>10. cp.node = "story_bible_update" => ScenesOf(cp.bible) = AcceptedDrafts
  BY CanonicalFromInv DEF CanonicalBible
<1>11. cp.node = "accept" => cp.reason # NoReason /\ cp.bible # NoVersion
  BY <1>2, Parts DEF PassedInv, Passed, CanonInv, Reviewed, NoReason
<1>12. cp.node = "end" =>
         Len(cp.accepted) = NumUnits /\ cp.accepted[NumUnits].bible = cp.bible
  <2> SUFFICES ASSUME cp.node = "end"
               PROVE  Len(cp.accepted) = NumUnits /\ cp.accepted[NumUnits].bible = cp.bible
    OBVIOUS
  <2>1. Len(cp.accepted) = NumUnits /\ cp.unit # 1 /\ cp.unit - 1 = NumUnits
    BY <1>1, <1>3
  <2> QED
    BY <2>1, Parts DEF CanonInv, BibleBefore
<1>13. cp.node = "critic_adjudication" => cp.rev >= 1 /\ Len(cp.critiques) - 1 >= cp.rev
  BY <1>1, <1>8, <1>9
<1>14. cp.node \in {"draft", "critique"} => ~ Len(cp.critiques) < cp.rev
  BY <1>1, <1>8
<1> QED
  BY <1>1, <1>3, <1>4, <1>5, <1>6, <1>7, <1>9, <1>10, <1>11, <1>12, <1>13, <1>14
     DEF StateError, Checked, Adjudications, Dialogue

(* The critiques a task is given are those of this unit, in their order.    *)
LEMMA HistoryFromInv ==
  ASSUME IInv
  PROVE  HistoryIsExact
<1> DEFINE L == Len(cp.critiques)
<1>1. /\ L \in Nat /\ cp.rev \in Nat /\ cp.critiques \in Seq(Version)
      /\ \A k \in 1 .. L : cp.critiques[k] \in Version
  BY Parts, LenProperties, ElementOfSeq DEF TypeOK, Checkpoint
<1>2. ASSUME cp.node \in {"draft", "critique", "critic_adjudication"}, NEW k \in 1 .. cp.rev
      PROVE  About(CritiqueHistory[k], {"critique"}, cp.unit, k - 1)
  <2>1. CASE cp.node = "critic_adjudication"
    <3> DEFINE others == SubSeq(cp.critiques, 1, L - 1)
    <3>1. /\ cp.rev + 1 <= L
          /\ About(cp.critiques[L - (cp.rev + 1) + k], {"critique"}, cp.unit, k - 1)
      <4>1. Heard = cp.rev + 1 /\ k \in 1 .. cp.rev + 1
        BY <1>1, <2>1 DEF Heard, Adjudications
      <4> QED
        BY <2>1, <4>1, Parts DEF HistoryInv, Passed
    <3>2. /\ Len(others) = L - 1
          /\ \A i \in 1 .. L - 1 : others[i] = cp.critiques[i]
      BY <1>1, <3>1, SubSeqProperties
    <3>3. \A i \in 1 .. L - 1 : others[i] \in Version
      BY <1>1, <3>2
    <3> HIDE DEF others
    <3>4. CritiqueHistory = SubSeq(others, L - cp.rev, L - 1)
      <4>1. L - 1 - cp.rev + 1 = L - cp.rev
        BY <1>1
      <4> QED
        BY <2>1, <3>2, <4>1 DEF CritiqueHistory, Last, others
    <3>5. SubSeq(others, L - cp.rev, L - 1)[k] = others[L - cp.rev + k - 1]
      BY <1>1, <3>1, <3>3, SubSeqProperties
    <3>6. L - cp.rev + k - 1 = L - (cp.rev + 1) + k /\ L - cp.rev + k - 1 \in 1 .. L - 1
      BY <1>1, <3>1
    <3> QED
      BY <3>1, <3>2, <3>4, <3>5, <3>6
  <2>2. CASE cp.node \in {"draft", "critique"}
    <3>1. /\ cp.rev <= L
          /\ About(cp.critiques[L - cp.rev + k], {"critique"}, cp.unit, k - 1)
      <4>1. Heard = cp.rev
        BY <2>2 DEF Heard, Adjudications
      <4> QED
        BY <2>2, <4>1, Parts DEF HistoryInv, Passed
    <3>2. CritiqueHistory = SubSeq(cp.critiques, L - cp.rev + 1, L)
      BY <2>2 DEF CritiqueHistory, Last
    <3>3. SubSeq(cp.critiques, L - cp.rev + 1, L)[k] = cp.critiques[L - cp.rev + 1 + k - 1]
      BY <1>1, <3>1, SubSeqProperties
    <3>4. L - cp.rev + 1 + k - 1 = L - cp.rev + k
      BY <1>1
    <3> QED
      BY <3>1, <3>2, <3>3, <3>4
  <2> QED
    BY <1>2, <2>1, <2>2
<1>3. cp.node = "continuity" /\ cp.rev > 0 =>
        About(cp.pending, {"continuity"}, cp.unit, cp.rev - 1)
  BY Parts DEF PreviousInv
<1> QED
  BY <1>2, <1>3 DEF HistoryIsExact, About


(* The limit is a number.                                                   *)
LEMMA LimitType ==
  IsFiniteSet(DialogueUnits) /\ Cardinality(DialogueUnits) \in Nat /\ MaxGraphSteps \in Nat
<1>1. IsFiniteSet(1 .. NumUnits)
  BY FS_Interval, ProductionAssumption
<1>2. IsFiniteSet(DialogueUnits) /\ Cardinality(DialogueUnits) \in Nat
  BY <1>1, ProductionAssumption, FS_Subset, FS_CardinalityType DEF Units
<1>3. MaxGraphSteps \in Nat
  BY <1>2, ProductionAssumption DEF MaxGraphSteps
<1> QED
  BY <1>2, <1>3

(* What the units before some unit may have cost is in the limit.           *)
LEMMA EnvelopeOf ==
  ASSUME NEW next \in Nat \ {0}, next <= NumUnits + 1
  PROVE  (next - 1) * UnitSteps + DialoguesBefore(next) * DialoguesSteps <= MaxGraphSteps
<1> DEFINE dialogues == Cardinality(DialogueUnits)
           before == DialoguesBefore(next)
<1>1. /\ UnitSteps \in Nat /\ DialoguesSteps \in Nat /\ before \in Nat
      /\ NumUnits \in Nat /\ MaxRevisions \in Nat /\ DialogueSteps \in Nat
  BY StepsType, ProductionAssumption
<1>2. before <= dialogues /\ dialogues \in Nat
  <2>1. DialogueUnits \cap 1 .. (next - 1) \subseteq DialogueUnits
    OBVIOUS
  <2> QED
    BY <2>1, LimitType, FS_Subset DEF DialoguesBefore
<1>3. MaxGraphSteps = NumUnits * UnitSteps + dialogues * DialoguesSteps
  <2>1. MaxGraphSteps = NumUnits * UnitSteps + dialogues * Attempts * (DialogueSteps + 1)
    BY DEF MaxGraphSteps, UnitSteps, Attempts
  <2> HIDE DEF dialogues
  <2>2. Attempts \in Nat
    BY <1>1 DEF Attempts
  <2>3. dialogues * Attempts * (DialogueSteps + 1) = dialogues * (Attempts * (DialogueSteps + 1))
    BY <1>1, <1>2, <2>2
  <2> QED
    BY <2>1, <2>3 DEF DialoguesSteps
<1> HIDE DEF dialogues, before
<1>4. (next - 1) * UnitSteps <= NumUnits * UnitSteps
  BY <1>1
<1>5. before * DialoguesSteps <= dialogues * DialoguesSteps
  BY <1>1, <1>2
<1>6. /\ (next - 1) * UnitSteps \in Int /\ NumUnits * UnitSteps \in Int
      /\ before * DialoguesSteps \in Int /\ dialogues * DialoguesSteps \in Int
  BY <1>1, <1>2
<1> QED
  BY <1>3, <1>4, <1>5, <1>6 DEF before

(* The steps of a run are in the limit: those of its units before, and of   *)
(* the unit in work what its revisions and nodes so far may have cost.      *)
LEMMA EnvelopeFromInv ==
  ASSUME IInv
  PROVE  StepsWithinEnvelope
<1> DEFINE cost == DialogueCost(cp.unit)
           units == (cp.unit - 1) * UnitSteps + DialoguesBefore(cp.unit) * DialoguesSteps
           next == cp.unit + 1
           after == cp.unit * UnitSteps + DialoguesBefore(next) * DialoguesSteps
           share == NodeSteps(cp.node, cost)
<1>1. /\ cp.unit \in Nat \ {0} /\ cp.rev \in Nat /\ cp.steps \in Nat
      /\ cp.rev <= MaxRevisions /\ cp.unit <= NumUnits + 1
      /\ cp.node = "end" <=> cp.unit = NumUnits + 1
      /\ cp.node = "end" => cp.rev = 0
      /\ NumUnits \in Nat
  <2>1. Len(cp.accepted) \in Nat
    BY Parts, DraftsType
  <2> QED
    BY <2>1, Parts, ProductionAssumption DEF TypeOK, Checkpoint, Position
<1>2. /\ cost \in Nat /\ units \in Int /\ after \in Int /\ cp.rev * (3 + cost) \in Int
  <2>1. cost \in Nat /\ UnitSteps \in Nat /\ DialoguesSteps \in Nat
    BY <1>1, StepsType
  <2>2. DialoguesBefore(cp.unit) \in Nat /\ next \in Nat
    <3>1. DialoguesBefore(cp.unit) \in Nat
      BY <1>1, StepsType
    <3>2. next \in Nat
      BY <1>1
    <3> QED
      BY <3>1, <3>2
  <2> HIDE DEF next, cost
  <2>3. DialoguesBefore(next) \in Nat
    BY <2>2, StepsType
  <2> QED
    BY <1>1, <2>1, <2>2, <2>3
<1>3. cp.steps <= units + cp.rev * (3 + cost) + share
  BY Parts DEF StepsInv
<1>4. CASE cp.node = "end"
  <2>1. units <= MaxGraphSteps
    BY <1>1, EnvelopeOf
  <2>2. share = 0
    BY <1>2, <1>4, NodeStepsOf
  <2>3. 0 * (3 + cost) = 0
    BY <1>2
  <2>4. MaxGraphSteps \in Int
    BY LimitType
  <2> HIDE DEF units, cost, share
  <2> QED
    BY <1>1, <1>2, <1>3, <1>4, <2>1, <2>2, <2>3, <2>4 DEF StepsWithinEnvelope
<1>5. CASE cp.node # "end"
  <2>1. cp.unit \in Units /\ next \in Nat \ {0} /\ next <= NumUnits + 1
    BY <1>1, <1>5 DEF Units
  <2>2. units + cp.rev * (3 + cost) + (5 + cost) + 1 <= after
    BY <1>1, <2>1, UnitShare
  <2>3. after <= MaxGraphSteps
    <3>1. (next - 1) * UnitSteps + DialoguesBefore(next) * DialoguesSteps <= MaxGraphSteps
      BY <2>1, EnvelopeOf
    <3>2. next - 1 = cp.unit
      BY <1>1
    <3> QED
      BY <3>1, <3>2
  <2>4. share \in Nat /\ share <= 5 + cost
    <3>1. cp.node \in ProductionNodes \ {"end"}
      BY <1>5, Parts DEF TypeOK, Checkpoint
    <3>2. cp.node = "dialogue_integration" => cost = DialogueSteps + 1
      BY Parts, DialogueCostOf DEF Position, Dialogue
    <3>3. DialogueSteps \in Nat
      BY ProductionAssumption
    <3> HIDE DEF cost
    <3> QED
      BY <1>2, <3>1, <3>2, <3>3, NodeStepsOf, NodeNames DEF Adjudications
  <2>5. MaxGraphSteps \in Int
    BY LimitType
  <2> HIDE DEF units, cost, share, after
  <2> QED
    BY <1>1, <1>2, <1>3, <2>2, <2>3, <2>4, <2>5 DEF StepsWithinEnvelope
<1> QED
  BY <1>4, <1>5


-----------------------------------------------------------------------------
(* The refinement of StoryCanon.                                            *)

Scenes == {v \in DOMAIN outputs : outputs[v].task.op \in DraftOps}

(* The mapped state, written out.                                           *)
LEMMA CanonNext ==
  /\ Canon!Init <=> /\ Scenes = {} /\ AcceptedDrafts = << >> /\ ScenesOf(cp.bible) = << >>
                    /\ (status = "complete") = FALSE
  /\ Canon!Draft <=> /\ Scenes \subseteq Scenes'
                     /\ AcceptedDrafts' = AcceptedDrafts
                     /\ ScenesOf(cp.bible)' = ScenesOf(cp.bible)
                     /\ (status = "complete")' = (status = "complete")
  /\ Canon!Enter <=> /\ ScenesOf(cp.bible) = AcceptedDrafts
                     /\ Len(AcceptedDrafts) < NumUnits
                     /\ \E s \in Scenes \ {AcceptedDrafts[i] : i \in DOMAIN AcceptedDrafts} :
                          ScenesOf(cp.bible)' = Append(AcceptedDrafts, s)
                     /\ Scenes' = Scenes /\ AcceptedDrafts' = AcceptedDrafts
                     /\ (status = "complete")' = (status = "complete")
  /\ Canon!Accept <=> /\ ScenesOf(cp.bible) # AcceptedDrafts
                      /\ AcceptedDrafts' = ScenesOf(cp.bible)
                      /\ Scenes' = Scenes /\ ScenesOf(cp.bible)' = ScenesOf(cp.bible)
                      /\ (status = "complete")' = (status = "complete")
  /\ Canon!Complete <=> /\ Len(AcceptedDrafts) = NumUnits
                        /\ ScenesOf(cp.bible) = AcceptedDrafts
                        /\ (status = "complete")' = TRUE
                        /\ Scenes' = Scenes /\ AcceptedDrafts' = AcceptedDrafts
                        /\ ScenesOf(cp.bible)' = ScenesOf(cp.bible)
  /\ UNCHANGED Canon!vars <=> /\ Scenes' = Scenes /\ AcceptedDrafts' = AcceptedDrafts
                              /\ ScenesOf(cp.bible)' = ScenesOf(cp.bible)
                              /\ (status = "complete")' = (status = "complete")
  BY DEF Canon!Init, Canon!Draft, Canon!Enter, Canon!Accept, Canon!Complete, Canon!vars, Scenes


(* Nothing is accepted or entered, and no draft is lost.                    *)
LEMMA StutterOrDraft ==
  ASSUME Scenes \subseteq Scenes', cp'.accepted = cp.accepted,
         ScenesOf(cp.bible)' = ScenesOf(cp.bible),
         (status' = "complete") = (status = "complete")
  PROVE  Canon!Next
<1>1. AcceptedDrafts' = AcceptedDrafts
  BY DEF AcceptedDrafts
<1> QED
  BY <1>1, CanonNext DEF Canon!Next

(* A call adds its output to the outputs, or gives up one it committed.     *)
LEMMA CallRefines ==
  ASSUME IInv, Call
  PROVE  Canon!Next
<1> USE DEF Running, Ready
<1>1. TypeOK
  BY Parts
<1>2. cp' = cp /\ status # "complete" /\ status' # "complete"
  BY DEF Call, Generate, Replay, CallFails, Fail, LoseNode, CancelAfterCommit
<1>3. /\ DOMAIN outputs \subseteq DOMAIN outputs'
      /\ \A v \in DOMAIN outputs : /\ outputs'[v].task = outputs[v].task
                                   /\ outputs'[v].scenes = outputs[v].scenes
  <2>1. CASE Generate
    BY <2>1, GenerateStep, <1>1
  <2>2. CASE Replay \/ CallFails \/ LoseNode
    BY <2>2 DEF Replay, CallFails, LoseNode
  <2>3. CASE CancelAfterCommit
    <3>1. outputs' = [outputs EXCEPT ![hand.version].live = FALSE]
      BY <2>3 DEF CancelAfterCommit
    <3>2. \A v \in DOMAIN outputs : outputs[v] \in Output
      BY <1>1, OutputsDomain
    <3> QED
      BY <3>1, <3>2 DEF Output
  <2> QED
    BY <2>1, <2>2, <2>3 DEF Call
<1>4. Scenes \subseteq Scenes'
  BY <1>3 DEF Scenes
<1>5. cp.bible = NoVersion \/ cp.bible \in DOMAIN outputs
  BY Parts, DraftsType DEF CanonInv, BibleBefore, Position
<1>6. ScenesOf(cp.bible)' = ScenesOf(cp.bible)
  BY <1>2, <1>3, <1>5 DEF ScenesOf
<1> QED
  BY <1>2, <1>4, <1>6, StutterOrDraft


(* The nodes before the Story Bible update change no canon.                 *)
LEMMA WorkRefines ==
  ASSUME IInv,
         \/ Draft \/ DialoguePass \/ DialogueIntegration \/ Critique \/ Continuity
         \/ CriticAdjudication \/ ContinuityAdjudication \/ Retry
  PROVE  Canon!Next
<1> USE DEF Holds, Ready, Running, Checkpointed, RejectUnit, Fail
<1>1. /\ outputs' = outputs /\ cp'.accepted = cp.accepted /\ cp'.bible = cp.bible
      /\ status # "complete" /\ status' # "complete"
  <2> cp \in Checkpoint
    BY Parts DEF TypeOK
  <2> USE DEF Checkpoint
  <2>1. CASE Draft \/ DialoguePass \/ DialogueIntegration
    BY <2>1 DEF Draft, DialoguePass, DialogueIntegration
  <2>2. CASE Critique
    BY <2>2 DEF Critique
  <2>3. CASE Continuity
    BY <2>3 DEF Continuity
  <2>4. CASE CriticAdjudication \/ ContinuityAdjudication
    BY <2>4 DEF CriticAdjudication, ContinuityAdjudication
  <2>5. CASE Retry
    BY <2>5 DEF Retry
  <2> QED
    BY <2>1, <2>2, <2>3, <2>4, <2>5
<1>2. Scenes' = Scenes /\ ScenesOf(cp.bible)' = ScenesOf(cp.bible)
  BY <1>1 DEF Scenes, ScenesOf
<1> QED
  BY <1>1, <1>2, StutterOrDraft

(* The Story Bible update enters the reviewed draft, which is no accepted   *)
(* one: those were drafted for earlier units.                               *)
LEMMA EnterRefines ==
  ASSUME IInv, StoryBibleUpdate
  PROVE  Canon!Enter
<1>1. /\ cp.node = "story_bible_update" /\ cp.unit \in Units
      /\ hand.version \in DOMAIN outputs
      /\ outputs[hand.version].task = CurrentTask
  BY HeldOutput DEF StoryBibleUpdate, Ops
<1>2. /\ cp'.accepted = cp.accepted /\ cp'.bible = hand.version
      /\ outputs' = outputs /\ status' = status
  BY Parts DEF StoryBibleUpdate, Checkpointed, TypeOK, Checkpoint
<1>3. hand.version # NoVersion
  BY <1>1, Parts, OutputsDomain DEF NoVersion
<1>4. outputs[hand.version].scenes = Append(AcceptedDrafts, cp.draft)
  BY <1>1, Parts DEF BehindInv
<1>5. /\ AcceptedDrafts' = AcceptedDrafts /\ Scenes' = Scenes
      /\ ScenesOf(cp.bible)' = Append(AcceptedDrafts, cp.draft)
  BY <1>2, <1>3, <1>4 DEF AcceptedDrafts, Scenes, ScenesOf
<1>6. ScenesOf(cp.bible) = AcceptedDrafts
  BY <1>1, CanonicalFromInv DEF CanonicalBible
<1>7. Len(AcceptedDrafts) < NumUnits
  BY <1>1, Parts, DraftsType, ProductionAssumption DEF Position, Units
<1>8. cp.draft \in Scenes /\ outputs[cp.draft].task.unit = cp.unit
  BY <1>1, Parts DEF DraftInv, Drafted, Scenes, About, ProductionNodes, Ops
<1>9. \A i \in DOMAIN AcceptedDrafts : AcceptedDrafts[i] # cp.draft
  <2> SUFFICES ASSUME NEW i \in DOMAIN AcceptedDrafts PROVE AcceptedDrafts[i] # cp.draft
    OBVIOUS
  <2>1. i \in DOMAIN cp.accepted /\ i < cp.unit /\ AcceptedDrafts[i] = cp.accepted[i].draft
    BY Parts, DraftsType, LenProperties DEF Position
  <2>2. outputs[cp.accepted[i].draft].task.unit = i
    BY <2>1, Parts DEF AcceptedReviewed
  <2>3. i \in Nat /\ cp.unit \in Nat
    BY <2>1, Parts, DraftsType DEF TypeOK, Checkpoint
  <2> QED
    BY <1>8, <2>1, <2>2, <2>3
<1> QED
  BY <1>2, <1>5, <1>6, <1>7, <1>8, <1>9, CanonNext

(* Acceptance makes canonical what the Story Bible is ahead by.             *)
LEMMA AcceptRefines ==
  ASSUME IInv, Accept
  PROVE  Canon!Accept
<1>1. cp.node = "accept" /\ ScenesOf(cp.bible) = Append(AcceptedDrafts, cp.draft)
  BY CanonicalFromInv DEF Accept, CanonicalBible
<1>2. /\ cp.accepted \in Seq(Accepted) /\ AcceptedUnit \in Accepted /\ cp.draft \in Version
      /\ AcceptedDrafts \in Seq(Version) /\ Len(AcceptedDrafts) \in Nat
  <2>1. cp.reason \in AcceptanceReasons
    BY <1>1, Parts DEF PassedInv, Passed, Reviewed, AcceptanceReasons
  <2>2. AcceptedUnit \in Accepted
    BY <2>1, Parts DEF AcceptedUnit, Accepted, TypeOK, Checkpoint
  <2> QED
    BY <2>2, Parts, DraftsType, LenProperties DEF TypeOK, Checkpoint
<1>3. /\ cp'.accepted = Append(cp.accepted, AcceptedUnit) /\ cp'.bible = cp.bible
      /\ outputs' = outputs /\ status' = status
  BY Parts DEF Accept, Checkpointed, TypeOK, Checkpoint
<1>4. AcceptedDrafts' = Append(AcceptedDrafts, cp.draft)
  <2> DEFINE L == Len(cp.accepted)
             accepted == Append(cp.accepted, AcceptedUnit)
             drafts == Append(AcceptedDrafts, cp.draft)
  <2>1. /\ L \in Nat /\ Len(accepted) = L + 1 /\ Len(AcceptedDrafts) = L
        /\ DOMAIN accepted = 1 .. L + 1
        /\ \A i \in 1 .. L : accepted[i] = cp.accepted[i]
        /\ accepted[L + 1] = AcceptedUnit
        /\ \A i \in 1 .. L : AcceptedDrafts[i] = cp.accepted[i].draft
    <3>1. accepted \in Seq(Accepted) /\ Len(accepted) = L + 1
      BY <1>2, AppendProperties
    <3> QED
      BY <1>2, <3>1, Parts, DraftsType, AppendProperties, LenProperties
  <2>2. /\ drafts \in Seq(Version) /\ DOMAIN drafts = 1 .. L + 1
        /\ \A i \in 1 .. L : drafts[i] = AcceptedDrafts[i]
        /\ drafts[L + 1] = cp.draft
    BY <1>2, <2>1, AppendProperties, LenProperties
  <2>3. \A i \in 1 .. L + 1 : accepted[i].draft = drafts[i]
    <3> HIDE DEF accepted, drafts, L
    <3>1. \A i \in 1 .. L + 1 : i \in 1 .. L \/ i = L + 1
      BY <2>1
    <3>2. AcceptedUnit.draft = cp.draft
      BY DEF AcceptedUnit
    <3> QED
      BY <2>1, <2>2, <3>1, <3>2
  <2>4. AcceptedDrafts' = [i \in 1 .. L + 1 |-> accepted[i].draft]
    BY <1>3, <2>1 DEF AcceptedDrafts
  <2>5. /\ AcceptedDrafts' \in Seq(Version) /\ Len(AcceptedDrafts') = L + 1
        /\ \A i \in 1 .. L + 1 : AcceptedDrafts'[i] = drafts[i]
    <3>1. \A i \in 1 .. L + 1 : drafts[i] \in Version
      BY <2>2, ElementOfSeq
    <3> HIDE DEF L, drafts, accepted
    <3>2. [i \in 1 .. L + 1 |-> accepted[i].draft] \in Seq(Version)
      BY <2>1, <2>3, <3>1, IsASeq
    <3> QED
      BY <2>1, <2>3, <2>4, <3>2, LenProperties
  <2>6. Len(drafts) = L + 1
    BY <2>1, <2>2, LenProperties
  <2> QED
    BY <2>2, <2>5, <2>6, SeqEqual
<1>5. ScenesOf(cp.bible) # AcceptedDrafts
  <2>1. Len(Append(AcceptedDrafts, cp.draft)) = Len(AcceptedDrafts) + 1
    BY <1>2, AppendProperties
  <2> QED
    BY <1>1, <1>2, <2>1
<1>6. Scenes' = Scenes /\ ScenesOf(cp.bible)' = ScenesOf(cp.bible)
  BY <1>3 DEF Scenes, ScenesOf
<1> QED
  BY <1>1, <1>3, <1>4, <1>5, <1>6, CanonNext

(* A run completes with all of its units accepted.                          *)
LEMMA CompleteRefines ==
  ASSUME IInv, Complete
  PROVE  Canon!Complete
<1>1. cp.node = "end" /\ outputs' = outputs /\ cp' = cp /\ status' = "complete"
  BY DEF Complete
<1>2. Len(AcceptedDrafts) = NumUnits
  BY <1>1, Parts, DraftsType, ProductionAssumption DEF Position
<1>3. ScenesOf(cp.bible) = AcceptedDrafts
  BY <1>1, CanonicalFromInv DEF CanonicalBible
<1>4. /\ Scenes' = Scenes /\ AcceptedDrafts' = AcceptedDrafts
      /\ ScenesOf(cp.bible)' = ScenesOf(cp.bible)
  BY <1>1 DEF Scenes, AcceptedDrafts, ScenesOf
<1> QED
  BY <1>1, <1>2, <1>3, <1>4, CanonNext

(* A run starts with no canon.                                              *)
LEMMA InitRefines ==
  ASSUME Init
  PROVE  Canon!Init
  BY CanonNext DEF Init, Scenes, AcceptedDrafts, ScenesOf, NoVersion

(* Every step of a production is one of its canon, or changes none.         *)
LEMMA StepRefines ==
  ASSUME IInv, [Next]_vars
  PROVE  [Canon!Next]_(Canon!vars)
<1>1. CASE Call
  BY <1>1, CallRefines
<1>2. CASE NodeUpdate
  BY <1>2, WorkRefines, EnterRefines, AcceptRefines DEF NodeUpdate, Canon!Next
<1>3. CASE Complete \/ Retry
  BY <1>3, CompleteRefines, WorkRefines DEF Canon!Next
<1>4. CASE UNCHANGED vars
  <2>1. /\ Scenes' = Scenes /\ AcceptedDrafts' = AcceptedDrafts
        /\ ScenesOf(cp.bible)' = ScenesOf(cp.bible) /\ status' = status
    BY <1>4 DEF vars, Scenes, AcceptedDrafts, ScenesOf
  <2> QED
    BY <2>1, CanonNext
<1> QED
  BY <1>1, <1>2, <1>3, <1>4 DEF Next


-----------------------------------------------------------------------------
(* The theorems.                                                            *)

(* The checkpoint and the stored outputs stay well-formed, whatever the     *)
(* reviews say and whichever nodes are run again.                           *)
THEOREM TypeCorrect == Spec => []TypeOK
<1>1. IInv => TypeOK
  BY Parts
<1> QED
  BY <1>1, Invariance, PTL

(* What is accepted was reviewed as it is, and passed: no sequence of       *)
(* revisions, adjudications, lost nodes and retries accepts a draft with    *)
(* the critique or the report of another (_accept_node).                    *)
THEOREM AcceptedOnlyReviewed == Spec => []AcceptedReviewed
<1>1. IInv => AcceptedReviewed
  BY Parts
<1> QED
  BY <1>1, Invariance, PTL

(* The Story Bible is the accepted drafts in their order, but for the one   *)
(* entered and not yet accepted (_validate_story_bible_update).             *)
THEOREM BibleIsCanonical == Spec => []CanonicalBible
<1>1. IInv => CanonicalBible
  BY CanonicalFromInv
<1> QED
  BY <1>1, Invariance, PTL

(* Writers and reviewers are given the critiques of this unit, one of each  *)
(* revision, although the list is shared by all units and adjudications     *)
(* lengthen it (_current_critique_history).                                 *)
THEOREM HistoryExact == Spec => []HistoryIsExact
<1>1. IInv => HistoryIsExact
  BY HistoryFromInv
<1> QED
  BY <1>1, Invariance, PTL

(* No node is ever handed a checkpoint it raises SceneProductionStateError  *)
(* for.                                                                     *)
THEOREM NeverRefused == Spec => []NoStateError
<1>1. IInv => NoStateError
  BY NoErrorFromInv DEF NoStateError
<1> QED
  BY <1>1, Invariance, PTL

(* Nothing of a unit but its Story Bible update is asked for after an       *)
(* adjudication that was kept.                                              *)
THEOREM AdjudicatedLast == Spec => []AdjudicationIsLast
<1>1. IInv => AdjudicationIsLast
  BY Parts
<1> QED
  BY <1>1, Invariance, PTL

(* max_graph_steps is enough for every number of units, revisions and       *)
(* dialogues: LangGraph never cuts a run off.                               *)
THEOREM EnvelopeIsEnough == Spec => []StepsWithinEnvelope
<1>1. IInv => StepsWithinEnvelope
  BY EnvelopeFromInv
<1> QED
  BY <1>1, Invariance, PTL

(* A production implements StoryCanon: its canon only grows, one drafted    *)
(* scene at a time, entered before it is accepted, and it completes with    *)
(* all of its units.                                                        *)
THEOREM ImplementsCanon == Spec => CanonSpec
<1>1. Init => Canon!Init
  BY InitRefines
<1>2. IInv /\ [Next]_vars => [Canon!Next]_(Canon!vars)
  BY StepRefines
<1> QED
  BY <1>1, <1>2, Invariance, PTL DEF Spec, CanonSpec, Canon!Spec
=============================================================================
