--------------------------- MODULE CampaignProofs ---------------------------
(***************************************************************************)
(* Proofs about Campaign, for every plan, every number of harness processes *)
(* and every bound on attempts and losses.                                  *)
(***************************************************************************)
EXTENDS Campaign, TLAPS, NaturalsInduction, WellFoundedInduction

-----------------------------------------------------------------------------
(* The inductive invariant.                                                 *)

(* What a process is in the middle of.                                      *)
Approving(r) == runner[r].pc \in {"confirm", "resume"}
Batching(r) == runner[r].pc \in {"step", "call", "acquire", "stale", "merge", "replace", "unlock"}
InLock(r) == runner[r].pc \in {"merge", "replace", "unlock"}

(* An approval works through a packet: a version it inspected is the        *)
(* packet's, and a decision it is about to make is a confirmed one.         *)
Deciding(r) ==
  Approving(r) =>
    /\ runner[r].form \in packets /\ runner[r].cases \subseteq InPacket(runner[r].form)
    /\ \A c \in runner[r].cases : runner[r].seen[c] \in {0, runner[r].form[c]}
    /\ runner[r].pc = "resume" =>
         /\ runner[r].cases # {}
         /\ runner[r].seen[FirstOf(r)] # 0
         /\ <<FirstOf(r), runner[r].form>> \in confirmed
ApprovalInv == ReviewedApproval /\ \A r \in Runners : Deciding(r)

(* A story is told by one process, which marked it running.                 *)
Telling(r) ==
  /\ NextCase(r) >= 1
  /\ Doing(r, "call") => /\ NextCase(r) \in Cases \cap runner[r].cases
                         /\ story[NextCase(r)].status = "RUNNING"
TellingInv ==
  /\ \A r \in Runners : Telling(r)
  /\ \A r, q \in Runners :
       r # q /\ Batching(r) /\ Batching(q) => runner[r].cases \cap runner[q].cases = {}

(* Unless a process is lost with the lock, the lock is its owner's, and     *)
(* what is merged holds every success of the report it will replace.        *)
Saving(r) ==
  /\ InLock(r) => reportLock = r
  /\ runner[r].pc # "stale"
  /\ Doing(r, "replace") =>
       \A c \in Cases : report[c] = SuccessResult => runner[r].merged[c] = SuccessResult
LockInv == ~ CrashInLock => reportLock # "dead" /\ \A r \in Runners : Saving(r)

CampaignInv == CampaignTypeOK /\ ApprovalInv /\ TellingInv /\ LockInv


-----------------------------------------------------------------------------
(* Types.                                                                   *)

BlueprintRun == [status : {"none", "PENDING", "PAUSED", "SUCCEEDED", "FAILED"},
                 version : Nat, failures : Nat]
StoryRun == [status : {"none", "RUNNING", "SUCCEEDED", "FAILED"}, calls : Nat]
Process ==
  [pc : {"idle", "confirm", "resume", "step", "call", "acquire", "stale", "merge",
         "replace", "unlock"},
   cases : SUBSET Cases, retry : BOOLEAN, next : Nat, results : [Cases -> Result],
   merged : [Cases -> Result], form : [Agentic -> Nat], seen : [Agentic -> Nat]]

(* The type invariant, by its parts.                                        *)
LEMMA CampaignFields ==
  CampaignTypeOK <=>
    /\ blueprint \in [Agentic -> BlueprintRun]
    /\ packets \subseteq [Agentic -> Nat] /\ confirmed \subseteq Agentic \X packets
    /\ story \in [Cases -> StoryRun]
    /\ report \in [Cases -> Result]
    /\ reportLock \in {"free", "dead"} \cup Runners
    /\ runner \in [Runners -> Process]
    /\ crashes \in Nat
  BY DEF CampaignTypeOK, BlueprintRun, StoryRun, Process

(* Results and forms that say nothing.                                      *)
LEMMA Blanks ==
  /\ NoResult \in Result /\ SuccessResult \in Result
  /\ \A n \in Nat : FailedResult(n) \in Result
  /\ EmptyReport \in [Cases -> Result] /\ NoForm \in [Agentic -> Nat]
  /\ FreeRunner \in Process
<1>1. /\ NoResult \in Result /\ SuccessResult \in Result
      /\ \A n \in Nat : FailedResult(n) \in Result
  BY DEF NoResult, SuccessResult, FailedResult, Result
<1>2. EmptyReport \in [Cases -> Result] /\ NoForm \in [Agentic -> Nat]
  BY <1>1 DEF EmptyReport, NoForm
<1>3. FreeRunner \in Process
  BY <1>2 DEF FreeRunner, Process
<1> QED
  BY <1>1, <1>2, <1>3

(* A process takes its turn; the others stay where they are.                *)
LEMMA OneTurn ==
  ASSUME CampaignTypeOK, NEW r \in Runners, NEW state, Turn(r, state)
  PROVE  /\ runner'[r] = state
         /\ \A q \in Runners \ {r} : runner'[q] = runner[q]
         /\ state \in Process => runner' \in [Runners -> Process]
  BY CampaignFields DEF Turn

(* The first of a process's cases is one of them.                           *)
LEMMA FirstIsCase ==
  ASSUME CampaignTypeOK, NEW r \in Runners, runner[r].cases # {}
  PROVE  FirstOf(r) \in runner[r].cases
<1> DEFINE cases == runner[r].cases
           less == {pair \in Nat \X Nat : pair[1] < pair[2]}
<1>1. cases \subseteq Nat /\ cases # {}
  BY CampaignFields, CampaignAssumption DEF Process, Cases
<1>2. IsWellFoundedOn(less, Nat)
  BY NatLessThanWellFounded DEF OpToRel
<1>3. PICK c \in cases : \A d \in cases : <<d, c>> \notin less
  <2> HIDE DEF cases, less
  <2> QED
    BY <1>1, <1>2, WFMin
<1>4. ASSUME NEW d \in cases PROVE c <= d
  <2>1. c \in Nat /\ d \in Nat /\ <<d, c>> \in Nat \X Nat
    BY <1>1
  <2>2. ~ (d < c)
    <3>1. <<d, c>>[1] = d /\ <<d, c>>[2] = c
      OBVIOUS
    <3> QED
      BY <1>3, <2>1, <3>1
  <2> QED
    BY <2>1, <2>2
<1> QED
  BY <1>3, <1>4 DEF FirstOf


(* A process that approves Blueprints works through agentic cases.          *)
LEMMA ApprovedCases ==
  ASSUME CampaignTypeOK, NEW r \in Runners, Deciding(r), Approving(r)
  PROVE  /\ runner[r].form \in packets /\ runner[r].cases \subseteq Agentic
         /\ runner[r].cases # {} => FirstOf(r) \in runner[r].cases /\ FirstOf(r) \in Agentic
  BY FirstIsCase DEF Deciding, InPacket


(* What executing a Blueprint run leaves is one.                            *)
LEMMA ExecutedType ==
  ASSUME CampaignTypeOK, NEW c \in Agentic, NEW after \in Executed(c)
  PROVE  after \in BlueprintRun
<1>1. blueprint[c] \in BlueprintRun
  BY CampaignFields
<1>2. \A n \in Nat : /\ [blueprint[c] EXCEPT !.status = "PAUSED", !.version = n] \in BlueprintRun
                    /\ [blueprint[c] EXCEPT !.status = "FAILED", !.failures = n] \in BlueprintRun
  BY <1>1 DEF BlueprintRun
<1>3. blueprint[c].version + 1 \in Nat /\ blueprint[c].failures + 1 \in Nat
  BY <1>1 DEF BlueprintRun
<1> QED
  BY <1>2, <1>3 DEF Executed

(* The steps of Blueprints and packets keep the types.                      *)
LEMMA BlueprintType ==
  ASSUME CampaignTypeOK,
         \/ \E c \in Agentic : PersistCase(c) \/ PrepareCase(c) \/ ReviseElsewhere(c)
         \/ \E targets \in SUBSET Agentic : Package(targets)
  PROVE  CampaignTypeOK'
<1>1. ASSUME NEW c \in Agentic, PersistCase(c) PROVE CampaignTypeOK'
  <2>1. [blueprint[c] EXCEPT !.status = "PENDING"] \in BlueprintRun
    BY CampaignFields DEF BlueprintRun
  <2>2. blueprint' \in [Agentic -> BlueprintRun]
    BY <1>1, <2>1, CampaignFields DEF PersistCase
  <2> QED
    BY <1>1, <2>2, CampaignFields DEF CampaignTypeOK, PersistCase, BlueprintRun
<1>2. ASSUME NEW c \in Agentic, PrepareCase(c) PROVE CampaignTypeOK'
  <2>1. blueprint' \in [Agentic -> BlueprintRun]
    BY <1>2, CampaignFields, ExecutedType DEF PrepareCase
  <2> QED
    BY <1>2, <2>1, CampaignFields DEF CampaignTypeOK, PrepareCase, BlueprintRun
<1>3. ASSUME NEW c \in Agentic, ReviseElsewhere(c) PROVE CampaignTypeOK'
  <2>1. [blueprint[c] EXCEPT !.version = @ + 1] \in BlueprintRun
    BY CampaignFields DEF BlueprintRun
  <2>2. blueprint' \in [Agentic -> BlueprintRun]
    BY <1>3, <2>1, CampaignFields DEF ReviseElsewhere
  <2> QED
    BY <1>3, <2>2, CampaignFields DEF CampaignTypeOK, ReviseElsewhere, BlueprintRun
<1>4. ASSUME NEW targets \in SUBSET Agentic, Package(targets) PROVE CampaignTypeOK'
  <2>1. packets \subseteq packets' /\ packets' \subseteq [Agentic -> Nat]
    BY <1>4, CampaignFields DEF Package, Surviving, BlueprintRun
  <2>2. confirmed' \subseteq Agentic \X packets'
    BY <1>4, <2>1, CampaignFields DEF Package
  <2> QED
    BY <1>4, <2>1, <2>2 DEF CampaignTypeOK, Package
<1> QED
  BY <1>1, <1>2, <1>3, <1>4

(* A process that approves reviewed Blueprints keeps the types.             *)
LEMMA ApprovalType ==
  ASSUME CampaignTypeOK, NEW r \in Runners, Deciding(r),
         \/ \E form \in packets, targets \in SUBSET Agentic : ApproveStart(r, form, targets)
         \/ Confirm(r) \/ ResumeReviewed(r)
  PROVE  CampaignTypeOK'
<1>1. runner[r] \in Process
  BY CampaignFields
<1>2. ASSUME NEW form \in packets, NEW targets \in SUBSET Agentic, ApproveStart(r, form, targets)
      PROVE  CampaignTypeOK'
  <2> DEFINE seen == [c \in Agentic |-> IF c \in InPacket(form) /\ StatusOf(c) = "PAUSED"
                                        THEN blueprint[c].version ELSE 0]
             state == [FreeRunner EXCEPT !.pc = "confirm", !.form = form,
                                         !.cases = InPacket(form), !.seen = seen]
  <2>1. form \in [Agentic -> Nat] /\ InPacket(form) \in SUBSET Cases
    BY CampaignFields DEF InPacket, Agentic
  <2>2. seen \in [Agentic -> Nat]
    BY CampaignFields DEF BlueprintRun
  <2>3. Turn(r, state)
    BY <1>2 DEF ApproveStart
  <2> HIDE DEF seen
  <2>4. state \in Process
    BY <2>1, <2>2, Blanks DEF Process
  <2> HIDE DEF state
  <2>5. runner' \in [Runners -> Process]
    BY <2>3, <2>4, OneTurn
  <2> QED
    BY <1>2, <2>5, CampaignFields DEF CampaignTypeOK, ApproveStart, Process
<1>3. CASE Confirm(r)
  <2>1. Approving(r)
    BY <1>3 DEF Confirm, Doing, Approving
  <2>2. confirmed' \subseteq Agentic \X packets
    BY <1>3, <2>1, ApprovedCases, CampaignFields DEF Confirm
  <2>3. PICK state \in Process : Turn(r, state)
    <3>1. /\ CaseDone(r, FirstOf(r)) \in Process
          /\ [runner[r] EXCEPT !.pc = "resume"] \in Process
          /\ FreeRunner \in Process
      BY <1>1, Blanks DEF CaseDone, Process
    <3> QED
      BY <1>3, <3>1 DEF Confirm, Quit, GoOn
  <2>4. runner' \in [Runners -> Process]
    BY <2>3, OneTurn
  <2> QED
    BY <1>3, <2>2, <2>4, CampaignFields DEF CampaignTypeOK, Confirm, Process
<1>4. CASE ResumeReviewed(r)
  <2>1. runner[r].cases # {} /\ FirstOf(r) \in Agentic
    BY <1>4, ApprovedCases DEF ResumeReviewed, Doing, Approving, Deciding
  <2>2. [blueprint[FirstOf(r)] EXCEPT !.status = "SUCCEEDED"] \in BlueprintRun
    BY <2>1, CampaignFields DEF BlueprintRun
  <2>3. blueprint' \in [Agentic -> BlueprintRun]
    BY <1>4, <2>1, <2>2, CampaignFields DEF ResumeReviewed
  <2>4. PICK state \in Process : Turn(r, state)
    <3>1. CaseDone(r, FirstOf(r)) \in Process /\ FreeRunner \in Process
      BY <1>1, Blanks DEF CaseDone, Process
    <3> QED
      BY <1>4, <3>1 DEF ResumeReviewed, Quit
  <2>5. runner' \in [Runners -> Process]
    BY <2>4, OneTurn
  <2> QED
    BY <1>4, <2>3, <2>5, CampaignFields DEF CampaignTypeOK, ResumeReviewed, Process, BlueprintRun
<1> QED
  BY <1>2, <1>3, <1>4

(* The case a process is at, and what it makes of it.                       *)
LEMMA SavedType ==
  ASSUME CampaignTypeOK, NEW r \in Runners, NEW c \in Cases, NEW result \in Result
  PROVE  With(r, c, result) \in Process /\ [With(r, c, result) EXCEPT !.pc = "acquire"] \in Process
<1>1. runner[r] \in Process
  BY CampaignFields
<1>2. c + 1 \in Nat
  BY CampaignAssumption DEF Cases
<1> QED
  BY <1>1, <1>2 DEF With, Process


(* A batch keeps the types.                                                 *)
LEMMA BatchType ==
  ASSUME CampaignTypeOK, NEW r \in Runners, Telling(r),
         \/ \E cases \in (SUBSET Cases) \ {{}}, retry \in BOOLEAN : RunStart(r, cases, retry)
         \/ BatchStep(r)
  PROVE  CampaignTypeOK'
<1> DEFINE c == NextCase(r)
<1>1. runner[r] \in Process /\ NumCases \in Nat
  BY CampaignFields, CampaignAssumption
<1>2. InPlan(r) => c \in Cases
  BY <1>1 DEF InPlan, NextCase, Telling, Cases, Process
<1>3. ASSUME NEW cases \in (SUBSET Cases) \ {{}}, NEW retry \in BOOLEAN, RunStart(r, cases, retry)
      PROVE  CampaignTypeOK'
  <2> DEFINE failures == BlueprintFailures(cases)
             prior == [d \in Cases |-> IF d \in failures THEN FailedResult(blueprint[d].failures)
                                       ELSE report[d]]
             state == [FreeRunner EXCEPT !.pc = "step", !.cases = cases, !.retry = retry,
                                         !.results = prior]
  <2>1. \A d \in failures : FailedResult(blueprint[d].failures) \in Result
    BY CampaignFields, Blanks DEF BlueprintFailures, BlueprintRun
  <2>2. prior \in [Cases -> Result]
    BY <2>1, CampaignFields
  <2>3. Turn(r, state)
    BY <1>3 DEF RunStart
  <2> HIDE DEF prior
  <2>4. state \in Process
    BY <2>2, Blanks DEF Process
  <2> HIDE DEF state
  <2>5. runner' \in [Runners -> Process]
    BY <2>3, <2>4, OneTurn
  <2> QED
    BY <1>3, <2>5, CampaignFields DEF CampaignTypeOK, RunStart, Process
<1>4. CASE CarryOver(r)
  <2> DEFINE result == IF Carried(r) THEN runner[r].results[c] ELSE NoResult
  <2>1. result \in Result
    BY <1>1, <1>2, <1>4, Blanks DEF CarryOver, Process
  <2>2. Turn(r, With(r, c, result))
    BY <1>4 DEF CarryOver
  <2> HIDE DEF result
  <2>3. With(r, c, result) \in Process
    BY <1>2, <1>4, <2>1, SavedType DEF CarryOver
  <2>4. runner' \in [Runners -> Process]
    BY <2>2, <2>3, OneTurn
  <2> QED
    BY <1>4, <2>4, CampaignFields DEF CampaignTypeOK, CarryOver, Process
<1>5. CASE LastSave(r)
  <2>1. [runner[r] EXCEPT !.pc = "acquire", !.next = @ + 1] \in Process
    <3>1. \A n \in Nat : [runner[r] EXCEPT !.pc = "acquire", !.next = n] \in Process
      BY <1>1 DEF Process
    <3>2. runner[r].next + 1 \in Nat
      BY <1>1 DEF Process
    <3> QED
      BY <3>1, <3>2
  <2>2. runner' \in [Runners -> Process]
    BY <1>5, <2>1, OneTurn DEF LastSave
  <2> QED
    BY <1>5, <2>2, CampaignFields DEF CampaignTypeOK, LastSave, Process
<1>6. CASE RetryBlueprint(r)
  <2>1. c \in Agentic /\ c \in Cases
    BY <1>6 DEF RetryBlueprint, BlueprintFailures, Agentic
  <2>2. blueprint' \in [Agentic -> BlueprintRun]
    BY <1>6, <2>1, CampaignFields, ExecutedType DEF RetryBlueprint
  <2>3. PICK state \in Process : Turn(r, state)
    BY <1>6, <2>1, SavedType, Blanks DEF RetryBlueprint, SaveAfter, Quit
  <2>4. runner' \in [Runners -> Process]
    BY <2>3, OneTurn
  <2> QED
    BY <1>6, <2>2, <2>4, CampaignFields DEF CampaignTypeOK, RetryBlueprint, Process, BlueprintRun
<1>7. CASE ReuseStory(r)
  <2>1. c \in Cases
    BY <1>2, <1>7 DEF ReuseStory, MustExecute
  <2>2. runner' \in [Runners -> Process]
    BY <1>7, <2>1, SavedType, Blanks, OneTurn DEF ReuseStory, SaveAfter
  <2> QED
    BY <1>7, <2>2, CampaignFields DEF CampaignTypeOK, ReuseStory, Process
<1>8. CASE StartStory(r)
  <2>1. c \in Cases
    BY <1>2, <1>8 DEF StartStory, MustExecute
  <2>2. [status |-> "RUNNING", calls |-> story[c].calls + 1] \in StoryRun
    BY <2>1, CampaignFields DEF StoryRun
  <2>3. story' \in [Cases -> StoryRun]
    BY <1>8, <2>1, <2>2, CampaignFields DEF StartStory
  <2>4. [runner[r] EXCEPT !.pc = "call"] \in Process
    BY <1>1 DEF Process
  <2>5. runner' \in [Runners -> Process]
    BY <1>8, <2>4, OneTurn DEF StartStory, GoOn
  <2> QED
    BY <1>8, <2>3, <2>5, CampaignFields DEF CampaignTypeOK, StartStory, Process, StoryRun
<1>9. CASE BaselineTold(r) \/ BaselineFails(r) \/ AgenticTold(r) \/ AgenticFails(r)
  <2>1. c \in Cases
    BY <1>9 DEF BaselineTold, BaselineFails, AgenticTold, AgenticFails, Ends, Telling
  <2>2. PICK status \in {"SUCCEEDED", "FAILED"} : Ends(r, status)
    BY <1>9 DEF BaselineTold, BaselineFails, AgenticTold, AgenticFails
  <2>3. [story[c] EXCEPT !.status = status] \in StoryRun
    BY <2>1, CampaignFields DEF StoryRun
  <2>4. story' \in [Cases -> StoryRun]
    BY <2>1, <2>2, <2>3, CampaignFields DEF Ends
  <2>5. PICK state \in Process : Turn(r, state)
    BY <1>9, <2>1, SavedType, Blanks
       DEF BaselineTold, BaselineFails, AgenticTold, AgenticFails, SaveAfter, Quit
  <2>6. runner' \in [Runners -> Process]
    BY <2>5, OneTurn
  <2> QED
    BY <1>9, <2>4, <2>6, CampaignFields
       DEF CampaignTypeOK, BaselineTold, BaselineFails, AgenticTold, AgenticFails, Process,
           StoryRun
<1> QED
  BY <1>3, <1>4, <1>5, <1>6, <1>7, <1>8, <1>9 DEF BatchStep

(* Saving the report keeps the types.                                       *)
LEMMA SaveType ==
  ASSUME CampaignTypeOK, NEW r \in Runners,
         \/ AcquireLock(r) \/ RemoveStale(r) \/ MergeReport(r) \/ ReplaceReport(r)
         \/ UnlockReport(r) \/ Lose(r)
  PROVE  CampaignTypeOK'
<1>1. runner[r] \in Process
  BY CampaignFields
<1>2. /\ FreeRunner \in Process
      /\ \A pc \in {"merge", "stale", "acquire", "step"} : [runner[r] EXCEPT !.pc = pc] \in Process
  BY <1>1, Blanks DEF Process
<1>3. CASE AcquireLock(r) \/ RemoveStale(r) \/ UnlockReport(r) \/ Lose(r)
  <2>1. PICK state \in Process : Turn(r, state)
    BY <1>2, <1>3 DEF AcquireLock, RemoveStale, UnlockReport, Lose, GoOn, Quit
  <2>2. runner' \in [Runners -> Process]
    BY <2>1, OneTurn
  <2>3. reportLock' \in {"free", "dead"} \cup Runners /\ crashes' \in Nat
    BY <1>3, CampaignFields DEF AcquireLock, RemoveStale, UnlockReport, Lose
  <2> QED
    BY <1>3, <2>2, <2>3, CampaignFields
       DEF CampaignTypeOK, AcquireLock, RemoveStale, UnlockReport, Lose, Process
<1>4. CASE MergeReport(r)
  <2> DEFINE passed == [c \in Cases |-> IF c < runner[r].next THEN runner[r].results[c]
                                        ELSE NoResult]
             state == [runner[r] EXCEPT !.pc = "replace", !.merged = Merged(report, passed)]
  <2>1. passed \in [Cases -> Result]
    BY <1>1, Blanks DEF Process
  <2> HIDE DEF passed
  <2>2. Merged(report, passed) \in [Cases -> Result]
    BY <2>1, CampaignFields DEF Merged
  <2>3. state \in Process
    BY <1>1, <2>2 DEF Process
  <2>4. Turn(r, state)
    BY <1>4 DEF MergeReport, passed
  <2> HIDE DEF state
  <2>5. runner' \in [Runners -> Process]
    BY <2>3, <2>4, OneTurn
  <2> QED
    BY <1>4, <2>5, CampaignFields DEF CampaignTypeOK, MergeReport, Process
<1>5. CASE ReplaceReport(r)
  <2>1. [runner[r] EXCEPT !.pc = "unlock", !.merged = EmptyReport] \in Process
    BY <1>1, Blanks DEF Process
  <2>2. runner' \in [Runners -> Process]
    BY <1>5, <2>1, OneTurn DEF ReplaceReport
  <2>3. report' \in [Cases -> Result]
    BY <1>1, <1>5 DEF ReplaceReport, Process
  <2> QED
    BY <1>5, <2>2, <2>3, CampaignFields DEF CampaignTypeOK, ReplaceReport, Process
<1> QED
  BY <1>3, <1>4, <1>5


-----------------------------------------------------------------------------
(* What a step may change.                                                  *)

ReportStep(r) ==
  \/ AcquireLock(r) \/ RemoveStale(r) \/ MergeReport(r) \/ ReplaceReport(r)
  \/ UnlockReport(r) \/ Lose(r)
StartsBatch(r) ==
  \E cases \in (SUBSET Cases) \ {{}}, retry \in BOOLEAN : RunStart(r, cases, retry)
StartsApproval(r) ==
  \E form \in packets, targets \in SUBSET Agentic : ApproveStart(r, form, targets)
ApprovalStep(r) == StartsApproval(r) \/ Confirm(r) \/ ResumeReviewed(r)
OperatorStep ==
  \/ \E c \in Agentic : PersistCase(c) \/ PrepareCase(c) \/ ReviseElsewhere(c)
  \/ \E targets \in SUBSET Agentic : Package(targets)

(* Every step is an operator's or some process's.                           *)
LEMMA Steps ==
  ASSUME CampaignNext
  PROVE  \/ OperatorStep
         \/ \E r \in Runners : ApprovalStep(r) \/ StartsBatch(r) \/ BatchStep(r) \/ ReportStep(r)
  BY DEF CampaignNext, OperatorStep, ApprovalStep, StartsApproval, StartsBatch, ReportStep

(* The ways in which a process goes on.                                     *)
LEMMA ProcessTurns ==
  ASSUME CampaignTypeOK, NEW r \in Runners
  PROVE  /\ Quit(r) => runner'[r] = FreeRunner
         /\ \A pc : GoOn(r, pc) => /\ runner'[r].pc = pc
                                   /\ runner'[r].cases = runner[r].cases
                                   /\ runner'[r].next = runner[r].next
                                   /\ runner'[r].merged = runner[r].merged
         /\ \A c, result : SaveAfter(r, c, result) => /\ runner'[r].pc = "acquire"
                                                      /\ runner'[r].cases = runner[r].cases
                                                      /\ runner'[r].next = c + 1
         /\ \A c, result : Turn(r, With(r, c, result)) => /\ runner'[r].pc = runner[r].pc
                                                          /\ runner'[r].cases = runner[r].cases
                                                          /\ runner'[r].next = c + 1
<1>1. runner[r] \in Process
  BY CampaignFields
<1>2. Quit(r) => runner'[r] = FreeRunner
  BY OneTurn DEF Quit
<1>3. ASSUME NEW pc, GoOn(r, pc)
      PROVE  /\ runner'[r].pc = pc /\ runner'[r].cases = runner[r].cases
             /\ runner'[r].next = runner[r].next /\ runner'[r].merged = runner[r].merged
  <2>1. runner'[r] = [runner[r] EXCEPT !.pc = pc]
    BY <1>3, OneTurn DEF GoOn
  <2> QED
    BY <1>1, <2>1 DEF Process
<1>4. ASSUME NEW c, NEW result, SaveAfter(r, c, result)
      PROVE  /\ runner'[r].pc = "acquire" /\ runner'[r].cases = runner[r].cases
             /\ runner'[r].next = c + 1
  <2>1. runner'[r] = [With(r, c, result) EXCEPT !.pc = "acquire"]
    BY <1>4, OneTurn DEF SaveAfter
  <2> QED
    BY <1>1, <2>1 DEF Process, With
<1>5. ASSUME NEW c, NEW result, Turn(r, With(r, c, result))
      PROVE  /\ runner'[r].pc = runner[r].pc /\ runner'[r].cases = runner[r].cases
             /\ runner'[r].next = c + 1
  <2>1. runner'[r] = With(r, c, result)
    BY <1>5, OneTurn
  <2> QED
    BY <1>1, <2>1 DEF Process, With
<1> QED
  BY <1>2, <1>3, <1>4, <1>5


(* Where a process of a batch, or one that saves, goes on.                  *)
LEMMA BatchTurns ==
  ASSUME CampaignTypeOK, NEW r \in Runners, Telling(r), BatchStep(r) \/ ReportStep(r)
  PROVE  /\ \/ runner'[r] = FreeRunner
            \/ /\ Batching(r) /\ Batching(r)' /\ runner'[r].cases = runner[r].cases
         /\ NextCase(r)' >= 1
         /\ runner'[r].pc = "call" => StartStory(r)
         /\ \A q \in Runners \ {r} : runner'[q] = runner[q]
<1>1. runner[r] \in Process /\ runner[r].next \in Nat /\ runner[r].next >= 1
  BY CampaignFields DEF Process, NextCase, Telling
<1>2. FreeRunner.next = 1 /\ FreeRunner.pc = "idle"
  BY DEF FreeRunner
<1>3. runner[r].next + 1 >= 1
  BY <1>1
<1>4. ASSUME Batching(r), NEW pc, GoOn(r, pc), NEW state, Turn(r, state),
             pc \in {"step", "call", "acquire", "stale", "merge", "replace", "unlock"}
      PROVE  /\ Batching(r)' /\ runner'[r].cases = runner[r].cases
             /\ NextCase(r)' >= 1 /\ runner'[r].pc = pc
             /\ \A q \in Runners \ {r} : runner'[q] = runner[q]
  BY <1>1, <1>4, ProcessTurns, OneTurn DEF Batching, NextCase
<1>5. ASSUME Quit(r)
      PROVE  /\ runner'[r] = FreeRunner /\ NextCase(r)' >= 1 /\ runner'[r].pc # "call"
             /\ \A q \in Runners \ {r} : runner'[q] = runner[q]
  BY <1>2, <1>5, ProcessTurns, OneTurn DEF Quit, NextCase
<1>6. ASSUME Batching(r), NEW result, SaveAfter(r, NextCase(r), result)
      PROVE  /\ Batching(r)' /\ runner'[r].cases = runner[r].cases
             /\ NextCase(r)' >= 1 /\ runner'[r].pc # "call"
             /\ \A q \in Runners \ {r} : runner'[q] = runner[q]
  <2>1. \A q \in Runners \ {r} : runner'[q] = runner[q]
    BY <1>6, OneTurn DEF SaveAfter
  <2> QED
    BY <1>3, <1>6, <2>1, ProcessTurns DEF Batching, NextCase
<1>7. CASE CarryOver(r)
  <2>1. PICK result : Turn(r, With(r, NextCase(r), result))
    BY <1>7 DEF CarryOver
  <2>2. \A q \in Runners \ {r} : runner'[q] = runner[q]
    BY <2>1, OneTurn
  <2>3. runner[r].pc = "step"
    BY <1>7 DEF CarryOver, InPlan, Doing
  <2> QED
    BY <1>3, <2>1, <2>2, <2>3, ProcessTurns DEF Batching, NextCase
<1>8. CASE LastSave(r)
  <2>1. /\ runner'[r] = [runner[r] EXCEPT !.pc = "acquire", !.next = @ + 1]
        /\ \A q \in Runners \ {r} : runner'[q] = runner[q]
    BY <1>8, OneTurn DEF LastSave
  <2>2. runner[r].pc = "step"
    BY <1>8 DEF LastSave, Doing
  <2>3. runner'[r].pc = "acquire" /\ runner'[r].cases = runner[r].cases
        /\ runner'[r].next = runner[r].next + 1
    BY <1>1, <2>1 DEF Process
  <2> QED
    BY <1>3, <2>1, <2>2, <2>3 DEF Batching, NextCase
<1>9. CASE RetryBlueprint(r) \/ ReuseStory(r) \/ StartStory(r)
  <2>1. Batching(r)
    BY <1>9 DEF RetryBlueprint, ReuseStory, StartStory, MustExecute, InPlan, Doing, Batching
  <2>2. CASE StartStory(r)
    BY <1>4, <2>1, <2>2 DEF StartStory, GoOn
  <2>3. CASE RetryBlueprint(r) \/ ReuseStory(r)
    BY <1>5, <1>6, <2>1, <2>3 DEF RetryBlueprint, ReuseStory
  <2> QED
    BY <1>9, <2>2, <2>3
<1>10. CASE BaselineTold(r) \/ BaselineFails(r) \/ AgenticTold(r) \/ AgenticFails(r)
  <2>1. Batching(r)
    BY <1>10 DEF BaselineTold, BaselineFails, AgenticTold, AgenticFails, Ends, Doing, Batching
  <2> QED
    BY <1>5, <1>6, <1>10, <2>1 DEF BaselineTold, BaselineFails, AgenticTold, AgenticFails
<1>11. CASE AcquireLock(r) \/ RemoveStale(r) \/ UnlockReport(r)
  <2>1. Batching(r)
    BY <1>11 DEF AcquireLock, RemoveStale, UnlockReport, Doing, Batching
  <2>2. \/ Quit(r)
        \/ \E pc \in {"merge", "stale", "acquire", "step"} : GoOn(r, pc)
    BY <1>11 DEF AcquireLock, RemoveStale, UnlockReport
  <2> QED
    BY <1>4, <1>5, <2>1, <2>2 DEF GoOn
<1>12. CASE MergeReport(r) \/ ReplaceReport(r)
  <2>1. Batching(r)
    BY <1>12 DEF MergeReport, ReplaceReport, Doing, Batching
  <2>2. ASSUME NEW pc \in {"replace", "unlock"}, NEW merged,
               Turn(r, [runner[r] EXCEPT !.pc = pc, !.merged = merged])
        PROVE  /\ runner'[r].pc = pc /\ runner'[r].cases = runner[r].cases
               /\ runner'[r].next = runner[r].next
               /\ \A q \in Runners \ {r} : runner'[q] = runner[q]
    <3>1. /\ runner'[r] = [runner[r] EXCEPT !.pc = pc, !.merged = merged]
          /\ \A q \in Runners \ {r} : runner'[q] = runner[q]
      BY <2>2, OneTurn
    <3> QED
      BY <1>1, <3>1 DEF Process
  <2>3. CASE MergeReport(r)
    BY <1>1, <2>1, <2>2, <2>3 DEF MergeReport, Batching, NextCase
  <2>4. CASE ReplaceReport(r)
    BY <1>1, <2>1, <2>2, <2>4 DEF ReplaceReport, Batching, NextCase
  <2> QED
    BY <1>12, <2>3, <2>4
<1>13. CASE Lose(r)
  BY <1>5, <1>13 DEF Lose
<1> QED
  BY <1>7, <1>8, <1>9, <1>10, <1>11, <1>12, <1>13 DEF BatchStep, ReportStep


-----------------------------------------------------------------------------
(* The reviews.                                                             *)

(* An approved Blueprint is never executed again: not by an operator.       *)
LEMMA OperatorKeepsApproved ==
  ASSUME CampaignTypeOK, OperatorStep
  PROVE  /\ confirmed' = confirmed /\ packets \subseteq packets'
         /\ \A c \in Agentic : blueprint'[c].status = "SUCCEEDED" => blueprint'[c] = blueprint[c]
<1>1. \A c \in Agentic : \A after \in Executed(c) : after.status # "SUCCEEDED"
  BY CampaignFields DEF Executed, BlueprintRun
<1>2. ASSUME NEW c \in Agentic, PersistCase(c) \/ PrepareCase(c) \/ ReviseElsewhere(c)
      PROVE  /\ confirmed' = confirmed /\ packets \subseteq packets'
             /\ \A d \in Agentic :
                  blueprint'[d].status = "SUCCEEDED" => blueprint'[d] = blueprint[d]
  <2>1. PICK after : blueprint' = [blueprint EXCEPT ![c] = after] /\ after.status # "SUCCEEDED"
    <3>1. CASE PersistCase(c)
      <4>1. [blueprint[c] EXCEPT !.status = "PENDING"].status # "SUCCEEDED"
        BY CampaignFields DEF BlueprintRun
      <4> QED
        BY <3>1, <4>1 DEF PersistCase
    <3>2. CASE PrepareCase(c)
      BY <1>1, <3>2 DEF PrepareCase
    <3>3. CASE ReviseElsewhere(c)
      <4>1. [blueprint[c] EXCEPT !.version = @ + 1].status # "SUCCEEDED"
        BY <3>3, CampaignFields DEF ReviseElsewhere, StatusOf, BlueprintRun
      <4> QED
        BY <3>3, <4>1 DEF ReviseElsewhere
    <3> QED
      BY <1>2, <3>1, <3>2, <3>3
  <2>2. confirmed' = confirmed /\ packets' = packets
    BY <1>2 DEF PersistCase, PrepareCase, ReviseElsewhere
  <2> QED
    BY <2>1, <2>2, CampaignFields
<1>3. ASSUME NEW targets \in SUBSET Agentic, Package(targets)
      PROVE  confirmed' = confirmed /\ packets \subseteq packets' /\ blueprint' = blueprint
  BY <1>3 DEF Package
<1> QED
  BY <1>2, <1>3 DEF OperatorStep

(* And not by a batch.                                                      *)
LEMMA BatchKeepsApproved ==
  ASSUME CampaignTypeOK, NEW r \in Runners, StartsBatch(r) \/ BatchStep(r) \/ ReportStep(r)
  PROVE  /\ confirmed' = confirmed /\ packets' = packets
         /\ \A c \in Agentic : blueprint'[c].status = "SUCCEEDED" => blueprint'[c] = blueprint[c]
<1>1. CASE RetryBlueprint(r)
  <2>1. NextCase(r) \in Agentic
    BY <1>1 DEF RetryBlueprint, BlueprintFailures
  <2>2. \A after \in Executed(NextCase(r)) : after.status # "SUCCEEDED"
    BY <2>1, CampaignFields DEF Executed, BlueprintRun
  <2> QED
    BY <1>1, <2>1, <2>2, CampaignFields DEF RetryBlueprint
<1>2. CASE StartsBatch(r)
  BY <1>2 DEF StartsBatch, RunStart
<1>3. CASE (BatchStep(r) /\ ~ RetryBlueprint(r)) \/ ReportStep(r)
  <2>1. packets' = packets /\ confirmed' = confirmed /\ blueprint' = blueprint
    BY <1>3 DEF BatchStep, CarryOver, LastSave, ReuseStory, StartStory, BaselineTold,
                BaselineFails, AgenticTold, AgenticFails, ReportStep, AcquireLock, RemoveStale,
                MergeReport, ReplaceReport, UnlockReport, Lose
  <2> QED
    BY <2>1
<1> QED
  BY <1>1, <1>2, <1>3

(* Packets and confirmations stay, so what relied on them still does.       *)
LEMMA ReviewedStays ==
  ASSUME ReviewedApproval, packets \subseteq packets', confirmed \subseteq confirmed',
         \A c \in Agentic : blueprint'[c].status = "SUCCEEDED" => blueprint'[c] = blueprint[c]
  PROVE  ReviewedApproval'
  BY DEF ReviewedApproval, StatusOf

(* And what a process is about to decide.                                   *)
LEMMA DecidingStays ==
  ASSUME NEW q \in Runners, Deciding(q), runner'[q] = runner[q],
         packets \subseteq packets', confirmed \subseteq confirmed'
  PROVE  Deciding(q)'
  BY DEF Deciding, Approving, FirstOf, InPacket

(* A process that gave up, or is in a batch, decides nothing.               *)
LEMMA NotDeciding ==
  ASSUME NEW r \in Runners, runner'[r] = FreeRunner \/ Batching(r)'
  PROVE  Deciding(r)'
  BY DEF Deciding, Approving, Batching, FreeRunner

(* Neither an operator nor a batch disturbs the reviews.                    *)
LEMMA ApprovalKept ==
  ASSUME CampaignTypeOK, ApprovalInv, \A q \in Runners : Telling(q),
         \/ OperatorStep
         \/ \E r \in Runners : StartsBatch(r) \/ BatchStep(r) \/ ReportStep(r)
  PROVE  ApprovalInv'
<1>1. CASE OperatorStep
  <2>1. runner' = runner
    BY <1>1 DEF OperatorStep, PersistCase, PrepareCase, ReviseElsewhere, Package
  <2> QED
    BY <1>1, <2>1, OperatorKeepsApproved, ReviewedStays, DecidingStays DEF ApprovalInv
<1>2. ASSUME NEW r \in Runners, StartsBatch(r) \/ BatchStep(r) \/ ReportStep(r)
      PROVE  ApprovalInv'
  <2>1. /\ runner'[r] = FreeRunner \/ Batching(r)'
        /\ \A q \in Runners \ {r} : runner'[q] = runner[q]
    <3>1. CASE StartsBatch(r)
      <4>1. PICK cases \in (SUBSET Cases) \ {{}}, retry \in BOOLEAN : RunStart(r, cases, retry)
        BY <3>1 DEF StartsBatch
      <4>2. PICK results : Turn(r, [FreeRunner EXCEPT !.pc = "step", !.cases = cases,
                                                      !.retry = retry, !.results = results])
        BY <4>1 DEF RunStart
      <4>3. [FreeRunner EXCEPT !.pc = "step", !.cases = cases,
                               !.retry = retry, !.results = results].pc = "step"
        BY DEF FreeRunner
      <4> QED
        BY <4>2, <4>3, OneTurn DEF Batching
    <3>2. CASE BatchStep(r) \/ ReportStep(r)
      BY <3>2, BatchTurns
    <3> QED
      BY <1>2, <3>1, <3>2
  <2>2. Deciding(r)'
    BY <2>1, NotDeciding
  <2>3. ASSUME NEW q \in Runners \ {r} PROVE Deciding(q)'
    BY <1>2, <2>1, BatchKeepsApproved, DecidingStays DEF ApprovalInv
  <2> QED
    BY <1>2, <2>2, <2>3, BatchKeepsApproved, ReviewedStays DEF ApprovalInv
<1> QED
  BY <1>1, <1>2


(* A process that starts to approve a packet holds the inspected versions.  *)
LEMMA StartDecides ==
  ASSUME CampaignTypeOK, ApprovalInv, NEW r \in Runners, StartsApproval(r)
  PROVE  ApprovalInv'
<1>1. PICK form \in packets, targets \in SUBSET Agentic : ApproveStart(r, form, targets)
  BY DEF StartsApproval
<1> DEFINE seen == [c \in Agentic |-> IF c \in InPacket(form) /\ StatusOf(c) = "PAUSED"
                                      THEN blueprint[c].version ELSE 0]
           state == [FreeRunner EXCEPT !.pc = "confirm", !.form = form,
                                       !.cases = InPacket(form), !.seen = seen]
<1>2. runner'[r] = state /\ \A q \in Runners \ {r} : runner'[q] = runner[q]
  BY <1>1, OneTurn DEF ApproveStart
<1>3. /\ state.pc = "confirm" /\ state.form = form /\ state.cases = InPacket(form)
      /\ state.seen = seen
  <2> HIDE DEF seen
  <2> QED
    BY DEF FreeRunner
<1>4. UNCHANGED <<blueprint, packets, confirmed>>
  BY <1>1 DEF ApproveStart
<1>5. \A c \in InPacket(form) : seen[c] \in {0, form[c]}
  BY <1>1 DEF ApproveStart, Inspected, InPacket
<1>6. Deciding(r)'
  <2> HIDE DEF state, seen
  <2> QED
    BY <1>2, <1>3, <1>4, <1>5 DEF Deciding
<1>7. \A q \in Runners \ {r} : Deciding(q)'
  BY <1>2, <1>4, DecidingStays DEF ApprovalInv
<1> QED
  BY <1>4, <1>6, <1>7, ReviewedStays DEF ApprovalInv

(* A confirmation records the review of the case it goes on to decide.      *)
LEMMA ConfirmDecides ==
  ASSUME CampaignTypeOK, ApprovalInv, NEW r \in Runners, Confirm(r)
  PROVE  ApprovalInv'
<1> DEFINE c == FirstOf(r)
<1>1. /\ runner[r] \in Process /\ runner[r].pc = "confirm" /\ Deciding(r) /\ Approving(r)
      /\ \A q \in Runners \ {r} : runner'[q] = runner[q]
  <2>1. PICK state : Turn(r, state)
    BY DEF Confirm, Quit, GoOn
  <2> QED
    BY <2>1, CampaignFields, OneTurn DEF Confirm, Doing, ApprovalInv, Approving
<1>2. packets' = packets /\ confirmed \subseteq confirmed' /\ blueprint' = blueprint
  BY DEF Confirm
<1>3. CASE Quit(r)
  <2>1. Deciding(r)'
    BY <1>3, ProcessTurns, NotDeciding
  <2> QED
    BY <1>1, <1>2, <2>1, DecidingStays, ReviewedStays DEF ApprovalInv
<1>4. CASE Turn(r, CaseDone(r, c))
  <2>1. runner'[r] = [runner[r] EXCEPT !.pc = "confirm", !.cases = @ \ {c}]
    BY <1>4, OneTurn DEF CaseDone
  <2>2. /\ runner'[r].pc = "confirm" /\ runner'[r].cases \subseteq runner[r].cases
        /\ runner'[r].form = runner[r].form /\ runner'[r].seen = runner[r].seen
    BY <1>1, <2>1 DEF Process
  <2>3. Deciding(r)'
    BY <1>1, <1>2, <2>2 DEF Deciding, Approving, InPacket
  <2> QED
    BY <1>1, <1>2, <2>3, DecidingStays, ReviewedStays DEF ApprovalInv
<1>5. CASE /\ runner[r].cases # {} /\ runner[r].seen[c] # 0 /\ GoOn(r, "resume")
           /\ confirmed' = confirmed \cup {<<c, runner[r].form>>}
  <2>1. runner'[r] = [runner[r] EXCEPT !.pc = "resume"]
    BY <1>5, OneTurn DEF GoOn
  <2>2. /\ runner'[r].pc = "resume" /\ runner'[r].cases = runner[r].cases
        /\ runner'[r].form = runner[r].form /\ runner'[r].seen = runner[r].seen
    BY <1>1, <2>1 DEF Process
  <2>3. FirstOf(r)' = c
    BY <2>2 DEF FirstOf
  <2>4. Deciding(r)'
    BY <1>1, <1>2, <1>5, <2>2, <2>3 DEF Deciding, Approving, InPacket
  <2> QED
    BY <1>1, <1>2, <2>4, DecidingStays, ReviewedStays DEF ApprovalInv
<1> QED
  BY <1>3, <1>4, <1>5 DEF Confirm

(* The decision: the version approved is the one confirmed.                 *)
LEMMA ResumeDecides ==
  ASSUME CampaignTypeOK, ApprovalInv, NEW r \in Runners, ResumeReviewed(r)
  PROVE  ApprovalInv'
<1> DEFINE c == FirstOf(r)
<1>1. /\ runner[r] \in Process /\ runner[r].pc = "resume" /\ Deciding(r) /\ Approving(r)
      /\ packets' = packets /\ confirmed' = confirmed
      /\ \A q \in Runners \ {r} : runner'[q] = runner[q]
  <2>1. PICK state : Turn(r, state)
    BY DEF ResumeReviewed, Quit
  <2> QED
    BY <2>1, CampaignFields, OneTurn DEF ResumeReviewed, Doing, ApprovalInv, Approving
<1>2. \A q \in Runners \ {r} : Deciding(q)'
  BY <1>1, DecidingStays DEF ApprovalInv
<1>3. CASE Quit(r) /\ blueprint' = blueprint
  <2>1. Deciding(r)'
    BY <1>3, ProcessTurns, NotDeciding
  <2> QED
    BY <1>1, <1>2, <1>3, <2>1, ReviewedStays DEF ApprovalInv
<1>4. CASE /\ blueprint[c].version = runner[r].seen[c] /\ StatusOf(c) = "PAUSED"
           /\ blueprint' = [blueprint EXCEPT ![c].status = "SUCCEEDED"]
           /\ Turn(r, CaseDone(r, c))
  <2>1. runner'[r] = [runner[r] EXCEPT !.pc = "confirm", !.cases = @ \ {c}]
    BY <1>4, OneTurn DEF CaseDone
  <2>2. /\ runner'[r].pc = "confirm" /\ runner'[r].cases \subseteq runner[r].cases
        /\ runner'[r].form = runner[r].form /\ runner'[r].seen = runner[r].seen
    BY <1>1, <2>1 DEF Process
  <2>3. Deciding(r)'
    BY <1>1, <2>2 DEF Deciding, Approving, InPacket
  <2>4. c \in runner[r].cases /\ c \in Agentic /\ runner[r].form \in packets
    BY <1>1, ApprovedCases DEF Deciding
  <2>5. <<c, runner[r].form>> \in confirmed /\ runner[r].seen[c] = runner[r].form[c]
    BY <1>1, <2>4 DEF Deciding
  <2>6. /\ blueprint'[c].version = runner[r].form[c]
        /\ \A d \in Agentic \ {c} : blueprint'[d] = blueprint[d]
    <3>1. blueprint[c] \in BlueprintRun
      BY <2>4, CampaignFields
    <3>2. blueprint'[c] = [blueprint[c] EXCEPT !.status = "SUCCEEDED"]
      BY <1>4, <2>4, CampaignFields
    <3>3. blueprint'[c].version = blueprint[c].version
      BY <3>1, <3>2 DEF BlueprintRun
    <3> QED
      BY <1>4, <2>5, <3>3, CampaignFields
  <2>7. ReviewedApproval'
    <3> SUFFICES ASSUME NEW d \in Agentic, blueprint'[d].status = "SUCCEEDED"
                 PROVE  \E form \in packets : /\ <<d, form>> \in confirmed
                                              /\ form[d] = blueprint'[d].version
      BY <1>1 DEF ReviewedApproval, StatusOf
    <3>1. CASE d = c
      BY <2>4, <2>5, <2>6, <3>1
    <3>2. CASE d # c
      BY <2>6, <3>2 DEF ApprovalInv, ReviewedApproval, StatusOf
    <3> QED
      BY <3>1, <3>2
  <2> QED
    BY <1>2, <2>3, <2>7 DEF ApprovalInv
<1> QED
  BY <1>3, <1>4 DEF ResumeReviewed


-----------------------------------------------------------------------------
(* The stories.                                                             *)

(* Steps that tell no story change none, and keep whose cases are whose.    *)
LEMMA TellingStays ==
  ASSUME TellingInv, NEW r \in Runners, \A q \in Runners \ {r} : runner'[q] = runner[q],
         NextCase(r)' >= 1, runner'[r].pc # "call",
         \/ ~ Batching(r)'
         \/ Batching(r) /\ runner'[r].cases = runner[r].cases
         \/ \A q \in Runners : runner'[r].cases \cap runner[q].cases = {},
         \A q \in Runners \ {r} :
           Doing(q, "call") => story'[NextCase(q)].status = story[NextCase(q)].status
  PROVE  TellingInv'
<1>1. ASSUME NEW q \in Runners PROVE Telling(q)'
  <2>1. CASE q = r
    BY <2>1 DEF Telling, Doing
  <2>2. CASE q # r
    BY <2>2 DEF TellingInv, Telling, Doing, NextCase
  <2> QED
    BY <2>1, <2>2
<1>2. ASSUME NEW p \in Runners, NEW q \in Runners, p # q, Batching(p)', Batching(q)'
      PROVE  runner'[p].cases \cap runner'[q].cases = {}
  <2>1. ASSUME NEW o \in Runners \ {r}, Batching(r)', Batching(o)'
        PROVE  runner'[r].cases \cap runner'[o].cases = {}
    <3>1. runner'[o] = runner[o] /\ Batching(o)
      BY <2>1 DEF Batching
    <3> QED
      BY <2>1, <3>1 DEF TellingInv
  <2>2. CASE p = r \/ q = r
    BY <1>2, <2>1, <2>2
  <2>3. CASE p # r /\ q # r
    BY <1>2, <2>3 DEF TellingInv, Batching
  <2> QED
    BY <2>2, <2>3
<1> QED
  BY <1>1, <1>2 DEF TellingInv

(* What the operators do.                                                   *)
LEMMA TellingOfOperators ==
  ASSUME TellingInv, OperatorStep
  PROVE  TellingInv'
<1>1. runner' = runner /\ story' = story
  BY DEF OperatorStep, PersistCase, PrepareCase, ReviseElsewhere, Package
<1> QED
  BY <1>1 DEF TellingInv, Telling, Batching, Doing, NextCase

(* Where a process that approves goes on.                                   *)
LEMMA ApprovalTurns ==
  ASSUME CampaignTypeOK, NEW r \in Runners, Telling(r), ApprovalStep(r)
  PROVE  /\ runner'[r].pc \in {"idle", "confirm", "resume"} /\ NextCase(r)' >= 1
         /\ UNCHANGED <<story, report, reportLock>>
         /\ \A q \in Runners \ {r} : runner'[q] = runner[q]
<1>1. runner[r] \in Process /\ runner[r].next >= 1
  BY CampaignFields DEF Telling, NextCase
<1>2. CASE StartsApproval(r)
  <2>1. PICK form \in packets, targets \in SUBSET Agentic : ApproveStart(r, form, targets)
    BY <1>2 DEF StartsApproval
  <2>2. PICK cases, seen : Turn(r, [FreeRunner EXCEPT !.pc = "confirm", !.form = form,
                                                      !.cases = cases, !.seen = seen])
    BY <2>1 DEF ApproveStart
  <2> DEFINE state == [FreeRunner EXCEPT !.pc = "confirm", !.form = form,
                                         !.cases = cases, !.seen = seen]
  <2>3. state.pc = "confirm" /\ state.next = 1
    BY DEF FreeRunner
  <2> HIDE DEF state
  <2>4. runner'[r] = state /\ \A q \in Runners \ {r} : runner'[q] = runner[q]
    BY <2>2, OneTurn DEF state
  <2> QED
    BY <2>1, <2>3, <2>4 DEF ApproveStart, NextCase
<1>3. CASE Confirm(r) \/ ResumeReviewed(r)
  <2>1. PICK state : Turn(r, state) /\ (state = FreeRunner \/ state = CaseDone(r, FirstOf(r))
                                        \/ state = [runner[r] EXCEPT !.pc = "resume"])
    BY <1>3 DEF Confirm, ResumeReviewed, Quit, GoOn
  <2>2. FreeRunner.pc = "idle" /\ FreeRunner.next = 1
    BY DEF FreeRunner
  <2>3. /\ CaseDone(r, FirstOf(r)).pc = "confirm"
        /\ CaseDone(r, FirstOf(r)).next = runner[r].next
    BY <1>1 DEF CaseDone, Process
  <2>4. /\ [runner[r] EXCEPT !.pc = "resume"].pc = "resume"
        /\ [runner[r] EXCEPT !.pc = "resume"].next = runner[r].next
    BY <1>1 DEF Process
  <2>5. state.pc \in {"idle", "confirm", "resume"} /\ state.next \in {1, runner[r].next}
    <3>1. CASE state = FreeRunner
      BY <2>2, <3>1
    <3>2. CASE state = CaseDone(r, FirstOf(r))
      BY <2>3, <3>2
    <3>3. CASE state = [runner[r] EXCEPT !.pc = "resume"]
      BY <2>4, <3>3
    <3> QED
      BY <2>1, <3>1, <3>2, <3>3
  <2>6. runner'[r] = state /\ \A q \in Runners \ {r} : runner'[q] = runner[q]
    BY <2>1, OneTurn
  <2>7. runner'[r].next >= 1
    BY <1>1, <2>5, <2>6
  <2> QED
    BY <1>3, <2>5, <2>6, <2>7 DEF Confirm, ResumeReviewed, NextCase
<1> QED
  BY <1>2, <1>3 DEF ApprovalStep

(* Where a batch starts.                                                    *)
LEMMA StartTurns ==
  ASSUME CampaignTypeOK, NEW r \in Runners, StartsBatch(r)
  PROVE  /\ runner'[r].pc = "step" /\ NextCase(r)' >= 1
         /\ \A q \in Runners : runner'[r].cases \cap runner[q].cases = {}
         /\ UNCHANGED <<story, report, reportLock>>
         /\ \A q \in Runners \ {r} : runner'[q] = runner[q]
<1>1. PICK cases \in (SUBSET Cases) \ {{}}, retry \in BOOLEAN : RunStart(r, cases, retry)
  BY DEF StartsBatch
<1>2. PICK results : Turn(r, [FreeRunner EXCEPT !.pc = "step", !.cases = cases, !.retry = retry,
                                                !.results = results])
  BY <1>1 DEF RunStart
<1> DEFINE state == [FreeRunner EXCEPT !.pc = "step", !.cases = cases, !.retry = retry,
                                       !.results = results]
<1>3. state.pc = "step" /\ state.next = 1 /\ state.cases = cases
  BY DEF FreeRunner
<1> HIDE DEF state
<1>4. runner'[r] = state /\ \A q \in Runners \ {r} : runner'[q] = runner[q]
  BY <1>2, OneTurn DEF state
<1>5. \A q \in Runners : runner[q].cases \cap cases = {}
  BY <1>1 DEF RunStart
<1> QED
  BY <1>1, <1>3, <1>4, <1>5 DEF RunStart, NextCase

(* A batch changes the story of a case of its own, and none that is told.   *)
LEMMA StoryChanges ==
  ASSUME CampaignTypeOK, TellingInv, NEW r \in Runners, BatchStep(r) \/ ReportStep(r)
  PROVE  \/ story' = story
         \/ /\ Batching(r) /\ NextCase(r) \in Cases \cap runner[r].cases
            /\ story[NextCase(r)].status # "SUCCEEDED"
            /\ \A d \in Cases \ {NextCase(r)} : story'[d] = story[d]
<1> DEFINE c == NextCase(r)
<1>1. CASE StartStory(r)
  <2>1. /\ c \in runner[r].cases /\ c \in Cases /\ Batching(r)
        /\ story[c].status # "SUCCEEDED"
    BY <1>1, CampaignFields DEF StartStory, MustExecute, InPlan, Doing, Reusable, Batching, Process
  <2> QED
    BY <1>1, <2>1, CampaignFields DEF StartStory
<1>2. CASE BaselineTold(r) \/ BaselineFails(r) \/ AgenticTold(r) \/ AgenticFails(r)
  <2>1. PICK status : Ends(r, status)
    BY <1>2 DEF BaselineTold, BaselineFails, AgenticTold, AgenticFails
  <2>2. c \in Cases \cap runner[r].cases /\ story[c].status # "SUCCEEDED" /\ Batching(r)
    BY <2>1 DEF Ends, TellingInv, Telling, Doing, Batching
  <2> QED
    BY <2>1, <2>2, CampaignFields DEF Ends
<1>3. CASE \/ CarryOver(r) \/ LastSave(r) \/ RetryBlueprint(r) \/ ReuseStory(r)
           \/ ReportStep(r)
  BY <1>3 DEF CarryOver, LastSave, RetryBlueprint, ReuseStory, ReportStep, AcquireLock,
              RemoveStale, MergeReport, ReplaceReport, UnlockReport, Lose
<1> QED
  BY <1>1, <1>2, <1>3 DEF BatchStep

(* Every step keeps the stories apart.                                      *)
LEMMA TellingKept ==
  ASSUME CampaignTypeOK, TellingInv, CampaignNext
  PROVE  TellingInv'
<1>1. CASE OperatorStep
  BY <1>1, TellingOfOperators
<1>2. ASSUME NEW r \in Runners, ApprovalStep(r) PROVE TellingInv'
  <2>1. Telling(r)
    BY DEF TellingInv
  <2> QED
    BY <1>2, <2>1, ApprovalTurns, TellingStays DEF Batching
<1>3. ASSUME NEW r \in Runners, StartsBatch(r) PROVE TellingInv'
  BY <1>3, StartTurns, TellingStays
<1>4. ASSUME NEW r \in Runners, BatchStep(r) \/ ReportStep(r) PROVE TellingInv'
  <2>1. /\ \/ ~ Batching(r)'
           \/ Batching(r) /\ runner'[r].cases = runner[r].cases
        /\ NextCase(r)' >= 1
        /\ runner'[r].pc = "call" => StartStory(r)
        /\ \A q \in Runners \ {r} : runner'[q] = runner[q]
    <3>1. Telling(r)
      BY DEF TellingInv
    <3> QED
      BY <1>4, <3>1, BatchTurns DEF Batching, FreeRunner
  <2>2. ASSUME NEW q \in Runners \ {r}, Doing(q, "call")
        PROVE  story'[NextCase(q)] = story[NextCase(q)]
    <3>1. NextCase(q) \in Cases \cap runner[q].cases /\ Batching(q)
      BY <2>2 DEF TellingInv, Telling, Batching, Doing
    <3>2. Batching(r) => runner[r].cases \cap runner[q].cases = {}
      BY <3>1 DEF TellingInv
    <3> QED
      BY <1>4, <3>1, <3>2, StoryChanges
  <2>3. CASE runner'[r].pc # "call"
    BY <2>1, <2>2, <2>3, TellingStays
  <2>4. CASE StartStory(r)
    <3>1. /\ NextCase(r) \in Cases \cap runner[r].cases
          /\ story'[NextCase(r)].status = "RUNNING"
          /\ NextCase(r)' = NextCase(r) /\ runner'[r].cases = runner[r].cases
          /\ Batching(r)
      BY <2>4, CampaignFields, ProcessTurns
      DEF StartStory, MustExecute, InPlan, Doing, Batching, Process, NextCase
    <3>2. ASSUME NEW q \in Runners PROVE Telling(q)'
      <4>1. CASE q = r
        BY <2>1, <3>1, <4>1 DEF Telling
      <4>2. CASE q # r
        BY <2>1, <2>2, <4>2 DEF TellingInv, Telling, Doing, NextCase
      <4> QED
        BY <4>1, <4>2
    <3>3. ASSUME NEW p \in Runners, NEW q \in Runners, p # q, Batching(p)', Batching(q)'
          PROVE  runner'[p].cases \cap runner'[q].cases = {}
      <4>1. \A o \in Runners : /\ Batching(o)' => Batching(o)
                               /\ runner'[o].cases = runner[o].cases
        BY <2>1, <3>1 DEF Batching
      <4> QED
        BY <3>3, <4>1 DEF TellingInv
    <3> QED
      BY <3>2, <3>3 DEF TellingInv
  <2> QED
    BY <2>1, <2>3, <2>4
<1> QED
  BY <1>1, <1>2, <1>3, <1>4, Steps


-----------------------------------------------------------------------------
(* The report.                                                              *)

(* What is merged holds every success of the report it was merged with.     *)
LEMMA MergeKeeps ==
  ASSUME CampaignTypeOK, NEW incoming, NEW c \in Cases, report[c] = SuccessResult
  PROVE  Merged(report, incoming)[c] = SuccessResult
  BY DEF Merged, SuccessResult

(* A process out of the lock has nothing to answer for.                     *)
LEMMA SavingStays ==
  ASSUME NEW q \in Runners, Saving(q), runner'[q] = runner[q],
         InLock(q) => reportLock' = reportLock /\ report' = report
  PROVE  Saving(q)'
  BY DEF Saving, InLock, Doing

(* A batch that does not save is nowhere near the lock.                     *)
LEMMA BatchPlaces ==
  ASSUME CampaignTypeOK, NEW r \in Runners, BatchStep(r)
  PROVE  runner'[r].pc \in {"idle", "step", "call", "acquire"}
<1>1. runner[r] \in Process
  BY CampaignFields
<1>2. CASE CarryOver(r)
  <2>1. PICK result : Turn(r, With(r, NextCase(r), result))
    BY <1>2 DEF CarryOver
  <2> QED
    BY <1>2, <2>1, ProcessTurns DEF CarryOver, InPlan, Doing
<1>3. CASE LastSave(r)
  <2>1. runner'[r] = [runner[r] EXCEPT !.pc = "acquire", !.next = @ + 1]
    BY <1>3, OneTurn DEF LastSave
  <2> QED
    BY <1>1, <2>1 DEF Process
<1>4. CASE StartStory(r)
  BY <1>4, ProcessTurns DEF StartStory
<1>5. CASE \/ RetryBlueprint(r) \/ ReuseStory(r)
           \/ BaselineTold(r) \/ BaselineFails(r) \/ AgenticTold(r) \/ AgenticFails(r)
  <2>1. Quit(r) \/ \E result : SaveAfter(r, NextCase(r), result)
    BY <1>5 DEF RetryBlueprint, ReuseStory, BaselineTold, BaselineFails, AgenticTold,
                AgenticFails
  <2> QED
    BY <2>1, ProcessTurns DEF FreeRunner
<1> QED
  BY <1>2, <1>3, <1>4, <1>5 DEF BatchStep

(* Only its owner leaves the lock, and merges only while it holds it.       *)
LEMMA LockKept ==
  ASSUME CampaignTypeOK, LockInv, \A q \in Runners : Telling(q), CampaignNext
  PROVE  LockInv'
<1> SUFFICES ASSUME ~ CrashInLock
             PROVE  reportLock' # "dead" /\ \A q \in Runners : Saving(q)'
  BY DEF LockInv
<1>1. reportLock # "dead" /\ (\A q \in Runners : Saving(q))
      /\ \A q \in Runners : q # "free" /\ q # "dead"
  BY CampaignAssumption DEF LockInv
<1>2. CASE OperatorStep
  <2>1. UNCHANGED <<runner, report, reportLock>>
    BY <1>2 DEF OperatorStep, PersistCase, PrepareCase, ReviseElsewhere, Package
  <2> QED
    BY <1>1, <2>1 DEF Saving, InLock, Doing
<1>3. ASSUME NEW r \in Runners, ApprovalStep(r) \/ StartsBatch(r)
      PROVE  reportLock' # "dead" /\ \A q \in Runners : Saving(q)'
  <2>1. /\ UNCHANGED <<report, reportLock>>
        /\ runner'[r].pc \notin {"stale", "merge", "replace", "unlock"}
        /\ \A q \in Runners \ {r} : runner'[q] = runner[q]
    BY <1>3, ApprovalTurns, StartTurns
  <2>2. Saving(r)'
    BY <2>1 DEF Saving, InLock, Doing
  <2> QED
    BY <1>1, <2>1, <2>2, SavingStays
<1>4. ASSUME NEW r \in Runners, BatchStep(r)
      PROVE  reportLock' # "dead" /\ \A q \in Runners : Saving(q)'
  <2>1. UNCHANGED <<report, reportLock>>
    BY <1>4 DEF BatchStep, CarryOver, LastSave, RetryBlueprint, ReuseStory, StartStory,
                BaselineTold, BaselineFails, AgenticTold, AgenticFails
  <2>2. runner'[r].pc \notin {"stale", "merge", "replace", "unlock"}
    BY <1>4, BatchPlaces
  <2>3. \A q \in Runners \ {r} : runner'[q] = runner[q]
    BY <1>4, BatchTurns
  <2>4. Saving(r)'
    BY <2>2 DEF Saving, InLock, Doing
  <2> QED
    BY <1>1, <2>1, <2>3, <2>4, SavingStays
<1>5. ASSUME NEW r \in Runners, ReportStep(r)
      PROVE  reportLock' # "dead" /\ \A q \in Runners : Saving(q)'
  <2>1. runner[r] \in Process /\ \A q \in Runners \ {r} : runner'[q] = runner[q]
    BY <1>5, BatchTurns, CampaignFields
  <2>2. \A q \in Runners \ {r} : InLock(r) => ~ InLock(q)
    BY <1>1 DEF Saving
  <2>3. CASE AcquireLock(r) /\ reportLock = "free" /\ reportLock' = r /\ GoOn(r, "merge")
    <3>1. \A q \in Runners : ~ InLock(q)
      BY <1>1, <2>3 DEF Saving
    <3>2. runner'[r].pc = "merge" /\ report' = report
      BY <2>3, ProcessTurns DEF AcquireLock
    <3>3. Saving(r)'
      BY <2>3, <3>2 DEF Saving, InLock, Doing
    <3> QED
      BY <1>1, <2>1, <2>3, <3>1, <3>3, SavingStays
  <2>4. CASE AcquireLock(r) /\ Quit(r) /\ reportLock' = reportLock
    <3>1. runner'[r].pc = "idle" /\ report' = report
      BY <2>4, ProcessTurns DEF AcquireLock, FreeRunner
    <3>2. Saving(r)'
      BY <3>1 DEF Saving, InLock, Doing
    <3> QED
      BY <1>1, <2>1, <2>4, <3>1, <3>2, SavingStays
  <2>5. CASE RemoveStale(r)
    BY <1>1, <2>5 DEF RemoveStale, Doing, Saving
  <2>6. CASE MergeReport(r)
    <3>1. PICK passed : Turn(r, [runner[r] EXCEPT !.pc = "replace",
                                                  !.merged = Merged(report, passed)])
      BY <2>6 DEF MergeReport
    <3>2. runner'[r] = [runner[r] EXCEPT !.pc = "replace", !.merged = Merged(report, passed)]
      BY <3>1, OneTurn
    <3>3. runner'[r].pc = "replace" /\ runner'[r].merged = Merged(report, passed)
      BY <2>1, <3>2 DEF Process
    <3>4. reportLock = r /\ UNCHANGED <<report, reportLock>>
      BY <1>1, <2>6 DEF MergeReport, Doing, Saving, InLock
    <3>5. Saving(r)'
      BY <3>3, <3>4, MergeKeeps DEF Saving, InLock, Doing
    <3> QED
      BY <1>1, <2>1, <3>4, <3>5, SavingStays
  <2>7. CASE ReplaceReport(r)
    <3>1. runner'[r] = [runner[r] EXCEPT !.pc = "unlock", !.merged = EmptyReport]
      BY <2>7, OneTurn DEF ReplaceReport
    <3>2. runner'[r].pc = "unlock"
      BY <2>1, <3>1 DEF Process
    <3>3. reportLock = r /\ reportLock' = reportLock /\ InLock(r)
      BY <1>1, <2>7 DEF ReplaceReport, Doing, Saving, InLock
    <3>4. Saving(r)'
      BY <3>2, <3>3 DEF Saving, InLock, Doing
    <3> QED
      BY <1>1, <2>1, <2>2, <3>3, <3>4, SavingStays
  <2>8. CASE UnlockReport(r)
    <3>1. runner'[r].pc \in {"idle", "step"}
      BY <2>8, ProcessTurns DEF UnlockReport, FreeRunner
    <3>2. InLock(r) /\ reportLock' = "free"
      BY <2>8 DEF UnlockReport, Doing, InLock
    <3>3. Saving(r)'
      BY <3>1 DEF Saving, InLock, Doing
    <3> QED
      BY <1>1, <2>1, <2>2, <3>2, <3>3, SavingStays
  <2>9. CASE Lose(r)
    <3>1. UNCHANGED <<report, reportLock>>
      BY <2>9 DEF Lose
    <3>2. runner'[r].pc = "idle"
      BY <2>9, ProcessTurns DEF Lose, FreeRunner
    <3>3. Saving(r)'
      BY <3>2 DEF Saving, InLock, Doing
    <3> QED
      BY <1>1, <2>1, <3>1, <3>3, SavingStays
  <2> QED
    BY <1>1, <1>5, <2>3, <2>4, <2>5, <2>6, <2>7, <2>8, <2>9 DEF ReportStep, AcquireLock
<1> QED
  BY <1>2, <1>3, <1>4, <1>5, Steps


-----------------------------------------------------------------------------
(* The invariance, and the theorems.                                        *)

(* The campaign starts with nothing prepared, told or reported.             *)
LEMMA CampaignStarts ==
  ASSUME CampaignInit
  PROVE  CampaignInv
<1>1. /\ blueprint \in [Agentic -> BlueprintRun] /\ story \in [Cases -> StoryRun]
      /\ \A c \in Agentic : blueprint[c].status = "none"
  BY DEF CampaignInit, BlueprintRun, StoryRun
<1>2. \A r \in Runners : runner[r] = FreeRunner
  BY DEF CampaignInit
<1>3. /\ report \in [Cases -> Result] /\ runner \in [Runners -> Process]
      /\ reportLock = "free" /\ crashes \in Nat
  BY Blanks DEF CampaignInit
<1>4. CampaignTypeOK
  BY <1>1, <1>3, CampaignFields DEF CampaignInit
<1>5. FreeRunner.pc = "idle" /\ FreeRunner.next = 1
  BY DEF FreeRunner
<1>6. ApprovalInv
  BY <1>1, <1>2, <1>5 DEF ApprovalInv, ReviewedApproval, StatusOf, Deciding, Approving
<1>7. TellingInv
  BY <1>2, <1>5 DEF TellingInv, Telling, Doing, Batching, NextCase
<1>8. LockInv
  BY <1>2, <1>3, <1>5 DEF LockInv, Saving, InLock, Doing
<1> QED
  BY <1>4, <1>6, <1>7, <1>8 DEF CampaignInv

(* Every step keeps the types.                                              *)
LEMMA TypeKept ==
  ASSUME CampaignInv, CampaignNext
  PROVE  CampaignTypeOK'
<1>1. CampaignTypeOK /\ \A r \in Runners : Deciding(r) /\ Telling(r)
  BY DEF CampaignInv, ApprovalInv, TellingInv
<1>2. CASE OperatorStep
  BY <1>1, <1>2, BlueprintType DEF OperatorStep
<1>3. ASSUME NEW r \in Runners, ApprovalStep(r) PROVE CampaignTypeOK'
  BY <1>1, <1>3, ApprovalType DEF ApprovalStep, StartsApproval
<1>4. ASSUME NEW r \in Runners, StartsBatch(r) \/ BatchStep(r) PROVE CampaignTypeOK'
  BY <1>1, <1>4, BatchType DEF StartsBatch
<1>5. ASSUME NEW r \in Runners, ReportStep(r) PROVE CampaignTypeOK'
  BY <1>1, <1>5, SaveType DEF ReportStep
<1> QED
  BY <1>2, <1>3, <1>4, <1>5, Steps

(* Every step keeps the reviews' part.                                      *)
LEMMA ReviewsKept ==
  ASSUME CampaignInv, CampaignNext
  PROVE  ApprovalInv'
<1>1. CampaignTypeOK /\ ApprovalInv /\ \A r \in Runners : Telling(r)
  BY DEF CampaignInv, TellingInv
<1>2. ASSUME NEW r \in Runners, ApprovalStep(r) PROVE ApprovalInv'
  BY <1>1, <1>2, StartDecides, ConfirmDecides, ResumeDecides DEF ApprovalStep
<1> QED
  BY <1>1, <1>2, ApprovalKept, Steps

(* CampaignInv is an invariant of the campaign.                             *)
LEMMA CampaignHolds == CampaignSpec => []CampaignInv
<1>1. CampaignInit => CampaignInv
  BY CampaignStarts
<1>2. CampaignInv /\ CampaignNext => CampaignInv'
  BY TypeKept, ReviewsKept, TellingKept, LockKept DEF CampaignInv, TellingInv
<1>3. CampaignInv /\ UNCHANGED campaignVars => CampaignInv'
  <2> SUFFICES ASSUME CampaignInv, UNCHANGED campaignVars PROVE CampaignInv'
    OBVIOUS
  <2> USE DEF CampaignInv, campaignVars
  <2>1. CampaignTypeOK'
    BY DEF CampaignTypeOK
  <2>2. ApprovalInv'
    <3>1. UNCHANGED <<blueprint, packets, confirmed, runner>>
      OBVIOUS
    <3>2. \A r \in Runners : Deciding(r)'
      BY <3>1, DecidingStays DEF ApprovalInv
    <3> QED
      BY <3>1, <3>2, ReviewedStays DEF ApprovalInv
  <2>3. TellingInv'
    BY DEF TellingInv, Telling, Batching, Doing, NextCase
  <2>4. LockInv'
    BY DEF LockInv, Saving, InLock, Doing
  <2> QED
    BY <2>1, <2>2, <2>3, <2>4
<1> QED
  BY <1>1, <1>2, <1>3, PTL DEF CampaignSpec

(* The records of a campaign stay well-formed.                              *)
THEOREM CampaignTypes == CampaignSpec => []CampaignTypeOK
<1>1. CampaignInv => CampaignTypeOK
  BY DEF CampaignInv
<1> QED
  BY <1>1, CampaignHolds, PTL

(* Only the version a human confirmed in a packet is ever approved, however *)
(* packets, revisions, approvals and losses interleave                      *)
(* (approve_reviewed_agentic_cases).                                        *)
THEOREM OnlyReviewedApproved == CampaignSpec => []ReviewedApproval
<1>1. CampaignInv => ReviewedApproval
  BY DEF CampaignInv, ApprovalInv
<1> QED
  BY <1>1, CampaignHolds, PTL

(* No process starts or fails the story another has told: a told story is   *)
(* never paid for again (_load_succeeded_output).                           *)
THEOREM ToldOnce == CampaignSpec => SuccessPaidOnce
<1>1. CampaignInv /\ [CampaignNext]_campaignVars =>
        [\A c \in Cases : story[c].status = "SUCCEEDED" => story'[c] = story[c]]_campaignVars
  <2> SUFFICES ASSUME CampaignInv, CampaignNext, NEW c \in Cases, story[c].status = "SUCCEEDED"
               PROVE  story'[c] = story[c]
    OBVIOUS
  <2>1. CampaignTypeOK /\ TellingInv /\ \A r \in Runners : Telling(r)
    BY DEF CampaignInv, TellingInv
  <2>2. CASE OperatorStep
    BY <2>2 DEF OperatorStep, PersistCase, PrepareCase, ReviseElsewhere, Package
  <2>3. ASSUME NEW r \in Runners, ApprovalStep(r) \/ StartsBatch(r)
        PROVE  story' = story
    BY <2>1, <2>3, ApprovalTurns, StartTurns
  <2>4. ASSUME NEW r \in Runners, BatchStep(r) \/ ReportStep(r)
        PROVE  story'[c] = story[c]
    BY <2>1, <2>4, StoryChanges
  <2> QED
    BY <2>2, <2>3, <2>4, Steps
<1> QED
  BY <1>1, CampaignHolds, PTL DEF CampaignSpec, SuccessPaidOnce

(* Unless a process is lost while it holds the report lock, a success in    *)
(* the report stays there, whatever older reports are saved                 *)
(* (_merge_checkpoint_reports, _report_file_lock).                          *)
THEOREM ReportedStays ==
  ASSUME CrashInLock = FALSE
  PROVE  CampaignSpec => ReportKeepsSuccess
<1>1. CampaignInv /\ [CampaignNext]_campaignVars =>
        [\A c \in Cases : report[c] = SuccessResult => report'[c] = SuccessResult]_campaignVars
  <2> SUFFICES ASSUME CampaignInv, CampaignNext, NEW c \in Cases, report[c] = SuccessResult
               PROVE  report'[c] = SuccessResult
    OBVIOUS
  <2>1. /\ CampaignTypeOK /\ \A r \in Runners : Telling(r)
        /\ \A r \in Runners : Saving(r)
    BY DEF CampaignInv, TellingInv, LockInv
  <2>2. CASE OperatorStep
    BY <2>2 DEF OperatorStep, PersistCase, PrepareCase, ReviseElsewhere, Package
  <2>3. ASSUME NEW r \in Runners, ApprovalStep(r) \/ StartsBatch(r)
        PROVE  report' = report
    BY <2>1, <2>3, ApprovalTurns, StartTurns
  <2>4. ASSUME NEW r \in Runners, BatchStep(r)
        PROVE  report' = report
    BY <2>4 DEF BatchStep, CarryOver, LastSave, RetryBlueprint, ReuseStory, StartStory,
                BaselineTold, BaselineFails, AgenticTold, AgenticFails
  <2>5. ASSUME NEW r \in Runners, ReplaceReport(r)
        PROVE  report'[c] = SuccessResult
    BY <2>1, <2>5 DEF ReplaceReport, Saving
  <2>6. ASSUME NEW r \in Runners, ReportStep(r), ~ ReplaceReport(r)
        PROVE  report' = report
    BY <2>6 DEF ReportStep, AcquireLock, RemoveStale, MergeReport, UnlockReport, Lose
  <2> QED
    BY <2>2, <2>3, <2>4, <2>5, <2>6, Steps
<1> QED
  BY <1>1, CampaignHolds, PTL DEF CampaignSpec, ReportKeepsSuccess
=============================================================================
