---------------------------- MODULE CriticReviews ----------------------------
(***************************************************************************)
(* The critic's reviews of the revisions of one scene.  An answer audits    *)
(* the scene's assignment, lists issues of its own, and says of every       *)
(* repair an earlier review asked for whether it is met.  The application   *)
(* turns it into a critique: it consolidates what is reported twice, and    *)
(* carries an unmet repair on in its original words.  A refused answer is   *)
(* asked for again, with its classification of the issues retained.         *)
(*                                                                          *)
(* What an issue says, with the repair it recommends, is a member of Says;  *)
(* a text is that with the route or category that says it.  Evidence is     *)
(* left out: all issues of an answer cite the same passage.                 *)
(***************************************************************************)
EXTENDS Naturals, Sequences, FiniteSets, Functions

CONSTANTS
  Anchors,      \* populated anchors of the assignment, other than the viewpoint
  EndAnchor,    \* the one whose endpoint the scene must not overrun
  Audits,       \* what an audit may allege along each route
  Says,         \* what an issue may say
  IssueKinds,   \* <<category, severity>> of the issues of the critic's own
  MaxReviews,   \* the first review and the revisions
  MaxReported   \* bound: findings and issues in one answer

ASSUME CriticAssumption ==
  /\ IsFiniteSet(Anchors)
  /\ EndAnchor \in Anchors /\ "boundary" \notin Anchors /\ "viewpoint" \notin Anchors
  /\ \A a \in Audits : DOMAIN a = Anchors \cup {"viewpoint", "boundary"}
  /\ MaxReviews \in Nat \ {0} /\ MaxReported \in Nat

VARIABLES
  step,       \* "review", "adjudicate", "accepted" or "rejected"
  critiques,  \* the critiques of the scene, in order
  retained,   \* classifications of a refused answer that the next must keep
  failed,     \* whether a call for this review has failed
  reported,   \* what the last answer reported, with the repair it repeats
  unmet,      \* the repairs the last answer found unmet
  released    \* the issues the adjudication released

criticVars == <<step, critiques, retained, failed, reported, unmet, released>>

Routes == Anchors \cup {"viewpoint", "boundary"}
AssignmentCategories == Anchors \cup {"viewpoint"}
CategoryOf(route) == IF route = "boundary" THEN EndAnchor ELSE route
Met == "met"
None == "none"
NoTest == <<0, 0>>

(* assignment_checks and assignment_violations, point_of_view_check, and    *)
(* scene_boundary_check each find their part of the assignment met, or      *)
(* allege something along their route.                                      *)
AssignmentViolations(audit) == {a \in Anchors : audit[a] # Met}
PointOfViewCheck(audit) == IF audit["viewpoint"] = Met THEN {} ELSE {"viewpoint"}
SceneBoundaryCheck(audit) == IF audit["boundary"] = Met THEN {} ELSE {"boundary"}
Alleging(audit) ==
  AssignmentViolations(audit) \cup PointOfViewCheck(audit) \cup SceneBoundaryCheck(audit)

-----------------------------------------------------------------------------
(* Repairs.                                                                 *)

Blocks(issue) == issue.severity = "blocking"
Actionable(critique, issue) ==
  \/ Blocks(issue)
  \/ critique.verdict = "revise" /\ issue.severity = "major"
ActionableOf(critique) == {k \in DOMAIN critique.issues : Actionable(critique, critique.issues[k])}

(* critic_repair_tests: every actionable issue, unless an earlier review    *)
(* has the very same.                                                       *)
RepairTests(all) ==
  {t \in UNION {{n} \X ActionableOf(all[n]) : n \in DOMAIN all} :
     \A n \in 1 .. t[1] - 1 : \A k \in ActionableOf(all[n]) :
       all[n].issues[k] # all[t[1]].issues[t[2]]}
Original(t) == critiques[t[1]].issues[t[2]]
Tests == RepairTests(critiques)
IsCraft(t) == Original(t).category \notin AssignmentCategories

(* The routes along which an endpoint may be reported, and whether both     *)
(* cite the same evidence.                                                  *)
BoundaryEnds == {"boundary", EndAnchor}
SameEvidence(audit) == {FALSE} \cup {BoundaryEnds \subseteq Alleging(audit)}

(* What an answer may be, given the tests it has to cover.                  *)
Issues(audit) ==
  [kind : IssueKinds, says : Says, restates : Routes \cup {None},
   compared : {{}, Alleging(audit)}, repeats : Tests \cup {NoTest}]
Checks(audit) ==
  [met : {FALSE}, refs : SUBSET Alleging(audit)] \cup [met : {TRUE}, refs : {{}}]

-----------------------------------------------------------------------------
(* Consolidation.                                                           *)

(* _normalize_scene_assignment_critique: an endpoint reported by the audit  *)
(* and as an overrun on the same evidence is one finding.                   *)
Groups(answer) ==
  LET alleged == Alleging(answer.audit)
  IN  IF answer.same THEN {BoundaryEnds} \cup {{r} : r \in alleged \ BoundaryEnds} ELSE {{r} : r \in alleged}

(* assignment_finding_ref: the finding an issue restates.                   *)
Restating(answer, refs) == {k \in DOMAIN answer.issues : answer.issues[k].restates \in refs}
Independent(answer) == {k \in DOMAIN answer.issues : answer.issues[k].restates = None}
Text(issue) == <<issue.kind[1], issue.says>>

AuditFindings(answer) ==
  {[refs |-> g, category |-> CategoryOf(CHOOSE r \in g : TRUE), severity |-> "blocking",
    texts |-> {<<r, answer.audit[r]>> : r \in g}
              \cup {Text(answer.issues[k]) : k \in Restating(answer, g)}] : g \in Groups(answer)}

(* _normalize_story_length_critique: a scene's length is advice.            *)
SeverityOf(issue) == IF issue.kind[1] = "length" THEN "note" ELSE issue.kind[2]
IssueRefs == <<"issue:0", "issue:1">>
OwnFindings(answer) ==
  {[refs |-> {IssueRefs[k]}, category |-> answer.issues[k].kind[1],
    severity |-> SeverityOf(answer.issues[k]), texts |-> {Text(answer.issues[k])}] :
     k \in Independent(answer)}
Findings(answer) == AuditFindings(answer) \cup OwnFindings(answer)

(* project_craft_repair_links: an issue names the repair it repeats, a      *)
(* check the routes that repeat its own.                                    *)
Links(answer, t) ==
  answer.checks[t].refs
    \cup {IssueRefs[k] : k \in {j \in Independent(answer) : answer.issues[j].repeats = t}}
Unmet(answer) == {t \in Tests : ~ answer.checks[t].met}
Linked(answer) == {f \in Findings(answer) : \E t \in Tests : Links(answer, t) \cap f.refs # {}}

(* The verdict: the critic's own unless it reports only lengths, and revise *)
(* as soon as a finding blocks or a repair is unmet.                        *)
OnlyLengths(answer) ==
  /\ answer.issues # << >> /\ answer.audit["viewpoint"] = Met
  /\ \A k \in DOMAIN answer.issues : answer.issues[k].kind[1] = "length"
(* Mutant: advice on lengths has the last word.                             *)
VerdictLengthsLast(answer) ==
  IF OnlyLengths(answer) THEN "pass"
  ELSE IF Unmet(answer) # {} \/ \E f \in Findings(answer) : Blocks(f) THEN "revise"
  ELSE answer.verdict
Verdict(answer) ==
  IF \/ Unmet(answer) # {} \/ AuditFindings(answer) # {}
     \/ \E k \in DOMAIN answer.issues : /\ answer.issues[k].kind[2] = "blocking"
                                        /\ ~ OnlyLengths(answer)
  THEN "revise" ELSE IF OnlyLengths(answer) THEN "pass" ELSE answer.verdict

(* No property looks at the order of the issues of a critique.              *)
InSomeOrder(S) == CHOOSE s \in [1 .. Cardinality(S) -> S] : IsInjective(s)
Canonical(f) == [category |-> f.category, severity |-> f.severity, texts |-> f.texts]
CritiqueOf(answer) ==
  LET own == InSomeOrder(Findings(answer) \ Linked(answer))
      owed == InSomeOrder(Unmet(answer))
  IN  [verdict |-> Verdict(answer),
       issues |-> [k \in DOMAIN own |-> Canonical(own[k])]
                  \o [k \in DOMAIN owed |-> Original(owed[k])]]

-----------------------------------------------------------------------------
(* What makes an answer refused.                                            *)

(* comparison_error: an issue compares itself with the finding it restates, *)
(* an independent one with every finding.                                   *)
Compared(answer, issue) ==
  /\ issue.compared \subseteq Alleging(answer.audit)
  /\ IF issue.restates # None THEN issue.restates \in issue.compared
     ELSE \A g \in Groups(answer) : g \cap issue.compared # {}

(* eligible_craft_repairs                                                   *)
MayRepeat(answer, issue) ==
  LET t == issue.repeats
  IN  /\ issue.restates = None /\ IsCraft(t) /\ ~ answer.checks[t].met
      /\ issue.kind = <<Original(t).category, Original(t).severity>>

IssueFits(answer, issue) ==
  /\ issue.restates \in Alleging(answer.audit) \cup {None}
  /\ issue.kind[1] \notin AssignmentCategories
  /\ Compared(answer, issue)
  /\ issue.repeats # NoTest => MayRepeat(answer, issue)

(* Mutant: any finding may be linked.                                       *)
AnyLinkFits(answer, t) ==
  /\ answer.checks[t].met => answer.checks[t].refs = {}
  /\ IsCraft(t) => answer.checks[t].refs = {}
(* A link is to a finding of the same kind, which repeats no other repair.  *)
LinkFits(answer, t) ==
  /\ answer.checks[t].met => answer.checks[t].refs = {}
  /\ IsCraft(t) => answer.checks[t].refs = {}
  /\ \A f \in Findings(answer) : Links(answer, t) \cap f.refs # {} =>
       /\ f.refs \subseteq Links(answer, t)
       /\ f.category = Original(t).category /\ f.severity = Original(t).severity
       /\ \A u \in Tests \ {t} : Links(answer, u) \cap f.refs = {}

(* classification_drift: how many issues of each kind restate which finding. *)
Classified(answer, kind) ==
  [r \in Routes \cup {None} |->
     Cardinality({k \in DOMAIN answer.issues : /\ answer.issues[k].kind = kind
                                               /\ answer.issues[k].restates = r})]
Drifts(answer) == \E e \in retained : Classified(answer, e.kind) # e.choices

(* An answer without the form asked of it: its evidence, its repair         *)
(* conditions, or the audit itself.                                         *)
Malformed(answer) == answer.malformed # None

Refused(answer) ==
  \/ Drifts(answer) \/ Malformed(answer)
  \/ \E k \in DOMAIN answer.issues : ~ IssueFits(answer, answer.issues[k])
  \/ \E t \in Tests : ~ LinkFits(answer, t)

(* classification_diagnostics, of the first refused answer: issues of a     *)
(* kind are retained when all their choices are of reported findings.       *)
Retainable(answer) ==
  IF answer.malformed = "audit" THEN {}
  ELSE LET kinds == {answer.issues[k].kind : k \in DOMAIN answer.issues}
           clear(kind) == \A k \in DOMAIN answer.issues : answer.issues[k].kind = kind =>
                            answer.issues[k].restates \in Alleging(answer.audit) \cup {None}
       IN  {[kind |-> kind, choices |-> Classified(answer, kind)] : kind \in {c \in kinds : clear(c)}}

-----------------------------------------------------------------------------
Severities == {"note"} \cup {kind[2] : kind \in IssueKinds} \cup {"blocking"}
Categories == AssignmentCategories \cup {kind[1] : kind \in IssueKinds}
CriticTypeOK ==
  /\ step \in {"review", "adjudicate", "accepted", "rejected"}
  /\ \A c \in Range(critiques) :
       /\ c.verdict \in {"pass", "revise"}
       /\ \A i \in Range(c.issues) : i.category \in Categories /\ i.severity \in Severities
       /\ c.verdict = "pass" => \A i \in Range(c.issues) : ~ Blocks(i)
  /\ \A e \in retained : /\ e.kind \in IssueKinds
                         /\ e.choices \in [Routes \cup {None} -> 0 .. MaxReported]
  /\ failed \in BOOLEAN /\ (retained # {} => failed)
  /\ unmet \subseteq Tests /\ \A r \in reported : r.owner \in Tests \cup {NoTest}

CriticInit ==
  /\ step = "review" /\ critiques = << >>
  /\ retained = {} /\ failed = FALSE
  /\ reported = {} /\ unmet = {} /\ released = {}

(* Where a critique leads; a revision may also be due to the continuity     *)
(* report (_review_disposition, _adjudication_status).                      *)
Leads(critique) ==
  LET blocking == {k \in DOMAIN critique.issues : Blocks(critique.issues[k])}
      last == Len(critiques) + 1 = MaxReviews
  IN  IF last
      THEN IF blocking = {} THEN {"accepted"}
           ELSE IF Len(critiques) > 0 /\ \A k \in blocking :
                     critique.issues[k].category \in AssignmentCategories
           THEN {"adjudicate"} ELSE {"rejected"}
      ELSE IF critique.verdict = "revise" THEN {"review"} ELSE {"review", "accepted"}

OwnerOf(answer, f) ==
  IF f \in Linked(answer) THEN CHOOSE t \in Tests : Links(answer, t) \cap f.refs # {} ELSE NoTest

AcceptAnswer(answer) ==
  /\ step = "review" /\ ~ Refused(answer)
  /\ critiques' = Append(critiques, CritiqueOf(answer))
  /\ step' \in Leads(CritiqueOf(answer))
  /\ retained' = {} /\ failed' = FALSE
  /\ reported' = {[finding |-> Canonical(f), owner |-> OwnerOf(answer, f)] : f \in Findings(answer)}
  /\ unmet' = Unmet(answer)
  /\ UNCHANGED released

(* _critic_link_failure_details: a failed retry does not replace what the   *)
(* first refused answer chose.                                              *)
RefuseAnswer(answer) ==
  /\ step = "review" /\ Refused(answer)
  /\ retained' = IF failed THEN retained ELSE Retainable(answer)
  /\ failed' = TRUE
  /\ UNCHANGED <<step, critiques, reported, unmet, released>>

(* The provider fails: the latest failure has no classification to retain.  *)
CallFails ==
  /\ step = "review"
  /\ retained' = {} /\ failed' = TRUE
  /\ UNCHANGED <<step, critiques, reported, unmet, released>>

(* Mutant: one release settles the dispute.                                 *)
SettledAfter(freed, critique) == IF freed = {} THEN "rejected" ELSE "accepted"
Settled(freed, critique) ==
  IF \E k \in DOMAIN critique.issues : Blocks(critique.issues[k]) THEN "rejected" ELSE "accepted"

(* materialize_critic_adjudication: a released issue becomes a note.        *)
AdjudicateCritique(freed) ==
  LET latest == critiques[Len(critiques)]
      disputed == {k \in DOMAIN latest.issues : /\ Blocks(latest.issues[k])
                                                /\ latest.issues[k].category \in AssignmentCategories}
      settled == [latest EXCEPT !.issues = [k \in DOMAIN @ |->
                    IF k \in freed THEN [@[k] EXCEPT !.severity = "note"] ELSE @[k]]]
  IN  /\ step = "adjudicate" /\ freed \subseteq disputed
      /\ critiques' = Append(critiques, settled)
      /\ released' = {latest.issues[k] : k \in freed}
      /\ step' = Settled(freed, settled)
      /\ UNCHANGED <<retained, failed, reported, unmet>>

(* The answers that cover the tests with these checks.  A check that is met *)
(* links nothing.                                                           *)
Answers(checked, faults) ==
  UNION {[audit : {audit}, same : SameEvidence(audit), verdict : {"pass", "revise"},
          issues : {<< >>} \cup IF Cardinality(Alleging(audit)) < MaxReported
                                THEN {<<i>> : i \in Issues(audit)} ELSE {},
          malformed : faults, checks : checked[audit]] :
           audit \in {a \in Audits : Cardinality(Alleging(a)) <= MaxReported}}
AllChecks == [audit \in Audits |-> [Tests -> Checks(audit)]]
AllMet == [audit \in Audits |-> {[t \in Tests |-> [met |-> TRUE, refs |-> {}]]}]
(* Of the answers that retain the same, since that depends only on the audit *)
(* and on what the issues restate, one is enough: it compares and repeats   *)
(* nothing.                                                                 *)
Retaining ==
  {answer \in Answers(AllMet, {None, "form", "audit"}) :
     /\ answer.verdict = "revise" /\ ~ answer.same
     /\ \A k \in DOMAIN answer.issues : /\ answer.issues[k].compared = {}
                                        /\ answer.issues[k].repeats = NoTest}

CriticNext ==
  \/ step = "review" /\ \E answer \in Answers(AllChecks, {None}) :
       AcceptAnswer(answer)
  \/ step = "review" /\ \E answer \in Retaining : RefuseAnswer(answer)
  \/ CallFails
  \/ step = "adjudicate" /\ \E freed \in SUBSET DOMAIN critiques[Len(critiques)].issues :
                              AdjudicateCritique(freed)

CriticSpec == CriticInit /\ [][CriticNext]_criticVars

-----------------------------------------------------------------------------
(* Safety.                                                                  *)

LatestIssues == {critiques[Len(critiques)].issues[k] : k \in DOMAIN critiques[Len(critiques)].issues}

(* Whatever the critic reported is in the critique, as it was said or as    *)
(* the repair of the same kind that it repeats: no consolidation of routes, *)
(* restatements and links loses a finding (_normalize_repair_checks,        *)
(* _normalize_assignment_restatements).                                     *)
NothingReportedIsLost ==
  \A r \in reported :
    \E issue \in LatestIssues \cup released :
      \/ issue = r.finding
      \/ /\ r.owner # NoTest /\ issue = Original(r.owner)
         /\ issue.category = r.finding.category /\ issue.severity = r.finding.severity

(* A repair found unmet is asked for again in the words it was first asked  *)
(* for in, by a critique whose verdict makes the writer act on it, until an *)
(* adjudication releases it (critic_repair_tests, _normalize_repair_checks).*)
UnmetRepairStays ==
  \A t \in unmet :
    \/ Original(t) \in released
    \/ \E k \in ActionableOf(critiques[Len(critiques)]) :
         critiques[Len(critiques)].issues[k] = Original(t)

(* A scene is accepted only when every blocking repair its reviews asked    *)
(* for was met in the end, or was released by the adjudication: neither a   *)
(* link, a fold nor the release of another one makes it go away.            *)
LastAnswered == IF released = {} THEN Len(critiques) ELSE Len(critiques) - 1
AcceptedMeansSettled ==
  step = "accepted" =>
    \A t \in Tests : Blocks(Original(t)) =>
      \/ Original(t) \in released
      \/ t[1] < LastAnswered /\ t \notin unmet

-----------------------------------------------------------------------------
(* "These are structurally valid choices": all of what is retained can pass *)
(* the normal validation that applies to the retry as well.                 *)
SomeAnswerPasses == \E answer \in Answers(AllMet, {None}) : ~ Refused(answer)
RetriesCanPass == step = "review" => SomeAnswerPasses
=============================================================================
