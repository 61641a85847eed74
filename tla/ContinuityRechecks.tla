------------------------- MODULE ContinuityRechecks -------------------------
(***************************************************************************)
(* The continuity reviews of one scene.  A model checks each revision       *)
(* against the canon and decides on every finding of the report before it;  *)
(* the application gives findings their identity and their re-check         *)
(* disposition, and refuses an answer that breaks its contract, which is    *)
(* then asked for again.  A last dispute is settled by an adjudication.     *)
(*                                                                          *)
(* Prose is the set of its excerpts, and a `text` stands for an allegation  *)
(* with its requested repair.  Advisory findings block nothing and are not  *)
(* read again: they are left out.                                           *)
(***************************************************************************)
EXTENDS Naturals, FiniteSets

CONSTANTS
  Claims,        \* non-world claims of the canonical source catalog
  Rules,         \* World Rules
  Shortcuts,     \* forbidden shortcuts that are due
  Requirements,  \* requirements that are due, each covered by every answer
  Optional,      \* those whose enforcement is advisory
  Alleged,       \* what may be alleged: <<source, text>>
  Excerpts,      \* what prose may say
  Selections,    \* the evidence one finding or decision selects
  MaxBlockers    \* bound: blockers of one report

ASSUME RecheckAssumption ==
  /\ Optional \subseteq Requirements
  /\ \A a \in Alleged : a[1] \in Claims \cup Rules \cup Shortcuts \cup Requirements
  /\ Selections \subseteq (SUBSET Excerpts) \ {{}}
  /\ Claims \cap Rules = {} /\ Shortcuts \cap (Claims \cup Rules) = {}
  /\ Requirements \cap (Claims \cup Rules \cup Shortcuts) = {}
  /\ "missing" \notin Claims \cup Rules  \* it marks the ids of missing requirements
  /\ IsFiniteSet(Alleged)

VARIABLES
  turn,     \* "check", "write" (the report blocks) or "end"
  prose,    \* the current revision
  before,   \* the revision the report before was about
  active,   \* blockers of the latest report
  history,  \* ids of the blockers of every report of the scene
  answer    \* the answer handled last: what it released, covered and stated as
            \* an obligation, or why it was refused

recheckVars == <<turn, prose, before, active, history, answer>>

(* A missing requirement is named by its requirement, any other blocker by  *)
(* a digest of its semantic key.                                            *)
Key(basis, source, text) ==
  IF basis = "contradiction" THEN <<source, text>> ELSE <<"requirement", source>>
Blocker(basis, source, text) ==
  [id |-> IF basis = "missing" THEN <<"missing", source>> ELSE Key(basis, source, text),
   basis |-> basis, source |-> source, text |-> text]
IdsOf(findings) == {f.id : f \in findings}

Basis(source) == CASE source \in Requirements -> "missing"
                   [] source \in Shortcuts -> "shortcut"
                   [] OTHER -> "contradiction"
Blockers == {Blocker(Basis(a[1]), a[1], a[2]) : a \in Alleged}
Texts == {a[2] : a \in Alleged}

NoAnswer == [released |-> {}, covered |-> {}, owed |-> {}, refused |-> "none"]

RecheckTypeOK ==
  /\ turn \in {"check", "write", "end"}
  /\ prose \in (SUBSET Excerpts) \ {{}} /\ before \subseteq Excerpts
  /\ active \subseteq Blockers /\ history \subseteq IdsOf(Blockers)
  /\ answer \in [released : SUBSET IdsOf(Blockers), covered : SUBSET Requirements,
                 owed : SUBSET Texts,
                 refused : {"none", "evidence", "reintroduced", "duplicate", "rule certificate",
                            "not new", "disposition"}]

RecheckInit ==
  /\ turn = "check"
  /\ prose \in (SUBSET Excerpts) \ {{}} /\ before = {}
  /\ active = {} /\ history = {} /\ answer = NoAnswer

(* The report before, and the findings of it the model decides on.          *)
Rechecking == before # {}
(* Mutant: only contradictions are checked again.                           *)
ContradictionsOnly(f) == f.basis = "contradiction"
ModelFinding(f) == f.basis # "missing"
PriorFindings == {f \in active : ModelFinding(f)}

-----------------------------------------------------------------------------
(* Materialisation of an answer.                                            *)

(* What an answer may say of a prior finding, with the evidence it selects. *)
PriorDecisions == [status : {"resolved", "still_blocking"}, refs : Selections]
(* A new blocking finding; a non-world one is declared direct or not.       *)
NewFindings ==
  {n \in [finding : {f \in Blockers : f.basis # "missing"}, refs : Selections, direct : BOOLEAN] :
     n.finding.source \in Claims \/ n.direct}
Coverage ==
  {c \in [Requirements -> [status : {"met", "partial", "absent"}, text : Texts]] :
     \A q \in Requirements :
       IF c[q].status = "met" THEN c[q].text = CHOOSE t \in Texts : TRUE
                              ELSE <<q, c[q].text>> \in Alleged}

Kept(decided) == {f \in PriorFindings : decided[f].status = "still_blocking"}

(* _downgrade_qualitative_non_world_contradiction                           *)
Downgraded(n) == n.finding.source \in Claims /\ ~ n.direct
NewBlockers(new) == {n.finding : n \in {m \in new : ~ Downgraded(m)}}

(* _materialize_requirement_coverage                                        *)
GapTexts(coverage) == {coverage[q].text : q \in {p \in Requirements : coverage[p].status # "met"}}
Gaps(coverage) ==
  {Blocker("missing", q, coverage[q].text) :
     q \in {p \in Requirements \ Optional : coverage[p].status = "absent"}}

(* _consolidate_requirement_basis and _consolidate_..._semantic_duplicates: *)
(* a contradiction that restates an obligation, or a finding that repeats   *)
(* an earlier one, is dropped.                                              *)
Owed(kept, new, coverage) ==
  GapTexts(coverage) \cup {f.text : f \in {g \in kept \cup new : g.basis = "shortcut"}}
Consolidated(kept, new, coverage) ==
  LET owed == Owed(kept, new, coverage)
      independent == {f \in kept \cup new : f.basis = "contradiction" => f.text \notin owed}
  IN  {f \in independent : f \in new => \A g \in kept : g.id # f.id \/ g = f} \cup Gaps(coverage)

(* _materialize_continuity_identity, and for gaps the coverage itself.      *)
GapDisposition(f) == IF f.id \in history THEN "still_blocking" ELSE "newly_exposed"
Disposition(f, kept) ==
  IF f.basis = "missing" THEN GapDisposition(f)
  ELSE IF f \in kept \/ f.id \in history THEN "still_blocking" ELSE "newly_exposed"

(* _validate_released_finding_recurrence: a claim released on some evidence *)
(* is not alleged again on that evidence alone.                             *)
Reintroduced(decided, new) ==
  \E n \in new :
    LET released == {f \in PriorFindings : /\ decided[f].status # "still_blocking"
                                           /\ f.source = n.finding.source}
    IN  /\ n.finding.source \in Claims /\ released # {}
        /\ n.refs \subseteq UNION {decided[f].refs : f \in released}

(* Mutant: a blocker of any report before counts as active.                 *)
EverActive == history
ActiveIds == IdsOf(PriorFindings)

(* _validate_new_recheck_contradiction_evidence                             *)
NotNew(f, new) ==
  /\ f.source \in Claims /\ f.id \notin ActiveIds
  /\ \E n \in new : n.finding = f /\ n.refs \subseteq before

(* _continuity_recheck_issues                                               *)
WrongDisposition(f, kept) ==
  Disposition(f, kept) # IF f.id \in history THEN "still_blocking" ELSE "newly_exposed"

(* The first contract the answer breaks.  A kept World Rule finding is read *)
(* from the report, which does not hold its violation kind.                 *)
Refusal(decided, new, findings) ==
  LET kept == Kept(decided)
      cited == UNION ({decided[f].refs : f \in PriorFindings} \cup {n.refs : n \in new})
  IN  CASE ~ cited \subseteq prose -> "evidence"
        [] Reintroduced(decided, new) -> "reintroduced"
        [] Cardinality(IdsOf(findings)) # Cardinality(findings) -> "duplicate"
        [] \E f \in findings \cap kept : f.source \in Rules -> "rule certificate"
        [] Rechecking /\ \E f \in findings : NotNew(f, new) -> "not new"
        [] Rechecking /\ \E f \in findings : WrongDisposition(f, kept) -> "disposition"
        [] OTHER -> "none"

(* One answer.  A refused one is asked for again.                           *)
Review(decided, new, coverage) ==
  LET findings == Consolidated(Kept(decided), NewBlockers(new), coverage)
      refused == Refusal(decided, new, findings)
  IN  /\ turn = "check"
      /\ Cardinality(findings) <= MaxBlockers
      /\ IF refused = "none"
         THEN /\ active' = findings
              /\ history' = history \cup IdsOf(findings)
              /\ turn' = IF findings = {} THEN "end" ELSE "write"
              /\ answer' = [released |-> IdsOf(PriorFindings \ Kept(decided)),
                            covered |-> {q \in Requirements : coverage[q].status # "absent"},
                            owed |-> Owed(Kept(decided), NewBlockers(new), coverage),
                            refused |-> "none"]
         ELSE /\ answer' = [NoAnswer EXCEPT !.refused = refused]
              /\ UNCHANGED <<active, history, turn>>
      /\ UNCHANGED <<prose, before>>

-----------------------------------------------------------------------------
(* The writer revises the scene; the next check is about the new prose.     *)
Revise ==
  /\ turn = "write"
  /\ turn' = "check"
  /\ before' = prose
  /\ prose' \in (SUBSET Excerpts) \ {{}}
  /\ answer' = NoAnswer
  /\ UNCHANGED <<active, history>>

(* materialize_adjudication: a verdict on every disputed finding, and on    *)
(* nothing else.                                                            *)
Disputed == {f \in active : f.source \in Claims}
Adjudicate(released) ==
  /\ turn = "write" /\ Disputed # {} /\ released \subseteq Disputed
  /\ turn' = "end"
  /\ active' = active \ released
  /\ answer' = [NoAnswer EXCEPT !.released = IdsOf(released)]
  /\ UNCHANGED <<prose, before, history>>

RecheckNext ==
  \/ turn = "check" /\ \E decided \in [PriorFindings -> PriorDecisions], coverage \in Coverage :
       \/ Review(decided, {}, coverage)
       \/ \E n \in NewFindings : Review(decided, {n}, coverage)
  \/ Revise
  \/ \E released \in SUBSET Disputed : Adjudicate(released)

RecheckSpec == RecheckInit /\ [][RecheckNext]_recheckVars

-----------------------------------------------------------------------------
(* Safety.                                                                  *)

(* A blocker leaves the report only because the answer released it, covered *)
(* its requirement, or states it as an obligation as well: nothing is       *)
(* forgotten between the partition of decisions, the consolidations and the *)
(* adjudication (_continuity_model_findings, materialize_adjudication); nor *)
(* does the application refuse identities and dispositions that it derived  *)
(* itself (_materialize_continuity_identity, _continuity_recheck_issues).   *)
NoBlockerForgotten ==
  [][/\ answer'.refused \notin {"duplicate", "disposition"}
     /\ \A f \in active :
          \/ f.id \in IdsOf(active') \/ f.id \in answer'.released
          \/ f.basis = "missing" /\ f.source \in answer'.covered
          \/ f.basis = "contradiction" /\ f.text \in answer'.owed]_recheckVars

(* Prose that says nothing new gains no new non-world contradiction, not    *)
(* even one that blocked earlier and was released                           *)
(* (_validate_new_recheck_contradiction_evidence).                          *)
UnchangedProseGainsNothing ==
  [][Rechecking /\ prose \subseteq before =>
       \A f \in active' : f.source \in Claims => f.id \in IdsOf(active)]_recheckVars

(* "The application rehydrates the prior finding's identity, basis and      *)
(* provenance": keeping a prior blocker on current evidence is admitted.    *)
KeepingIsAdmitted == answer.refused # "rule certificate"
=============================================================================
