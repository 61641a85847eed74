---------------------- MODULE ContinuityRechecksProofs ----------------------
(***************************************************************************)
(* What ContinuityRechecks promises, for every catalog of sources, every    *)
(* set of allegations and every bound on the blockers of a report.          *)
(*                                                                          *)
(* That an answer forgets nothing depends on what the reports before it     *)
(* left behind: that their blockers have distinct ids, all of them in the   *)
(* history, and that only an enforced requirement is ever missing.  None of *)
(* this is checked when a report is stored; it follows from how the         *)
(* findings of an answer are put together, which is what is shown here.     *)
(***************************************************************************)
EXTENDS ContinuityRechecks, FiniteSetTheorems, TLAPS

Distinct(findings) == \A f, g \in findings : f.id = g.id => f = g

RefusalCodes == {"none", "evidence", "reintroduced", "duplicate", "rule certificate",
                 "not new", "disposition"}

ReportInv ==
  /\ active \subseteq Blockers /\ Distinct(active)
  /\ history \subseteq IdsOf(Blockers) /\ IdsOf(active) \subseteq history
  /\ \A f \in active : f.basis = "missing" => f.source \in Requirements \ Optional

RecheckInv == RecheckTypeOK /\ ReportInv

(* An answer as the model may give it: a decision on every prior finding,   *)
(* at most one new one, and the coverage of every requirement.              *)
Given(decided, new, coverage) ==
  /\ decided \in [PriorFindings -> PriorDecisions]
  /\ new \subseteq NewFindings /\ \A m, n \in new : m = n
  /\ coverage \in Coverage
FindingsOf(decided, new, coverage) == Consolidated(Kept(decided), NewBlockers(new), coverage)

-----------------------------------------------------------------------------
(* The findings.                                                            *)

(* A pair is its components.                                                *)
LEMMA Pairs ==
  ASSUME NEW a, NEW b, NEW c, NEW d, <<a, b>> = <<c, d>>
  PROVE  a = c /\ b = d
<1>1. /\ <<a, b>>[1] = a /\ <<a, b>>[2] = b
      /\ <<c, d>>[1] = c /\ <<c, d>>[2] = d
  OBVIOUS
<1> QED
  BY <1>1

(* A blocker by its basis.                                                  *)
LEMMA BlockerFields ==
  ASSUME NEW f \in Blockers
  PROVE  /\ f = Blocker(f.basis, f.source, f.text) /\ f.text \in Texts
         /\ f.source \in Claims \cup Rules \cup Shortcuts \cup Requirements
         /\ f.basis \in {"missing", "shortcut", "contradiction"}
         /\ f.basis = "missing" => f.source \in Requirements /\ f.id = <<"missing", f.source>>
         /\ f.basis = "shortcut" => f.source \in Shortcuts /\ f.id = <<"requirement", f.source>>
         /\ f.basis = "contradiction" =>
              f.source \in Claims \cup Rules /\ f.id = <<f.source, f.text>>
         /\ f.source \in Requirements => f.basis = "missing"
<1>1. PICK a \in Alleged : f = Blocker(Basis(a[1]), a[1], a[2])
  BY DEF Blockers
<1>2. a[1] \in Claims \cup Rules \cup Shortcuts \cup Requirements
  BY RecheckAssumption
<1>3. /\ a[1] \in Requirements => Basis(a[1]) = "missing"
      /\ a[1] \in Shortcuts => Basis(a[1]) = "shortcut"
      /\ a[1] \in Claims \cup Rules => Basis(a[1]) = "contradiction"
  BY RecheckAssumption DEF Basis
<1>4. f.basis = Basis(a[1]) /\ f.source = a[1] /\ f.text = a[2]
  BY <1>1 DEF Blocker
<1>5. f.text \in Texts
  BY <1>4 DEF Texts
<1>6. f = Blocker(f.basis, f.source, f.text)
  BY <1>1, <1>4
<1>7. /\ f.basis = "missing" => f.id = <<"missing", f.source>>
      /\ f.basis = "shortcut" => f.id = <<"requirement", f.source>>
      /\ f.basis = "contradiction" => f.id = <<f.source, f.text>>
  BY <1>1, <1>4 DEF Blocker, Key
<1> QED
  BY <1>2, <1>3, <1>4, <1>5, <1>6, <1>7

(* There are finitely many.                                                 *)
LEMMA BlockersFinite == IsFiniteSet(Blockers)
<1> DEFINE alleging == [a \in Alleged |-> Blocker(Basis(a[1]), a[1], a[2])]
<1>1. \A f \in Blockers : \E a \in Alleged : alleging[a] = f
  BY DEF Blockers
<1>2. alleging \in [Alleged -> Blockers]
  BY DEF Blockers
<1>3. alleging \in Surjection(Alleged, Blockers)
  <2> HIDE DEF alleging
  <2> QED
    BY <1>1, <1>2 DEF Surjection
<1> QED
  BY <1>3, RecheckAssumption, FS_Surjection

(* An allegation of a missing requirement is a blocker.                     *)
LEMMA GapIsBlocker ==
  ASSUME NEW q \in Requirements, NEW t, <<q, t>> \in Alleged
  PROVE  /\ Blocker("missing", q, t) \in Blockers
         /\ Blocker("missing", q, t).basis = "missing" /\ Blocker("missing", q, t).source = q
         /\ Blocker("missing", q, t).text = t
         /\ Blocker("missing", q, t).id = <<"missing", q>>
<1>1. Basis(q) = "missing"
  BY RecheckAssumption DEF Basis
<1>2. <<q, t>>[1] = q /\ <<q, t>>[2] = t
  OBVIOUS
<1>3. Blocker("missing", q, t) = Blocker(Basis(<<q, t>>[1]), <<q, t>>[1], <<q, t>>[2])
  BY <1>1, <1>2
<1>4. Blocker("missing", q, t) \in Blockers
  BY <1>3 DEF Blockers
<1> QED
  BY <1>4 DEF Blocker

(* What the coverage of the requirements blocks, and what it owes.          *)
LEMMA CoverageGaps ==
  ASSUME NEW coverage \in Coverage
  PROVE  /\ \A f \in Gaps(coverage) :
              /\ f \in Blockers /\ f.basis = "missing" /\ f.source \in Requirements \ Optional
              /\ f = Blocker("missing", f.source, coverage[f.source].text)
         /\ \A q \in Requirements \ Optional :
              coverage[q].status = "absent" => <<"missing", q>> \in IdsOf(Gaps(coverage))
         /\ GapTexts(coverage) \subseteq Texts
<1>1. ASSUME NEW q \in Requirements
      PROVE  /\ coverage[q].text \in Texts
             /\ coverage[q].status # "met" => <<q, coverage[q].text>> \in Alleged
  BY DEF Coverage
<1>2. ASSUME NEW q \in Requirements \ Optional, coverage[q].status = "absent"
      PROVE  /\ Blocker("missing", q, coverage[q].text) \in Blockers
             /\ Blocker("missing", q, coverage[q].text).basis = "missing"
             /\ Blocker("missing", q, coverage[q].text).source = q
             /\ Blocker("missing", q, coverage[q].text).id = <<"missing", q>>
  <2>1. coverage[q].status # "met" /\ q \in Requirements
    BY <1>2
  <2>2. <<q, coverage[q].text>> \in Alleged
    BY <1>1, <2>1
  <2> QED
    BY <2>1, <2>2, GapIsBlocker
<1>3. ASSUME NEW f \in Gaps(coverage)
      PROVE  /\ f \in Blockers /\ f.basis = "missing" /\ f.source \in Requirements \ Optional
             /\ f = Blocker("missing", f.source, coverage[f.source].text)
  <2>1. PICK q \in Requirements \ Optional :
          coverage[q].status = "absent" /\ f = Blocker("missing", q, coverage[q].text)
    BY DEF Gaps
  <2> QED
    BY <1>2, <2>1
<1>4. ASSUME NEW q \in Requirements \ Optional, coverage[q].status = "absent"
      PROVE  <<"missing", q>> \in IdsOf(Gaps(coverage))
  <2>1. Blocker("missing", q, coverage[q].text) \in Gaps(coverage)
    BY <1>4 DEF Gaps
  <2> QED
    BY <1>2, <1>4, <2>1 DEF IdsOf
<1>5. GapTexts(coverage) \subseteq Texts
  BY <1>1 DEF GapTexts
<1> QED
  BY <1>3, <1>4, <1>5

(* A new finding is a blocker that is not a missing requirement.            *)
LEMMA NewFindingFields ==
  ASSUME NEW n \in NewFindings
  PROVE  n.finding \in Blockers /\ n.finding.basis # "missing"
  BY DEF NewFindings

(* The findings of an answer are blockers, each with an id of its own, and  *)
(* what is missing among them is enforced.                                  *)
LEMMA FindingsAre ==
  ASSUME ReportInv, NEW decided, NEW new, NEW coverage, Given(decided, new, coverage)
  PROVE  LET findings == FindingsOf(decided, new, coverage)
         IN  /\ findings \subseteq Blockers /\ IsFiniteSet(findings) /\ Distinct(findings)
             /\ \A f \in findings : f.basis = "missing" => f.source \in Requirements \ Optional
             /\ \A f \in findings : \/ f \in Kept(decided) \/ f \in NewBlockers(new)
                                    \/ f \in Gaps(coverage)
             /\ Owed(Kept(decided), NewBlockers(new), coverage) \subseteq Texts
<1> DEFINE findings == FindingsOf(decided, new, coverage)
           kept == Kept(decided)
           fresh == NewBlockers(new)
           gaps == Gaps(coverage)
<1>1. \A f \in kept : f \in active /\ f \in Blockers /\ f.basis # "missing"
  BY DEF ReportInv, Kept, PriorFindings, ModelFinding
<1>2. /\ \A f \in fresh : f \in Blockers /\ f.basis # "missing"
      /\ \A f, g \in fresh : f = g
  <2>1. \A f \in fresh : \E n \in new : f = n.finding
    BY DEF NewBlockers
  <2> QED
    BY <2>1, NewFindingFields DEF Given
<1>3. /\ \A f \in gaps : /\ f \in Blockers /\ f.basis = "missing"
                         /\ f.source \in Requirements \ Optional
                         /\ f = Blocker("missing", f.source, coverage[f.source].text)
      /\ GapTexts(coverage) \subseteq Texts
  BY CoverageGaps DEF Given
<1>4. \A f \in findings :
        \/ /\ f \in kept \cup fresh
           /\ f \in fresh => \A g \in kept : g.id # f.id \/ g = f
        \/ f \in gaps
  BY DEF FindingsOf, Consolidated
<1>5. ASSUME NEW f \in findings, NEW g \in findings, f.id = g.id
      PROVE  f = g
  <2>1. CASE f \in gaps /\ g \in gaps
    <3>1. f.source = g.source
      <4>1. f.id = <<"missing", f.source>> /\ g.id = <<"missing", g.source>>
        BY <1>3, <2>1, BlockerFields
      <4>2. <<"missing", f.source>> = <<"missing", g.source>>
        BY <1>5, <4>1
      <4> QED
        BY <4>2, Pairs, Zenon
    <3> QED
      BY <1>3, <2>1, <3>1
  <2>2. ASSUME NEW h \in gaps, NEW k \in kept \cup fresh, h.id = k.id
        PROVE  FALSE
    <3>1. h.id = <<"missing", h.source>>
      BY <1>3, BlockerFields
    <3>2. k \in Blockers /\ k.basis \in {"shortcut", "contradiction"}
      BY <1>1, <1>2, BlockerFields
    <3>3. CASE k.basis = "shortcut"
      <4>1. k.id = <<"requirement", k.source>>
        BY <3>2, <3>3, BlockerFields
      <4> QED
        BY <2>2, <3>1, <4>1, Pairs
    <3>4. CASE k.basis = "contradiction"
      <4>1. k.id = <<k.source, k.text>> /\ k.source \in Claims \cup Rules
        BY <3>2, <3>4, BlockerFields
      <4>2. k.source # "missing"
        BY <4>1, RecheckAssumption
      <4> QED
        BY <2>2, <3>1, <4>1, <4>2, Pairs
    <3> QED
      BY <3>2, <3>3, <3>4
  <2>3. CASE f \in kept /\ g \in kept
    BY <1>1, <1>5, <2>3 DEF ReportInv, Distinct
  <2>4. CASE f \in fresh /\ g \in fresh
    BY <1>2, <2>4
  <2>5. CASE f \in fresh /\ f \notin gaps /\ g \in kept
    BY <1>4, <1>5, <2>5
  <2>6. CASE f \in kept /\ g \in fresh /\ g \notin gaps
    BY <1>4, <1>5, <2>6
  <2> QED
    BY <1>4, <1>5, <2>1, <2>2, <2>3, <2>4, <2>5, <2>6
<1>6. findings \subseteq Blockers
  BY <1>1, <1>2, <1>3, <1>4
<1>7. IsFiniteSet(findings)
  BY <1>6, BlockersFinite, FS_Subset
<1>8. Owed(kept, fresh, coverage) \subseteq Texts
  <2>1. \A f \in kept \cup fresh : f.text \in Texts
    BY <1>1, <1>2, BlockerFields
  <2> QED
    BY <1>3, <2>1 DEF Owed
<1> QED
  BY <1>1, <1>2, <1>3, <1>4, <1>5, <1>6, <1>7, <1>8 DEF Distinct

-----------------------------------------------------------------------------
(* The refusals.                                                            *)

(* Distinct findings have as many ids.                                      *)
LEMMA DistinctIds ==
  ASSUME NEW findings, IsFiniteSet(findings), Distinct(findings)
  PROVE  Cardinality(IdsOf(findings)) = Cardinality(findings)
<1> DEFINE ids == [f \in findings |-> f.id]
<1>1. ids \in [findings -> IdsOf(findings)]
  BY DEF IdsOf
<1>2. \A i \in IdsOf(findings) : \E f \in findings : ids[f] = i
  BY DEF IdsOf
<1>3. \A f, g \in findings : ids[f] = ids[g] => f = g
  BY DEF Distinct
<1>4. ids \in Surjection(findings, IdsOf(findings)) /\ ids \in Injection(findings, IdsOf(findings))
  <2> HIDE DEF ids
  <2> QED
    BY <1>1, <1>2, <1>3 DEF Surjection, Injection, IsInjective
<1> QED
  BY <1>4, FS_Surjection

(* A finding that the answer keeps, or that blocked before, is said to be   *)
(* still blocking: that is what the history says.                           *)
LEMMA DispositionsRight ==
  ASSUME ReportInv, NEW decided, NEW f
  PROVE  ~ WrongDisposition(f, Kept(decided))
<1>1. \A g \in Kept(decided) : g.id \in history
  BY DEF ReportInv, Kept, PriorFindings, IdsOf
<1>2. CASE f.basis = "missing"
  BY <1>2 DEF WrongDisposition, Disposition, GapDisposition
<1>3. CASE f.basis # "missing"
  BY <1>1, <1>3 DEF WrongDisposition, Disposition
<1> QED
  BY <1>2, <1>3

(* What a refusal says, and what the absence of one.                        *)
LEMMA Refusals ==
  ASSUME ReportInv, NEW decided, NEW new, NEW coverage, Given(decided, new, coverage)
  PROVE  LET findings == FindingsOf(decided, new, coverage)
             refused == Refusal(decided, new, findings)
         IN  /\ refused \in RefusalCodes \ {"duplicate", "disposition"}
             /\ refused = "none" =>
                  /\ \A n \in new : n.refs \subseteq prose
                  /\ Rechecking => \A f \in findings : ~ NotNew(f, new)
<1> DEFINE findings == FindingsOf(decided, new, coverage)
           kept == Kept(decided)
           cited == UNION ({decided[f].refs : f \in PriorFindings} \cup {n.refs : n \in new})
<1>1. Cardinality(IdsOf(findings)) = Cardinality(findings)
  BY FindingsAre, DistinctIds
<1>2. \A f \in findings : ~ WrongDisposition(f, kept)
  BY DispositionsRight
<1>3. \A n \in new : n.refs \subseteq cited
  OBVIOUS
<1>4. Refusal(decided, new, findings) =
        CASE ~ cited \subseteq prose -> "evidence"
          [] Reintroduced(decided, new) -> "reintroduced"
          [] Cardinality(IdsOf(findings)) # Cardinality(findings) -> "duplicate"
          [] \E f \in findings \cap kept : f.source \in Rules -> "rule certificate"
          [] Rechecking /\ \E f \in findings : NotNew(f, new) -> "not new"
          [] Rechecking /\ \E f \in findings : WrongDisposition(f, kept) -> "disposition"
          [] OTHER -> "none"
  BY DEF Refusal
<1>5. ~ (Rechecking /\ \E f \in findings : WrongDisposition(f, kept))
  BY <1>2
<1> DEFINE evidence == ~ cited \subseteq prose
           again == Reintroduced(decided, new)
           twice == Cardinality(IdsOf(findings)) # Cardinality(findings)
           rule == \E f \in findings \cap kept : f.source \in Rules
           notNew == Rechecking /\ \E f \in findings : NotNew(f, new)
           wrong == Rechecking /\ \E f \in findings : WrongDisposition(f, kept)
           refused == Refusal(decided, new, findings)
<1>6. refused = CASE evidence -> "evidence" [] again -> "reintroduced" [] twice -> "duplicate"
                  [] rule -> "rule certificate" [] notNew -> "not new"
                  [] wrong -> "disposition" [] OTHER -> "none"
  BY <1>4
<1>7. ~ twice /\ ~ wrong
  BY <1>1, <1>5
<1>8. /\ refused \in RefusalCodes \ {"duplicate", "disposition"}
      /\ refused = "none" => ~ evidence /\ ~ notNew
  <2> HIDE DEF evidence, again, twice, rule, notNew, wrong, refused
  <2> QED
    BY <1>6, <1>7 DEF RefusalCodes
<1> QED
  BY <1>3, <1>8

-----------------------------------------------------------------------------
(* The steps.                                                               *)

(* What an admitted answer, and a refused one, leave behind.                *)
LEMMA Reviewed ==
  ASSUME NEW decided, NEW new, NEW coverage, Review(decided, new, coverage)
  PROVE  LET findings == FindingsOf(decided, new, coverage)
             refused == Refusal(decided, new, findings)
         IN  /\ prose' = prose /\ before' = before /\ answer'.refused = refused
             /\ refused = "none" =>
                  /\ active' = findings /\ history' = history \cup IdsOf(findings)
                  /\ turn' \in {"end", "write"}
                  /\ answer' = [released |-> IdsOf(PriorFindings \ Kept(decided)),
                                covered |-> {q \in Requirements : coverage[q].status # "absent"},
                                owed |-> Owed(Kept(decided), NewBlockers(new), coverage),
                                refused |-> "none"]
             /\ refused # "none" =>
                  /\ active' = active /\ history' = history /\ turn' = turn
                  /\ answer' = [NoAnswer EXCEPT !.refused = refused]
<1> DEFINE findings == FindingsOf(decided, new, coverage)
           refused == Refusal(decided, new, findings)
<1>1. /\ UNCHANGED <<prose, before>>
      /\ IF refused = "none"
         THEN /\ active' = findings
              /\ history' = history \cup IdsOf(findings)
              /\ turn' = IF findings = {} THEN "end" ELSE "write"
              /\ answer' = [released |-> IdsOf(PriorFindings \ Kept(decided)),
                            covered |-> {q \in Requirements : coverage[q].status # "absent"},
                            owed |-> Owed(Kept(decided), NewBlockers(new), coverage),
                            refused |-> "none"]
         ELSE /\ answer' = [NoAnswer EXCEPT !.refused = refused]
              /\ UNCHANGED <<active, history, turn>>
  BY DEF Review, FindingsOf
<1> HIDE DEF findings, refused
<1>2. CASE refused = "none"
  BY <1>1, <1>2 DEF findings, refused
<1>3. CASE refused # "none"
  <2>1. [NoAnswer EXCEPT !.refused = refused].refused = refused
    BY DEF NoAnswer
  <2> QED
    BY <1>1, <1>3, <2>1 DEF findings, refused
<1> QED
  BY <1>2, <1>3

(* The same, as the action properties read it: an answer is refused or is   *)
(* admitted with its findings as the report.                                *)
LEMMA Outcome ==
  ASSUME NEW decided, NEW new, NEW coverage, Review(decided, new, coverage)
  PROVE  /\ answer'.refused = Refusal(decided, new, FindingsOf(decided, new, coverage))
         /\ answer'.refused # "none" => active' = active
         /\ answer'.refused = "none" =>
              /\ active' = FindingsOf(decided, new, coverage)
              /\ answer'.released = IdsOf(PriorFindings \ Kept(decided))
              /\ answer'.covered = {q \in Requirements : coverage[q].status # "absent"}
              /\ answer'.owed = Owed(Kept(decided), NewBlockers(new), coverage)
<1> DEFINE findings == FindingsOf(decided, new, coverage)
           refused == Refusal(decided, new, findings)
           released == IdsOf(PriorFindings \ Kept(decided))
           covered == {q \in Requirements : coverage[q].status # "absent"}
           owed == Owed(Kept(decided), NewBlockers(new), coverage)
<1>1. /\ answer'.refused = refused
      /\ refused = "none" =>
           /\ active' = findings
           /\ answer' = [released |-> released, covered |-> covered, owed |-> owed,
                         refused |-> "none"]
      /\ refused # "none" => active' = active
  BY Reviewed
<1> HIDE DEF findings, refused, released, covered, owed
<1>2. /\ answer'.refused = refused
      /\ refused # "none" => active' = active
      /\ refused = "none" =>
           /\ active' = findings /\ answer'.released = released
           /\ answer'.covered = covered /\ answer'.owed = owed
  BY <1>1
<1>3. answer'.refused = Refusal(decided, new, FindingsOf(decided, new, coverage))
  BY <1>2 DEF findings, refused
<1>4. answer'.refused # "none" => active' = active
  BY <1>2
<1>5. answer'.refused = "none" =>
        /\ active' = FindingsOf(decided, new, coverage)
        /\ answer'.released = IdsOf(PriorFindings \ Kept(decided))
        /\ answer'.owed = Owed(Kept(decided), NewBlockers(new), coverage)
  BY <1>2 DEF findings, released, owed
<1>6. answer'.refused = "none" =>
        answer'.covered = {q \in Requirements : coverage[q].status # "absent"}
  <2>1. answer'.refused = "none" => answer'.covered = covered
    BY <1>2
  <2> QED
    BY <2>1 DEF covered
<1> QED
  BY <1>3, <1>4, <1>5, <1>6

(* An answer of the next-state relation is one as the model may give it.    *)
LEMMA RecheckSteps ==
  ASSUME [RecheckNext]_recheckVars
  PROVE  \/ \E decided, new, coverage :
              Given(decided, new, coverage) /\ Review(decided, new, coverage)
         \/ Revise
         \/ \E released \in SUBSET Disputed : Adjudicate(released)
         \/ UNCHANGED recheckVars
<1>1. ASSUME NEW decided \in [PriorFindings -> PriorDecisions], NEW coverage \in Coverage,
             Review(decided, {}, coverage)
      PROVE  \E d, n, c : Given(d, n, c) /\ Review(d, n, c)
  <2>1. Given(decided, {}, coverage)
    BY DEF Given
  <2> QED
    BY <1>1, <2>1
<1>2. ASSUME NEW decided \in [PriorFindings -> PriorDecisions], NEW coverage \in Coverage,
             NEW n \in NewFindings, Review(decided, {n}, coverage)
      PROVE  \E d, m, c : Given(d, m, c) /\ Review(d, m, c)
  <2>1. Given(decided, {n}, coverage)
    BY DEF Given
  <2> QED
    BY <1>2, <2>1
<1> QED
  BY <1>1, <1>2 DEF RecheckNext

(* An answer keeps the invariant.                                           *)
LEMMA ReviewKeepsInv ==
  ASSUME RecheckInv, NEW decided, NEW new, NEW coverage, Given(decided, new, coverage),
         Review(decided, new, coverage)
  PROVE  RecheckInv'
<1> DEFINE findings == FindingsOf(decided, new, coverage)
           refused == Refusal(decided, new, findings)
<1>1. /\ refused \in RefusalCodes
      /\ findings \subseteq Blockers /\ Distinct(findings)
      /\ \A f \in findings : f.basis = "missing" => f.source \in Requirements \ Optional
      /\ Owed(Kept(decided), NewBlockers(new), coverage) \subseteq Texts
      /\ RecheckTypeOK /\ ReportInv
  BY Refusals, FindingsAre DEF RecheckInv
<1>2. prose' = prose /\ before' = before /\ answer'.refused = refused
  BY Reviewed
<1>3. CASE refused = "none"
  <2> DEFINE done == [released |-> IdsOf(PriorFindings \ Kept(decided)),
                      covered |-> {q \in Requirements : coverage[q].status # "absent"},
                      owed |-> Owed(Kept(decided), NewBlockers(new), coverage),
                      refused |-> "none"]
  <2>1. /\ active' = findings /\ history' = history \cup IdsOf(findings)
        /\ turn' \in {"end", "write"} /\ answer' = done
    BY <1>3, Reviewed
  <2>2. IdsOf(findings) \subseteq IdsOf(Blockers)
    BY <1>1 DEF IdsOf
  <2>3. IdsOf(PriorFindings \ Kept(decided)) \subseteq IdsOf(Blockers)
    BY <1>1 DEF IdsOf, PriorFindings, ReportInv
  <2>4. done \in [released : SUBSET IdsOf(Blockers), covered : SUBSET Requirements,
                  owed : SUBSET Texts, refused : RefusalCodes]
    BY <1>1, <2>3 DEF RefusalCodes
  <2> HIDE DEF findings, refused, done
  <2>5. RecheckTypeOK'
    BY <1>1, <1>2, <2>1, <2>2, <2>4 DEF RecheckTypeOK, ReportInv, RefusalCodes
  <2>6. ReportInv'
    BY <1>1, <2>1, <2>2 DEF ReportInv, Distinct
  <2> QED
    BY <2>5, <2>6 DEF RecheckInv
<1>4. CASE refused # "none"
  <2>1. /\ active' = active /\ history' = history /\ turn' = turn
        /\ answer' = [NoAnswer EXCEPT !.refused = refused]
    BY <1>4, Reviewed
  <2> HIDE DEF findings, refused
  <2>2. [NoAnswer EXCEPT !.refused = refused] \in
          [released : SUBSET IdsOf(Blockers), covered : SUBSET Requirements,
           owed : SUBSET Texts, refused : RefusalCodes]
    BY <1>1 DEF NoAnswer
  <2> QED
    BY <1>1, <1>2, <2>1, <2>2 DEF RecheckInv, RecheckTypeOK, ReportInv, Distinct, RefusalCodes
<1> QED
  BY <1>3, <1>4

-----------------------------------------------------------------------------
(* The invariant.                                                           *)

(* It holds initially.                                                      *)
LEMMA RecheckStarts == RecheckInit => RecheckInv
<1> SUFFICES ASSUME RecheckInit PROVE RecheckInv
  OBVIOUS
<1>1. NoAnswer \in [released : SUBSET IdsOf(Blockers), covered : SUBSET Requirements,
                    owed : SUBSET Texts, refused : RefusalCodes]
  BY DEF NoAnswer, RefusalCodes
<1> QED
  BY <1>1 DEF RecheckInit, RecheckInv, RecheckTypeOK, ReportInv, Distinct, IdsOf, RefusalCodes

(* Every step preserves it.                                                 *)
LEMMA RecheckKeeps == RecheckInv /\ [RecheckNext]_recheckVars => RecheckInv'
<1> SUFFICES ASSUME RecheckInv, [RecheckNext]_recheckVars PROVE RecheckInv'
  OBVIOUS
<1>1. ASSUME NEW decided, NEW new, NEW coverage, Given(decided, new, coverage),
             Review(decided, new, coverage)
      PROVE  RecheckInv'
  BY <1>1, ReviewKeepsInv
<1>2. CASE Revise
  <2>1. NoAnswer \in [released : SUBSET IdsOf(Blockers), covered : SUBSET Requirements,
                      owed : SUBSET Texts, refused : RefusalCodes]
    BY DEF NoAnswer, RefusalCodes
  <2> QED
    BY <1>2, <2>1 DEF Revise, RecheckInv, RecheckTypeOK, ReportInv, Distinct, RefusalCodes
<1>3. ASSUME NEW released \in SUBSET Disputed, Adjudicate(released)
      PROVE  RecheckInv'
  <2>1. IdsOf(released) \subseteq IdsOf(Blockers) /\ released \subseteq active
    BY DEF RecheckInv, ReportInv, IdsOf, Disputed
  <2>2. [NoAnswer EXCEPT !.released = IdsOf(released)] \in
          [released : SUBSET IdsOf(Blockers), covered : SUBSET Requirements,
           owed : SUBSET Texts, refused : RefusalCodes]
    BY <2>1 DEF NoAnswer, RefusalCodes
  <2>3. RecheckTypeOK'
    BY <1>3, <2>2 DEF Adjudicate, RecheckInv, RecheckTypeOK, RefusalCodes
  <2>4. ReportInv'
    <3>1. active' \subseteq active /\ history' = history
      BY <1>3 DEF Adjudicate
    <3>2. IdsOf(active') \subseteq IdsOf(active)
      BY <3>1 DEF IdsOf
    <3> QED
      BY <3>1, <3>2 DEF RecheckInv, ReportInv, Distinct, IdsOf
  <2> QED
    BY <2>3, <2>4 DEF RecheckInv
<1>4. CASE UNCHANGED recheckVars
  BY <1>4 DEF recheckVars, RecheckInv, RecheckTypeOK, ReportInv, Distinct
<1> QED
  BY <1>1, <1>2, <1>3, <1>4, RecheckSteps

(* It is an invariant of the specification.                                 *)
LEMMA RecheckHolds == RecheckSpec => []RecheckInv
  BY RecheckStarts, RecheckKeeps, PTL DEF RecheckSpec

(* The states of a scene's continuity reviews.                              *)
THEOREM RecheckTypes == RecheckSpec => []RecheckTypeOK
<1>1. RecheckInv => RecheckTypeOK
  BY DEF RecheckInv
<1> QED
  BY <1>1, RecheckHolds, PTL

-----------------------------------------------------------------------------
(* What an answer may do to the blockers.                                   *)

(* An admitted answer accounts for every blocker of the report before.      *)
LEMMA ReviewAccounts ==
  ASSUME RecheckInv, NEW decided, NEW new, NEW coverage, Given(decided, new, coverage),
         Review(decided, new, coverage), answer'.refused = "none", NEW f \in active
  PROVE  \/ f.id \in IdsOf(active') \/ f.id \in answer'.released
         \/ f.basis = "missing" /\ f.source \in answer'.covered
         \/ f.basis = "contradiction" /\ f.text \in answer'.owed
<1> DEFINE findings == FindingsOf(decided, new, coverage)
<1>1. /\ active' = findings /\ answer'.released = IdsOf(PriorFindings \ Kept(decided))
      /\ answer'.covered = {q \in Requirements : coverage[q].status # "absent"}
      /\ answer'.owed = Owed(Kept(decided), NewBlockers(new), coverage)
  BY Outcome
<1>2. f \in Blockers /\ ReportInv
  BY DEF RecheckInv, ReportInv
<1>3. CASE f.basis = "missing"
  <2>1. f.source \in Requirements \ Optional /\ f.id = <<"missing", f.source>>
    BY <1>2, <1>3, BlockerFields DEF ReportInv
  <2>2. CASE coverage[f.source].status = "absent"
    <3>1. f.id \in IdsOf(Gaps(coverage))
      BY <2>1, <2>2, CoverageGaps DEF Given
    <3>2. Gaps(coverage) \subseteq findings
      BY DEF FindingsOf, Consolidated
    <3>3. f.id \in IdsOf(findings)
      BY <3>1, <3>2 DEF IdsOf
    <3> QED
      BY <1>1, <3>3
  <2>3. CASE coverage[f.source].status # "absent"
    BY <1>1, <1>3, <2>1, <2>3
  <2> QED
    BY <2>2, <2>3
<1>4. CASE f.basis # "missing" /\ f \notin Kept(decided)
  BY <1>1, <1>4 DEF PriorFindings, ModelFinding, IdsOf
<1>5. CASE f \in Kept(decided)
  <2>1. CASE f.basis = "contradiction" /\ f.text \in Owed(Kept(decided), NewBlockers(new), coverage)
    BY <1>1, <2>1
  <2>2. CASE ~ (f.basis = "contradiction"
                /\ f.text \in Owed(Kept(decided), NewBlockers(new), coverage))
    <3>1. \A g \in Kept(decided) : g.id # f.id \/ g = f
      BY DEF RecheckInv, ReportInv, Distinct, Kept, PriorFindings
    <3>2. f \in findings
      BY <1>5, <2>2, <3>1 DEF FindingsOf, Consolidated
    <3> QED
      BY <1>1, <3>2 DEF IdsOf
  <2> QED
    BY <2>1, <2>2
<1> QED
  BY <1>3, <1>4, <1>5

(* Nothing is forgotten: a blocker leaves the report only because the       *)
(* answer released it, covered its requirement, or states it as an          *)
(* obligation; and no identity or disposition that the application derived  *)
(* is refused by its own checks.                                            *)
THEOREM NothingForgotten == RecheckSpec => NoBlockerForgotten
<1> DEFINE Accounted ==
      /\ answer'.refused \notin {"duplicate", "disposition"}
      /\ \A f \in active :
           \/ f.id \in IdsOf(active') \/ f.id \in answer'.released
           \/ f.basis = "missing" /\ f.source \in answer'.covered
           \/ f.basis = "contradiction" /\ f.text \in answer'.owed
<1>1. RecheckInv /\ [RecheckNext]_recheckVars => [Accounted]_recheckVars
  <2> SUFFICES ASSUME RecheckInv, [RecheckNext]_recheckVars, ~ UNCHANGED recheckVars PROVE Accounted
    OBVIOUS
  <2>1. ASSUME NEW decided, NEW new, NEW coverage, Given(decided, new, coverage),
               Review(decided, new, coverage)
        PROVE  Accounted
    <3>1. answer'.refused \notin {"duplicate", "disposition"}
      <4>1. answer'.refused = Refusal(decided, new, FindingsOf(decided, new, coverage))
        BY <2>1, Outcome
      <4>2. ReportInv
        BY DEF RecheckInv
      <4> QED
        BY <2>1, <4>1, <4>2, Refusals
    <3>2. CASE answer'.refused = "none"
      BY <2>1, <3>1, <3>2, ReviewAccounts
    <3>3. CASE answer'.refused # "none"
      <4>1. active' = active
        BY <2>1, <3>3, Outcome
      <4> QED
        BY <3>1, <4>1 DEF IdsOf
    <3> QED
      BY <3>2, <3>3
  <2>2. CASE Revise
    BY <2>2 DEF Revise, NoAnswer, IdsOf
  <2>3. ASSUME NEW released \in SUBSET Disputed, Adjudicate(released)
        PROVE  Accounted
    <3>1. /\ active' = active \ released
          /\ answer' = [NoAnswer EXCEPT !.released = IdsOf(released)]
      BY <2>3 DEF Adjudicate
    <3>2. answer'.released = IdsOf(released) /\ answer'.refused = "none"
      BY <3>1 DEF NoAnswer
    <3> QED
      BY <3>1, <3>2 DEF IdsOf
  <2> QED
    BY <2>1, <2>2, <2>3, RecheckSteps
<1>2. RecheckSpec => [][Accounted]_recheckVars
  BY <1>1, RecheckHolds, PTL DEF RecheckSpec
<1> QED
  BY <1>2 DEF NoBlockerForgotten

(* Prose that says nothing new gains no new non-world contradiction.        *)
THEOREM NothingGained == RecheckSpec => UnchangedProseGainsNothing
<1> DEFINE Nothing ==
      Rechecking /\ prose \subseteq before =>
        \A f \in active' : f.source \in Claims => f.id \in IdsOf(active)
<1>1. RecheckInv /\ [RecheckNext]_recheckVars => [Nothing]_recheckVars
  <2> SUFFICES ASSUME RecheckInv, [RecheckNext]_recheckVars, Rechecking, prose \subseteq before,
                      NEW f \in active', f.source \in Claims
               PROVE  f.id \in IdsOf(active)
    OBVIOUS
  <2>1. ASSUME NEW decided, NEW new, NEW coverage, Given(decided, new, coverage),
               Review(decided, new, coverage), answer'.refused = "none"
        PROVE  f.id \in IdsOf(active)
    <3>1. /\ f \in FindingsOf(decided, new, coverage)
          /\ Refusal(decided, new, FindingsOf(decided, new, coverage)) = "none"
      BY <2>1, Outcome
    <3>2. ReportInv
      BY DEF RecheckInv
    <3>3. ~ NotNew(f, new) /\ \A n \in new : n.refs \subseteq before
      BY <2>1, <3>1, <3>2, Refusals
    <3>4. \/ f \in Kept(decided) \/ f \in NewBlockers(new)
          \/ f \in Gaps(coverage) /\ f.source \in Requirements
      BY <2>1, <3>1, <3>2, FindingsAre, CoverageGaps DEF Given
    <3>5. CASE f \in Kept(decided)
      BY <3>5 DEF Kept, PriorFindings, IdsOf
    <3>6. CASE f \in NewBlockers(new)
      <4>1. PICK n \in new : n.finding = f
        BY <3>6 DEF NewBlockers
      <4>2. f.id \in ActiveIds
        BY <3>3, <4>1 DEF NotNew
      <4> QED
        BY <4>2 DEF ActiveIds, IdsOf, PriorFindings
    <3>7. CASE f.source \in Requirements
      BY <3>7, RecheckAssumption
    <3> QED
      BY <3>4, <3>5, <3>6, <3>7
  <2>2. ASSUME active' \subseteq active
        PROVE  f.id \in IdsOf(active)
    BY <2>2 DEF IdsOf
  <2>3. ASSUME NEW decided, NEW new, NEW coverage, Given(decided, new, coverage),
               Review(decided, new, coverage), answer'.refused # "none"
        PROVE  active' \subseteq active
    BY <2>3, Outcome
  <2>4. CASE \/ Revise \/ UNCHANGED recheckVars
             \/ \E released \in SUBSET Disputed : Adjudicate(released)
    BY <2>2, <2>4 DEF Revise, recheckVars, Adjudicate
  <2> QED
    BY <2>1, <2>2, <2>3, <2>4, RecheckSteps
<1>2. RecheckSpec => [][Nothing]_recheckVars
  BY <1>1, RecheckHolds, PTL DEF RecheckSpec
<1> QED
  BY <1>2 DEF UnchangedProseGainsNothing
=============================================================================
