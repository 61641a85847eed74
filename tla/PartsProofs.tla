---------------------------- MODULE PartsProofs ----------------------------
(***************************************************************************)
(* Proofs about what a scene production rests on, and about the composition *)
(* of MCSceneProduction: WriterHandoff, for every scene assignment, set of  *)
(* audits and number of attempts; ModelPresets, for every number of         *)
(* concurrent requests; EventLog, for every number of writers, readers,     *)
(* runs and events, and every limit of a page and of a batch.               *)
(***************************************************************************)
EXTENDS MCSceneProduction, SceneProductionProofs, ModelCallsProofs

-----------------------------------------------------------------------------
(* WriterHandoff.  A call is started only by Verified, which compares the   *)
(* evidence of the thread that starts it with the stored audit and with     *)
(* every earlier call.  That this evidence IS what the audit says needs an  *)
(* invariant: evidence is only ever taken from a projection of the audit it *)
(* names, be it in the store, with the executing writer or with a thread    *)
(* left behind.                                                             *)

(* Evidence, as it is projected from some audit.                            *)
Evidence == {Snapshot(a) : a \in Audits}

WriteCodes == {"", "interrupted_execution", "cancelled_execution", "schema_validation_failed",
               "provider_unavailable"}
WriteCall == [status : {"RUNNING", "FAILED", "SUCCEEDED"}, code : WriteCodes, attempt : Nat,
              handoff : Evidence]
Threads == [pc : {"idle", "load", "replay", "start", "answer", "complete", "completed", "done"},
            attempt : Nat, handoff : Evidence, retries : 0 .. WriteAttempts - 1, call : Nat]

HandoffInv ==
  /\ audit \in Audits
  /\ writes \in Seq(WriteCall)
  /\ writer \in Threads
  /\ orphans \subseteq {o \in Threads : o.pc \in {"start", "complete"}}
  /\ writing \in 0 .. MaxWriting

-----------------------------------------------------------------------------
(* The data.                                                                *)

(* A projection names requirements of the scene, whatever the audit says.   *)
LEMMA PacketsAreAssigned ==
  ASSUME NEW e \in Evidence
  PROVE  e.projection.packet \subseteq Assigned
  BY DEF Evidence, Snapshot, Projection, Omitted, Fulfilled

(* The evidence of an audit is a function of the audit it names.            *)
LEMMA EvidenceOfItsAudit ==
  ASSUME NEW e \in Evidence
  PROVE  e = Snapshot(e.provenance)
  BY DEF Evidence, Snapshot

(* The next attempt is counted from the recorded failures.                  *)
LEMMA NextAttemptIsNumber ==
  ASSUME writes \in Seq(WriteCall)
  PROVE  NextAttempt \in Nat
<1>1. IsFiniteSet(1 .. Len(writes))
  BY LenProperties, FS_Interval
<1>2. Failures \subseteq 1 .. Len(writes)
  BY LenProperties DEF Failures
<1>3. Cardinality(Failures) \in Nat
  BY <1>1, <1>2, FS_Subset, FS_CardinalityType
<1> QED
  BY <1>3 DEF NextAttempt

(* Closing a call leaves the sequence of calls typed.                       *)
LEMMA ClosedIsTyped ==
  ASSUME writes \in Seq(WriteCall), NEW n, NEW ended \in {"FAILED", "SUCCEEDED"},
         NEW code \in WriteCodes, Closed(n, ended, code)
  PROVE  /\ writes' \in Seq(WriteCall)
         /\ DOMAIN writes' = DOMAIN writes
<1>1. \A m \in 1 .. Len(writes) : writes[m] \in WriteCall
  BY ElementOfSeq
<1>2. writes' = [m \in 1 .. Len(writes) |-> writes'[m]]
  BY LenProperties DEF Closed
<1>3. \A m \in 1 .. Len(writes) : writes'[m] \in WriteCall
  BY <1>1, LenProperties DEF Closed, WriteCall
<1>4. Len(writes) \in Nat
  BY LenProperties
<1> QED
  BY <1>2, <1>3, <1>4, LenProperties, IsASeq

(* Starting a call appends one with the evidence of its thread.             *)
LEMMA StartedIsTyped ==
  ASSUME writes \in Seq(WriteCall), NEW thread \in Threads, Started(thread)
  PROVE  /\ writes' \in Seq(WriteCall)
         /\ DOMAIN writes' = 1 .. Len(writes) + 1
         /\ writes'[Len(writes) + 1].handoff = thread.handoff
         /\ writes'[Len(writes) + 1].attempt = thread.attempt
<1> DEFINE call == [status |-> "RUNNING", code |-> "", attempt |-> thread.attempt,
                    handoff |-> thread.handoff]
<1>1. call \in WriteCall
  BY DEF WriteCall, Threads, WriteCodes
<1>2. writes' = Append(writes, call)
  BY DEF Started
<1>0. call.handoff = thread.handoff /\ call.attempt = thread.attempt
  OBVIOUS
<1> HIDE DEF call
<1>3. /\ writes' \in Seq(WriteCall) /\ Len(writes') = Len(writes) + 1
      /\ writes'[Len(writes) + 1] = call
  BY <1>1, <1>2, AppendProperties
<1>4. DOMAIN writes' = 1 .. Len(writes')
  BY <1>3, LenProperties
<1> QED
  BY <1>0, <1>3, <1>4

(* A thread that stops, or that tries again.                                *)
LEMMA RestIsTyped ==
  ASSUME writer \in Threads
  PROVE  Rest \in Threads /\ Again \in Threads
<1>1. 0 \in 0 .. WriteAttempts - 1 /\ writer.retries \in 0 .. WriteAttempts - 1
  BY HandoffAssumption DEF Threads
<1>2. writer.retries + 1 < WriteAttempts => writer.retries + 1 \in 0 .. WriteAttempts - 1
  BY <1>1, HandoffAssumption
<1>3. Rest \in Threads
  BY <1>1 DEF Rest, Threads
<1>4. ASSUME writer.retries + 1 < WriteAttempts
      PROVE  Again \in Threads
  <2>1. Again = [writer EXCEPT !.pc = "load", !.retries = writer.retries + 1]
    BY <1>4 DEF Again
  <2>2. \A n \in 0 .. WriteAttempts - 1 :
          [writer EXCEPT !.pc = "load", !.retries = n] \in Threads
    BY DEF Threads
  <2> QED
    BY <1>2, <1>4, <2>1, <2>2
<1> QED
  BY <1>3, <1>4 DEF Again

-----------------------------------------------------------------------------
(* The inductive invariant.                                                 *)

(* It holds initially.                                                      *)
LEMMA HandoffStarts == HandoffInit => HandoffInv
<1> SUFFICES ASSUME HandoffInit PROVE HandoffInv
  OBVIOUS
<1>1. writes \in Seq(WriteCall)
  BY DEF HandoffInit
<1>2. 0 \in 0 .. WriteAttempts - 1 /\ 0 \in 0 .. MaxWriting
  BY HandoffAssumption
<1>3. writer \in Threads
  BY <1>2 DEF HandoffInit, Threads, Evidence
<1> QED
  BY <1>1, <1>2, <1>3 DEF HandoffInit, HandoffInv

(* Every step preserves it.                                                 *)
LEMMA HandoffSteps == HandoffInv /\ [HandoffNext]_handoffVars => HandoffInv'
<1> SUFFICES ASSUME HandoffInv, [HandoffNext]_handoffVars PROVE HandoffInv'
  OBVIOUS
<1> USE DEF HandoffInv
<1>1. CASE ExecuteWrite
  <2>1. \A m \in 1 .. Len(writes) : writes[m] \in WriteCall
    BY ElementOfSeq
  <2>2. /\ writes' = [m \in 1 .. Len(writes) |-> writes'[m]]
        /\ \A m \in 1 .. Len(writes) : writes'[m] \in WriteCall
    BY <1>1, <2>1, LenProperties DEF ExecuteWrite, WriteCall, WriteCodes
  <2>3. writes' \in Seq(WriteCall)
    BY <2>2, LenProperties, IsASeq
  <2>4. writer' \in Threads
    BY <1>1 DEF ExecuteWrite, Threads
  <2>5. writing' \in 0 .. MaxWriting
    <3>1. writing \in 0 .. MaxWriting /\ writing < MaxWriting /\ writing' = writing + 1
      BY <1>1 DEF ExecuteWrite
    <3> QED
      BY <3>1, HandoffAssumption
  <2> QED
    BY <1>1, <2>3, <2>4, <2>5 DEF ExecuteWrite
<1>2. CASE SelectHandoff
  <2>1. /\ Snapshot(audit) \in Evidence
        /\ writes # << >> => writes[1].handoff \in Evidence
    <3>1. writes # << >> => 1 \in 1 .. Len(writes)
      BY LenProperties, EmptySeq
    <3>2. writes # << >> => writes[1] \in WriteCall
      BY <3>1, ElementOfSeq
    <3> QED
      BY <3>2 DEF Evidence, WriteCall
  <2>2. \A evidence \in Evidence, n \in Nat :
          [writer EXCEPT !.pc = "replay", !.attempt = n, !.handoff = evidence] \in Threads
    BY DEF Threads
  <2>3. NextAttempt \in Nat /\ Rest \in Threads
    BY NextAttemptIsNumber, RestIsTyped
  <2>4. writer' \in Threads
    <3>1. CASE writes = << >>
      BY <1>2, <2>1, <2>2, <2>3, <3>1 DEF SelectHandoff
    <3>2. CASE writes # << >>
      BY <1>2, <2>1, <2>2, <2>3, <3>2 DEF SelectHandoff
    <3> QED
      BY <3>1, <3>2
  <2> QED
    BY <1>2, <2>4 DEF SelectHandoff
<1>3. CASE Replayed
  BY <1>3 DEF Replayed, Threads
<1>4. CASE StartWrite
  <2>1. CASE Verified(writer)
    <3>1. writes' \in Seq(WriteCall)
      BY <1>4, <2>1, StartedIsTyped DEF StartWrite
    <3>2. Len(writes) + 1 \in Nat
      BY LenProperties
    <3>3. writer' = [writer EXCEPT !.pc = "answer", !.call = Len(writes) + 1]
      BY <1>4, <2>1 DEF StartWrite
    <3>4. writer' \in Threads
      BY <3>2, <3>3 DEF Threads
    <3> QED
      BY <1>4, <3>1, <3>4 DEF StartWrite
  <2>2. CASE ~ Verified(writer)
    BY <1>4, <2>2, RestIsTyped DEF StartWrite
  <2> QED
    BY <2>1, <2>2
<1>5. CASE AnswerWrite
  <2>1. writes' \in Seq(WriteCall)
    BY <1>5, ClosedIsTyped DEF AnswerWrite, WriteCodes
  <2>2. [writer EXCEPT !.pc = "complete"] \in Threads
    BY DEF Threads
  <2> QED
    BY <1>5, <2>1, <2>2, RestIsTyped DEF AnswerWrite
<1>6. CASE CompleteWrite
  <2>1. writes' \in Seq(WriteCall)
    BY <1>6, ClosedIsTyped DEF CompleteWrite, WriteCodes
  <2> QED
    BY <1>6, <2>1 DEF CompleteWrite, Threads
<1>7. CASE ReturnOutput
  BY <1>7 DEF ReturnOutput, Threads
<1>8. CASE CancelWrite
  <2>1. writes' \in Seq(WriteCall)
    BY <1>8, ClosedIsTyped DEF CancelWrite, WriteCodes
  <2> QED
    BY <1>8, <2>1, RestIsTyped DEF CancelWrite
<1>9. CASE WriterLost
  BY <1>9, RestIsTyped DEF WriterLost
<1>10. CASE OrphanStarts
  <2>1. writes' \in Seq(WriteCall)
    BY <1>10, StartedIsTyped DEF OrphanStarts
  <2> QED
    BY <1>10, <2>1 DEF OrphanStarts
<1>11. CASE OrphanCompletes
  <2>1. writes' \in Seq(WriteCall)
    BY <1>11, ClosedIsTyped DEF OrphanCompletes, WriteCodes
  <2> QED
    BY <1>11, <2>1 DEF OrphanCompletes
<1>12. CASE AuditChanges
  BY <1>12 DEF AuditChanges
<1>13. CASE UNCHANGED handoffVars
  BY <1>13 DEF handoffVars
<1> QED
  BY <1>1, <1>2, <1>3, <1>4, <1>5, <1>6, <1>7, <1>8, <1>9, <1>10, <1>11, <1>12, <1>13
  DEF HandoffNext

(* It is an invariant of the specification.                                 *)
LEMMA HandoffHolds == HandoffSpec => []HandoffInv
  BY HandoffStarts, HandoffSteps, PTL DEF HandoffSpec

(* The states the writers and the store of calls may be in.                 *)
THEOREM HandoffTypes == HandoffSpec => []HandoffTypeOK
<1>1. HandoffInv => HandoffTypeOK
  <2> SUFFICES ASSUME HandoffInv PROVE HandoffTypeOK
    OBVIOUS
  <2>1. \A n \in DOMAIN writes : writes[n] \in WriteCall
    BY ElementOfSeq, LenProperties DEF HandoffInv
  <2>2. \A n \in DOMAIN writes :
          /\ writes[n].status \in {"RUNNING", "FAILED", "SUCCEEDED"}
          /\ writes[n].handoff.projection.packet \subseteq Assigned
    BY <2>1, PacketsAreAssigned DEF WriteCall
  <2> QED
    BY <2>2 DEF HandoffInv, HandoffTypeOK, Threads
<1> QED
  BY <1>1, HandoffHolds, PTL

-----------------------------------------------------------------------------
(* The calls.                                                               *)

(* Only a verified thread starts a call: of a thread that is not, the calls *)
(* stay the calls they were.                                                *)
LEMMA OnlyVerifiedStart ==
  ASSUME HandoffInv, [HandoffNext]_handoffVars, DOMAIN writes' # DOMAIN writes
  PROVE  \E thread \in Threads : Verified(thread) /\ Started(thread)
<1> USE DEF HandoffInv
<1>1. CASE ExecuteWrite
  BY <1>1 DEF ExecuteWrite
<1>2. CASE SelectHandoff \/ Replayed \/ ReturnOutput \/ WriterLost \/ AuditChanges
  BY <1>2 DEF SelectHandoff, Replayed, ReturnOutput, WriterLost, AuditChanges
<1>3. CASE StartWrite
  BY <1>3 DEF StartWrite
<1>4. CASE AnswerWrite \/ CompleteWrite \/ CancelWrite \/ OrphanCompletes
  BY <1>4 DEF AnswerWrite, CompleteWrite, CancelWrite, OrphanCompletes, Closed
<1>5. CASE OrphanStarts
  BY <1>5 DEF OrphanStarts
<1>6. CASE UNCHANGED handoffVars
  BY <1>6 DEF handoffVars
<1> QED
  BY <1>1, <1>2, <1>3, <1>4, <1>5, <1>6 DEF HandoffNext

(* A writer is called only when no other call of its task is under way or   *)
(* has succeeded; with the evidence every earlier call had, of a critic's   *)
(* record that still says so; and as the attempt after the failures it was  *)
(* told about.                                                              *)
THEOREM EvidenceIsShared == HandoffSpec => WritersShareEvidence
<1> DEFINE Shared ==
      \A n \in DOMAIN writes' \ DOMAIN writes :
        /\ \A m \in DOMAIN writes :
             writes[m].status = "FAILED" /\ writes[m].handoff = writes'[n].handoff
        /\ writes'[n].handoff = Snapshot(audit)
        /\ writes'[n].attempt = NextAttempt
<1>1. HandoffInv /\ [HandoffNext]_handoffVars => Shared
  <2> SUFFICES ASSUME HandoffInv, [HandoffNext]_handoffVars,
                      NEW n \in DOMAIN writes' \ DOMAIN writes
               PROVE  /\ \A m \in DOMAIN writes :
                           writes[m].status = "FAILED" /\ writes[m].handoff = writes'[n].handoff
                      /\ writes'[n].handoff = Snapshot(audit)
                      /\ writes'[n].attempt = NextAttempt
    OBVIOUS
  <2>1. PICK thread \in Threads : Verified(thread) /\ Started(thread)
    BY OnlyVerifiedStart
  <2>2. writes'[n].handoff = thread.handoff /\ writes'[n].attempt = thread.attempt
    <3>1. DOMAIN writes = 1 .. Len(writes) /\ Len(writes) \in Nat
      BY LenProperties DEF HandoffInv
    <3>2. DOMAIN writes' = 1 .. Len(writes) + 1
      BY <2>1, StartedIsTyped DEF HandoffInv
    <3>3. n = Len(writes) + 1
      BY <3>1, <3>2
    <3> QED
      BY <2>1, <3>3, StartedIsTyped DEF HandoffInv
  <2>3. thread.handoff = Snapshot(thread.handoff.provenance)
    BY EvidenceOfItsAudit DEF Threads
  <2>4. thread.handoff = Snapshot(audit)
    BY <2>1, <2>3 DEF Verified
  <2>5. /\ \A m \in DOMAIN writes :
             writes[m].status = "FAILED" /\ writes[m].handoff = thread.handoff
        /\ thread.attempt = NextAttempt
    BY <2>1 DEF Verified
  <2> QED
    BY <2>2, <2>4, <2>5
<1>2. HandoffSpec => [][Shared]_handoffVars
  BY <1>1, HandoffHolds, PTL DEF HandoffSpec
<1> QED
  BY <1>2 DEF WritersShareEvidence

-----------------------------------------------------------------------------
(* ModelPresets.                                                            *)

Presets == [exists : BOOLEAN, models : EditedSlots, isDefault : BOOLEAN]
Requested ==
  [pc : {"idle", "ensure", "insert", "read", "write"},
   kind : {"", "list", "configure", "activate"}, mode : Modes, models : EditedSlots,
   seen : Presets]
Briefs ==
  [pc : {"pending", "freeze", "frozen"},
   read : {Unread} \cup [mode : Modes, models : EditedSlots], waiting : BOOLEAN]

AtMostOneDefault(table) ==
  \A m, n \in Modes : table[m].isDefault /\ table[n].isDefault => m = n

PresetInv ==
  /\ rows \in [Modes -> Presets] /\ AtMostOneDefault(rows)
  /\ editor \in [Editors -> Requested]
  /\ \A e \in Editors : editor[e].pc # "idle" => editor[e].kind # ""
  /\ requests \in 0 .. MaxRequests
  /\ brief \in Briefs

(* A preset as it is seeded, and an editor that serves no request.          *)
LEMMA SeededTypes ==
  /\ EmptySlots \in EditedSlots /\ BuiltIn \in Presets /\ Serving \in Requested
  /\ Serving.pc = "idle" /\ ~ BuiltIn.isDefault
<1>1. EmptySlots \in EditedSlots
  BY DEF EmptySlots, EditedSlots
<1>2. BuiltIn \in Presets
  BY <1>1 DEF BuiltIn, Presets
<1>3. Serving \in Requested
  BY <1>1, <1>2 DEF Serving, Requested, Modes
<1> QED
  BY <1>1, <1>2, <1>3 DEF Serving, BuiltIn

(* The table starts without a default.                                      *)
LEMMA PresetStarts == PresetInit => PresetInv
<1> SUFFICES ASSUME PresetInit PROVE PresetInv
  OBVIOUS
<1>1. [BuiltIn EXCEPT !.exists = FALSE] \in Presets
  BY SeededTypes DEF Presets
<1>2. [BuiltIn EXCEPT !.exists = FALSE].isDefault = FALSE
  BY DEF BuiltIn
<1>3. rows \in [Modes -> Presets] /\ AtMostOneDefault(rows)
  BY <1>1, <1>2 DEF PresetInit, AtMostOneDefault
<1>4. editor \in [Editors -> Requested] /\ \A e \in Editors : editor[e].pc = "idle"
  BY SeededTypes DEF PresetInit
<1>5. brief \in Briefs
  BY DEF PresetInit, Briefs
<1>6. requests \in 0 .. MaxRequests
  BY PresetAssumption DEF PresetInit
<1> QED
  BY <1>3, <1>4, <1>5, <1>6 DEF PresetInv

(* Whatever a request has read of its preset, what it writes keeps at most  *)
(* one default: it makes its own preset the only one, or takes the mark     *)
(* away.                                                                    *)
LEMMA OneDefaultWritten ==
  ASSUME NEW table \in [Modes -> Presets], AtMostOneDefault(table), NEW e \in Editors,
         NEW seen \in Presets, editor[e] \in Requested, editor[e].kind # ""
  PROVE  /\ Written(table, e, seen) \in [Modes -> Presets]
         /\ AtMostOneDefault(Written(table, e, seen))
<1>1. /\ editor[e].mode \in Modes /\ editor[e].models \in EditedSlots
      /\ editor[e].kind \in {"list", "configure", "activate"}
      /\ seen.isDefault \in BOOLEAN
  BY DEF Requested, Presets
<1>2. CASE editor[e].kind = "list"
  BY <1>2 DEF Written
<1>3. CASE editor[e].kind = "activate"
  <2>1. Written(table, e, seen)
          = [m \in Modes |-> [table[m] EXCEPT !.isDefault = m = editor[e].mode]]
    BY <1>3 DEF Written, Activated
  <2>2. \A m \in Modes : /\ [table[m] EXCEPT !.isDefault = m = editor[e].mode] \in Presets
                         /\ [table[m] EXCEPT !.isDefault = m = editor[e].mode].isDefault
                              = (m = editor[e].mode)
    BY DEF Presets
  <2>3. Written(table, e, seen) \in [Modes -> Presets]
    BY <2>1, <2>2
  <2>4. \A m \in Modes : Written(table, e, seen)[m].isDefault => m = editor[e].mode
    BY <2>1, <2>2
  <2> QED
    BY <2>3, <2>4 DEF AtMostOneDefault
<1>4. CASE editor[e].kind = "configure"
  <2> DEFINE mode == editor[e].mode
             models == IF editor[e].models = seen.models THEN table[mode].models
                       ELSE editor[e].models
             kept == ~ (seen.isDefault /\ ~ IsComplete(mode, editor[e].models))
             row == [table[mode] EXCEPT !.models = models, !.isDefault = @ /\ kept]
  <2>1. Written(table, e, seen) = [table EXCEPT ![mode] = row]
    BY <1>1, <1>4 DEF Written, Configured, Presets
  <2>2. table[mode] \in Presets /\ models \in EditedSlots
    BY <1>1 DEF Presets
  <2>3. (table[mode].isDefault /\ kept) \in BOOLEAN
    OBVIOUS
  <2>4. row \in Presets /\ (row.isDefault => table[mode].isDefault)
    <3> HIDE DEF models, kept, mode
    <3> QED
      BY <2>2, <2>3 DEF Presets
  <2>5. /\ [table EXCEPT ![mode] = row] \in [Modes -> Presets]
        /\ \A m \in Modes : [table EXCEPT ![mode] = row][m].isDefault => table[m].isDefault
    <3> HIDE DEF row
    <3> QED
      BY <1>1, <2>4
  <2> HIDE DEF row, mode
  <2> QED
    BY <2>1, <2>5 DEF AtMostOneDefault
<1> QED
  BY <1>1, <1>2, <1>3, <1>4

(* Seeding writes a request's preset over the presets as they are shipped.  *)
LEMMA OneDefaultSeeded ==
  ASSUME NEW e \in Editors, editor[e] \in Requested, editor[e].kind # ""
  PROVE  /\ Written([m \in Modes |-> BuiltIn], e, BuiltIn) \in [Modes -> Presets]
         /\ AtMostOneDefault(Written([m \in Modes |-> BuiltIn], e, BuiltIn))
<1>1. /\ [m \in Modes |-> BuiltIn] \in [Modes -> Presets]
      /\ AtMostOneDefault([m \in Modes |-> BuiltIn])
  BY SeededTypes DEF AtMostOneDefault
<1> QED
  BY <1>1, SeededTypes, OneDefaultWritten

(* What a step writes into the row of an editor keeps its type.             *)
LEMMA EditorUpdated ==
  ASSUME PresetInv, NEW e \in Editors, NEW r \in Requested, r.pc # "idle" => r.kind # "",
         editor' = [editor EXCEPT ![e] = r]
  PROVE  /\ editor' \in [Editors -> Requested]
         /\ \A f \in Editors : editor'[f].pc # "idle" => editor'[f].kind # ""
BY DEF PresetInv

(* A step of an editor keeps the invariant.                                 *)
LEMMA EditorSteps ==
  ASSUME PresetInv, NEW e \in Editors,
         Ask(e) \/ Ensure(e) \/ Seed(e) \/ ReadPreset(e) \/ WritePreset(e) \/ RequestLost(e)
  PROVE  PresetInv'
<1>1. /\ editor[e] \in Requested /\ (editor[e].pc # "idle" => editor[e].kind # "")
      /\ rows \in [Modes -> Presets] /\ AtMostOneDefault(rows)
      /\ requests \in 0 .. MaxRequests /\ editor[e].mode \in Modes /\ editor[e].seen \in Presets
  BY DEF PresetInv, Requested
<1>2. brief' = brief
  BY DEF Ask, Ensure, Seed, ReadPreset, WritePreset, RequestLost
<1>3. ASSUME NEW r \in Requested, r.pc # "idle" => r.kind # "",
             editor' = [editor EXCEPT ![e] = r],
             rows' \in [Modes -> Presets], AtMostOneDefault(rows'), requests' \in 0 .. MaxRequests
      PROVE  PresetInv'
  BY <1>2, <1>3, EditorUpdated DEF PresetInv
<1>4. CASE Ask(e)
  <2>1. rows' = rows
    BY <1>4 DEF Ask
  <2>2. CASE /\ editor' = [editor EXCEPT ![e].pc = "ensure", ![e].kind = "list"]
             /\ UNCHANGED requests
    <3> DEFINE r == [editor[e] EXCEPT !.pc = "ensure", !.kind = "list"]
    <3>1. r \in Requested /\ r.kind # ""
      BY <1>1 DEF Requested
    <3>2. editor' = [editor EXCEPT ![e] = r]
      BY <2>2 DEF PresetInv, Requested
    <3> HIDE DEF r
    <3> QED
      BY <3>1, <3>2, <2>1, <2>2, <1>1, <1>3
  <2>3. CASE /\ requests < MaxRequests /\ requests' = requests + 1
             /\ \E kind \in {"configure", "activate"}, m \in Modes, models \in EditedSlots :
                  editor' = [editor EXCEPT ![e] = [Serving EXCEPT !.pc = "ensure",
                                             !.kind = kind, !.mode = m, !.models = models]]
    <3>1. PICK kind \in {"configure", "activate"}, m \in Modes, models \in EditedSlots :
             editor' = [editor EXCEPT ![e] = [Serving EXCEPT !.pc = "ensure",
                                        !.kind = kind, !.mode = m, !.models = models]]
      BY <2>3
    <3> DEFINE r == [Serving EXCEPT !.pc = "ensure", !.kind = kind, !.mode = m,
                                    !.models = models]
    <3>2. r \in Requested /\ r.kind # ""
      BY SeededTypes DEF Requested, Serving
    <3>3. editor' = [editor EXCEPT ![e] = r]
      BY <3>1
    <3>4. requests' \in 0 .. MaxRequests
      <4>1. requests < MaxRequests /\ requests' = requests + 1
        BY <2>3
      <4>2. requests \in 0 .. MaxRequests
        BY <1>1
      <4> QED
        BY <4>1, <4>2, PresetAssumption
    <3> HIDE DEF r
    <3> QED
      BY <3>2, <3>3, <3>4, <2>1, <1>1, <1>3
  <2> QED
    BY <1>4, <2>2, <2>3 DEF Ask
<1>5. CASE Ensure(e)
  <2> DEFINE r == [editor[e] EXCEPT !.pc =
                     IF \E m \in Modes : ~ rows[m].exists THEN "insert"
                     ELSE IF editor[e].kind = "list" THEN "idle" ELSE "read"]
  <2>1. r \in Requested /\ r.kind # ""
    BY <1>1, <1>5 DEF Requested, Ensure
  <2>2. editor' = [editor EXCEPT ![e] = r] /\ rows' = rows /\ requests' = requests
    BY <1>5 DEF Ensure
  <2> HIDE DEF r
  <2> QED
    BY <2>1, <2>2, <1>1, <1>3
<1>6. CASE Seed(e)
  <2>1. editor[e].kind # ""
    BY <1>1, <1>6 DEF Seed
  <2>2. rows' \in [Modes -> Presets] /\ AtMostOneDefault(rows')
    BY <1>1, <1>6, <2>1, OneDefaultSeeded DEF Seed
  <2>3. editor' = [editor EXCEPT ![e] = Serving] /\ requests' = requests
    BY <1>6 DEF Seed
  <2> QED
    BY <2>2, <2>3, <1>1, <1>3, SeededTypes
<1>7. CASE ReadPreset(e)
  <2> DEFINE r == [editor[e] EXCEPT !.pc = "write", !.seen = rows[editor[e].mode]]
  <2>1. r \in Requested /\ r.kind # ""
    BY <1>1, <1>7 DEF Requested, ReadPreset
  <2>2. rows' = rows /\ requests' = requests
    BY <1>7 DEF ReadPreset
  <2>3. editor' = [editor EXCEPT ![e] = Serving] \/ editor' = [editor EXCEPT ![e] = r]
    BY <1>7 DEF ReadPreset
  <2> HIDE DEF r
  <2> QED
    BY <2>1, <2>2, <2>3, <1>1, <1>3, SeededTypes
<1>8. CASE WritePreset(e)
  <2>1. editor[e].kind # ""
    BY <1>1, <1>8 DEF WritePreset
  <2>2. /\ rows' = Written(rows, e, editor[e].seen) /\ requests' = requests
        /\ editor' = [editor EXCEPT ![e] = Serving]
    BY <1>8 DEF WritePreset
  <2> QED
    BY <2>1, <2>2, <1>1, <1>3, SeededTypes, OneDefaultWritten
<1>9. CASE RequestLost(e)
  <2>1. editor' = [editor EXCEPT ![e] = Serving] /\ rows' = rows /\ requests' = requests
    BY <1>9 DEF RequestLost
  <2> QED
    BY <2>1, <1>1, <1>3, SeededTypes
<1> QED
  BY <1>4, <1>5, <1>6, <1>7, <1>8, <1>9

(* So does a step of the worker.                                            *)
LEMMA WorkerSteps ==
  ASSUME PresetInv, LookForDefault \/ Freeze \/ WorkerStops
  PROVE  PresetInv'
<1>1. UNCHANGED <<rows, editor, requests>>
  BY DEF LookForDefault, Freeze, WorkerStops
<1>2. brief' \in Briefs
  <2>1. brief \in Briefs /\ \A m \in Modes : rows[m].models \in EditedSlots
    BY DEF PresetInv, Presets
  <2>2. CASE LookForDefault
    <3>1. \/ brief' = [brief EXCEPT !.waiting = TRUE]
          \/ \E m \in Modes : brief' = [brief EXCEPT !.pc = "freeze",
                                          !.read = [mode |-> m, models |-> rows[m].models]]
      BY <2>2 DEF LookForDefault, Defaults
    <3>2. CASE brief' = [brief EXCEPT !.waiting = TRUE]
      BY <3>2, <2>1 DEF Briefs
    <3>3. ASSUME NEW m \in Modes,
                 brief' = [brief EXCEPT !.pc = "freeze",
                                        !.read = [mode |-> m, models |-> rows[m].models]]
          PROVE  brief' \in Briefs
      <4>1. [mode |-> m, models |-> rows[m].models] \in [mode : Modes, models : EditedSlots]
        BY <2>1
      <4> QED
        BY <3>3, <4>1, <2>1 DEF Briefs
    <3> QED
      BY <3>1, <3>2, <3>3
  <2>3. CASE Freeze
    BY <2>1, <2>3 DEF Freeze, Briefs
  <2>4. CASE WorkerStops
    BY <2>1, <2>4 DEF WorkerStops, Briefs
  <2> QED
    BY <2>2, <2>3, <2>4
<1> QED
  BY <1>1, <1>2 DEF PresetInv, AtMostOneDefault

(* Every step keeps the invariant.                                          *)
LEMMA PresetSteps == PresetInv /\ [PresetNext]_presetVars => PresetInv'
<1> SUFFICES ASSUME PresetInv, [PresetNext]_presetVars PROVE PresetInv'
  OBVIOUS
<1>1. CASE UNCHANGED presetVars
  BY <1>1 DEF presetVars, PresetInv, AtMostOneDefault
<1>2. CASE PresetNext
  BY <1>2, EditorSteps, WorkerSteps DEF PresetNext
<1> QED
  BY <1>1, <1>2

(* The worker reads one row, of a preset that is complete and the only      *)
(* default.                                                                 *)
LEMMA DefaultRead ==
  ASSUME PresetInv, [PresetNext]_presetVars, brief'.read # brief.read, brief'.read # Unread
  PROVE  /\ Defaults = {brief'.read.mode}
         /\ IsComplete(brief'.read.mode, brief'.read.models)
<1>1. brief \in Briefs
  BY DEF PresetInv
<1>2. LookForDefault
  <2>1. CASE UNCHANGED presetVars
    BY <2>1 DEF presetVars
  <2>2. ASSUME NEW e \in Editors,
               Ask(e) \/ Ensure(e) \/ Seed(e) \/ ReadPreset(e) \/ WritePreset(e) \/ RequestLost(e)
        PROVE  FALSE
    BY <2>2 DEF Ask, Ensure, Seed, ReadPreset, WritePreset, RequestLost
  <2>3. CASE Freeze
    BY <2>3, <1>1 DEF Freeze, Briefs
  <2>4. CASE WorkerStops
    BY <2>4, <1>1 DEF WorkerStops, Briefs
  <2> QED
    BY <2>1, <2>2, <2>3, <2>4 DEF PresetNext
<1>3. PICK m \in Defaults :
        /\ Freezable(m)
        /\ brief' = [brief EXCEPT !.pc = "freeze",
                                  !.read = [mode |-> m, models |-> rows[m].models]]
  BY <1>1, <1>2 DEF LookForDefault, Briefs
<1>4. brief'.read.mode = m /\ brief'.read.models = rows[m].models
  BY <1>1, <1>3 DEF Briefs
<1>5. Defaults = {m}
  BY DEF PresetInv, AtMostOneDefault, Defaults
<1> QED
  BY <1>3, <1>4, <1>5 DEF Freezable

(* However the requests of the settings page interleave with one another    *)
(* and with the worker, the types are right.                                *)
THEOREM PresetTypes == PresetSpec => []PresetTypeOK
<1>1. PresetInv => PresetTypeOK
  BY DEF PresetInv, PresetTypeOK, Presets, Requested, Briefs
<1> QED
  BY <1>1, PresetStarts, PresetSteps, PTL DEF PresetSpec

(* The preset a story is given is complete and the only default, for any    *)
(* number of concurrent requests.                                           *)
THEOREM DefaultsRun == PresetSpec => StoriesRunTheDefault
<1>1. PresetInv /\ [PresetNext]_presetVars =>
        [brief'.read # brief.read /\ brief'.read # Unread =>
           /\ Defaults = {brief'.read.mode}
           /\ IsComplete(brief'.read.mode, brief'.read.models)]_presetVars
  BY DefaultRead
<1> QED
  BY <1>1, PresetStarts, PresetSteps, PTL DEF PresetSpec, StoriesRunTheDefault

-----------------------------------------------------------------------------
(* EventLog: what its readers are handed.                                   *)
Ascending(s) == \A j, k \in 1 .. Len(s) : j < k => s[j] < s[k]
Members(s) == {s[k] : k \in 1 .. Len(s)}

(* A beginning of a sequence, place by place.                               *)
LEMMA PrefixIs ==
  ASSUME NEW S, NEW s \in Seq(S), NEW t \in Seq(S)
  PROVE  SequencesOf!IsPrefix(s, t) <=>
           Len(s) <= Len(t) /\ \A k \in 1 .. Len(s) : s[k] = t[k]
<1>1. Len(s) \in Nat /\ Len(t) \in Nat
  BY LenProperties
<1>2. SubSeq(s, 1, Len(s)) = s
  BY SubSeqFull
<1>3. ASSUME Len(s) <= Len(t)
      PROVE  SubSeq(t, 1, Len(s)) = s <=> \A k \in 1 .. Len(s) : s[k] = t[k]
  <2> DEFINE u == SubSeq(t, 1, Len(s))
  <2>1. \A k \in 1 .. Len(s) : t[k] \in S
    BY <1>1, <1>3, ElementOfSeq
  <2>2. /\ u \in Seq(S) /\ Len(u) = Len(s)
        /\ \A k \in 1 .. Len(s) : u[k] = t[k]
    BY <1>1, <2>1, SubSeqProperties
  <2> HIDE DEF u
  <2>3. u = s <=> \A k \in 1 .. Len(s) : u[k] = s[k]
    BY <2>2, SeqEqual
  <2> QED
    BY <2>2, <2>3 DEF u
<1> QED
  BY <1>2, <1>3 DEF SequencesOf!IsPrefix

(* Of two ascending sequences, the one whose members are those of the other *)
(* up to some point is a beginning of it: at the first place where they     *)
(* differed, the lesser of the two members would be missing from the other. *)
LEMMA AscendingPrefix ==
  ASSUME NEW s \in Seq(Nat), NEW t \in Seq(Nat), Ascending(s), Ascending(t),
         Members(s) \subseteq Members(t),
         \A i \in Members(t) : \A j \in Members(s) : i <= j => i \in Members(s)
  PROVE  SequencesOf!IsPrefix(s, t)
<1> DEFINE Agree(k) == k \in 1 .. Len(t) /\ s[k] = t[k]
           Bad == {k \in 1 .. Len(s) : ~ Agree(k)}
<1>1. /\ Len(s) \in Nat /\ Len(t) \in Nat
      /\ \A k \in 1 .. Len(s) : s[k] \in Nat
      /\ \A k \in 1 .. Len(t) : t[k] \in Nat
  BY LenProperties, ElementOfSeq
<1>2. Bad = {}
  <2> SUFFICES ASSUME Bad # {} PROVE FALSE
    OBVIOUS
  <2>1. Bad \in SUBSET Nat
    BY <1>1
  <2>2. PICK k \in Bad : \A j \in Bad : k <= j
    <3> HIDE DEF Bad
    <3> QED
      BY <2>1, LeastNat
  <2>3. k \in 1 .. Len(s) /\ ~ Agree(k) /\ \A j \in 1 .. Len(s) : j < k => Agree(j)
    BY <1>1, <2>2
  <2>4. PICK m \in 1 .. Len(t) : s[k] = t[m]
    BY <2>3 DEF Members
  <2>5. ~ m < k
    <3> SUFFICES ASSUME m < k PROVE FALSE
      OBVIOUS
    <3>1. m \in 1 .. Len(s) /\ s[m] = t[m] /\ s[m] < s[k]
      BY <1>1, <2>3, <2>4 DEF Ascending
    <3>2. s[m] \in Nat /\ s[k] \in Nat
      BY <1>1, <2>3, <3>1
    <3> QED
      BY <3>1, <3>2, <2>4
  <2>6. k \in 1 .. Len(t) /\ k < m
    BY <1>1, <2>3, <2>4, <2>5
  <2>7. t[k] < t[m] /\ t[k] \in Nat /\ t[m] \in Nat
    BY <1>1, <2>6 DEF Ascending
  <2>8. t[k] \in Members(t) /\ s[k] \in Members(s)
    BY <2>3, <2>6 DEF Members
  <2>9. t[k] \in Members(s)
    BY <2>4, <2>7, <2>8
  <2>10. PICK p \in 1 .. Len(s) : t[k] = s[p]
    BY <2>9 DEF Members
  <2>11. ~ k <= p
    <3> SUFFICES ASSUME k <= p PROVE FALSE
      OBVIOUS
    <3>1. k = p \/ s[k] < s[p]
      BY <1>1, <2>3 DEF Ascending
    <3>2. s[k] \in Nat /\ s[p] \in Nat
      BY <1>1, <2>3
    <3> QED
      BY <2>4, <2>7, <2>10, <3>1, <3>2
  <2>12. p < k /\ s[p] = t[p] /\ p \in 1 .. Len(t)
    BY <1>1, <2>3, <2>11
  <2>13. t[p] < t[k]
    BY <2>6, <2>12 DEF Ascending
  <2> QED
    BY <2>7, <2>10, <2>12, <2>13
<1>3. \A k \in 1 .. Len(s) : Agree(k)
  BY <1>2
<1>4. Len(s) <= Len(t)
  <2>1. CASE Len(s) = 0
    BY <1>1, <2>1
  <2>2. CASE Len(s) # 0
    BY <1>1, <1>3, <2>2
  <2> QED
    BY <2>1, <2>2
<1> QED
  BY <1>3, <1>4, PrefixIs

(* An ascending sequence is known by its members.                           *)
LEMMA AscendingUnique ==
  ASSUME NEW s \in Seq(Nat), NEW t \in Seq(Nat), Ascending(s), Ascending(t),
         Members(s) = Members(t)
  PROVE  s = t
<1>1. SequencesOf!IsPrefix(s, t) /\ SequencesOf!IsPrefix(t, s)
  BY AscendingPrefix
<1>2. /\ Len(s) <= Len(t) /\ \A k \in 1 .. Len(s) : s[k] = t[k]
      /\ Len(t) <= Len(s)
  BY <1>1, PrefixIs
<1>3. Len(s) = Len(t)
  BY <1>2, LenProperties
<1> QED
  BY <1>2, <1>3, SeqEqual

(* Of a finite set of natural numbers one is the greatest.                  *)
LEMMA GreatestOf ==
  ASSUME NEW S \in SUBSET Nat, IsFiniteSet(S), S # {}
  PROVE  \E m \in S : \A k \in S : k <= m
<1> DEFINE Sized(n) == \E T \in SUBSET Nat : /\ IsFiniteSet(T) /\ Cardinality(T) = n /\ T # {}
                                             /\ ~ \E m \in T : \A k \in T : k <= m
           Bad == {n \in Nat : Sized(n)}
<1>1. Bad = {}
  <2> SUFFICES ASSUME Bad # {} PROVE FALSE
    OBVIOUS
  <2>1. PICK n \in Bad : \A k \in Bad : n <= k
    <3>1. Bad \in SUBSET Nat
      OBVIOUS
    <3> HIDE DEF Bad
    <3> QED
      BY <3>1, LeastNat
  <2>2. PICK T \in SUBSET Nat : /\ IsFiniteSet(T) /\ Cardinality(T) = n /\ T # {}
                                /\ ~ \E m \in T : \A k \in T : k <= m
    BY <2>1
  <2>3. PICK x \in T : TRUE
    BY <2>2
  <2>4. /\ IsFiniteSet(T \ {x}) /\ Cardinality(T \ {x}) = n - 1 /\ n \in Nat
    BY <2>1, <2>2, <2>3, FS_RemoveElement
  <2>5. T \ {x} # {}
    <3> SUFFICES ASSUME T \ {x} = {} PROVE FALSE
      OBVIOUS
    <3>1. \A k \in T : k = x
      OBVIOUS
    <3> QED
      BY <2>2, <2>3, <3>1
  <2>6. Cardinality(T \ {x}) \in Nat
    BY <2>4, FS_CardinalityType
  <2>7. PICK m \in T \ {x} : \A k \in T \ {x} : k <= m
    <3> SUFFICES ASSUME ~ \E m \in T \ {x} : \A k \in T \ {x} : k <= m PROVE FALSE
      OBVIOUS
    <3>1. Sized(n - 1)
      BY <2>4, <2>5
    <3>2. n - 1 \in Bad
      BY <2>4, <2>6, <3>1
    <3> QED
      BY <2>1, <2>4, <3>2
  <2>8. m \in Nat /\ x \in Nat
    BY <2>2, <2>3, <2>7
  <2>9. IF x <= m THEN \A k \in T : k <= m ELSE \A k \in T : k <= x
    BY <2>2, <2>7, <2>8
  <2> QED
    BY <2>2, <2>3, <2>7, <2>9
<1>2. Cardinality(S) \in Nat
  BY FS_CardinalityType
<1> QED
  BY <1>1, <1>2

(* Every finite set of ids can be put in order, and is all of the result.   *)
LEMMA OrderExists ==
  ASSUME NEW S \in SUBSET Nat, IsFiniteSet(S)
  PROVE  \E s \in Seq(S) : Len(s) = Cardinality(S) /\ Ascending(s)
<1> DEFINE Ordered(T) == \E s \in Seq(T) : Len(s) = Cardinality(T) /\ Ascending(s)
           Sized(n) == \E T \in SUBSET Nat : IsFiniteSet(T) /\ Cardinality(T) = n /\ ~ Ordered(T)
           Bad == {n \in Nat : Sized(n)}
<1>1. Bad = {}
  <2> SUFFICES ASSUME Bad # {} PROVE FALSE
    OBVIOUS
  <2>1. PICK n \in Bad : \A k \in Bad : n <= k
    <3>1. Bad \in SUBSET Nat
      OBVIOUS
    <3> HIDE DEF Bad
    <3> QED
      BY <3>1, LeastNat
  <2>2. PICK T \in SUBSET Nat : IsFiniteSet(T) /\ Cardinality(T) = n /\ ~ Ordered(T)
    BY <2>1
  <2>3. T # {}
    <3> SUFFICES ASSUME T = {} PROVE FALSE
      OBVIOUS
    <3>1. Cardinality(T) = 0
      BY FS_EmptySet
    <3>2. << >> \in Seq(T) /\ Len(<< >>) = 0
      BY EmptySeq
    <3>3. Ascending(<< >>)
      BY <3>2 DEF Ascending
    <3> QED
      BY <2>2, <3>1, <3>2, <3>3
  <2>4. PICK m \in T : \A k \in T : k <= m
    BY <2>2, <2>3, GreatestOf
  <2>5. /\ IsFiniteSet(T \ {m}) /\ Cardinality(T \ {m}) = n - 1 /\ n \in Nat
        /\ Cardinality(T \ {m}) \in Nat
    BY <2>1, <2>2, <2>4, FS_RemoveElement, FS_CardinalityType
  <2>6. Ordered(T \ {m})
    <3> SUFFICES ASSUME ~ Ordered(T \ {m}) PROVE FALSE
      OBVIOUS
    <3>0. T \ {m} \in SUBSET Nat
      BY <2>2
    <3>1. Sized(n - 1)
      <4> HIDE DEF Ordered
      <4> QED
        BY <2>5, <3>0
    <3>2. n - 1 \in Bad
      BY <2>5, <3>1
    <3> QED
      BY <2>1, <2>5, <3>2
  <2>7. PICK s \in Seq(T \ {m}) : Len(s) = n - 1 /\ Ascending(s)
    BY <2>5, <2>6
  <2>8. \A k \in 1 .. Len(s) : s[k] \in T \ {m}
    BY ElementOfSeq
  <2> DEFINE u == Append(s, m)
  <2>9. s \in Seq(T)
    BY SeqMonotonic
  <2>10. /\ u \in Seq(T) /\ Len(u) = n
         /\ \A k \in 1 .. n - 1 : u[k] = s[k]
         /\ u[n] = m
    BY <2>4, <2>5, <2>7, <2>9, AppendProperties
  <2>11. ASSUME NEW j \in 1 .. Len(u), NEW k \in 1 .. Len(u), j < k
         PROVE  u[j] < u[k]
    <3>0. j \in 1 .. n - 1
      BY <2>5, <2>10, <2>11
    <3>1. CASE k = n
      <4>1. s[j] \in T \ {m} /\ s[j] <= m
        BY <2>4, <2>7, <2>8, <3>0
      <4>2. s[j] \in Nat /\ m \in Nat /\ s[j] # m
        BY <2>2, <2>4, <4>1
      <4> QED
        BY <2>10, <3>0, <3>1, <4>1, <4>2
    <3>2. CASE k # n
      <4>1. k \in 1 .. n - 1
        BY <2>5, <2>10, <3>2
      <4> QED
        BY <2>7, <2>10, <2>11, <3>0, <4>1 DEF Ascending
    <3> QED
      BY <3>1, <3>2
  <2>12. Ascending(u)
    <3> HIDE DEF u
    <3> QED
      BY <2>11 DEF Ascending
  <2> QED
    BY <2>2, <2>10, <2>12
<1>2. Cardinality(S) \in Nat
  BY FS_CardinalityType
<1>3. ~ Sized(Cardinality(S))
  <2> HIDE DEF Sized
  <2> QED
    BY <1>1, <1>2
<1> QED
  BY <1>3

(* Ids in order are the ids, each once.                                     *)
LEMMA InOrderIs ==
  ASSUME NEW S \in SUBSET Nat, IsFiniteSet(S)
  PROVE  /\ InOrder(S) \in Seq(S) /\ InOrder(S) \in Seq(Nat)
         /\ Len(InOrder(S)) = Cardinality(S)
         /\ Ascending(InOrder(S)) /\ Members(InOrder(S)) = S
<1> DEFINE n == Cardinality(S)
           Order(s) == \A j, k \in DOMAIN s : j < k => s[j] < s[k]
<1>1. n \in Nat /\ IsFiniteSet(1 .. n) /\ Cardinality(1 .. n) = n
  BY FS_CardinalityType, FS_Interval
<1>2. \E s \in [1 .. n -> S] : Order(s)
  <2>1. PICK s \in Seq(S) : Len(s) = n /\ Ascending(s)
    BY OrderExists
  <2>2. s \in [1 .. n -> S] /\ DOMAIN s = 1 .. n
    BY <2>1, LenProperties
  <2> QED
    BY <2>1, <2>2 DEF Ascending
<1>3. PICK s : s = InOrder(S)
  OBVIOUS
<1>4. s \in [1 .. n -> S] /\ Order(s)
  BY <1>2, <1>3 DEF InOrder
<1>5. s \in Seq(S) /\ Len(s) = n /\ DOMAIN s = 1 .. n
  BY <1>1, <1>4
<1>6. Ascending(s) /\ s \in Seq(Nat)
  BY <1>4, <1>5, SeqMonotonic DEF Ascending
<1>7. \A j, k \in 1 .. n : s[j] = s[k] => j = k
  <2> SUFFICES ASSUME NEW j \in 1 .. n, NEW k \in 1 .. n, s[j] = s[k], j # k PROVE FALSE
    OBVIOUS
  <2>1. s[j] \in Nat /\ s[k] \in Nat
    BY <1>4
  <2>2. s[j] < s[k] \/ s[k] < s[j]
    BY <1>1, <1>5, <1>6 DEF Ascending
  <2> QED
    BY <2>1, <2>2
<1>8. s \in Injection(1 .. n, S)
  BY <1>4, <1>7 DEF Injection, IsInjective
<1>9. s \in Surjection(1 .. n, S)
  BY <1>1, <1>8, FS_Injection
<1>10. Members(s) = S
  BY <1>4, <1>5, <1>9 DEF Surjection, Members
<1> QED
  BY <1>3, <1>5, <1>6, <1>10

(* EventLog: the table.  There is one writer at a time, so that the rows it *)
(* has not committed come after all the others.                             *)
LogRows(gone) == [id : Nat \ {0}, run : LoggedRuns \ gone, by : Writers, committed : BOOLEAN]
IsTable(table, gone) ==
  /\ IsFiniteSet(table) /\ table \subseteq LogRows(gone)
  /\ \A row, other \in table : row.id = other.id => row = other
  /\ \A row, other \in table : ~ row.committed /\ other.committed => other.id < row.id
  /\ \A row, other \in table : ~ row.committed /\ ~ other.committed => row.by = other.by
IdsIn(table, r) == {row.id : row \in {other \in table : other.committed /\ other.run = r}}

(* The published ids of a run are finitely many positive numbers.           *)
LEMMA IdsAre ==
  ASSUME NEW table, NEW gone, NEW r, IsTable(table, gone)
  PROVE  /\ IsFiniteSet(IdsIn(table, r)) /\ IdsIn(table, r) \in SUBSET Nat
         /\ 0 \notin IdsIn(table, r)
         /\ r \in gone => IdsIn(table, r) = {}
<1> DEFINE whole == {other \in table : other.committed /\ other.run = r}
           f == [row \in whole |-> row.id]
<1>1. IsFiniteSet(whole)
  BY FS_Subset DEF IsTable
<1>2. f \in Surjection(whole, IdsIn(table, r))
  BY DEF Surjection, IdsIn
<1>3. IsFiniteSet(IdsIn(table, r))
  <2> HIDE DEF f, whole
  <2> QED
    BY <1>1, <1>2, FS_Surjection
<1>4. \A row \in table : row.id \in Nat \ {0} /\ row.run \notin gone
  BY DEF IsTable, LogRows
<1> QED
  BY <1>3, <1>4 DEF IdsIn

(* A new row comes after all rows.                                          *)
LEMMA NextIdIs ==
  ASSUME NEW gone, IsTable(log, gone)
  PROVE  NextId \in Nat \ {0} /\ \A row \in log : row.id < NextId
<1>1. \A row \in log : row.id \in Nat \ {0}
  BY DEF IsTable, LogRows
<1>2. CASE log = {}
  BY <1>2 DEF NextId
<1>3. CASE log # {}
  <2> DEFINE ids == {row.id : row \in log}
             f == [row \in log |-> row.id]
  <2>1. f \in Surjection(log, ids)
    BY DEF Surjection
  <2>2. IsFiniteSet(ids) /\ ids \in SUBSET Nat /\ ids # {}
    <3>1. ids \in SUBSET Nat /\ ids # {}
      BY <1>1, <1>3
    <3>2. IsFiniteSet(log)
      BY DEF IsTable
    <3> HIDE DEF ids, f
    <3> QED
      BY <2>1, <3>1, <3>2, FS_Surjection
  <2>3. PICK m : m = SetsOf!Max(ids)
    OBVIOUS
  <2>4. m \in ids /\ \A k \in ids : m >= k
    <3>1. \E x \in ids : \A k \in ids : x >= k
      <4>1. PICK x \in ids : \A k \in ids : k <= x
        <5> HIDE DEF ids
        <5> QED
          BY <2>2, GreatestOf
      <4>2. \A k \in ids : x >= k
        BY <2>2, <4>1
      <4> QED
        BY <4>2
    <3> HIDE DEF ids
    <3> QED
      BY <2>3, <3>1 DEF SetsOf!Max
  <2>5. NextId = m + 1
    BY <1>3, <2>3 DEF NextId
  <2>6. m \in Nat
    BY <2>2, <2>4
  <2> QED
    BY <1>1, <2>4, <2>5, <2>6
<1> QED
  BY <1>2, <1>3

(* What is published later comes after what is published.                   *)
LEMMA PublishedGrows ==
  ASSUME NEW S \in SUBSET Nat, NEW T \in SUBSET Nat, IsFiniteSet(S), IsFiniteSet(T),
         S \subseteq T, \A i \in T \ S : \A j \in S : j < i
  PROVE  SequencesOf!IsPrefix(InOrder(S), InOrder(T))
<1>1. \A i \in T : \A j \in S : i <= j => i \in S
  <2> SUFFICES ASSUME NEW i \in T, NEW j \in S, i <= j, i \notin S PROVE FALSE
    OBVIOUS
  <2>1. j < i /\ i \in Nat /\ j \in Nat
    OBVIOUS
  <2> QED
    BY <2>1
<1> QED
  BY <1>1, InOrderIs, AscendingPrefix

(* A row is appended by the one transaction that writes.                    *)
LEMMA AppendKeeps ==
  ASSUME IsTable(log, removed), NEW w \in Writers, AppendEvent(w)
  PROVE  /\ IsTable(log', removed) /\ UNCHANGED <<removed, follower>>
         /\ \A r : IdsIn(log', r) = IdsIn(log, r)
<1>1. PICK r \in LoggedRuns \ removed :
        /\ MayWrite(w) /\ UNCHANGED <<removed, follower>>
        /\ log' = log \cup {[id |-> NextId, run |-> r, by |-> w, committed |-> FALSE]}
  BY DEF AppendEvent
<1>2. PICK n : n = NextId
  OBVIOUS
<1>3. n \in Nat \ {0} /\ \A row \in log : row.id < n
  BY <1>2, NextIdIs
<1>4. PICK new : new = [id |-> n, run |-> r, by |-> w, committed |-> FALSE]
  OBVIOUS
<1>5. /\ new \in LogRows(removed) /\ new.id = n /\ new.by = w /\ ~ new.committed
  BY <1>3, <1>4 DEF LogRows
<1>6. log' = log \cup {new}
  BY <1>1, <1>2, <1>4
<1>7. /\ \A row \in log : row.id \in Nat /\ row.id # n
      /\ \A row \in log : ~ row.committed => row.by = w
  BY <1>1, <1>3 DEF IsTable, LogRows, MayWrite
<1>8. IsFiniteSet(log \cup {new})
  BY FS_AddElement DEF IsTable
<1>9. IsTable(log \cup {new}, removed)
  BY <1>3, <1>5, <1>7, <1>8 DEF IsTable
<1>10. \A q : IdsIn(log \cup {new}, q) = IdsIn(log, q)
  BY <1>5 DEF IdsIn
<1> QED
  BY <1>1, <1>6, <1>9, <1>10

(* Rows that are left are a table.                                          *)
LEMMA RowsLeft ==
  ASSUME NEW gone, IsTable(log, gone), NEW left \in SUBSET log, NEW more,
         \A row \in left : row.run \notin more
  PROVE  IsTable(left, gone \cup more)
<1>1. IsFiniteSet(left)
  BY FS_Subset DEF IsTable
<1>2. \A row \in left : row \in LogRows(gone) /\ row.run \notin more
  BY DEF IsTable
<1>3. \A row \in left : row \in LogRows(gone \cup more)
  BY <1>2 DEF LogRows
<1> QED
  BY <1>1, <1>3 DEF IsTable

(* A transaction that is rolled back had published nothing.                 *)
LEMMA RollbackKeeps ==
  ASSUME IsTable(log, removed), NEW w \in Writers, Rollback(w)
  PROVE  /\ IsTable(log', removed) /\ UNCHANGED <<removed, follower>>
         /\ \A r : IdsIn(log', r) = IdsIn(log, r)
<1>1. /\ log' = {row \in log : row.committed \/ row.by # w} /\ UNCHANGED <<removed, follower>>
  BY DEF Rollback
<1>2. PICK left : left = {row \in log : row.committed \/ row.by # w}
  OBVIOUS
<1>3. IsTable(left, removed \cup {})
  BY <1>2, RowsLeft
<1>4. \A r : IdsIn(left, r) = IdsIn(log, r)
  BY <1>2 DEF IdsIn
<1> QED
  BY <1>1, <1>2, <1>3, <1>4

(* The removal of a story leaves the rows of the other runs.                *)
LEMMA RemoveKeeps ==
  ASSUME IsTable(log, removed), NEW w \in Writers, NEW r \in LoggedRuns, RemoveStory(w, r)
  PROVE  /\ IsTable(log', removed') /\ removed' = removed \cup {r} /\ r \notin removed
         /\ UNCHANGED follower
         /\ \A q : q # r => IdsIn(log', q) = IdsIn(log, q)
<1>1. /\ log' = {row \in log : row.run # r} /\ UNCHANGED follower
      /\ removed' = removed \cup {r} /\ r \notin removed
  BY DEF RemoveStory
<1>2. PICK left : left = {row \in log : row.run # r}
  OBVIOUS
<1>3. IsTable(left, removed \cup {r})
  BY <1>2, RowsLeft
<1>4. \A q : q # r => IdsIn(left, q) = IdsIn(log, q)
  BY <1>2 DEF IdsIn
<1> QED
  BY <1>1, <1>2, <1>3, <1>4

(* A commit publishes rows after all that are published.                    *)
LEMMA CommitKeeps ==
  ASSUME IsTable(log, removed), NEW w \in Writers, Commit(w)
  PROVE  /\ IsTable(log', removed) /\ UNCHANGED <<removed, follower>>
         /\ \A r : /\ IdsIn(log, r) \subseteq IdsIn(log', r)
                   /\ \A i \in IdsIn(log', r) \ IdsIn(log, r) : \A j \in IdsIn(log, r) : j < i
<1>1. /\ log' = {[row EXCEPT !.committed = @ \/ row.by = w] : row \in log}
      /\ UNCHANGED <<removed, follower>>
  BY DEF Commit
<1> DEFINE f == [row \in log |-> [row EXCEPT !.committed = @ \/ row.by = w]]
<1>2. PICK table : table = {f[row] : row \in log}
  OBVIOUS
<1>3. log' = table
  BY <1>1, <1>2
<1>4. \A row \in log : /\ f[row] \in LogRows(removed)
                       /\ f[row].id = row.id /\ f[row].run = row.run /\ f[row].by = row.by
                       /\ f[row].committed <=> row.committed \/ row.by = w
  <2> SUFFICES ASSUME NEW row \in log
               PROVE  /\ f[row] \in LogRows(removed)
                      /\ f[row].id = row.id /\ f[row].run = row.run /\ f[row].by = row.by
                      /\ f[row].committed <=> row.committed \/ row.by = w
    OBVIOUS
  <2>1. row \in LogRows(removed) /\ f[row] = [row EXCEPT !.committed = row.committed \/ row.by = w]
    BY DEF IsTable
  <2> HIDE DEF f
  <2> QED
    BY <2>1 DEF LogRows
<1> HIDE DEF f
<1>5. PICK own \in log : ~ own.committed /\ own.by = w
  BY DEF Commit, Writing
<1>6. \A row \in log : ~ row.committed => row.by = w
  BY <1>5 DEF IsTable
<1>7. \A row \in log : f[row].committed
  BY <1>4, <1>6
<1>8. IsFiniteSet(table)
  <2>1. f \in Surjection(log, table)
    BY <1>2 DEF Surjection, f
  <2> QED
    BY <2>1, FS_Surjection DEF IsTable
<1>9. IsTable(table, removed)
  <2>1. \A new \in table : \E row \in log : new = f[row]
    BY <1>2
  <2>2. table \subseteq LogRows(removed) /\ \A new \in table : new.committed
    BY <1>4, <1>7, <2>1
  <2>3. \A new, other \in table : new.id = other.id => new = other
    BY <1>4, <2>1 DEF IsTable
  <2> QED
    BY <1>8, <2>2, <2>3 DEF IsTable
<1>10. ASSUME NEW r
       PROVE  /\ IdsIn(log, r) \subseteq IdsIn(table, r)
              /\ \A i \in IdsIn(table, r) \ IdsIn(log, r) : \A j \in IdsIn(log, r) : j < i
  <2>1. \A i : i \in IdsIn(table, r) <=> \E row \in log : row.run = r /\ row.id = i
    BY <1>2, <1>4, <1>7 DEF IdsIn
  <2>2. \A i : i \in IdsIn(log, r) <=> \E row \in log : row.committed /\ row.run = r /\ row.id = i
    BY DEF IdsIn
  <2>3. ASSUME NEW i \in IdsIn(table, r), i \notin IdsIn(log, r), NEW j \in IdsIn(log, r)
        PROVE  j < i
    <3>1. PICK row \in log : row.run = r /\ row.id = i
      BY <2>1, <2>3
    <3>2. ~ row.committed
      BY <2>2, <2>3, <3>1
    <3>3. PICK other \in log : other.committed /\ other.id = j
      BY <2>2
    <3> QED
      BY <3>1, <3>2, <3>3 DEF IsTable
  <2> QED
    BY <2>1, <2>2, <2>3
<1> QED
  BY <1>1, <1>3, <1>9, <1>10

(* EventLog: the readers.                                                   *)
LastOf(s) == IF s = << >> THEN 0 ELSE s[Len(s)]

(* A limit keeps the beginning.                                             *)
LEMMA FirstRowsAre ==
  ASSUME NEW s \in Seq(Nat), NEW n \in Nat
  PROVE  FirstRows(s, n) \in Seq(Nat) /\ SequencesOf!IsPrefix(FirstRows(s, n), s)
<1> DEFINE m == IF n < Len(s) THEN n ELSE Len(s)
<1>1. Len(s) \in Nat /\ m \in 0 .. Len(s) /\ FirstRows(s, n) = SubSeq(s, 1, m)
  BY LenProperties DEF FirstRows
<1> HIDE DEF m
<1>2. \A k \in 1 .. m : s[k] \in Nat
  BY <1>1, ElementOfSeq
<1>3. /\ SubSeq(s, 1, m) \in Seq(Nat) /\ Len(SubSeq(s, 1, m)) = m
      /\ \A k \in 1 .. m : SubSeq(s, 1, m)[k] = s[k]
  BY <1>1, <1>2, SubSeqProperties
<1>4. PICK first : first = SubSeq(s, 1, m)
  OBVIOUS
<1>5. /\ first \in Seq(Nat) /\ Len(first) <= Len(s)
      /\ \A k \in 1 .. Len(first) : first[k] = s[k]
  BY <1>1, <1>3, <1>4
<1>6. SequencesOf!IsPrefix(first, s)
  BY <1>5, PrefixIs
<1> QED
  BY <1>1, <1>4, <1>5, <1>6

(* A beginning of what follows a beginning is one with it.                  *)
LEMMA PrefixAfter ==
  ASSUME NEW s \in Seq(Nat), NEW t \in Seq(Nat), NEW u \in Seq(Nat), NEW p \in Seq(Nat),
         SequencesOf!IsPrefix(t, u), SequencesOf!IsPrefix(s \o u, p)
  PROVE  SequencesOf!IsPrefix(s \o t, p)
<1>1. Len(t) <= Len(u) /\ \A k \in 1 .. Len(t) : t[k] = u[k]
  BY PrefixIs
<1>2. Len(s) \in Nat /\ Len(t) \in Nat /\ Len(u) \in Nat /\ Len(p) \in Nat
  BY LenProperties
<1>3. /\ s \o t \in Seq(Nat) /\ Len(s \o t) = Len(s) + Len(t)
      /\ \A k \in 1 .. Len(s) + Len(t) :
           (s \o t)[k] = IF k <= Len(s) THEN s[k] ELSE t[k - Len(s)]
  BY ConcatProperties
<1>4. /\ s \o u \in Seq(Nat) /\ Len(s \o u) = Len(s) + Len(u)
      /\ \A k \in 1 .. Len(s) + Len(u) :
           (s \o u)[k] = IF k <= Len(s) THEN s[k] ELSE u[k - Len(s)]
  BY ConcatProperties
<1>5. ASSUME NEW v \in Seq(Nat), SequencesOf!IsPrefix(v, p)
      PROVE  Len(v) <= Len(p) /\ \A k \in 1 .. Len(v) : v[k] = p[k]
  BY <1>5, PrefixIs
<1>6. Len(s) + Len(u) <= Len(p) /\ \A k \in 1 .. Len(s) + Len(u) : (s \o u)[k] = p[k]
  BY <1>4, <1>5
<1>7. Len(s) + Len(t) <= Len(p)
  BY <1>1, <1>2, <1>6
<1>8. ASSUME NEW k \in 1 .. Len(s) + Len(t) PROVE (s \o t)[k] = p[k]
  <2>1. k \in 1 .. Len(s) + Len(u) /\ (~ k <= Len(s) => k - Len(s) \in 1 .. Len(t))
    BY <1>1, <1>2
  <2> QED
    BY <1>1, <1>3, <1>4, <1>6, <2>1
<1> QED
  BY <1>3, <1>7, <1>8, PrefixIs

(* A beginning of a beginning is one.                                       *)
LEMMA PrefixOfPrefix ==
  ASSUME NEW s \in Seq(Nat), NEW t \in Seq(Nat), NEW p \in Seq(Nat),
         SequencesOf!IsPrefix(s, t), SequencesOf!IsPrefix(t, p)
  PROVE  SequencesOf!IsPrefix(s, p)
<1>1. /\ Len(s) <= Len(t) /\ \A k \in 1 .. Len(s) : s[k] = t[k]
      /\ Len(t) <= Len(p) /\ \A k \in 1 .. Len(t) : t[k] = p[k]
  BY PrefixIs
<1>2. Len(s) \in Nat /\ Len(t) \in Nat /\ Len(p) \in Nat
  BY LenProperties
<1>3. Len(s) <= Len(p) /\ \A k \in 1 .. Len(s) : k \in 1 .. Len(t)
  BY <1>1, <1>2
<1> QED
  BY <1>1, <1>3, PrefixIs

(* A sequence begins what it is continued to.                               *)
LEMMA PrefixOfBoth ==
  ASSUME NEW s \in Seq(Nat), NEW t \in Seq(Nat)
  PROVE  SequencesOf!IsPrefix(s, s \o t) /\ s \o t \in Seq(Nat)
<1>1. /\ s \o t \in Seq(Nat) /\ Len(s \o t) = Len(s) + Len(t)
      /\ \A k \in 1 .. Len(s) + Len(t) :
           (s \o t)[k] = IF k <= Len(s) THEN s[k] ELSE t[k - Len(s)]
  BY ConcatProperties
<1>2. Len(s) \in Nat /\ Len(t) \in Nat
  BY LenProperties
<1>3. Len(s) <= Len(s \o t) /\ \A k \in 1 .. Len(s) : (s \o t)[k] = s[k]
  BY <1>1, <1>2
<1> QED
  BY <1>1, <1>3, PrefixIs

(* The rows after the last event one has go on where one has come to, up to *)
(* any limit: the heart of the matter, for which ids have to grow with the  *)
(* commits and a cursor to be the last event of what it stands for.         *)
LEMMA ListContinues ==
  ASSUME NEW gone, IsTable(log, gone), NEW r, NEW u \in Seq(Nat), NEW n \in Nat,
         SequencesOf!IsPrefix(u, Published(r))
  PROVE  /\ ListAfter(r, LastOf(u), n) \in Seq(Nat) /\ Published(r) \in Seq(Nat)
         /\ SequencesOf!IsPrefix(u \o ListAfter(r, LastOf(u), n), Published(r))
<1>1. Committed(r) = IdsIn(log, r)
  BY DEF Committed, IdsIn
<1>2. PICK ids : ids = Committed(r)
  OBVIOUS
<1>3. ids \in SUBSET Nat /\ IsFiniteSet(ids) /\ 0 \notin ids
  BY <1>1, <1>2, IdsAre
<1>4. PICK c : c = LastOf(u)
  OBVIOUS
<1>5. PICK later : later = {id \in ids : id > c}
  OBVIOUS
<1>6. later \in SUBSET Nat /\ IsFiniteSet(later)
  BY <1>3, <1>5, FS_Subset
<1>7. PICK p : p = InOrder(ids)
  OBVIOUS
<1>8. p \in Seq(Nat) /\ Ascending(p) /\ Members(p) = ids
  BY <1>3, <1>7, InOrderIs
<1>9. PICK t : t = InOrder(later)
  OBVIOUS
<1>10. t \in Seq(Nat) /\ Ascending(t) /\ Members(t) = later
  BY <1>6, <1>9, InOrderIs
<1>11. Published(r) = p /\ ListAfter(r, LastOf(u), n) = FirstRows(t, n)
  BY <1>2, <1>4, <1>5, <1>7, <1>9 DEF Published, ListAfter
<1>12. Len(u) <= Len(p) /\ \A k \in 1 .. Len(u) : u[k] = p[k]
  BY <1>8, <1>11, PrefixIs
<1>13. Len(u) \in Nat /\ Len(t) \in Nat /\ Len(p) \in Nat
  BY <1>8, <1>10, LenProperties
<1>14. /\ \A k \in 1 .. Len(u) : u[k] \in Nat
       /\ \A k \in 1 .. Len(t) : t[k] \in Nat
       /\ \A k \in 1 .. Len(p) : p[k] \in Nat
  BY <1>8, <1>10, ElementOfSeq
<1>15. c \in Nat /\ \A k \in 1 .. Len(u) : u[k] <= c
  <2>1. CASE u = << >>
    BY <1>4, <2>1 DEF LastOf
  <2>2. CASE u # << >>
    <3>1. Len(u) \in 1 .. Len(u) /\ c = u[Len(u)]
      BY <1>4, <1>13, <2>2, EmptySeq DEF LastOf
    <3>2. ASSUME NEW k \in 1 .. Len(u) PROVE u[k] <= u[Len(u)]
      <4>1. k = Len(u) \/ p[k] < p[Len(u)]
        <5>1. k \in 1 .. Len(p) /\ Len(u) \in 1 .. Len(p) /\ (k = Len(u) \/ k < Len(u))
          BY <1>12, <1>13, <3>1
        <5> QED
          BY <1>8, <5>1 DEF Ascending
      <4>2. u[k] \in Nat /\ u[Len(u)] \in Nat /\ p[k] = u[k] /\ p[Len(u)] = u[Len(u)]
        BY <1>12, <1>14, <3>1
      <4> QED
        BY <4>1, <4>2
    <3> QED
      BY <1>14, <3>1, <3>2
  <2> QED
    BY <2>1, <2>2
<1>16. \A i \in ids : i <= c => \E k \in 1 .. Len(u) : u[k] = i
  <2> SUFFICES ASSUME NEW i \in ids, i <= c PROVE \E k \in 1 .. Len(u) : u[k] = i
    OBVIOUS
  <2>1. i \in Nat /\ i # 0
    BY <1>3
  <2>2. u # << >>
    BY <1>4, <2>1 DEF LastOf
  <2>3. Len(u) \in 1 .. Len(u) /\ c = p[Len(u)]
    BY <1>4, <1>12, <1>13, <2>2, EmptySeq DEF LastOf
  <2>4. PICK k \in 1 .. Len(p) : p[k] = i
    BY <1>8 DEF Members
  <2>5. ~ Len(u) < k
    <3> SUFFICES ASSUME Len(u) < k PROVE FALSE
      OBVIOUS
    <3>1. p[Len(u)] < p[k]
      BY <1>8, <1>12, <1>13, <2>3, <2>4 DEF Ascending
    <3> QED
      BY <1>15, <2>1, <2>3, <2>4, <3>1
  <2>6. k \in 1 .. Len(u)
    BY <1>13, <2>5
  <2> QED
    BY <1>12, <2>4, <2>6
<1> DEFINE w == u \o t
<1>17. /\ w \in Seq(Nat) /\ Len(w) = Len(u) + Len(t)
       /\ \A k \in 1 .. Len(u) + Len(t) : w[k] = IF k <= Len(u) THEN u[k] ELSE t[k - Len(u)]
  BY <1>10, ConcatProperties
<1> HIDE DEF w
<1>18. /\ \A k \in 1 .. Len(u) : k \in 1 .. Len(w) /\ w[k] = u[k]
       /\ \A k \in 1 .. Len(t) : Len(u) + k \in 1 .. Len(w) /\ w[Len(u) + k] = t[k]
       /\ \A k \in 1 .. Len(w) : k \notin 1 .. Len(u) => k - Len(u) \in 1 .. Len(t)
  <2>1. ASSUME NEW k \in 1 .. Len(u) PROVE k \in 1 .. Len(u) + Len(t) /\ k <= Len(u)
    BY <1>13
  <2>2. ASSUME NEW k \in 1 .. Len(t)
        PROVE  /\ Len(u) + k \in 1 .. Len(u) + Len(t) /\ ~ Len(u) + k <= Len(u)
               /\ Len(u) + k - Len(u) = k
    BY <1>13
  <2>3. ASSUME NEW k \in 1 .. Len(w), k \notin 1 .. Len(u) PROVE k - Len(u) \in 1 .. Len(t)
    BY <1>13, <1>17, <2>3
  <2> QED
    BY <1>17, <2>1, <2>2, <2>3
<1>19. Ascending(w)
  <2> SUFFICES ASSUME NEW j \in 1 .. Len(w), NEW k \in 1 .. Len(w), j < k PROVE w[j] < w[k]
    BY DEF Ascending
  <2>1. CASE k \in 1 .. Len(u)
    <3>1. j \in 1 .. Len(u) /\ j \in 1 .. Len(p) /\ k \in 1 .. Len(p)
      BY <1>12, <1>13, <1>17, <2>1
    <3>2. p[j] < p[k]
      BY <1>8, <3>1 DEF Ascending
    <3> QED
      BY <1>12, <1>18, <2>1, <3>1, <3>2
  <2>2. CASE k \notin 1 .. Len(u) /\ j \in 1 .. Len(u)
    <3>1. k - Len(u) \in 1 .. Len(t) /\ w[k] = t[k - Len(u)]
      BY <1>13, <1>17, <1>18, <2>2
    <3>2. t[k - Len(u)] \in later
      BY <1>10, <3>1 DEF Members
    <3>3. u[j] <= c /\ c < t[k - Len(u)] /\ u[j] \in Nat /\ t[k - Len(u)] \in Nat
      BY <1>3, <1>5, <1>14, <1>15, <2>2, <3>1, <3>2
    <3> QED
      BY <1>15, <1>18, <2>2, <3>1, <3>3
  <2>3. CASE k \notin 1 .. Len(u) /\ j \notin 1 .. Len(u)
    <3>1. /\ k - Len(u) \in 1 .. Len(t) /\ w[k] = t[k - Len(u)]
          /\ j - Len(u) \in 1 .. Len(t) /\ w[j] = t[j - Len(u)]
      BY <1>13, <1>17, <1>18, <2>3
    <3>2. j - Len(u) < k - Len(u)
      BY <1>13, <1>17
    <3> QED
      BY <1>10, <3>1, <3>2 DEF Ascending
  <2> QED
    BY <2>1, <2>2, <2>3
<1>20. Members(w) = ids
  <2>1. ASSUME NEW k \in 1 .. Len(w) PROVE w[k] \in ids
    <3>1. CASE k \in 1 .. Len(u)
      <4>1. k \in 1 .. Len(p)
        BY <1>12, <1>13, <3>1
      <4> QED
        BY <1>8, <1>12, <1>18, <3>1, <4>1 DEF Members
    <3>2. CASE k \notin 1 .. Len(u)
      <4>1. k - Len(u) \in 1 .. Len(t) /\ w[k] = t[k - Len(u)]
        BY <1>13, <1>17, <1>18, <3>2
      <4> QED
        BY <1>5, <1>10, <4>1 DEF Members
    <3> QED
      BY <3>1, <3>2
  <2>2. ASSUME NEW i \in ids PROVE \E k \in 1 .. Len(w) : w[k] = i
    <3>1. CASE i <= c
      BY <1>16, <1>18, <3>1
    <3>2. CASE ~ i <= c
      <4>1. i \in later
        BY <1>3, <1>5, <1>15, <3>2
      <4>2. PICK k \in 1 .. Len(t) : t[k] = i
        BY <1>10, <4>1 DEF Members
      <4> QED
        BY <1>18, <4>2
    <3> QED
      BY <3>1, <3>2
  <2> QED
    BY <2>1, <2>2 DEF Members
<1>21. w = p
  BY <1>8, <1>17, <1>19, <1>20, AscendingUnique
<1>22. FirstRows(t, n) \in Seq(Nat) /\ SequencesOf!IsPrefix(FirstRows(t, n), t)
  BY <1>10, FirstRowsAre
<1>23. SequencesOf!IsPrefix(u \o t, p)
  <2>1. SequencesOf!IsPrefix(p, p)
    BY <1>8, PrefixIs, LenProperties
  <2> QED
    BY <1>21, <2>1 DEF w
<1> QED
  BY <1>8, <1>10, <1>11, <1>22, <1>23, PrefixAfter

(* The invariant of the log: what a client has received, what is on its     *)
(* wire and what is in the batch of its stream are together a beginning of  *)
(* its run, and each cursor is the last event of what it stands for.        *)
Clients ==
  [run : LoggedRuns, pc : {Disconnected, Streaming}, after : Nat, lastEvent : Nat, cursor : Nat,
   batch : Seq(Nat), wire : Seq(Nat), seen : Seq(Nat)]
Following(client, whole) ==
  /\ SequencesOf!IsPrefix((client.seen \o client.wire) \o client.batch, whole)
  /\ StreamStart(client.after, client.lastEvent) = LastOf(client.seen)
  /\ client.pc = Streaming => client.cursor = LastOf(client.seen \o client.wire)
  /\ client.pc = Disconnected => client.wire = << >> /\ client.batch = << >>
LogInv ==
  /\ removed \subseteq LoggedRuns /\ IsTable(log, removed)
  /\ follower \in [Followers -> Clients]
  /\ \A f \in Followers : follower[f].run \notin removed =>
       Following(follower[f], Published(follower[f].run))

(* An empty table publishes nothing.                                        *)
LEMMA NothingPublished ==
  ASSUME NEW r, IdsIn(log, r) = {}
  PROVE  Published(r) = << >>
<1>1. Committed(r) = {}
  BY DEF Committed, IdsIn
<1>2. IsFiniteSet({}) /\ Cardinality({}) = 0
  BY FS_EmptySet
<1>3. InOrder({}) \in Seq({}) /\ Len(InOrder({})) = 0
  BY <1>2, InOrderIs
<1>4. InOrder({}) = << >>
  BY <1>3, EmptySeq
<1> QED
  BY <1>1, <1>4 DEF Published

(* No run has events to begin with.                                         *)
LEMMA LogStarts == LogInit => LogInv
<1> SUFFICES ASSUME LogInit PROVE LogInv
  OBVIOUS
<1>1. log = {} /\ removed = {} /\ follower \in [Followers -> {FollowerOf(r) : r \in LoggedRuns}]
  BY DEF LogInit
<1>2. IsTable({}, {})
  BY FS_EmptySet DEF IsTable
<1>3. << >> \in Seq(Nat) /\ << >> \o << >> = << >> /\ Len(<< >>) = 0
  BY EmptySeq, ConcatEmptySeq
<1>4. ASSUME NEW r \in LoggedRuns
      PROVE  FollowerOf(r) \in Clients /\ FollowerOf(r).run = r
  BY <1>3 DEF FollowerOf, Clients, Disconnected, Streaming
<1>5. ASSUME NEW r \in LoggedRuns
      PROVE  Following(FollowerOf(r), Published(r))
  <2>1. IdsIn(log, r) = {}
    BY <1>1 DEF IdsIn
  <2>2. SequencesOf!IsPrefix(<< >>, Published(r))
    <3>1. Published(r) = << >>
      BY <2>1, NothingPublished
    <3> QED
      BY <1>3, <3>1 DEF SequencesOf!IsPrefix
  <2>3. StreamStart(0, 0) = 0 /\ LastOf(<< >>) = 0
    BY DEF StreamStart, LastOf
  <2> QED
    BY <1>3, <2>2, <2>3 DEF Following, FollowerOf, Disconnected, Streaming
<1> QED
  BY <1>1, <1>2, <1>4, <1>5 DEF LogInv

(* What is known of one reader.                                             *)
LEMMA ClientIs ==
  ASSUME LogInv, NEW f \in Followers
  PROVE  LET me == follower[f]
         IN  /\ me \in Clients /\ me.run \in LoggedRuns /\ me.pc \in {Disconnected, Streaming}
             /\ me.after \in Nat /\ me.lastEvent \in Nat /\ me.cursor \in Nat
             /\ me.batch \in Seq(Nat) /\ me.wire \in Seq(Nat) /\ me.seen \in Seq(Nat)
             /\ me.seen \o me.wire \in Seq(Nat)
             /\ (me.seen \o me.wire) \o me.batch \in Seq(Nat)
             /\ Published(me.run) \in Seq(Nat)
<1>1. follower[f] \in Clients
  BY DEF LogInv
<1>2. PICK me : me = follower[f]
  OBVIOUS
<1>3. /\ me.run \in LoggedRuns /\ me.pc \in {Disconnected, Streaming}
      /\ me.after \in Nat /\ me.lastEvent \in Nat /\ me.cursor \in Nat
      /\ me.batch \in Seq(Nat) /\ me.wire \in Seq(Nat) /\ me.seen \in Seq(Nat)
  BY <1>1, <1>2 DEF Clients
<1>4. me.seen \o me.wire \in Seq(Nat)
  BY <1>3, PrefixOfBoth
<1>5. (me.seen \o me.wire) \o me.batch \in Seq(Nat)
  BY <1>3, <1>4, PrefixOfBoth
<1>6. Committed(me.run) = IdsIn(log, me.run)
  BY DEF Committed, IdsIn
<1>7. Published(me.run) \in Seq(Nat)
  BY <1>6, IdsAre, InOrderIs DEF Published, LogInv
<1> QED
  BY <1>1, <1>2, <1>3, <1>4, <1>5, <1>7

(* A step of one reader concerns that reader only.                          *)
LEMMA OneReader ==
  ASSUME LogInv, NEW f \in Followers, UNCHANGED <<log, removed>>, NEW new \in Clients,
         follower' = [follower EXCEPT ![f] = new], new.run = follower[f].run,
         new.run \notin removed => Following(new, Published(new.run))
  PROVE  LogInv'
<1>1. follower' \in [Followers -> Clients]
  BY DEF LogInv
<1>2. \A g \in Followers : follower'[g] = IF g = f THEN new ELSE follower[g]
  BY DEF LogInv
<1>3. \A r : Published(r)' = Published(r)
  BY DEF Published, Committed
<1>4. ASSUME NEW g \in Followers, follower'[g].run \notin removed
      PROVE  Following(follower'[g], Published(follower'[g].run))
  <2>1. CASE g = f
    BY <1>2, <1>4, <2>1
  <2>2. CASE g # f
    BY <1>2, <1>4, <2>2 DEF LogInv
  <2> QED
    BY <2>1, <2>2
<1>5. removed' \subseteq LoggedRuns /\ IsTable(log', removed')
  BY DEF LogInv
<1> QED
  BY <1>1, <1>3, <1>4, <1>5 DEF LogInv

(* With nothing more, a sequence is what it was.                            *)
LEMMA NothingMore ==
  ASSUME NEW s \in Seq(Nat)
  PROVE  (s \o << >>) = s /\ (s \o << >>) \o << >> = s /\ << >> \in Seq(Nat)
  BY ConcatEmptySeq, EmptySeq

(* One event is moved from the head of what follows to the end of what      *)
(* precedes.                                                                *)
LEMMA MoveOne ==
  ASSUME NEW s \in Seq(Nat), NEW t \in Seq(Nat), t # << >>
  PROVE  /\ Head(t) \in Nat /\ Tail(t) \in Seq(Nat) /\ Append(s, Head(t)) \in Seq(Nat)
         /\ Append(s, Head(t)) \o Tail(t) = s \o t
         /\ LastOf(Append(s, Head(t))) = Head(t)
<1>1. /\ Head(t) \in Nat /\ Tail(t) \in Seq(Nat) /\ Len(Tail(t)) = Len(t) - 1
      /\ \A i \in 1 .. Len(Tail(t)) : Tail(t)[i] = t[i + 1]
      /\ Head(t) = t[1]
  BY HeadTailProperties
<1>2. PICK u : u = Append(s, Head(t))
  OBVIOUS
<1>3. PICK v : v = Tail(t)
  OBVIOUS
<1>4. Len(s) \in Nat /\ Len(t) \in Nat \ {0}
  BY LenProperties, EmptySeq
<1>5. /\ u \in Seq(Nat) /\ Len(u) = Len(s) + 1 /\ u[Len(s) + 1] = t[1]
      /\ \A i \in 1 .. Len(s) : u[i] = s[i]
  BY <1>1, <1>2, AppendProperties
<1>6. v \in Seq(Nat) /\ Len(v) = Len(t) - 1 /\ \A i \in 1 .. Len(t) - 1 : v[i] = t[i + 1]
  BY <1>1, <1>3
<1>7. /\ u \o v \in Seq(Nat) /\ Len(u \o v) = Len(s) + Len(t)
      /\ \A i \in 1 .. Len(s) + Len(t) :
           (u \o v)[i] = IF i <= Len(s) + 1 THEN u[i] ELSE v[i - (Len(s) + 1)]
  <2>1. /\ u \o v \in Seq(Nat) /\ Len(u \o v) = Len(u) + Len(v)
        /\ \A i \in 1 .. Len(u) + Len(v) :
             (u \o v)[i] = IF i <= Len(u) THEN u[i] ELSE v[i - Len(u)]
    BY <1>5, <1>6, ConcatProperties
  <2>2. Len(u) + Len(v) = Len(s) + Len(t)
    BY <1>4, <1>5, <1>6
  <2> QED
    BY <1>5, <2>1, <2>2
<1>8. /\ s \o t \in Seq(Nat) /\ Len(s \o t) = Len(s) + Len(t)
      /\ \A i \in 1 .. Len(s) + Len(t) :
           (s \o t)[i] = IF i <= Len(s) THEN s[i] ELSE t[i - Len(s)]
  BY ConcatProperties
<1>9. ASSUME NEW i \in 1 .. Len(s) + Len(t) PROVE (u \o v)[i] = (s \o t)[i]
  <2>1. CASE i <= Len(s)
    <3>1. i \in 1 .. Len(s) /\ i <= Len(s) + 1
      BY <1>4, <2>1
    <3> QED
      BY <1>5, <1>7, <1>8, <2>1, <3>1
  <2>2. CASE i = Len(s) + 1
    <3>1. ~ i <= Len(s) /\ i <= Len(s) + 1 /\ i - Len(s) = 1
      BY <1>4, <2>2
    <3> QED
      BY <1>5, <1>7, <1>8, <2>2, <3>1
  <2>3. CASE ~ i <= Len(s) /\ i # Len(s) + 1
    <3>1. /\ ~ i <= Len(s) + 1 /\ i - (Len(s) + 1) \in 1 .. Len(t) - 1
          /\ i - (Len(s) + 1) + 1 = i - Len(s)
      BY <1>4, <2>3
    <3> QED
      BY <1>6, <1>7, <1>8, <2>3, <3>1
  <2> QED
    BY <2>1, <2>2, <2>3
<1>10. u \o v = s \o t
  BY <1>7, <1>8, <1>9, SeqEqual
<1>11. LastOf(u) = t[1]
  <2>1. u # << >>
    BY <1>4, <1>5, EmptySeq
  <2> QED
    BY <1>5, <2>1 DEF LastOf
<1> QED
  BY <1>1, <1>2, <1>3, <1>5, <1>6, <1>10, <1>11

(* With more events the last one is later.                                  *)
LEMMA LastGrows ==
  ASSUME NEW gone, IsTable(log, gone), NEW r, NEW u \in Seq(Nat), NEW w \in Seq(Nat),
         SequencesOf!IsPrefix(u, w), SequencesOf!IsPrefix(w, Published(r))
  PROVE  LastOf(u) <= LastOf(w)
<1>1. PICK p : p = Published(r)
  OBVIOUS
<1>2. p \in Seq(Nat) /\ Ascending(p)
  <2>1. Committed(r) = IdsIn(log, r)
    BY DEF Committed, IdsIn
  <2> QED
    BY <1>1, <2>1, IdsAre, InOrderIs DEF Published
<1>3. /\ Len(u) <= Len(w) /\ \A k \in 1 .. Len(u) : u[k] = w[k]
      /\ Len(w) <= Len(p) /\ \A k \in 1 .. Len(w) : w[k] = p[k]
  BY <1>1, <1>2, PrefixIs
<1>4. /\ Len(u) \in Nat /\ Len(w) \in Nat /\ Len(p) \in Nat
      /\ \A k \in 1 .. Len(w) : w[k] \in Nat
  BY <1>2, LenProperties, ElementOfSeq
<1>5. CASE u = << >>
  <2>1. LastOf(w) \in Nat
    BY <1>4, EmptySeq DEF LastOf
  <2> QED
    BY <1>5, <2>1 DEF LastOf
<1>6. CASE u # << >>
  <2>1. Len(u) \in 1 .. Len(u) /\ Len(u) \in 1 .. Len(w) /\ Len(w) \in 1 .. Len(w) /\ w # << >>
    BY <1>3, <1>4, <1>6, EmptySeq
  <2>2. LastOf(u) = w[Len(u)] /\ LastOf(w) = w[Len(w)]
    BY <1>3, <1>6, <2>1 DEF LastOf
  <2>3. Len(u) = Len(w) \/ p[Len(u)] < p[Len(w)]
    <3>1. Len(u) \in 1 .. Len(p) /\ Len(w) \in 1 .. Len(p) /\ (Len(u) = Len(w) \/ Len(u) < Len(w))
      BY <1>3, <1>4, <2>1
    <3> QED
      BY <1>2, <3>1 DEF Ascending
  <2>4. w[Len(u)] \in Nat /\ w[Len(w)] \in Nat /\ (Len(u) = Len(w) \/ w[Len(u)] < w[Len(w)])
    BY <1>3, <1>4, <2>1, <2>3
  <2> QED
    BY <2>2, <2>4
<1> QED
  BY <1>5, <1>6

(* A page goes on where the pages before it ended.                          *)
LEMMA PageKeeps ==
  ASSUME LogInv, NEW f \in Followers, ListEvents(f)
  PROVE  LogInv'
<1>1. PICK me : me = follower[f]
  OBVIOUS
<1>2. /\ me.pc = Disconnected /\ me.run \notin removed /\ me.lastEvent <= me.after
      /\ UNCHANGED <<log, removed>>
  BY <1>1 DEF ListEvents
<1>3. /\ me \in Clients /\ me.after \in Nat /\ me.lastEvent \in Nat /\ me.seen \in Seq(Nat)
      /\ Published(me.run) \in Seq(Nat)
  BY <1>1, ClientIs
<1>4. Following(me, Published(me.run)) /\ IsTable(log, removed)
  BY <1>1, <1>2 DEF LogInv
<1>5. /\ me.wire = << >> /\ me.batch = << >> /\ me.after = LastOf(me.seen)
      /\ SequencesOf!IsPrefix(me.seen, Published(me.run))
  <2>1. /\ SequencesOf!IsPrefix((me.seen \o me.wire) \o me.batch, Published(me.run))
        /\ StreamStart(me.after, me.lastEvent) = LastOf(me.seen)
        /\ me.wire = << >> /\ me.batch = << >>
    BY <1>2, <1>4 DEF Following
  <2>2. StreamStart(me.after, me.lastEvent) = me.after
    BY <1>2, <1>3 DEF StreamStart
  <2> QED
    BY <1>3, <2>1, <2>2, NothingMore
<1>6. PICK records : records = ListAfter(me.run, me.after, PageLimit + 1)
  OBVIOUS
<1>7. PageLimit \in Nat /\ PageLimit + 1 \in Nat
  BY LogAssumption
<1>8. /\ records \in Seq(Nat)
      /\ SequencesOf!IsPrefix(me.seen \o records, Published(me.run))
  BY <1>3, <1>4, <1>5, <1>6, <1>7, ListContinues
<1>9. PICK events : events = FirstRows(records, PageLimit)
  OBVIOUS
<1>10. events \in Seq(Nat) /\ SequencesOf!IsPrefix(events, records)
  BY <1>7, <1>8, <1>9, FirstRowsAre
<1>11. SequencesOf!IsPrefix(me.seen \o events, Published(me.run))
  BY <1>3, <1>8, <1>10, PrefixAfter
<1>12. PICK next : next = IF events = << >> THEN me.after ELSE SequencesOf!Last(events)
  OBVIOUS
<1>13. EventPage(me.run, me.after) = [events |-> events, next_after |-> next]
  BY <1>6, <1>9, <1>12 DEF EventPage
<1>14. /\ me.seen \o events \in Seq(Nat) /\ next \in Nat
       /\ next = LastOf(me.seen \o events) /\ me.lastEvent <= next
  <2>1. CASE events = << >>
    BY <1>2, <1>3, <1>5, <1>12, <2>1, NothingMore
  <2>2. CASE events # << >>
    <3>1. /\ me.seen \o events \in Seq(Nat) /\ Len(me.seen \o events) = Len(me.seen) + Len(events)
          /\ \A k \in 1 .. Len(me.seen) + Len(events) : (me.seen \o events)[k] =
               IF k <= Len(me.seen) THEN me.seen[k] ELSE events[k - Len(me.seen)]
      BY <1>3, <1>10, ConcatProperties
    <3>2. Len(events) \in Nat \ {0} /\ Len(me.seen) \in Nat
      BY <1>3, <1>10, <2>2, EmptySeq, LenProperties
    <3>3. next = events[Len(events)] /\ next \in Nat
      BY <1>10, <1>12, <2>2, <3>2, ElementOfSeq DEF SequencesOf!Last
    <3>4. PICK u : u = me.seen \o events
      OBVIOUS
    <3>5. u[Len(me.seen) + Len(events)] = events[Len(events)]
      <4>1. /\ Len(me.seen) + Len(events) \in 1 .. Len(me.seen) + Len(events)
            /\ ~ Len(me.seen) + Len(events) <= Len(me.seen)
            /\ Len(me.seen) + Len(events) - Len(me.seen) = Len(events)
        BY <3>2
      <4> QED
        BY <3>1, <3>4, <4>1
    <3>6. u # << >> /\ u \in Seq(Nat) /\ Len(u) = Len(me.seen) + Len(events)
      BY <3>1, <3>2, <3>4, EmptySeq
    <3>7. LastOf(u) = next
      BY <3>3, <3>5, <3>6 DEF LastOf
    <3>8. me.after <= next
      <4>1. SequencesOf!IsPrefix(me.seen, u)
        BY <1>3, <1>10, <3>4, PrefixOfBoth
      <4> QED
        BY <1>3, <1>4, <1>5, <1>11, <3>4, <3>6, <3>7, <4>1, LastGrows
    <3> QED
      BY <1>2, <1>3, <3>1, <3>3, <3>4, <3>7, <3>8
  <2> QED
    BY <2>1, <2>2
<1>15. PICK new : new = [me EXCEPT !.after = next, !.seen = me.seen \o events]
  OBVIOUS
<1>16. follower' = [follower EXCEPT ![f] = new]
  <2>1. follower' = [follower EXCEPT ![f].after = next, ![f].seen = @ \o events]
    BY <1>1, <1>13 DEF ListEvents
  <2>2. follower \in [Followers -> Clients]
    BY DEF LogInv
  <2> QED
    BY <1>1, <1>3, <1>15, <2>1, <2>2 DEF Clients
<1>17. /\ new \in Clients /\ new.run = me.run /\ new.pc = Disconnected /\ new.after = next
       /\ new.lastEvent = me.lastEvent /\ new.wire = << >> /\ new.batch = << >>
       /\ new.seen = me.seen \o events
  BY <1>2, <1>3, <1>5, <1>14, <1>15 DEF Clients
<1>18. Following(new, Published(new.run))
  <2>1. StreamStart(next, me.lastEvent) = next
    BY <1>3, <1>14 DEF StreamStart
  <2>2. (new.seen \o new.wire) \o new.batch = me.seen \o events
    BY <1>14, <1>17, NothingMore
  <2>3. new.pc # Streaming
    BY <1>17 DEF Disconnected, Streaming
  <2> QED
    BY <1>11, <1>14, <1>17, <2>1, <2>2, <2>3 DEF Following
<1> QED
  BY <1>1, <1>2, <1>16, <1>17, <1>18, OneReader

(* One event more.                                                          *)
LEMMA OneMore ==
  ASSUME NEW s \in Seq(Nat), NEW h \in Nat
  PROVE  <<h>> \in Seq(Nat) /\ Append(s, h) = s \o <<h>>
<1>1. <<h>> \in Seq(Nat)
  OBVIOUS
<1> QED
  BY <1>1, AppendIsConcat

(* It may be appended before the rest is put in front, or after.            *)
LEMMA OneMoreOfBoth ==
  ASSUME NEW s \in Seq(Nat), NEW t \in Seq(Nat), NEW h \in Nat
  PROVE  s \o Append(t, h) = Append(s \o t, h)
<1>1. PICK one \in Seq(Nat) : one = <<h>>
  BY OneMore
<1>2. Append(t, h) = t \o one
  BY <1>1, OneMore
<1>3. Append(s \o t, h) = (s \o t) \o one
  BY <1>1, OneMore, PrefixOfBoth
<1>4. (s \o t) \o one = s \o (t \o one)
  BY ConcatAssociative
<1> QED
  BY <1>2, <1>3, <1>4

(* A stream starts where the client has come to.                            *)
LEMMA ConnectKeeps ==
  ASSUME LogInv, NEW f \in Followers, Connect(f)
  PROVE  LogInv'
<1>1. PICK me : me = follower[f]
  OBVIOUS
<1>2. /\ me.pc = Disconnected /\ me.run \notin removed /\ UNCHANGED <<log, removed>>
      /\ follower' = [follower EXCEPT ![f].pc = Streaming,
                                      ![f].cursor = StreamStart(me.after, me.lastEvent)]
  BY <1>1 DEF Connect
<1>3. me \in Clients /\ me.after \in Nat /\ me.lastEvent \in Nat /\ me.seen \in Seq(Nat)
  BY <1>1, ClientIs
<1>4. Following(me, Published(me.run))
  BY <1>1, <1>2 DEF LogInv
<1>5. PICK start : start = StreamStart(me.after, me.lastEvent)
  OBVIOUS
<1>6. start \in Nat
  BY <1>3, <1>5 DEF StreamStart
<1>7. PICK new : new = [me EXCEPT !.pc = Streaming, !.cursor = start]
  OBVIOUS
<1>8. follower' = [follower EXCEPT ![f] = new]
  <2>1. follower \in [Followers -> Clients]
    BY DEF LogInv
  <2> QED
    BY <1>1, <1>2, <1>3, <1>5, <1>7, <2>1 DEF Clients
<1>9. /\ new \in Clients /\ new.run = me.run /\ new.pc = Streaming /\ new.cursor = start
      /\ new.after = me.after /\ new.lastEvent = me.lastEvent /\ new.wire = me.wire
      /\ new.batch = me.batch /\ new.seen = me.seen
  BY <1>3, <1>6, <1>7 DEF Clients
<1>10. Following(new, Published(new.run))
  <2>1. me.seen \o me.wire = me.seen
    BY <1>2, <1>3, <1>4, NothingMore DEF Following
  <2>2. new.pc # Disconnected
    BY <1>9 DEF Disconnected, Streaming
  <2> QED
    BY <1>4, <1>5, <1>9, <2>1, <2>2 DEF Following
<1> QED
  BY <1>1, <1>2, <1>8, <1>9, <1>10, OneReader

(* What is read after a cursor is a list of ids.                            *)
LEMMA ListIs ==
  ASSUME LogInv, NEW r, NEW c, NEW n \in Nat
  PROVE  ListAfter(r, c, n) \in Seq(Nat)
<1>1. Committed(r) = IdsIn(log, r)
  BY DEF Committed, IdsIn
<1>2. PICK later : later = {id \in Committed(r) : id > c}
  OBVIOUS
<1>3. later \in SUBSET Nat /\ IsFiniteSet(later)
  BY <1>1, <1>2, IdsAre, FS_Subset DEF LogInv
<1>4. InOrder(later) \in Seq(Nat) /\ ListAfter(r, c, n) = FirstRows(InOrder(later), n)
  BY <1>2, <1>3, InOrderIs DEF ListAfter
<1> QED
  BY <1>4, FirstRowsAre

(* A batch goes on where the stream has come to.                            *)
LEMMA PollKeeps ==
  ASSUME LogInv, NEW f \in Followers, Poll(f)
  PROVE  LogInv'
<1>1. PICK me : me = follower[f]
  OBVIOUS
<1>2. PICK records : records = ListAfter(me.run, me.cursor, BatchSize)
  OBVIOUS
<1>3. /\ me.pc = Streaming /\ me.batch = << >> /\ UNCHANGED <<log, removed>>
      /\ follower' = [follower EXCEPT ![f].batch = records]
  BY <1>1, <1>2 DEF Poll
<1>4. /\ me \in Clients /\ me.seen \o me.wire \in Seq(Nat) /\ me.run \in LoggedRuns
      /\ me.cursor \in Nat
  BY <1>1, ClientIs
<1>5. IsTable(log, removed) /\ BatchSize \in Nat /\ follower \in [Followers -> Clients]
  BY LogAssumption DEF LogInv
<1>6. PICK new : new = [me EXCEPT !.batch = records]
  OBVIOUS
<1>7. follower' = [follower EXCEPT ![f] = new]
  BY <1>1, <1>3, <1>4, <1>5, <1>6 DEF Clients
<1>8. records \in Seq(Nat)
  BY <1>2, <1>5, ListIs
<1>9. /\ new \in Clients /\ new.run = me.run /\ new.pc = me.pc /\ new.cursor = me.cursor
      /\ new.after = me.after /\ new.lastEvent = me.lastEvent /\ new.wire = me.wire
      /\ new.batch = records /\ new.seen = me.seen
  BY <1>4, <1>6, <1>8 DEF Clients
<1>10. ASSUME new.run \notin removed PROVE Following(new, Published(new.run))
  <2>1. Following(me, Published(me.run))
    BY <1>1, <1>9, <1>10 DEF LogInv
  <2>2. me.cursor = LastOf(me.seen \o me.wire)
    BY <1>3, <2>1 DEF Following
  <2>3. SequencesOf!IsPrefix(me.seen \o me.wire, Published(me.run))
    BY <1>3, <1>4, <2>1, NothingMore DEF Following
  <2>4. SequencesOf!IsPrefix((me.seen \o me.wire) \o records, Published(me.run))
    BY <1>2, <1>4, <1>5, <2>2, <2>3, ListContinues
  <2>5. new.pc # Disconnected
    BY <1>3, <1>9 DEF Disconnected, Streaming
  <2> QED
    BY <1>9, <2>1, <2>4, <2>5 DEF Following
<1> QED
  BY <1>1, <1>3, <1>7, <1>9, <1>10, OneReader

(* An event that is sent is the stream's cursor.                            *)
LEMMA YieldKeeps ==
  ASSUME LogInv, NEW f \in Followers, Yield(f)
  PROVE  LogInv'
<1>1. PICK me : me = follower[f]
  OBVIOUS
<1>2. PICK new : new = [me EXCEPT !.cursor = Head(me.batch), !.batch = Tail(me.batch),
                                  !.wire = Append(me.wire, Head(me.batch))]
  OBVIOUS
<1>3. /\ me \in Clients /\ me.seen \in Seq(Nat) /\ me.wire \in Seq(Nat) /\ me.batch \in Seq(Nat)
      /\ me.seen \o me.wire \in Seq(Nat) /\ follower \in [Followers -> Clients]
  BY <1>1, ClientIs DEF LogInv
<1>4. /\ me.pc = Streaming /\ me.batch # << >> /\ UNCHANGED <<log, removed>>
      /\ follower' = [follower EXCEPT ![f].cursor = Head(me.batch), ![f].batch = Tail(@),
                                      ![f].wire = Append(@, Head(me.batch))]
  BY <1>1 DEF Yield
<1>5. follower' = [follower EXCEPT ![f] = new]
  BY <1>1, <1>2, <1>3, <1>4 DEF Clients
<1>6. /\ Head(me.batch) \in Nat /\ Tail(me.batch) \in Seq(Nat)
      /\ Append(me.wire, Head(me.batch)) \in Seq(Nat)
  BY <1>3, <1>4, MoveOne
<1>7. /\ new \in Clients /\ new.run = me.run /\ new.pc = me.pc /\ new.cursor = Head(me.batch)
      /\ new.after = me.after /\ new.lastEvent = me.lastEvent
      /\ new.wire = Append(me.wire, Head(me.batch))
      /\ new.batch = Tail(me.batch) /\ new.seen = me.seen
  BY <1>2, <1>3, <1>6 DEF Clients
<1>8. me.seen \o Append(me.wire, Head(me.batch)) = Append(me.seen \o me.wire, Head(me.batch))
  BY <1>3, <1>6, OneMoreOfBoth
<1>9. ASSUME new.run \notin removed PROVE Following(new, Published(new.run))
  <2>1. Following(me, Published(me.run))
    BY <1>1, <1>7, <1>9 DEF LogInv
  <2>2. PICK all : all = me.seen \o me.wire
    OBVIOUS
  <2>3. /\ Append(all, Head(me.batch)) \o Tail(me.batch) = all \o me.batch
        /\ LastOf(Append(all, Head(me.batch))) = Head(me.batch)
    BY <1>3, <1>4, <2>2, MoveOne
  <2>4. new.pc # Disconnected
    BY <1>4, <1>7 DEF Disconnected, Streaming
  <2> QED
    BY <1>7, <1>8, <2>1, <2>2, <2>3, <2>4 DEF Following
<1> QED
  BY <1>1, <1>4, <1>5, <1>7, <1>9, OneReader

(* An event that is received is the last the client knows of.               *)
LEMMA ReceiveKeeps ==
  ASSUME LogInv, NEW f \in Followers, Receive(f)
  PROVE  LogInv'
<1>1. PICK me : me = follower[f]
  OBVIOUS
<1>2. PICK new : new = [me EXCEPT !.wire = Tail(me.wire), !.lastEvent = Head(me.wire),
                                  !.seen = Append(me.seen, Head(me.wire))]
  OBVIOUS
<1>3. /\ me \in Clients /\ me.seen \in Seq(Nat) /\ me.wire \in Seq(Nat) /\ me.batch \in Seq(Nat)
      /\ me.seen \o me.wire \in Seq(Nat) /\ follower \in [Followers -> Clients]
      /\ (me.seen \o me.wire) \o me.batch \in Seq(Nat) /\ me.after \in Nat /\ me.lastEvent \in Nat
      /\ Published(me.run) \in Seq(Nat)
      /\ me.pc \in {Disconnected, Streaming}
  BY <1>1, ClientIs DEF LogInv
<1>4. /\ me.wire # << >> /\ UNCHANGED <<log, removed>>
      /\ follower' = [follower EXCEPT ![f].wire = Tail(@), ![f].lastEvent = Head(me.wire),
                                      ![f].seen = Append(@, Head(me.wire))]
  BY <1>1 DEF Receive
<1>5. follower' = [follower EXCEPT ![f] = new]
  BY <1>1, <1>2, <1>3, <1>4 DEF Clients
<1>6. /\ Head(me.wire) \in Nat /\ Tail(me.wire) \in Seq(Nat)
      /\ Append(me.seen, Head(me.wire)) \in Seq(Nat)
      /\ Append(me.seen, Head(me.wire)) \o Tail(me.wire) = me.seen \o me.wire
      /\ LastOf(Append(me.seen, Head(me.wire))) = Head(me.wire)
  BY <1>3, <1>4, MoveOne
<1>7. /\ new \in Clients /\ new.run = me.run /\ new.pc = me.pc /\ new.cursor = me.cursor
      /\ new.after = me.after /\ new.lastEvent = Head(me.wire)
      /\ new.wire = Tail(me.wire)
      /\ new.batch = me.batch /\ new.seen = Append(me.seen, Head(me.wire))
  BY <1>2, <1>3, <1>6 DEF Clients
<1>8. ASSUME new.run \notin removed PROVE Following(new, Published(new.run))
  <2>1. Following(me, Published(me.run)) /\ IsTable(log, removed)
    BY <1>1, <1>7, <1>8 DEF LogInv
  <2>2. PICK all : all = Append(me.seen, Head(me.wire))
    OBVIOUS
  <2>3. SequencesOf!IsPrefix(all, Published(me.run)) /\ SequencesOf!IsPrefix(me.seen, all)
    <3>1. SequencesOf!IsPrefix(me.seen, all)
      <4>1. all = me.seen \o <<Head(me.wire)>> /\ <<Head(me.wire)>> \in Seq(Nat)
        BY <1>3, <1>6, <2>2, OneMore
      <4> QED
        BY <1>3, <4>1, PrefixOfBoth
    <3>2. SequencesOf!IsPrefix(all, me.seen \o me.wire)
      BY <1>6, <2>2, PrefixOfBoth
    <3>3. SequencesOf!IsPrefix(me.seen \o me.wire, (me.seen \o me.wire) \o me.batch)
      BY <1>3, PrefixOfBoth
    <3>4. SequencesOf!IsPrefix(me.seen \o me.wire, Published(me.run))
      BY <1>3, <2>1, <3>3, PrefixOfPrefix DEF Following
    <3> QED
      BY <1>3, <1>6, <2>2, <3>1, <3>2, <3>4, PrefixOfPrefix
  <2>4. LastOf(me.seen) <= Head(me.wire)
    BY <1>3, <1>6, <2>1, <2>2, <2>3, LastGrows
  <2>5. StreamStart(me.after, Head(me.wire)) = Head(me.wire)
    <3>1. me.after <= LastOf(me.seen) /\ LastOf(me.seen) \in Nat
      BY <1>3, <2>1 DEF Following, StreamStart
    <3> QED
      BY <1>3, <1>6, <2>4, <3>1 DEF StreamStart
  <2>6. new.pc # Disconnected
    BY <1>4, <1>7, <2>1 DEF Following
  <2> QED
    BY <1>6, <1>7, <2>1, <2>5, <2>6 DEF Following
<1> QED
  BY <1>1, <1>4, <1>5, <1>7, <1>8, OneReader

(* What was not received when the connection is lost is asked for again.    *)
LEMMA DisconnectKeeps ==
  ASSUME LogInv, NEW f \in Followers, Disconnect(f)
  PROVE  LogInv'
<1>1. PICK me : me = follower[f]
  OBVIOUS
<1>2. PICK after \in {me.after, me.lastEvent} :
        /\ after >= me.after
        /\ follower' = [follower EXCEPT ![f].pc = Disconnected, ![f].batch = << >>,
                          ![f].wire = << >>, ![f].cursor = 0, ![f].after = after]
  BY <1>1 DEF Disconnect
<1>3. PICK new : new = [me EXCEPT !.pc = Disconnected, !.batch = << >>, !.wire = << >>,
                                  !.cursor = 0, !.after = after]
  OBVIOUS
<1>4. /\ me \in Clients /\ me.seen \in Seq(Nat) /\ me.wire \in Seq(Nat) /\ me.batch \in Seq(Nat)
      /\ me.seen \o me.wire \in Seq(Nat) /\ follower \in [Followers -> Clients]
      /\ (me.seen \o me.wire) \o me.batch \in Seq(Nat) /\ me.after \in Nat /\ me.lastEvent \in Nat
      /\ Published(me.run) \in Seq(Nat)
  BY <1>1, ClientIs DEF LogInv
<1>5. UNCHANGED <<log, removed>>
  BY DEF Disconnect
<1>6. follower' = [follower EXCEPT ![f] = new]
  BY <1>1, <1>2, <1>3, <1>4 DEF Clients
<1>7. /\ new \in Clients /\ new.run = me.run /\ new.pc = Disconnected
      /\ new.after = after /\ new.lastEvent = me.lastEvent
      /\ new.wire = << >> /\ new.batch = << >> /\ new.seen = me.seen
  BY <1>2, <1>3, <1>4, NothingMore DEF Clients
<1>8. ASSUME new.run \notin removed PROVE Following(new, Published(new.run))
  <2>1. Following(me, Published(me.run))
    BY <1>1, <1>7, <1>8 DEF LogInv
  <2>2. SequencesOf!IsPrefix(me.seen, Published(me.run))
    <3>1. SequencesOf!IsPrefix(me.seen, me.seen \o me.wire)
      BY <1>4, PrefixOfBoth
    <3>2. SequencesOf!IsPrefix(me.seen \o me.wire, (me.seen \o me.wire) \o me.batch)
      BY <1>4, PrefixOfBoth
    <3>3. SequencesOf!IsPrefix(me.seen \o me.wire, Published(me.run))
      BY <1>4, <2>1, <3>2, PrefixOfPrefix DEF Following
    <3> QED
      BY <1>4, <3>1, <3>3, PrefixOfPrefix
  <2>3. StreamStart(after, me.lastEvent) = StreamStart(me.after, me.lastEvent)
    BY <1>2, <1>4 DEF StreamStart
  <2>4. (me.seen \o << >>) \o << >> = me.seen
    BY <1>4, NothingMore
  <2>5. new.pc # Streaming
    BY <1>7 DEF Disconnected, Streaming
  <2> QED
    BY <1>7, <2>1, <2>2, <2>3, <2>4, <2>5 DEF Following
<1> QED
  BY <1>1, <1>5, <1>6, <1>7, <1>8, OneReader

(* What each step does to the runs that are left: nothing that is published *)
(* moves.                                                                   *)
LEMMA LogSide ==
  ASSUME LogInv, NEW w \in Writers,
         \/ AppendEvent(w) \/ Commit(w) \/ Rollback(w)
         \/ \E r \in LoggedRuns : RemoveStory(w, r)
  PROVE  /\ IsTable(log', removed') /\ UNCHANGED follower
         /\ removed' \subseteq LoggedRuns /\ removed \subseteq removed'
         /\ \A r : r \notin removed' =>
              SequencesOf!IsPrefix(Published(r), InOrder(IdsIn(log', r)))
<1>1. /\ IsTable(log, removed) /\ removed \subseteq LoggedRuns
      /\ \A r : Published(r) = InOrder(IdsIn(log, r))
  BY DEF LogInv, Published, Committed, IdsIn
<1>2. \A s : SequencesOf!IsPrefix(InOrder(s), InOrder(s)) <=> Len(InOrder(s)) <= Len(InOrder(s))
  BY DEF SequencesOf!IsPrefix
<1>3. \A r : SequencesOf!IsPrefix(Published(r), InOrder(IdsIn(log, r)))
  <2> SUFFICES ASSUME NEW r PROVE SequencesOf!IsPrefix(Published(r), InOrder(IdsIn(log, r)))
    OBVIOUS
  <2>1. Len(InOrder(IdsIn(log, r))) \in Nat
    BY <1>1, IdsAre, InOrderIs, LenProperties
  <2> QED
    BY <1>1, <1>2, <2>1
<1>4. CASE AppendEvent(w)
  BY <1>1, <1>3, <1>4, AppendKeeps
<1>5. CASE Rollback(w)
  BY <1>1, <1>3, <1>5, RollbackKeeps
<1>6. CASE Commit(w)
  <2>1. /\ IsTable(log', removed) /\ UNCHANGED <<removed, follower>>
        /\ \A r : /\ IdsIn(log, r) \subseteq IdsIn(log', r)
                  /\ \A i \in IdsIn(log', r) \ IdsIn(log, r) : \A j \in IdsIn(log, r) : j < i
    BY <1>1, <1>6, CommitKeeps
  <2>2. ASSUME NEW r PROVE SequencesOf!IsPrefix(Published(r), InOrder(IdsIn(log', r)))
    <3>1. PICK table : table = log'
      OBVIOUS
    <3>2. /\ IsFiniteSet(IdsIn(log, r)) /\ IdsIn(log, r) \in SUBSET Nat
          /\ IsFiniteSet(IdsIn(table, r)) /\ IdsIn(table, r) \in SUBSET Nat
      BY <1>1, <2>1, <3>1, IdsAre
    <3>3. SequencesOf!IsPrefix(InOrder(IdsIn(log, r)), InOrder(IdsIn(table, r)))
      BY <2>1, <3>1, <3>2, PublishedGrows
    <3> QED
      BY <1>1, <3>1, <3>3
  <2> QED
    BY <1>1, <2>1, <2>2
<1>7. CASE \E r \in LoggedRuns : RemoveStory(w, r)
  <2>1. PICK r \in LoggedRuns : RemoveStory(w, r)
    BY <1>7
  <2>2. /\ IsTable(log', removed') /\ removed' = removed \cup {r} /\ UNCHANGED follower
        /\ \A q : q # r => IdsIn(log', q) = IdsIn(log, q)
    BY <1>1, <2>1, RemoveKeeps
  <2> QED
    BY <1>1, <1>3, <2>2
<1> QED
  BY <1>4, <1>5, <1>6, <1>7

(* Every step keeps the invariant.                                          *)
LEMMA LogSteps == LogInv /\ [LogNext]_logVars => LogInv'
<1> SUFFICES ASSUME LogInv, [LogNext]_logVars PROVE LogInv'
  OBVIOUS
<1>1. CASE UNCHANGED logVars
  BY <1>1 DEF LogInv, logVars, Following, Published, Committed
<1>2. ASSUME NEW w \in Writers,
             \/ AppendEvent(w) \/ Commit(w) \/ Rollback(w)
             \/ \E r \in LoggedRuns : RemoveStory(w, r)
      PROVE  LogInv'
  <2>1. /\ IsTable(log', removed') /\ follower' = follower
        /\ removed' \subseteq LoggedRuns /\ removed \subseteq removed'
        /\ \A r : r \notin removed' =>
             SequencesOf!IsPrefix(Published(r), InOrder(IdsIn(log', r)))
    BY <1>2, LogSide
  <2>2. \A r : Published(r)' = InOrder(IdsIn(log', r))
    BY DEF Published, Committed, IdsIn
  <2>3. ASSUME NEW f \in Followers, follower[f].run \notin removed'
        PROVE  Following(follower[f], InOrder(IdsIn(log', follower[f].run)))
    <3>1. PICK me : me = follower[f]
      OBVIOUS
    <3>2. PICK whole : whole = InOrder(IdsIn(log', me.run))
      OBVIOUS
    <3>3. whole \in Seq(Nat)
      <4>1. PICK table, gone : table = log' /\ gone = removed'
        OBVIOUS
      <4> QED
        BY <2>1, <3>2, <4>1, IdsAre, InOrderIs
    <3>4. Following(me, Published(me.run))
      BY <2>1, <2>3, <3>1 DEF LogInv
    <3>5. (me.seen \o me.wire) \o me.batch \in Seq(Nat) /\ Published(me.run) \in Seq(Nat)
      BY <3>1, ClientIs
    <3>6. SequencesOf!IsPrefix(Published(me.run), whole)
      BY <2>1, <2>3, <3>1, <3>2
    <3>7. SequencesOf!IsPrefix((me.seen \o me.wire) \o me.batch, whole)
      BY <3>3, <3>4, <3>5, <3>6, PrefixOfPrefix DEF Following
    <3> QED
      BY <3>1, <3>2, <3>4, <3>7 DEF Following
  <2> QED
    BY <2>1, <2>2, <2>3 DEF LogInv
<1>3. ASSUME NEW f \in Followers,
             ListEvents(f) \/ Connect(f) \/ Poll(f) \/ Yield(f) \/ Receive(f) \/ Disconnect(f)
      PROVE  LogInv'
  BY <1>3, PageKeeps, ConnectKeeps, PollKeeps, YieldKeeps, ReceiveKeeps, DisconnectKeeps
<1> QED
  BY <1>1, <1>2, <1>3 DEF LogNext

(* The invariant of the log holds throughout.                               *)
LEMMA LogHolds == LogSpec => []LogInv
BY LogStarts, LogSteps, PTL DEF LogSpec

(* What a client has received is a beginning of its run.                    *)
LEMMA SeenFirst ==
  ASSUME LogInv, NEW f \in Followers, follower[f].run \notin removed
  PROVE  SequencesOf!IsPrefix(follower[f].seen, Published(follower[f].run))
<1>1. PICK me : me = follower[f]
  OBVIOUS
<1>2. /\ me.seen \in Seq(Nat) /\ me.wire \in Seq(Nat) /\ me.batch \in Seq(Nat)
      /\ me.seen \o me.wire \in Seq(Nat) /\ (me.seen \o me.wire) \o me.batch \in Seq(Nat)
      /\ Published(me.run) \in Seq(Nat)
  BY <1>1, ClientIs
<1>3. SequencesOf!IsPrefix((me.seen \o me.wire) \o me.batch, Published(me.run))
  BY <1>1 DEF LogInv, Following
<1>4. SequencesOf!IsPrefix(me.seen \o me.wire, Published(me.run))
  BY <1>2, <1>3, PrefixOfBoth, PrefixOfPrefix
<1>5. SequencesOf!IsPrefix(me.seen, Published(me.run))
  BY <1>2, <1>4, PrefixOfBoth, PrefixOfPrefix
<1> QED
  BY <1>1, <1>5

(* It gives the types.                                                      *)
LEMMA LogTypesFollow == LogInv => LogTypeOK
<1> SUFFICES ASSUME LogInv PROVE LogTypeOK
  OBVIOUS
<1>1. \A f \in Followers : follower[f].pc \in {Disconnected, Streaming}
  BY ClientIs
<1> QED
  BY <1>1 DEF LogInv, LogTypeOK, IsTable, LogRows

(* The rows of the log have ids of their own and are of runs that exist.    *)
THEOREM LogTypes == LogSpec => []LogTypeOK
BY LogHolds, LogTypesFollow, PTL

(* However many transactions write, runs are deleted and connections break, *)
(* a client has the beginning of its run, each event once and in order.     *)
THEOREM ReadersMiss == LogSpec => []ReadersMissNothing
<1>1. LogInv => ReadersMissNothing
  BY SeenFirst DEF ReadersMissNothing
<1> QED
  BY <1>1, LogHolds, PTL

(* EventFeed.  No event is published, and none received, at the start.      *)
LEMMA FeedStarts == LogInit => Feed!FeedInit
<1> SUFFICES ASSUME LogInit PROVE Feed!FeedInit
  OBVIOUS
<1>1. log = {} /\ removed = {} /\ follower \in [Followers -> {FollowerOf(r) : r \in LoggedRuns}]
  BY DEF LogInit
<1>2. \A r : Published(r) = << >>
  <2>1. \A r : IdsIn(log, r) = {}
    BY <1>1 DEF IdsIn
  <2> QED
    BY <2>1, NothingPublished
<1>3. \A f \in Followers : follower[f].seen = << >> /\ follower[f].run \in LoggedRuns
  BY <1>1 DEF FollowerOf
<1> QED
  BY <1>1, <1>2, <1>3 DEF Feed!FeedInit

(* What the steps rest on: nothing is published of a run that is removed,   *)
(* and a client has a beginning of its own.                                 *)
FeedInv ==
  /\ LogInv /\ ReadersMissNothing
  /\ \A r \in removed : Published(r) = << >>

(* It follows from the invariant of the log.                                *)
LEMMA FeedHolds == LogSpec => []FeedInv
<1>1. LogInv => \A r \in removed : Published(r) = << >>
  <2> SUFFICES ASSUME LogInv, NEW r \in removed PROVE Published(r) = << >>
    OBVIOUS
  <2>1. IdsIn(log, r) = {}
    BY IdsAre DEF LogInv
  <2> QED
    BY <2>1, NothingPublished
<1>2. LogInv => FeedInv
  BY <1>1, SeenFirst DEF FeedInv, ReadersMissNothing
<1> QED
  BY <1>2, LogHolds, PTL

(* A transaction publishes, or closes a run, or is not seen.                *)
LEMMA TransactionRefines ==
  ASSUME FeedInv, FeedInv', NEW w \in Writers,
         \/ AppendEvent(w) \/ Commit(w) \/ Rollback(w)
         \/ \E r \in LoggedRuns : RemoveStory(w, r)
  PROVE  [Feed!FeedNext]_(Feed!feedVars)
<1>1. /\ UNCHANGED follower
      /\ \A r : Published(r)' = InOrder(IdsIn(log', r))
      /\ \A r : r \notin removed' => SequencesOf!IsPrefix(Published(r), Published(r)')
  BY LogSide DEF FeedInv, Published, Committed, IdsIn
<1>2. \A r \in removed : Published(r) = << >>
  BY DEF FeedInv
<1>3. \A r \in removed' : Published(r)' = << >>
  BY DEF FeedInv
<1>4. CASE UNCHANGED removed
  <2>1. \A r \in LoggedRuns : SequencesOf!IsPrefix(Published(r), Published(r)')
    <3>1. SequencesOf!IsPrefix(<< >>, << >>)
      BY EmptySeq DEF SequencesOf!IsPrefix
    <3> QED
      BY <1>1, <1>2, <1>3, <1>4, <3>1
  <2>2. \A r \in removed : Published(r)' = Published(r)
    BY <1>2, <1>3, <1>4
  <2>3. removed \subseteq LoggedRuns
    BY DEF FeedInv, LogInv
  <2>4. Feed!Publish
    BY <1>1, <1>4, <2>1, <2>2, <2>3
       DEF Feed!Publish, Feed!Seqs!IsPrefix, SequencesOf!IsPrefix
  <2> QED
    BY <2>4 DEF Feed!FeedNext
<1>5. CASE \E r \in LoggedRuns : RemoveStory(w, r)
  <2>1. PICK r \in LoggedRuns : RemoveStory(w, r)
    BY <1>5
  <2>2. /\ removed' = removed \cup {r} /\ r \notin removed
        /\ \A q : q # r => IdsIn(log', q) = IdsIn(log, q)
    BY <2>1, RemoveKeeps DEF FeedInv, LogInv
  <2>3. \A q : q # r => Published(q)' = Published(q)
    BY <1>1, <2>2 DEF Published, Committed, IdsIn
  <2>4. Published(r)' = << >>
    BY <1>3, <2>2
  <2>5. [q \in LoggedRuns |-> Published(q)']
          = [[q \in LoggedRuns |-> Published(q)] EXCEPT ![r] = << >>]
    BY <2>3, <2>4
  <2>6. Feed!Close(r)
    BY <1>1, <2>2, <2>5 DEF Feed!Close
  <2> QED
    BY <2>2, <2>6 DEF Feed!FeedNext
<1> QED
  BY <1>4, <1>5 DEF AppendEvent, Commit, Rollback

(* A reader's step changes what its own client has received, by more        *)
(* events, or nothing.                                                      *)
LEMMA ReaderHas ==
  ASSUME LogInv, NEW f \in Followers,
         ListEvents(f) \/ Connect(f) \/ Poll(f) \/ Yield(f) \/ Receive(f) \/ Disconnect(f)
  PROVE  /\ UNCHANGED <<log, removed>>
         /\ \A g \in Followers : follower'[g].run = follower[g].run
         /\ \A g \in Followers : g # f => follower'[g].seen = follower[g].seen
         /\ \/ follower'[f].seen = follower[f].seen
            \/ /\ follower'[f].seen \in Seq(Nat)
               /\ Len(follower'[f].seen) > Len(follower[f].seen)
<1>1. follower \in [Followers -> Clients] /\ follower[f].seen \in Seq(Nat)
  BY ClientIs DEF LogInv
<1>2. CASE Connect(f) \/ Poll(f) \/ Yield(f) \/ Disconnect(f)
  <2>1. CASE Connect(f)
    BY <1>1, <2>1 DEF Connect, Clients
  <2>2. CASE Poll(f)
    BY <1>1, <2>2 DEF Poll, Clients
  <2>3. CASE Yield(f)
    BY <1>1, <2>3 DEF Yield, Clients
  <2>4. CASE Disconnect(f)
    BY <1>1, <2>4 DEF Disconnect, Clients
  <2> QED
    BY <1>2, <2>1, <2>2, <2>3, <2>4
<1>3. CASE Receive(f)
  <2>1. PICK h : h = Head(follower[f].wire)
    OBVIOUS
  <2>2. h \in Nat /\ UNCHANGED <<log, removed>>
    BY <1>3, <2>1, ClientIs, MoveOne DEF Receive
  <2>3. /\ \A g \in Followers : follower'[g].run = follower[g].run
        /\ \A g \in Followers : g # f => follower'[g].seen = follower[g].seen
        /\ follower'[f].seen = Append(follower[f].seen, h)
    BY <1>1, <1>3, <2>1 DEF Receive, Clients
  <2> QED
    BY <1>1, <2>2, <2>3, AppendProperties
<1>4. CASE ListEvents(f)
  <2>1. PICK events : events = EventPage(follower[f].run, follower[f].after).events
    OBVIOUS
  <2>2. /\ \A g \in Followers : follower'[g].run = follower[g].run
        /\ \A g \in Followers : g # f => follower'[g].seen = follower[g].seen
        /\ follower'[f].seen = follower[f].seen \o events
        /\ UNCHANGED <<log, removed>>
    BY <1>1, <1>4, <2>1 DEF ListEvents, Clients
  <2>3. events \in Seq(Nat)
    <3>1. PICK records : records = ListAfter(follower[f].run, follower[f].after, PageLimit + 1)
      OBVIOUS
    <3>2. events = FirstRows(records, PageLimit)
      BY <2>1, <3>1 DEF EventPage
    <3>3. records \in Seq(Nat)
      BY ListIs, LogAssumption, <3>1
    <3> QED
      BY <3>2, <3>3, FirstRowsAre, LogAssumption
  <2>4. CASE events = << >>
    BY <1>1, <2>2, <2>4, NothingMore
  <2>5. CASE events # << >>
    <3>1. /\ follower[f].seen \o events \in Seq(Nat)
          /\ Len(follower[f].seen \o events) = Len(follower[f].seen) + Len(events)
      BY <1>1, <2>3, ConcatProperties
    <3>2. Len(events) \in Nat \ {0} /\ Len(follower[f].seen) \in Nat
      BY <1>1, <2>3, <2>5, EmptySeq, LenProperties
    <3> QED
      BY <2>2, <3>1, <3>2
  <2> QED
    BY <2>4, <2>5
<1> QED
  BY <1>2, <1>3, <1>4

(* A reader's step hands its client more of the run, or is not seen.        *)
LEMMA ReaderRefines ==
  ASSUME FeedInv, FeedInv', NEW f \in Followers,
         ListEvents(f) \/ Connect(f) \/ Poll(f) \/ Yield(f) \/ Receive(f) \/ Disconnect(f)
  PROVE  [Feed!FeedNext]_(Feed!feedVars)
<1>1. /\ UNCHANGED <<log, removed>>
      /\ \A g \in Followers : follower'[g].run = follower[g].run
      /\ \A g \in Followers : g # f => follower'[g].seen = follower[g].seen
      /\ \/ follower'[f].seen = follower[f].seen
         \/ /\ follower'[f].seen \in Seq(Nat)
            /\ Len(follower'[f].seen) > Len(follower[f].seen)
  BY ReaderHas DEF FeedInv
<1>2. \A r : Published(r)' = Published(r)
  BY <1>1 DEF Published, Committed
<1>3. CASE follower'[f].seen = follower[f].seen \/ follower[f].run \in removed
  <2>1. UNCHANGED Feed!feedVars
    BY <1>1, <1>2, <1>3 DEF Feed!feedVars
  <2> QED
    BY <2>1
<1>4. CASE follower'[f].seen # follower[f].seen /\ follower[f].run \notin removed
  <2>1. PICK run : run = follower[f].run /\ run \in LoggedRuns
    BY ClientIs DEF FeedInv
  <2>2. PICK new \in Seq(Nat) : new = follower'[f].seen /\ Len(new) > Len(follower[f].seen)
    BY <1>1, <1>4
  <2>3. PICK whole : whole = Published(run)
    OBVIOUS
  <2>4. whole \in Seq(Nat) /\ follower[f].seen \in Seq(Nat)
    BY <2>1, <2>3, ClientIs DEF FeedInv
  <2>5. SequencesOf!IsPrefix(new, whole)
    <3>1. follower'[f].run = run /\ run \notin removed'
      BY <1>1, <1>4, <2>1
    <3>2. SequencesOf!IsPrefix(follower'[f].seen, Published(follower[f].run)')
      BY <3>1 DEF FeedInv, ReadersMissNothing, Published, Committed
    <3>3. Published(follower[f].run)' = whole
      <4>1. log' = log /\ follower'[f].run = follower[f].run
        BY <1>1
      <4> QED
        BY <2>1, <2>3, <4>1 DEF Published, Committed
    <3> QED
      BY <2>2, <3>2, <3>3
  <2>6. /\ Len(new) \in Len(follower[f].seen) + 1 .. Len(whole)
        /\ SubSeq(whole, 1, Len(new)) = new
    <3>1. Len(new) <= Len(whole) /\ SubSeq(new, 1, Len(new)) = SubSeq(whole, 1, Len(new))
      BY <2>5 DEF SequencesOf!IsPrefix
    <3>2. Len(new) \in Nat /\ Len(whole) \in Nat /\ Len(follower[f].seen) \in Nat
      BY <2>4, LenProperties
    <3> QED
      BY <2>2, <3>1, <3>2, SubSeqFull
  <2> DEFINE received == [g \in Followers |->
                           IF follower[g].run \in removed THEN << >> ELSE follower[g].seen]
             published == [r \in LoggedRuns |-> Published(r)]
             follows == [g \in Followers |-> follower[g].run]
  <2>7. /\ published[follows[f]] = whole /\ received[f] = follower[f].seen
    BY <1>4, <2>1, <2>3
  <2>8. received' = [received EXCEPT ![f] = new]
    BY <1>1, <1>4, <2>2
  <2>9. UNCHANGED <<published, follows, removed>>
    BY <1>1, <1>2
  <2>10. Feed!Receive(f)
    <3> HIDE DEF received, published, follows
    <3>1. /\ Len(new) \in Len(received[f]) + 1 .. Len(published[follows[f]])
          /\ received' = [received EXCEPT ![f] = SubSeq(published[follows[f]], 1, Len(new))]
      BY <2>6, <2>7, <2>8
    <3> QED
      BY <2>9, <3>1 DEF Feed!Receive, received, published, follows
  <2> QED
    BY <2>10 DEF Feed!FeedNext
<1> QED
  BY <1>3, <1>4

(* The log implements EventFeed, for every number of writers, readers and   *)
(* runs: it is append-only to all who read it.                              *)
THEOREM ImplementsFeed == LogSpec => FeedSpec
<1>1. FeedInv /\ FeedInv' /\ [LogNext]_logVars => [Feed!FeedNext]_(Feed!feedVars)
  <2> SUFFICES ASSUME FeedInv, FeedInv', [LogNext]_logVars
               PROVE  [Feed!FeedNext]_(Feed!feedVars)
    OBVIOUS
  <2>1. CASE UNCHANGED logVars
    BY <2>1 DEF logVars, Feed!feedVars, Published, Committed
  <2>2. CASE LogNext
    BY <2>2, TransactionRefines, ReaderRefines DEF LogNext
  <2> QED
    BY <2>1, <2>2
<1> QED
  BY <1>1, FeedStarts, FeedHolds, PTL DEF LogSpec, FeedSpec, Feed!FeedSpec

-----------------------------------------------------------------------------
(* MCSceneProduction.  Whichever part a behaviour is about, each component  *)
(* is one of its own in it.                                                 *)
LEMMA PartsCompose == PartsSpec => Spec /\ CallSpec /\ HandoffSpec /\ PresetSpec /\ LogSpec
<1> DEFINE steps ==
      /\ [Next]_vars /\ [CallNext]_callVars /\ [HandoffNext]_handoffVars
      /\ [PresetNext]_presetVars /\ [LogNext]_logVars
<1>1. PartsInit => Init /\ CallInit /\ HandoffInit /\ PresetInit /\ LogInit
  BY DEF PartsInit
<1>2. [PartsNext]_<<part, vars, besideVars>> => steps
  <2> SUFFICES ASSUME [PartsNext]_<<part, vars, besideVars>> PROVE steps
    OBVIOUS
  <2>1. CASE UNCHANGED <<part, vars, besideVars>>
    BY <2>1 DEF besideVars
  <2>2. CASE Next /\ UNCHANGED besideVars
    BY <2>2 DEF besideVars
  <2>3. CASE CallNext /\ UNCHANGED <<vars, presetVars, logVars, handoffVars>>
    BY <2>3
  <2>4. CASE HandoffNext /\ UNCHANGED <<vars, callVars, presetVars, logVars>>
    BY <2>4
  <2>5. CASE PresetPart /\ UNCHANGED <<vars, callVars, logVars, handoffVars>>
    BY <2>5 DEF PresetPart
  <2>6. CASE LogNext /\ UNCHANGED <<vars, callVars, presetVars, handoffVars>>
    BY <2>6
  <2> QED
    BY <2>1, <2>2, <2>3, <2>4, <2>5, <2>6 DEF PartsNext
<1> QED
  BY <1>1, <1>2, PTL DEF PartsSpec, Spec, CallSpec, HandoffSpec, PresetSpec, LogSpec

(* The types of all parts are right.                                        *)
THEOREM PartsTypes == PartsSpec => []PartsTypeOK
<1>1. TypeOK /\ CallTypeOK /\ HandoffTypeOK /\ PresetTypeOK /\ LogTypeOK => PartsTypeOK
  BY DEF PartsTypeOK
<1> QED
  BY <1>1, PartsCompose, TypeCorrect, CallTypes, HandoffTypes, PresetTypes, LogTypes, PTL
=============================================================================
