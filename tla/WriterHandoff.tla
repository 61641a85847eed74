--------------------------- MODULE WriterHandoff ---------------------------
(***************************************************************************)
(* What a writer of a revision is told that its draft already fulfils.  The *)
(* evidence is projected from the saved audit of the latest critic, pinned  *)
(* with the writer's first call, and every further call of the task, by a   *)
(* retry, a later execution or a thread that a cancelled execution left     *)
(* behind, is to send the same evidence or none at all.                     *)
(***************************************************************************)
EXTENDS Integers, Sequences, FiniteSets

CONSTANTS
  Assigned,       \* what the scene is assigned: its turning point, its outcome
  Audits,         \* records of a critic's call that an instance may hold
  WriteAttempts,  \* attempts of a node per execution (the graph's RetryPolicy)
  MaxWriting      \* bound: executions of the run

ASSUME HandoffAssumption == WriteAttempts \in Nat \ {0} /\ MaxWriting \in Nat

VARIABLES
  audit,    \* the stored record of the critic whose critique is an input
  writes,   \* the invocations of the task, in the order of their inserts
  writer,   \* the execution of the node
  orphans,  \* threads of cancelled executions that have not committed
  writing   \* executions so far

handoffVars == <<audit, writes, writer, orphans, writing>>

-----------------------------------------------------------------------------
(* The projection (_eligible_source, project_fulfillment).                  *)

(* Where an audit fails, in the order the code looks; the first is why      *)
(* nothing is handed off.                                                   *)
Ineligible ==
  <<"missing_creator", "ineligible_creator", "unsupported_critic", "invalid_response_hash",
    "source_lineage_mismatch", "shared_authority_mismatch">>
Malformed ==
  <<"assignment_mismatch", "missing_audit", "unsupported_audit", "stale_audit",
    "malformed_audit", "malformed_coverage">>
Faults == Ineligible \o Malformed

Checks == {"met", "unmet", "malformed_check", "invalid_evidence"}

(* An audit has at most one bad check: which of two is met first shows in   *)
(* the reason only.                                                         *)
Audit(faults, checks, large) == [faults |-> faults, checks |-> checks, large |-> large]

Fulfilled(a) == {r \in Assigned : a.checks[r] = "met"}
BadChecks(a) == {a.checks[r] : r \in Assigned} \ {"met", "unmet"}
Omitted(reason) == [reason |-> reason, packet |-> {}]
Projection(a) ==
  IF a.faults # {}
  THEN Omitted(Faults[CHOOSE i \in DOMAIN Faults :
                        /\ Faults[i] \in a.faults
                        /\ \A j \in 1 .. i - 1 : Faults[j] \notin a.faults])
  ELSE IF BadChecks(a) # {} THEN Omitted(CHOOSE c \in BadChecks(a) : TRUE)
  ELSE IF Fulfilled(a) = {} THEN Omitted("no_met_requirements")
  ELSE IF a.large THEN Omitted("packet_too_large")
  ELSE [reason |-> "included", packet |-> Fulfilled(a)]

(* A snapshot records what it was projected from (provenance).              *)
Snapshot(a) == [projection |-> Projection(a), provenance |-> a]

-----------------------------------------------------------------------------
(* The invocations.                                                         *)

Failures == {n \in DOMAIN writes : /\ writes[n].status = "FAILED"
                                   /\ writes[n].code # "interrupted_execution"}
NextAttempt == Cardinality(Failures) + 1
Closed(n, status, code) == writes' = [writes EXCEPT ![n].status = status, ![n].code = code]

Rest == [writer EXCEPT !.pc = "idle", !.retries = 0]
Again == IF writer.retries + 1 < WriteAttempts
         THEN [writer EXCEPT !.pc = "load", !.retries = @ + 1] ELSE Rest

(* The worker executes the run; calls found RUNNING are closed first.       *)
ExecuteWrite ==
  /\ writer.pc = "idle" /\ writing < MaxWriting
  /\ writing' = writing + 1
  /\ writes' = [n \in DOMAIN writes |->
                  IF writes[n].status = "RUNNING"
                  THEN [writes[n] EXCEPT !.status = "FAILED", !.code = "interrupted_execution"]
                  ELSE writes[n]]
  /\ writer' = [writer EXCEPT !.pc = "load"]
  /\ UNCHANGED <<audit, orphans>>

(* select_handoff: what was pinned, if it still is what is stored, before   *)
(* anything is projected anew.                                              *)
SelectHandoff ==
  /\ writer.pc = "load"
  /\ IF writes = << >>
     THEN writer' = [writer EXCEPT !.pc = "replay", !.attempt = NextAttempt,
                                   !.handoff = Snapshot(audit)]
     ELSE LET pinned == writes[1].handoff
          IN  IF /\ \A n \in DOMAIN writes : writes[n].handoff = pinned
                 /\ pinned.provenance = audit
              THEN writer' = [writer EXCEPT !.pc = "replay", !.attempt = NextAttempt,
                                            !.handoff = pinned]
              ELSE writer' = Rest
  /\ UNCHANGED <<audit, writes, orphans, writing>>

Replayed ==
  /\ writer.pc = "replay"
  /\ writer' = IF \E n \in DOMAIN writes : writes[n].status = "SUCCEEDED"
               THEN [writer EXCEPT !.pc = "done"] ELSE [writer EXCEPT !.pc = "start"]
  /\ UNCHANGED <<audit, writes, orphans, writing>>

(* Mutant: does not look for a call under way or a finished one.            *)
VerifiedHandoffOnly(thread) ==
  /\ thread.handoff.provenance = audit
  /\ \A n \in DOMAIN writes : writes[n].handoff = thread.handoff

(* verify_handoff_before_start, under the write lock of the insert.         *)
Verified(thread) ==
  /\ thread.handoff.provenance = audit
  /\ \A n \in DOMAIN writes :
       writes[n].handoff = thread.handoff /\ writes[n].status = "FAILED"
  /\ thread.attempt = NextAttempt

Started(thread) ==
  writes' = Append(writes, [status |-> "RUNNING", code |-> "",
                            attempt |-> thread.attempt, handoff |-> thread.handoff])

StartWrite ==
  /\ writer.pc = "start"
  /\ IF Verified(writer)
     THEN /\ Started(writer)
          /\ writer' = [writer EXCEPT !.pc = "answer", !.call = Len(writes) + 1]
     ELSE /\ writer' = Rest
          /\ UNCHANGED writes
  /\ UNCHANGED <<audit, orphans, writing>>

AnswerWrite ==
  /\ writer.pc = "answer"
  /\ \/ /\ writer' = [writer EXCEPT !.pc = "complete"]
        /\ UNCHANGED writes
     \/ /\ Closed(writer.call, "FAILED", "schema_validation_failed")
        /\ writer' = Again
     \/ /\ Closed(writer.call, "FAILED", "provider_unavailable")
        /\ writer' = Rest
  /\ UNCHANGED <<audit, orphans, writing>>

CompleteWrite ==
  /\ writer.pc = "complete"
  /\ Closed(writer.call, "SUCCEEDED", "")
  /\ writer' = [writer EXCEPT !.pc = "completed"]
  /\ UNCHANGED <<audit, orphans, writing>>
ReturnOutput ==
  /\ writer.pc = "completed"
  /\ writer' = [writer EXCEPT !.pc = "done"]
  /\ UNCHANGED <<audit, writes, orphans, writing>>

(* A cancelled execution closes its call; a thread that is inserting or     *)
(* completing one goes on without it.                                       *)
CancelWrite ==
  /\ writer.pc \notin {"idle", "done"}
  /\ IF writer.pc \in {"answer", "complete", "completed"}
     THEN Closed(writer.call, "FAILED", "cancelled_execution") ELSE UNCHANGED writes
  /\ orphans' = IF writer.pc \in {"start", "complete"} THEN orphans \cup {writer} ELSE orphans
  /\ writer' = Rest
  /\ UNCHANGED <<audit, writing>>

OrphanStarts ==
  \E o \in orphans :
    /\ o.pc = "start"
    /\ orphans' = orphans \ {o}
    /\ IF Verified(o) THEN Started(o) ELSE UNCHANGED writes
    /\ UNCHANGED <<audit, writer, writing>>
OrphanCompletes ==
  \E o \in orphans :
    /\ o.pc = "complete"
    /\ orphans' = orphans \ {o}
    /\ Closed(o.call, "SUCCEEDED", "")
    /\ UNCHANGED <<audit, writer, writing>>

WriterLost ==
  /\ writer.pc # "idle" \/ orphans # {}
  /\ writer' = Rest /\ orphans' = {}
  /\ UNCHANGED <<audit, writes, writing>>

(* The stored record of the critic is not what it was.                      *)
AuditChanges ==
  /\ audit' \in Audits \ {audit}
  /\ UNCHANGED <<writes, writer, orphans, writing>>

HandoffInit ==
  /\ audit \in Audits
  /\ writes = << >> /\ orphans = {} /\ writing = 0
  /\ writer = [pc |-> "idle", attempt |-> 0, handoff |-> Snapshot(audit), retries |-> 0,
               call |-> 0]

HandoffNext ==
  \/ ExecuteWrite \/ SelectHandoff \/ Replayed \/ StartWrite \/ AnswerWrite
  \/ CompleteWrite \/ ReturnOutput \/ CancelWrite \/ WriterLost
  \/ OrphanStarts \/ OrphanCompletes \/ AuditChanges

HandoffSpec == HandoffInit /\ [][HandoffNext]_handoffVars

-----------------------------------------------------------------------------
HandoffTypeOK ==
  /\ audit \in Audits
  /\ writer.pc \in {"idle", "load", "replay", "start", "answer", "complete", "completed", "done"}
  /\ writer.retries \in 0 .. WriteAttempts - 1 /\ writing \in 0 .. MaxWriting
  /\ \A n \in DOMAIN writes :
       /\ writes[n].status \in {"RUNNING", "FAILED", "SUCCEEDED"}
       /\ writes[n].handoff.projection.packet \subseteq Assigned
  /\ \A o \in orphans : o.pc \in {"start", "complete"}

(* A writer is called, by an execution or by a thread that one left behind, *)
(* only when no other call of its task is under way or has succeeded; with  *)
(* the evidence every earlier call had, of a critic's record that still     *)
(* says so; and as the attempt after the failures it was told about         *)
(* (select_handoff, verify_handoff_before_start).                           *)
WritersShareEvidence ==
  [][\A n \in DOMAIN writes' \ DOMAIN writes :
       /\ \A m \in DOMAIN writes :
            writes[m].status = "FAILED" /\ writes[m].handoff = writes'[n].handoff
       /\ writes'[n].handoff = Snapshot(audit)
       /\ writes'[n].attempt = NextAttempt]_handoffVars
=============================================================================
