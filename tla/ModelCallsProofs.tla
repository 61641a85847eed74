-------------------------- MODULE ModelCallsProofs --------------------------
(***************************************************************************)
(* What ModelCalls promises, for every preset, rates, budgets and number of *)
(* attempts and executions.                                                 *)
(*                                                                          *)
(* The calls of a task are a sequence of which only the last is ever        *)
(* touched, except that an execution first closes what it finds RUNNING;    *)
(* and that can only be the last as well.  So a fact about one call and the *)
(* calls before it, once true, stays true, and each property has to be      *)
(* shown of a call when it is started and when it settles.                  *)
(***************************************************************************)
EXTENDS ModelCalls, SequenceTheorems, WellFoundedInduction, TLAPS

Codes == {"", "unsupported_capability", "budget_exceeded", "rate_limited", "provider_unavailable",
          "provider_timeout", "refusal", "production_contract_failed",
          "schema_validation_failed", "continuity_recheck_stagnated", "cancelled_execution",
          "interrupted_execution"}
Selections == LocalModels \cup CloudModels \cup {NoModel}
CallRecord ==
  [selection : Selections, status : {"RUNNING", "FAILED", "SUCCEEDED"}, code : Codes,
   place : {"nowhere", "device", "cloud"}, billed : Nat, over : BOOLEAN,
   execution : 0 .. MaxExecutions]
Nodes == [pc : {"idle", "load", "generate", "answer", "materialize", "done"},
          attempt : 0 .. NodeAttempts, execution : 0 .. MaxExecutions,
          input : InputTokens \cup {0}]

-----------------------------------------------------------------------------
(* The inductive invariant.                                                 *)

TypesInv ==
  /\ frozen \in [mode : Modes, models : ModelSlots, role : Roles, budget : CallBudgets]
  /\ calls \in Seq(CallRecord)
  /\ trying \in Nodes

(* How many calls there can be: those of the earlier executions, and one    *)
(* for each attempt of this one.                                            *)
EarlierCalls == NodeAttempts * (trying.execution - 1)
LengthInv ==
  /\ trying.pc \in {"idle", "done"} => Len(calls) <= NodeAttempts * trying.execution
  /\ trying.pc \notin {"idle", "done"} => trying.execution >= 1 /\ trying.attempt >= 1
  /\ trying.pc = "load" => Len(calls) + 1 <= EarlierCalls + trying.attempt
  /\ InCall => Len(calls) >= 1 /\ Len(calls) <= EarlierCalls + trying.attempt

(* Only the last call can be RUNNING, and none is when a call is started;   *)
(* the call under way is, and of this execution.                            *)
OpenInv ==
  /\ \A i \in DOMAIN calls :
       calls[i].status = "RUNNING" => i = Len(calls) /\ trying.pc # "load"
  /\ InCall => /\ calls[Len(calls)].execution = trying.execution
               /\ calls[Len(calls)].status = "RUNNING"

(* What is known of one call: who may stagnate, what it was charged, and    *)
(* where its prompt may have gone.                                          *)
Sound(call) ==
  /\ call.code = "continuity_recheck_stagnated" =>
       call.status = "FAILED" /\ frozen.role = "continuity_supervisor"
  /\ ~ call.over => call.billed <= frozen.budget.cost
  /\ call.selection.provider # "openai" => call.billed = 0
  /\ call.place = "cloud" => call.selection.deployment = "cloud"
  /\ call.execution <= trying.execution
SoundInv == \A i \in DOMAIN calls : Sound(calls[i])

(* What the provider is asked for can be paid.                              *)
PayableInv ==
  trying.pc = "answer" /\ calls[Len(calls)].selection.provider = "openai" =>
    Reserved(trying.input) <= frozen.budget.cost

(* A call that may have been charged ends its execution.                    *)
LostCharge(call) == call.selection.provider = "openai" /\ call.code = "provider_timeout"
ChargeInv ==
  \A i \in DOMAIN calls : LostCharge(calls[i]) =>
    /\ trying.pc # "idle" => calls[i].execution # trying.execution
    /\ \A j \in i + 1 .. Len(calls) : calls[j].execution # calls[i].execution

(* A call is routed by the preset, or escalated after a stagnation.         *)
Stagnated(i) == calls[i].code = "continuity_recheck_stagnated"
RoutesInv ==
  \A i \in DOMAIN calls :
    \/ calls[i].selection = Primary
    \/ frozen.mode = "hybrid" /\ \E j \in 1 .. i - 1 : Stagnated(j)

CallInv ==
  /\ TypesInv /\ LengthInv /\ OpenInv /\ SoundInv /\ PayableInv /\ ChargeInv /\ RoutesInv
  /\ EscalationSurvivesLoss

-----------------------------------------------------------------------------
(* The data.                                                                *)

(* Products of naturals grow with their factors.                            *)
LEMMA ProductsGrow ==
  ASSUME NEW a \in Nat, NEW b \in Nat, NEW c \in Nat, a <= b
  PROVE  a * c \in Nat /\ a * c <= b * c
<1>1. b * c = a * c + (b - a) * c
  OBVIOUS
<1>2. (b - a) \in Nat /\ (b - a) * c \in Nat /\ a * c \in Nat
  OBVIOUS
<1> QED
  BY <1>1, <1>2

(* The models and the budget of the run.                                    *)
LEMMA Frozen ==
  ASSUME TypesInv
  PROVE  /\ frozen.models.local \in LocalModels \cup {NoModel}
         /\ frozen.models.cloud \in CloudModels \cup {NoModel}
         /\ frozen.budget.output \in Nat /\ frozen.budget.cost \in Nat
         /\ frozen.mode \in Modes /\ frozen.role \in Roles
<1>1. frozen.models \in ModelSlots /\ frozen.budget \in CallBudgets
  BY DEF TypesInv
<1>2. frozen.budget \in [input : Nat, output : Nat, cost : Nat]
  BY <1>1, RatesAssumption
<1> QED
  BY <1>1, <1>2 DEF TypesInv, ModelSlots

(* The models by what they are.                                             *)
LEMMA Models ==
  /\ \A s \in LocalModels : s.provider = "ollama" /\ s.deployment = "local"
  /\ \A s \in CloudModels : s.provider \in {"ollama", "openai", "unknown"} /\ s.deployment = "cloud"
  /\ NoModel.provider = "" /\ NoModel.deployment = ""
<1>1. ASSUME NEW s \in LocalModels
      PROVE  s.provider = "ollama" /\ s.deployment = "local"
  <2>1. PICK t \in {"", "cloud"} : s = Served("ollama", "local", t)
    BY DEF LocalModels
  <2> QED
    BY <2>1 DEF Served
<1>2. ASSUME NEW s \in CloudModels
      PROVE  s.provider \in {"ollama", "openai", "unknown"} /\ s.deployment = "cloud"
  <2>1. ASSUME NEW t \in {"", "cloud"}, s = Served("ollama", "cloud", t)
        PROVE  s.provider = "ollama" /\ s.deployment = "cloud"
    BY <2>1 DEF Served
  <2>2. ASSUME s = Served("openai", "cloud", "")
        PROVE  s.provider = "openai" /\ s.deployment = "cloud"
    BY <2>2 DEF Served
  <2>3. ASSUME s = Served("unknown", "cloud", "")
        PROVE  s.provider = "unknown" /\ s.deployment = "cloud"
    BY <2>3 DEF Served
  <2> QED
    BY <2>1, <2>2, <2>3 DEF CloudModels
<1> QED
  BY <1>1, <1>2 DEF NoModel

(* A model of the cloud is one that the preset has in its cloud slot.       *)
LEMMA Routed ==
  ASSUME TypesInv
  PROVE  /\ Primary \in Selections /\ Selected \in Selections
         /\ Primary.deployment = "cloud" => AssignedDeployment(frozen.mode, frozen.role) = "cloud"
<1>1. AssignedDeployment(frozen.mode, frozen.role) \in {"local", "cloud"}
  BY Frozen DEF AssignedDeployment, Modes
<1>2. frozen.models.local.deployment # "cloud"
  BY Frozen, Models
<1>3. Primary \in {frozen.models.local, frozen.models.cloud}
  BY <1>1 DEF Primary, SelectionFor
<1>4. CASE AssignedDeployment(frozen.mode, frozen.role) = "local"
  <2>1. Primary = frozen.models.local
    BY <1>4 DEF Primary, SelectionFor
  <2> QED
    BY <1>2, <2>1, Frozen DEF Selected, Selections
<1>5. CASE AssignedDeployment(frozen.mode, frozen.role) = "cloud"
  BY <1>3, <1>5, Frozen DEF Selected, Selections
<1> QED
  BY <1>1, <1>4, <1>5

(* A provider outside the device is never in a local slot.                  *)
LEMMA ProvidersDeployed ==
  ASSUME NEW s \in Selections
  PROVE  /\ s.provider = "openai" => s.deployment = "cloud"
         /\ s.provider = "ollama" => s.deployment \in {"local", "cloud"}
<1>1. CASE s \in LocalModels
  BY <1>1, Models
<1>2. CASE s \in CloudModels
  BY <1>2, Models
<1>3. CASE s = NoModel
  BY <1>3, Models
<1> QED
  BY <1>1, <1>2, <1>3 DEF Selections

(* The charge of an answer within its bound is covered by the reservation,  *)
(* however much of its input the provider had cached.                       *)
LEMMA Reserves ==
  ASSUME TypesInv, NEW input \in Nat, NEW output \in Nat, NEW cached \in {0, input}
  PROVE  /\ Cost(input, output, cached) \in Nat
         /\ output <= frozen.budget.output => Cost(input, output, cached) <= Reserved(input)
<1>1. /\ InputRate \in Nat /\ CachedRate \in Nat /\ OutputRate \in Nat
      /\ CachedRate <= InputRate /\ frozen.budget.output \in Nat
  BY RatesAssumption, Frozen
<1> DEFINE full == input * InputRate
           part == input * CachedRate
           out  == output * OutputRate
           most == frozen.budget.output * OutputRate
<1>2. /\ full \in Nat /\ part \in Nat /\ out \in Nat /\ most \in Nat
      /\ output <= frozen.budget.output => out <= most
  BY <1>1, ProductsGrow
<1>3. part <= full
  <2>1. CachedRate * input <= InputRate * input
    BY <1>1, ProductsGrow
  <2> QED
    BY <1>1, <2>1
<1>4. /\ (input - 0) * InputRate = full /\ 0 * CachedRate = 0
      /\ (input - input) * InputRate = 0
  BY <1>1
<1>5. Cost(input, output, cached) \in {full + 0 + out, 0 + part + out}
  <2>1. CASE cached = 0
    BY <1>4, <2>1 DEF Cost
  <2>2. CASE cached = input
    BY <1>4, <2>2 DEF Cost
  <2> QED
    BY <2>1, <2>2
<1>6. Reserved(input) = full + 0 + most
  BY <1>4 DEF Reserved, Cost
<1> HIDE DEF full, part, out, most
<1> QED
  BY <1>2, <1>3, <1>5, <1>6

(* The calls are a sequence of records; the last one is among them.         *)
LEMMA Calls ==
  ASSUME TypesInv
  PROVE  /\ Len(calls) \in Nat /\ DOMAIN calls = 1 .. Len(calls)
         /\ \A i \in DOMAIN calls : calls[i] \in CallRecord
         /\ Len(calls) >= 1 => Len(calls) \in DOMAIN calls /\ Current \in CallRecord
<1>1. Len(calls) \in Nat /\ DOMAIN calls = 1 .. Len(calls)
  BY LenProperties DEF TypesInv
<1>2. \A i \in DOMAIN calls : calls[i] \in CallRecord
  BY <1>1, ElementOfSeq DEF TypesInv
<1> QED
  BY <1>1, <1>2 DEF Current

(* The node: its fields, and where the attempts and executions end.         *)
LEMMA Trying ==
  ASSUME TypesInv
  PROVE  /\ trying.attempt \in 0 .. NodeAttempts /\ trying.execution \in 0 .. MaxExecutions
         /\ trying.input \in InputTokens \cup {0} /\ trying.input \in Nat
         /\ trying.pc \in {"idle", "load", "generate", "answer", "materialize", "done"}
         /\ NodeAttempts \in Nat /\ NodeAttempts >= 1 /\ MaxExecutions \in Nat
<1>1. /\ trying.attempt \in 0 .. NodeAttempts /\ trying.execution \in 0 .. MaxExecutions
      /\ trying.input \in InputTokens \cup {0}
      /\ trying.pc \in {"idle", "load", "generate", "answer", "materialize", "done"}
  BY DEF TypesInv, Nodes
<1>2. InputTokens \subseteq Nat /\ NodeAttempts \in Nat \ {0} /\ MaxExecutions \in Nat
  BY RatesAssumption
<1>3. NodeAttempts \in Nat /\ NodeAttempts >= 1
  BY <1>2
<1>4. trying.input \in Nat
  <2>1. CASE trying.input \in InputTokens
    BY <1>2, <2>1
  <2>2. CASE trying.input = 0
    BY <2>2
  <2> QED
    BY <1>1, <2>1, <2>2
<1> QED
  BY <1>1, <1>2, <1>3, <1>4

(* The calls of the executions so far.                                      *)
LEMMA Counted ==
  ASSUME TypesInv
  PROVE  /\ EarlierCalls \in Int
         /\ trying.execution >= 1 => EarlierCalls \in Nat
         /\ EarlierCalls + NodeAttempts = NodeAttempts * trying.execution
         /\ NodeAttempts * trying.execution \in Nat
         /\ NodeAttempts * trying.execution <= NodeAttempts * MaxExecutions
<1>1. /\ NodeAttempts \in Nat /\ trying.execution \in Nat /\ MaxExecutions \in Nat
      /\ trying.execution <= MaxExecutions
  BY Trying
<1>2. NodeAttempts * (trying.execution - 1) + NodeAttempts = NodeAttempts * trying.execution
  BY <1>1
<1>3. /\ trying.execution * NodeAttempts \in Nat
      /\ trying.execution * NodeAttempts <= MaxExecutions * NodeAttempts
  BY <1>1, ProductsGrow
<1>4. trying.execution >= 1 => NodeAttempts * (trying.execution - 1) \in Nat
  <2>1. trying.execution >= 1 => trying.execution - 1 \in Nat
    BY <1>1
  <2>2. \A n \in Nat : NodeAttempts * n \in Nat
    BY <1>1
  <2> QED
    BY <2>1, <2>2
<1>5. NodeAttempts * (trying.execution - 1) \in Int
  BY <1>1
<1>6. /\ NodeAttempts * trying.execution = trying.execution * NodeAttempts
      /\ NodeAttempts * MaxExecutions = MaxExecutions * NodeAttempts
  BY <1>1
<1> QED
  BY <1>2, <1>3, <1>4, <1>5, <1>6 DEF EarlierCalls

-----------------------------------------------------------------------------
(* A step of a call.                                                        *)

(* What stays known of a call while the run and the execution stay.         *)
LEMMA SoundStays ==
  ASSUME NEW call, Sound(call), frozen' = frozen, trying'.execution = trying.execution
  PROVE  Sound(call)'
  BY DEF Sound

(* The update of the last call.                                             *)
LEMMA LastUpdated ==
  ASSUME TypesInv, Len(calls) >= 1, NEW call \in CallRecord, Update(call)
  PROVE  /\ calls' \in Seq(CallRecord) /\ Len(calls') = Len(calls)
         /\ DOMAIN calls' = DOMAIN calls /\ calls'[Len(calls)] = call
         /\ \A i \in DOMAIN calls : i # Len(calls) => calls'[i] = calls[i]
<1>1. Len(calls) \in 1 .. Len(calls) /\ calls \in Seq(CallRecord)
  BY Calls DEF TypesInv
<1>2. calls' = [calls EXCEPT ![Len(calls)] = call]
  BY DEF Update
<1>3. /\ calls' \in Seq(CallRecord) /\ Len(calls') = Len(calls)
      /\ \A j \in 1 .. Len(calls) : calls'[j] = IF j = Len(calls) THEN call ELSE calls[j]
  BY <1>1, <1>2, ExceptSeq
<1>4. DOMAIN calls' = 1 .. Len(calls') /\ DOMAIN calls = 1 .. Len(calls)
  BY <1>3, Calls, LenProperties
<1> QED
  BY <1>1, <1>3, <1>4

(* Whatever is said of a call under way, the invariant stays: nothing is    *)
(* claimed of a call but what the calls before it show.                     *)
LEMMA UpdateKeepsInv ==
  ASSUME CallInv, InCall, NEW call \in CallRecord, Update(call), frozen' = frozen,
         call.selection = Current.selection, call.execution = Current.execution, Sound(call),
         trying' \in Nodes, trying'.execution = trying.execution,
         trying'.attempt = IF trying'.pc = "load" THEN trying.attempt + 1 ELSE trying.attempt,
         LostCharge(call) => trying'.pc = "idle",
         trying'.pc = "load" => call.status # "RUNNING", InCall' => call.status = "RUNNING",
         trying'.pc = "answer" /\ call.selection.provider = "openai" =>
           Reserved(trying'.input) <= frozen.budget.cost
  PROVE  CallInv'
<1> USE DEF CallInv
<1>1. /\ Len(calls) \in Nat /\ Len(calls) >= 1 /\ DOMAIN calls = 1 .. Len(calls)
      /\ Len(calls) \in DOMAIN calls
      /\ Len(calls) <= EarlierCalls + trying.attempt
      /\ trying.pc \notin {"idle", "load", "done"}
      /\ trying.execution >= 1 /\ trying.attempt >= 1
  BY Calls DEF LengthInv, InCall
<1>2. /\ calls' \in Seq(CallRecord) /\ Len(calls') = Len(calls)
      /\ DOMAIN calls' = DOMAIN calls /\ calls'[Len(calls)] = call
      /\ \A i \in DOMAIN calls : i # Len(calls) => calls'[i] = calls[i]
  BY <1>1, LastUpdated
<1>3. \A i \in DOMAIN calls :
        calls'[i].selection = calls[i].selection /\ calls'[i].execution = calls[i].execution
  BY <1>2 DEF Current
<1>4. TypesInv'
  BY <1>2 DEF TypesInv
<1>5. LengthInv'
  <2>1. /\ EarlierCalls \in Int /\ trying.attempt \in 0 .. NodeAttempts /\ NodeAttempts \in Nat
        /\ EarlierCalls + NodeAttempts = NodeAttempts * trying.execution
        /\ NodeAttempts * trying.execution \in Nat
    BY Counted, Trying
  <2>2. Len(calls) <= NodeAttempts * trying.execution
    BY <1>1, <2>1
  <2>3. EarlierCalls' = EarlierCalls
    BY DEF EarlierCalls
  <2> QED
    BY <1>1, <1>2, <2>1, <2>2, <2>3 DEF LengthInv, InCall
<1>6. OpenInv'
  BY <1>1, <1>2 DEF OpenInv, Current
<1>7. SoundInv'
  <2>1. ASSUME NEW i \in DOMAIN calls PROVE Sound(calls'[i])
    BY <1>2, <2>1 DEF SoundInv
  <2>2. ASSUME NEW c, Sound(c) PROVE Sound(c)'
    BY <2>2, SoundStays
  <2> QED
    BY <1>2, <2>1 DEF SoundInv, Sound
<1>8. PayableInv'
  BY <1>2 DEF PayableInv, Reserved, Cost
<1>9. ChargeInv'
  <2>1. ASSUME NEW i \in DOMAIN calls, LostCharge(calls'[i])
        PROVE  /\ trying'.pc # "idle" => calls'[i].execution # trying'.execution
               /\ \A j \in i + 1 .. Len(calls) : calls'[j].execution # calls'[i].execution
    <3>1. CASE i = Len(calls)
      BY <1>1, <1>2, <2>1, <3>1
    <3>2. CASE i # Len(calls)
      <4>1. LostCharge(calls[i])
        BY <1>2, <2>1, <3>2
      <4>2. \A j \in i + 1 .. Len(calls) : j \in DOMAIN calls
        BY <1>1
      <4>3. /\ calls[i].execution # trying.execution
            /\ \A j \in i + 1 .. Len(calls) : calls[j].execution # calls[i].execution
        BY <1>1, <4>1 DEF ChargeInv
      <4> QED
        BY <1>3, <4>2, <4>3
    <3> QED
      BY <3>1, <3>2
  <2> QED
    BY <1>2, <2>1 DEF ChargeInv, LostCharge
<1>10. \A i \in DOMAIN calls : i # Len(calls) => (Stagnated(i)' <=> Stagnated(i))
  BY <1>2 DEF Stagnated
<1>11. RoutesInv'
  <2>1. \A i \in DOMAIN calls : \A j \in 1 .. i - 1 : j \in DOMAIN calls /\ j # Len(calls)
    BY <1>1
  <2> QED
    BY <1>2, <1>3, <1>10, <2>1 DEF RoutesInv, Primary
<1>12. EscalationSurvivesLoss'
  <2>1. ASSUME NEW i \in DOMAIN calls, NEW j \in DOMAIN calls,
               i < j, frozen.mode = "hybrid",
               calls'[i].code = "continuity_recheck_stagnated",
               \A k \in i + 1 .. j - 1 : calls'[k].code = "interrupted_execution"
        PROVE  calls'[j].selection = frozen.models.cloud
    <3>0. Len(calls) \in Nat
      BY <1>1
    <3>1. i \in 1 .. Len(calls) /\ j \in 1 .. Len(calls)
      BY <1>1
    <3>2. i # Len(calls)
      BY <1>1, <2>1, <3>1
    <3>3. ASSUME NEW k \in i + 1 .. j - 1 PROVE calls[k].code = "interrupted_execution"
      <4>1. k \in 1 .. Len(calls) /\ k # Len(calls)
        BY <3>0, <3>1
      <4> QED
        BY <1>1, <1>2, <2>1, <4>1
    <3>4. calls[i].code = "continuity_recheck_stagnated"
      BY <1>2, <2>1, <3>2
    <3>5. calls[j].selection = frozen.models.cloud
      BY <2>1, <3>3, <3>4 DEF EscalationSurvivesLoss
    <3> QED
      BY <1>3, <3>5
  <2> QED
    BY <1>2, <2>1 DEF EscalationSurvivesLoss
<1> QED
  BY <1>4, <1>5, <1>6, <1>7, <1>8, <1>9, <1>11, <1>12

(* A call settles as failed, and its node tries again or not.               *)
LEMMA SettleKeepsInv ==
  ASSUME CallInv, InCall, NEW call \in CallRecord, NEW code \in Codes, NEW retryable \in BOOLEAN,
         Settle(call, code, retryable), frozen' = frozen,
         call.selection = Current.selection, call.execution = Current.execution, Sound(call),
         code = "continuity_recheck_stagnated" => frozen.role = "continuity_supervisor",
         code = "provider_timeout" /\ call.selection.provider = "openai" => ~ retryable
  PROVE  CallInv'
<1> USE DEF CallInv
<1> DEFINE settled == [call EXCEPT !.status = "FAILED", !.code = code]
<1>1. /\ settled \in CallRecord /\ settled.selection = call.selection
      /\ settled.execution = call.execution /\ settled.status = "FAILED"
      /\ settled.code = code /\ settled.over = call.over /\ settled.billed = call.billed
      /\ settled.place = call.place
  BY DEF CallRecord
<1>2. Update(settled)
  BY DEF Settle
<1> HIDE DEF settled
<1>3. Sound(settled)
  BY <1>1 DEF Sound
<1>4. /\ trying' \in Nodes /\ trying'.execution = trying.execution
      /\ trying'.pc \in {"load", "idle"} /\ (~ retryable => trying'.pc = "idle")
      /\ trying'.attempt = IF trying'.pc = "load" THEN trying.attempt + 1 ELSE trying.attempt
  <2>1. /\ trying.attempt \in 0 .. NodeAttempts /\ trying.execution \in 0 .. MaxExecutions
        /\ trying \in Nodes /\ NodeAttempts \in Nat
    BY Trying DEF TypesInv
  <2>2. 0 \in InputTokens \cup {0}
    OBVIOUS
  <2>3. ASSUME retryable, trying.attempt < NodeAttempts
        PROVE  /\ trying' \in Nodes /\ trying'.execution = trying.execution
               /\ trying'.pc = "load" /\ trying'.attempt = trying.attempt + 1
    <3>1. trying.attempt + 1 \in 0 .. NodeAttempts
      BY <2>1, <2>3
    <3>2. trying' = [trying EXCEPT !.pc = "load", !.attempt = trying.attempt + 1, !.input = 0]
      BY <2>3 DEF Settle
    <3> QED
      BY <2>1, <2>2, <3>1, <3>2 DEF Nodes
  <2>4. ASSUME ~ (retryable /\ trying.attempt < NodeAttempts)
        PROVE  /\ trying' \in Nodes /\ trying'.execution = trying.execution
               /\ trying'.pc = "idle" /\ trying'.attempt = trying.attempt
    <3>1. trying' = [trying EXCEPT !.pc = "idle", !.input = 0]
      BY <2>4 DEF Settle
    <3> QED
      BY <2>1, <2>2, <3>1 DEF Nodes
  <2> QED
    BY <2>3, <2>4
<1>5. LostCharge(settled) => trying'.pc = "idle"
  BY <1>1, <1>4 DEF LostCharge
<1>6. ~ InCall'
  BY <1>4 DEF InCall
<1> QED
  BY <1>1, <1>2, <1>3, <1>4, <1>5, <1>6, UpdateKeepsInv

-----------------------------------------------------------------------------
(* The steps that only touch the call under way.                            *)

(* The call under way.                                                      *)
LEMMA UnderWay ==
  ASSUME CallInv, InCall
  PROVE  /\ Current \in CallRecord /\ Sound(Current) /\ Current.selection \in Selections
         /\ Current.status = "RUNNING"
         /\ trying.pc = "answer" /\ Current.selection.provider = "openai" =>
              Reserved(trying.input) <= frozen.budget.cost
<1>1. TypesInv /\ Len(calls) >= 1
  BY DEF CallInv, LengthInv
<1>2. Len(calls) \in DOMAIN calls /\ Current \in CallRecord
  BY <1>1, Calls
<1> QED
  BY <1>2 DEF CallInv, OpenInv, SoundInv, PayableInv, Current, CallRecord

(* What a provider may have made of a request it could be paid for.         *)
LEMMA AnsweredSound ==
  ASSUME CallInv, InCall, trying.pc = "answer", NEW call \in Answered(Current)
  PROVE  /\ call \in CallRecord /\ Sound(call)
         /\ call.selection = Current.selection /\ call.execution = Current.execution
         /\ call.code = Current.code /\ call.status = Current.status
<1>1. Current \in CallRecord /\ Sound(Current)
  BY UnderWay
<1>2. CASE Current.selection.provider = "openai"
  <2>1. PICK output \in OutputTokens, cached \in {0, trying.input} :
          call = Charged(Current, output, cached)
    BY <1>2 DEF Answered
  <2>2. /\ TypesInv /\ trying.input \in Nat /\ output \in Nat
        /\ frozen.budget.output \in Nat /\ frozen.budget.cost \in Nat
    BY Trying, Frozen, RatesAssumption DEF CallInv
  <2>3. /\ Cost(trying.input, output, cached) \in Nat
        /\ output <= frozen.budget.output =>
             Cost(trying.input, output, cached) <= Reserved(trying.input)
    BY <2>2, Reserves
  <2>4. Reserved(trying.input) \in Nat /\ Reserved(trying.input) <= frozen.budget.cost
    <3>1. Reserved(trying.input) \in Nat
      BY <2>2, Reserves DEF Reserved
    <3> QED
      BY <1>2, <3>1, UnderWay
  <2> DEFINE cost == Cost(trying.input, output, cached)
             over == output > frozen.budget.output
  <2>5. over \in BOOLEAN /\ (~ over => cost <= frozen.budget.cost) /\ cost \in Nat
    BY <2>2, <2>3, <2>4
  <2>6. call = [Current EXCEPT !.billed = cost, !.over = over]
    BY <2>1 DEF Charged
  <2> HIDE DEF cost, over
  <2>7. /\ call \in CallRecord /\ call.selection = Current.selection
        /\ call.execution = Current.execution /\ call.billed = cost /\ call.over = over
        /\ call.code = Current.code /\ call.status = Current.status
        /\ call.place = Current.place
    BY <1>1, <2>5, <2>6 DEF CallRecord
  <2> QED
    BY <1>1, <1>2, <2>5, <2>7 DEF Sound
<1>3. CASE Current.selection.provider # "openai"
  <2>1. PICK over \in BOOLEAN : call = [Current EXCEPT !.over = over]
    BY <1>3 DEF Answered
  <2>2. /\ call \in CallRecord /\ call.selection = Current.selection
        /\ call.execution = Current.execution /\ call.billed = Current.billed
        /\ call.code = Current.code /\ call.status = Current.status
        /\ call.place = Current.place
    BY <1>1, <2>1 DEF CallRecord
  <2>3. call.billed = 0 /\ frozen.budget.cost \in Nat
    BY <1>1, <1>3, <2>2, Frozen DEF Sound, CallInv
  <2>4. call.billed <= frozen.budget.cost
    BY <2>3
  <2> QED
    BY <1>1, <2>2, <2>3, <2>4 DEF Sound
<1> QED
  BY <1>2, <1>3

(* Sending the prompt where the model is deployed.                          *)
LEMMA SentSound ==
  ASSUME CallInv, InCall, NEW place \in {"device", "cloud"},
         place = "cloud" => Current.selection.deployment = "cloud"
  PROVE  LET sent == [Current EXCEPT !.place = place]
         IN  /\ sent \in CallRecord /\ Sound(sent)
             /\ sent.selection = Current.selection /\ sent.execution = Current.execution
             /\ sent.status = Current.status
             /\ (LostCharge(sent) <=> LostCharge(Current))
  BY UnderWay DEF CallRecord, Sound, LostCharge

(* The call under way is not one that timed out: its execution would have   *)
(* ended.                                                                   *)
LEMMA StartedNotLost ==
  ASSUME CallInv, InCall
  PROVE  ~ LostCharge(Current)
<1>1. Len(calls) \in DOMAIN calls
  BY Calls DEF CallInv, LengthInv
<1> QED
  BY <1>1 DEF CallInv, OpenInv, ChargeInv, Current, InCall

(* A step of the node that leaves the execution and the attempt as they     *)
(* are.                                                                     *)
LEMMA Moves ==
  ASSUME TypesInv, NEW pc \in {"idle", "load", "generate", "answer", "materialize", "done"},
         NEW input \in InputTokens \cup {0},
         trying' = [trying EXCEPT !.pc = pc, !.input = input]
  PROVE  /\ trying' \in Nodes /\ trying'.pc = pc /\ trying'.input = input
         /\ trying'.execution = trying.execution /\ trying'.attempt = trying.attempt
  BY DEF TypesInv, Nodes

(* The same without the input.                                              *)
LEMMA CallMovesOn ==
  ASSUME TypesInv, NEW pc \in {"idle", "load", "generate", "answer", "materialize", "done"},
         trying' = [trying EXCEPT !.pc = pc]
  PROVE  /\ trying' \in Nodes /\ trying'.pc = pc /\ trying'.input = trying.input
         /\ trying'.execution = trying.execution /\ trying'.attempt = trying.attempt
  BY DEF TypesInv, Nodes

(* Ollama: refused before it is sent, or sent where its name says.          *)
LEMMA OllamaKeepsInv == CallInv /\ OllamaGenerate => CallInv'
<1> SUFFICES ASSUME CallInv, OllamaGenerate PROVE CallInv'
  OBVIOUS
<1>1. /\ InCall /\ trying.pc = "generate" /\ Current.selection.provider = "ollama"
      /\ frozen' = frozen /\ TypesInv
  BY DEF OllamaGenerate, InCall, CallInv
<1>2. Current \in CallRecord /\ Sound(Current) /\ Current.selection \in Selections
  BY <1>1, UnderWay
<1>3. CASE SchemaEnforced(Current.selection) /\ NamedDeployment(Current.selection) = "cloud"
  <2>1. Settle(Current, "unsupported_capability", FALSE)
    BY <1>3 DEF OllamaGenerate
  <2> QED
    BY <1>1, <1>2, <2>1, SettleKeepsInv DEF Codes
<1>4. CASE ~ (SchemaEnforced(Current.selection) /\ NamedDeployment(Current.selection) = "cloud")
  <2> DEFINE place == IF NamedDeployment(Current.selection) = "cloud" THEN "cloud" ELSE "device"
             sent == [Current EXCEPT !.place = place]
  <2>1. place \in {"device", "cloud"}
    OBVIOUS
  <2>2. place = "cloud" => Current.selection.deployment = "cloud"
    BY <1>1, <1>2, <1>4, ProvidersDeployed DEF SchemaEnforced
  <2>3. Update(sent) /\ trying' = [trying EXCEPT !.pc = "answer"]
    BY <1>4 DEF OllamaGenerate, Sent
  <2> HIDE DEF place
  <2>4. /\ sent \in CallRecord /\ Sound(sent)
        /\ sent.selection = Current.selection /\ sent.execution = Current.execution
        /\ ~ LostCharge(sent) /\ sent.status = "RUNNING"
    BY <1>1, <2>1, <2>2, SentSound, StartedNotLost, UnderWay
  <2> HIDE DEF sent
  <2>5. /\ trying' \in Nodes /\ trying'.pc = "answer"
        /\ trying'.execution = trying.execution /\ trying'.attempt = trying.attempt
    BY <1>1, <2>3, CallMovesOn
  <2> QED
    BY <1>1, <2>3, <2>4, <2>5, UpdateKeepsInv
<1> QED
  BY <1>3, <1>4

(* OpenAI: nothing is asked for that the reservation does not cover.        *)
LEMMA OpenAIKeepsInv == CallInv /\ OpenAICount => CallInv'
<1> SUFFICES ASSUME CallInv, OpenAICount PROVE CallInv'
  OBVIOUS
<1>1. /\ InCall /\ trying.pc = "generate" /\ Current.selection.provider = "openai"
      /\ frozen' = frozen /\ TypesInv
  BY DEF OpenAICount, InCall, CallInv
<1>2. Current \in CallRecord /\ Sound(Current) /\ Current.selection \in Selections
  BY <1>1, UnderWay
<1>3. CASE Cost(0, frozen.budget.output, 0) > frozen.budget.cost
  <2>1. Settle(Current, "budget_exceeded", FALSE)
    BY <1>3 DEF OpenAICount
  <2> QED
    BY <1>1, <1>2, <2>1, SettleKeepsInv DEF Codes
<1>4. CASE ~ (Cost(0, frozen.budget.output, 0) > frozen.budget.cost)
  <2> DEFINE sent == [Current EXCEPT !.place = "cloud"]
  <2>1. Current.selection.deployment = "cloud"
    BY <1>1, <1>2, ProvidersDeployed
  <2>2. /\ sent \in CallRecord /\ Sound(sent)
        /\ sent.selection = Current.selection /\ sent.execution = Current.execution
        /\ ~ LostCharge(sent) /\ sent.status = "RUNNING"
    BY <1>1, <2>1, SentSound, StartedNotLost, UnderWay
  <2>3. \/ Settle(sent, "rate_limited", TRUE)
        \/ Settle(sent, "provider_unavailable", FALSE)
        \/ Settle(sent, "budget_exceeded", FALSE)
        \/ \E input \in InputTokens :
             /\ ~ (input > frozen.budget.input \/ Reserved(input) > frozen.budget.cost)
             /\ Update(sent)
             /\ trying' = [trying EXCEPT !.pc = "answer", !.input = input]
    BY <1>4 DEF OpenAICount
  <2> HIDE DEF sent
  <2>4. CASE Settle(sent, "rate_limited", TRUE)
    BY <1>1, <2>2, <2>4, SettleKeepsInv DEF Codes
  <2>5. CASE Settle(sent, "provider_unavailable", FALSE)
    BY <1>1, <2>2, <2>5, SettleKeepsInv DEF Codes
  <2>6. CASE Settle(sent, "budget_exceeded", FALSE)
    BY <1>1, <2>2, <2>6, SettleKeepsInv DEF Codes
  <2>7. ASSUME NEW input \in InputTokens,
               ~ (input > frozen.budget.input \/ Reserved(input) > frozen.budget.cost),
               Update(sent), trying' = [trying EXCEPT !.pc = "answer", !.input = input]
        PROVE  CallInv'
    <3>1. /\ trying' \in Nodes /\ trying'.pc = "answer" /\ trying'.input = input
          /\ trying'.execution = trying.execution /\ trying'.attempt = trying.attempt
      BY <1>1, <2>7, Moves
    <3>2. Reserved(input) <= frozen.budget.cost
      <4>1. input \in Nat /\ frozen.budget.output \in Nat /\ frozen.budget.cost \in Nat
        BY <1>1, Frozen, RatesAssumption
      <4>2. Reserved(input) \in Nat
        BY <1>1, <4>1, Reserves DEF Reserved
      <4> QED
        BY <2>7, <4>1, <4>2
    <3> QED
      BY <1>1, <2>2, <2>7, <3>1, <3>2, UpdateKeepsInv
  <2> QED
    BY <2>3, <2>4, <2>5, <2>6, <2>7
<1> QED
  BY <1>3, <1>4

(* The answer: a charge that may have been made is never tried again.       *)
LEMMA AnswerKeepsInv == CallInv /\ Answer => CallInv'
<1> SUFFICES ASSUME CallInv, Answer PROVE CallInv'
  OBVIOUS
<1>1. InCall /\ trying.pc = "answer" /\ frozen' = frozen /\ TypesInv
  BY DEF Answer, InCall, CallInv
<1>2. Current \in CallRecord /\ Sound(Current) /\ Current.selection \in Selections
  BY <1>1, UnderWay
<1>3. CASE Settle(Current, "rate_limited", TRUE)
  BY <1>1, <1>2, <1>3, SettleKeepsInv DEF Codes
<1>4. ASSUME NEW call \in Answered(Current),
             \/ Settle(call, "provider_timeout", Repeats(call.selection))
             \/ Settle(call, "refusal", FALSE)
             \/ Settle(call, "budget_exceeded", FALSE)
             \/ Update(call) /\ trying' = [trying EXCEPT !.pc = "materialize", !.input = 0]
      PROVE  CallInv'
  <2>1. /\ call \in CallRecord /\ Sound(call)
        /\ call.selection = Current.selection /\ call.execution = Current.execution
        /\ call.code = Current.code /\ call.status = "RUNNING"
    BY <1>1, AnsweredSound, UnderWay
  <2>2. CASE Settle(call, "provider_timeout", Repeats(call.selection))
    <3>1. Repeats(call.selection) \in BOOLEAN
      BY DEF Repeats
    <3>2. call.selection.provider = "openai" => ~ Repeats(call.selection)
      BY DEF Repeats
    <3> QED
      BY <1>1, <2>1, <2>2, <3>1, <3>2, SettleKeepsInv DEF Codes
  <2>3. CASE Settle(call, "refusal", FALSE)
    BY <1>1, <2>1, <2>3, SettleKeepsInv DEF Codes
  <2>4. CASE Settle(call, "budget_exceeded", FALSE)
    BY <1>1, <2>1, <2>4, SettleKeepsInv DEF Codes
  <2>5. CASE Update(call) /\ trying' = [trying EXCEPT !.pc = "materialize", !.input = 0]
    <3>1. /\ trying' \in Nodes /\ trying'.pc = "materialize"
          /\ trying'.execution = trying.execution /\ trying'.attempt = trying.attempt
      <4>1. 0 \in InputTokens \cup {0}
        OBVIOUS
      <4> QED
        BY <1>1, <2>5, <4>1, Moves
    <3>2. ~ LostCharge(call)
      BY <1>1, <2>1, StartedNotLost DEF LostCharge
    <3> QED
      BY <1>1, <1>2, <2>1, <2>5, <3>1, <3>2, UpdateKeepsInv
  <2> QED
    BY <1>4, <2>2, <2>3, <2>4, <2>5
<1> QED
  BY <1>3, <1>4 DEF Answer

(* What the answer is worth.                                                *)
LEMMA MaterializeKeepsInv == CallInv /\ Materialize => CallInv'
<1> SUFFICES ASSUME CallInv, Materialize PROVE CallInv'
  OBVIOUS
<1>1. InCall /\ trying.pc = "materialize" /\ frozen' = frozen /\ TypesInv
  BY DEF Materialize, InCall, CallInv
<1>2. /\ Current \in CallRecord /\ Sound(Current) /\ Current.selection \in Selections
      /\ Current.status = "RUNNING"
  BY <1>1, UnderWay
<1>3. CASE Settle(Current, "production_contract_failed", FALSE)
  BY <1>1, <1>2, <1>3, SettleKeepsInv DEF Codes
<1>4. CASE Settle(Current, "schema_validation_failed", TRUE)
  BY <1>1, <1>2, <1>4, SettleKeepsInv DEF Codes
<1>5. CASE /\ frozen.role = "continuity_supervisor"
           /\ Settle(Current, "continuity_recheck_stagnated", TRUE)
  BY <1>1, <1>2, <1>5, SettleKeepsInv DEF Codes
<1>6. CASE /\ Update([Current EXCEPT !.status = "SUCCEEDED"])
           /\ trying' = [trying EXCEPT !.pc = "done"]
  <2> DEFINE done == [Current EXCEPT !.status = "SUCCEEDED"]
  <2>1. /\ done \in CallRecord /\ done.selection = Current.selection
        /\ done.execution = Current.execution /\ done.over = Current.over
        /\ done.billed = Current.billed /\ done.place = Current.place
        /\ done.code = Current.code
    BY <1>2 DEF CallRecord
  <2>2. Update(done)
    BY <1>6
  <2> HIDE DEF done
  <2>3. Current.code # "continuity_recheck_stagnated"
    BY <1>2 DEF Sound
  <2>4. Sound(done) /\ ~ LostCharge(done)
    BY <1>1, <1>2, <2>1, <2>3, StartedNotLost DEF Sound, LostCharge
  <2>5. /\ trying' \in Nodes /\ trying'.pc = "done"
        /\ trying'.execution = trying.execution /\ trying'.attempt = trying.attempt
        /\ ~ InCall'
    BY <1>1, <1>6, CallMovesOn DEF InCall
  <2> QED
    BY <1>1, <2>1, <2>2, <2>4, <2>5, UpdateKeepsInv
<1> QED
  BY <1>3, <1>4, <1>5, <1>6 DEF Materialize

(* A shutdown closes the call of its execution as failed.                   *)
LEMMA CancelKeepsInv == CallInv /\ Cancel => CallInv'
<1> SUFFICES ASSUME CallInv, Cancel PROVE CallInv'
  OBVIOUS
<1>1. InCall /\ frozen' = frozen
  BY DEF Cancel
<1>2. Current \in CallRecord /\ Sound(Current)
  BY <1>1, UnderWay
<1>3. PICK call \in IF trying.pc = "answer" THEN Answered(Current) \cup {Current} ELSE {Current} :
        Settle(call, "cancelled_execution", FALSE)
  BY DEF Cancel
<1>4. /\ call \in CallRecord /\ Sound(call)
      /\ call.selection = Current.selection /\ call.execution = Current.execution
  BY <1>1, <1>2, AnsweredSound
<1> QED
  BY <1>1, <1>3, <1>4, SettleKeepsInv DEF Codes

-----------------------------------------------------------------------------
(* The start of a call.                                                     *)

(* The failures a new attempt looks at, and which of them is the latest.    *)
Telling == {i \in DOMAIN calls : /\ calls[i].status = "FAILED"
                                 /\ calls[i].code # "interrupted_execution"}
Latest(i) == i \in Telling /\ \A j \in Telling : j <= i

(* Of a set of natural numbers one is the least.                            *)
LEMMA LeastNat ==
  ASSUME NEW S \in SUBSET Nat, S # {}
  PROVE  \E m \in S : \A k \in S : m <= k
<1>1. PICK m \in S : \A k \in S : ~ (<<k, m>> \in OpToRel(<, Nat))
  BY NatLessThanWellFounded, WFMin
<1>2. ASSUME NEW k \in S, k < m PROVE FALSE
  <2>1. <<k, m>> \in Nat \X Nat /\ <<k, m>>[1] < <<k, m>>[2]
    BY <1>2
  <2>2. <<k, m>> \in OpToRel(<, Nat)
    BY <2>1, Zenon DEF OpToRel
  <2> QED
    BY <1>1, <2>2
<1> QED
  BY <1>2

(* If there is one, one is the latest: the one with the fewest calls after  *)
(* it.                                                                      *)
LEMMA LatestExists ==
  ASSUME TypesInv, Telling # {}
  PROVE  \E i \in Telling : Latest(i)
<1> DEFINE After == {Len(calls) - i : i \in Telling}
<1>1. Telling \subseteq 1 .. Len(calls) /\ Len(calls) \in Nat
  BY Calls DEF Telling
<1>2. After \in SUBSET Nat /\ After # {}
  <2>1. \A i \in Telling : Len(calls) - i \in Nat
    BY <1>1
  <2> QED
    BY <2>1
<1>3. PICK m \in After : \A k \in After : m <= k
  <2> HIDE DEF After
  <2> QED
    BY <1>2, LeastNat
<1>4. PICK i \in Telling : m = Len(calls) - i
  OBVIOUS
<1>5. ASSUME NEW j \in Telling PROVE j <= i
  <2>1. Len(calls) - i <= Len(calls) - j
    BY <1>3, <1>4
  <2>2. i \in Nat /\ j \in Nat /\ Len(calls) \in Nat
    BY <1>1
  <2> QED
    BY <2>1, <2>2
<1> QED
  BY <1>5 DEF Latest

(* So what the attempt is told is the code of that failure, or nothing.     *)
LEMMA LatestFailureIs ==
  ASSUME TypesInv
  PROVE  /\ Telling = {} => LatestFailure = ""
         /\ Telling # {} => \E i \in Telling : Latest(i) /\ LatestFailure = calls[i].code
         /\ \A i \in Telling : Latest(i) => LatestFailure = calls[i].code
<1>1. LatestFailure = IF Telling = {} THEN ""
                      ELSE calls[CHOOSE i \in Telling : \A j \in Telling : j <= i].code
  BY DEF LatestFailure, Telling
<1>2. ASSUME NEW i \in Telling, Latest(i)
      PROVE  i = CHOOSE k \in Telling : \A j \in Telling : j <= k
  <2>1. \A k \in Telling : k \in Nat
    BY Calls DEF Telling
  <2>2. \A k \in Telling : (\A j \in Telling : j <= k) => k = i
    BY <1>2, <2>1 DEF Latest
  <2> QED
    BY <1>2, <2>2 DEF Latest
<1>3. \A i \in Telling : Latest(i) => LatestFailure = calls[i].code
  BY <1>1, <1>2
<1> QED
  BY <1>1, <1>3, LatestExists

(* An escalation has a stagnation before it.                                *)
LEMMA EscalationHasCause ==
  ASSUME TypesInv, Selected # Primary
  PROVE  frozen.mode = "hybrid" /\ \E j \in DOMAIN calls : Stagnated(j)
<1>1. Escalates
  BY DEF Selected
<1>2. LatestFailure = "continuity_recheck_stagnated" /\ frozen.mode = "hybrid"
  BY <1>1 DEF Escalates
<1>3. \E i \in Telling : LatestFailure = calls[i].code
  BY <1>2, LatestFailureIs
<1> QED
  BY <1>2, <1>3 DEF Telling, Stagnated

(* And a stagnation that only interrupted calls follow has an escalation.   *)
LEMMA CauseHasEscalation ==
  ASSUME CallInv, frozen.mode = "hybrid", NEW i \in DOMAIN calls, Stagnated(i),
         \A k \in i + 1 .. Len(calls) : calls[k].code = "interrupted_execution"
  PROVE  Selected = frozen.models.cloud
<1>1. Sound(calls[i])
  BY DEF CallInv, SoundInv
<1>2. calls[i].status = "FAILED" /\ frozen.role = "continuity_supervisor"
  BY <1>1 DEF Sound, Stagnated
<1>3. i \in Telling
  BY <1>2 DEF Telling, Stagnated
<1>4. ASSUME NEW j \in Telling PROVE j <= i
  <2>1. j \in 1 .. Len(calls) /\ i \in 1 .. Len(calls) /\ Len(calls) \in Nat
    BY Calls DEF Telling, CallInv
  <2>2. j \notin i + 1 .. Len(calls)
    BY DEF Telling
  <2> QED
    BY <2>1, <2>2
<1>5. LatestFailure = "continuity_recheck_stagnated"
  BY <1>3, <1>4, LatestFailureIs DEF Latest, Stagnated, CallInv
<1> QED
  BY <1>2, <1>5 DEF Selected, Escalates

(* A call is started with the attempt's model, after every other one has    *)
(* settled.                                                                 *)
LEMMA StartKeepsInv == CallInv /\ StartInvocation => CallInv'
<1> SUFFICES ASSUME CallInv, StartInvocation PROVE CallInv'
  OBVIOUS
<1> USE DEF CallInv
<1>1. trying.pc = "load" /\ frozen' = frozen /\ Primary' = Primary
  BY DEF StartInvocation, Primary
<1>2. /\ Len(calls) \in Nat /\ DOMAIN calls = 1 .. Len(calls)
      /\ \A i \in DOMAIN calls : calls[i] \in CallRecord
  BY Calls
<1>3. /\ trying.execution >= 1 /\ trying.attempt >= 1
      /\ Len(calls) + 1 <= EarlierCalls + trying.attempt
      /\ EarlierCalls \in Int /\ trying.attempt \in 0 .. NodeAttempts /\ NodeAttempts \in Nat
      /\ EarlierCalls + NodeAttempts = NodeAttempts * trying.execution
      /\ NodeAttempts * trying.execution \in Nat /\ trying.execution \in 0 .. MaxExecutions
  BY <1>1, Counted, Trying DEF LengthInv
<1>4. ASSUME NEW pc \in {"done", "idle"}, calls' = calls, trying' = [trying EXCEPT !.pc = pc]
      PROVE  CallInv'
  <2>1. /\ trying' \in Nodes /\ trying'.pc = pc
        /\ trying'.execution = trying.execution /\ trying'.attempt = trying.attempt
    BY <1>4, CallMovesOn
  <2>2. LengthInv'
    <3>1. Len(calls) <= NodeAttempts * trying.execution
      BY <1>2, <1>3
    <3>2. ~ InCall' /\ trying'.pc \in {"idle", "done"} /\ trying'.pc # "load"
      BY <2>1 DEF InCall
    <3> QED
      BY <1>4, <2>1, <3>1, <3>2 DEF LengthInv
  <2>3. OpenInv'
    BY <1>1, <1>4, <2>1 DEF OpenInv, InCall
  <2>4. SoundInv'
    BY <1>1, <1>4, <2>1 DEF SoundInv, Sound
  <2>5. ChargeInv'
    BY <1>1, <1>4, <2>1 DEF ChargeInv, LostCharge
  <2>6. RoutesInv' /\ EscalationSurvivesLoss'
    BY <1>1, <1>4 DEF RoutesInv, Stagnated, EscalationSurvivesLoss
  <2> QED
    BY <1>1, <1>4, <2>1, <2>2, <2>3, <2>4, <2>5, <2>6 DEF TypesInv, PayableInv
<1>5. ASSUME calls' = Append(calls, NewCall(Selected)),
             trying' = [trying EXCEPT !.pc = "generate"]
      PROVE  CallInv'
  <2> DEFINE new == NewCall(Selected)
  <2>1. /\ new \in CallRecord /\ new.selection = Selected /\ new.code = ""
        /\ new.execution = trying.execution /\ new.status = "RUNNING" /\ new.billed = 0
        /\ new.place = "nowhere"
    BY <1>3, Routed DEF NewCall, CallRecord, Codes
  <2>2. calls' = Append(calls, new)
    BY <1>5
  <2> HIDE DEF new
  <2>3. /\ calls' \in Seq(CallRecord) /\ Len(calls') = Len(calls) + 1
        /\ \A i \in 1 .. Len(calls) : calls'[i] = calls[i]
        /\ calls'[Len(calls) + 1] = new
    <3>1. calls \in Seq(CallRecord) /\ new \in CallRecord
      BY <2>1 DEF TypesInv
    <3> QED
      BY <2>2, <3>1, AppendProperties
  <2>4. DOMAIN calls' = 1 .. Len(calls) + 1
    BY <2>3, LenProperties
  <2>5. /\ trying' \in Nodes /\ trying'.pc = "generate"
        /\ trying'.execution = trying.execution /\ trying'.attempt = trying.attempt
    BY <1>5, CallMovesOn
  <2>6. TypesInv'
    BY <1>1, <2>3, <2>5 DEF TypesInv
  <2>7. LengthInv'
    <3>1. EarlierCalls' = EarlierCalls
      BY <2>5 DEF EarlierCalls
    <3>2. trying'.pc \notin {"idle", "done", "load"}
      BY <2>5
    <3> QED
      BY <1>2, <1>3, <2>3, <2>5, <3>1, <3>2 DEF LengthInv
  <2>8. OpenInv'
    <3>1. \A i \in 1 .. Len(calls) : calls[i].status # "RUNNING"
      BY <1>1, <1>2 DEF OpenInv
    <3>2. \A i \in DOMAIN calls' : calls'[i].status = "RUNNING" => i = Len(calls')
      BY <1>2, <2>3, <2>4, <3>1
    <3> QED
      BY <2>1, <2>3, <2>5, <3>2 DEF OpenInv
  <2>9. SoundInv'
    <3>1. Sound(new)
      <4>1. frozen.budget.cost \in Nat /\ trying.execution \in Nat
        BY <1>3, Frozen
      <4>2. 0 <= frozen.budget.cost /\ trying.execution <= trying.execution
        BY <4>1
      <4> QED
        BY <2>1, <4>2, Zenon DEF Sound
    <3>2. \A i \in DOMAIN calls' : Sound(calls'[i])
      BY <1>2, <2>3, <2>4, <3>1 DEF SoundInv
    <3> QED
      BY <1>1, <2>5, <3>2 DEF SoundInv, Sound
  <2>10. PayableInv'
    BY <2>5 DEF PayableInv
  <2>11. ChargeInv'
    <3>1. ASSUME NEW i \in DOMAIN calls', LostCharge(calls'[i])
          PROVE  /\ calls'[i].execution # trying.execution
                 /\ \A j \in i + 1 .. Len(calls) + 1 : calls'[j].execution # calls'[i].execution
      <4>1. i \in DOMAIN calls /\ calls'[i] = calls[i]
        <5>1. i # Len(calls) + 1
          BY <2>1, <2>3, <3>1 DEF LostCharge
        <5>2. i \in 1 .. Len(calls)
          BY <1>2, <2>4, <5>1
        <5> QED
          BY <1>2, <2>3, <5>2
      <4>2. /\ calls[i].execution # trying.execution
            /\ \A j \in i + 1 .. Len(calls) : calls[j].execution # calls[i].execution
        BY <1>1, <3>1, <4>1 DEF ChargeInv
      <4>3. ASSUME NEW j \in i + 1 .. Len(calls) + 1
            PROVE  calls'[j].execution # calls'[i].execution
        <5>1. CASE j = Len(calls) + 1
          BY <2>1, <2>3, <4>1, <4>2, <5>1
        <5>2. CASE j # Len(calls) + 1
          <6>1. i \in 1 .. Len(calls) /\ Len(calls) \in Nat
            BY <1>2, <4>1
          <6>2. j \in i + 1 .. Len(calls) /\ j \in 1 .. Len(calls)
            BY <5>2, <6>1
          <6> QED
            BY <2>3, <4>1, <4>2, <6>2
        <5> QED
          BY <5>1, <5>2
      <4> QED
        BY <4>1, <4>2, <4>3
    <3> QED
      BY <2>3, <2>5, <3>1 DEF ChargeInv, LostCharge
  <2>12. \A j \in DOMAIN calls : Stagnated(j)' <=> Stagnated(j)
    BY <1>2, <2>3 DEF Stagnated
  <2>13. RoutesInv'
    <3>1. ASSUME NEW i \in 1 .. Len(calls)
          PROVE  \/ calls'[i].selection = Primary
                 \/ frozen.mode = "hybrid" /\ \E j \in 1 .. i - 1 : Stagnated(j)'
      <4>1. \A j \in 1 .. i - 1 : j \in DOMAIN calls
        BY <1>2
      <4> QED
        BY <1>2, <2>3, <2>12, <4>1 DEF RoutesInv
    <3>2. \/ calls'[Len(calls) + 1].selection = Primary
          \/ frozen.mode = "hybrid" /\ \E j \in 1 .. Len(calls) : Stagnated(j)'
      BY <1>2, <2>1, <2>3, <2>12, EscalationHasCause
    <3>3. (Len(calls) + 1) - 1 = Len(calls)
      BY <1>2
    <3>4. ASSUME NEW i \in DOMAIN calls'
          PROVE  \/ calls'[i].selection = Primary
                 \/ frozen.mode = "hybrid" /\ \E j \in 1 .. i - 1 : Stagnated(j)'
      <4>1. i \in 1 .. Len(calls) \/ i = Len(calls) + 1
        BY <1>2, <2>4
      <4> QED
        BY <3>1, <3>2, <3>3, <4>1
    <3> QED
      BY <1>1, <3>4 DEF RoutesInv
  <2>14. EscalationSurvivesLoss'
    <3>1. ASSUME NEW i \in DOMAIN calls', NEW j \in DOMAIN calls',
                 i < j, frozen.mode = "hybrid",
                 calls'[i].code = "continuity_recheck_stagnated",
                 \A k \in i + 1 .. j - 1 : calls'[k].code = "interrupted_execution"
          PROVE  calls'[j].selection = frozen.models.cloud
      <4>0. Len(calls) \in Nat
        BY <1>2
      <4>1. i \in 1 .. Len(calls) + 1 /\ j \in 1 .. Len(calls) + 1
        BY <2>4
      <4>2. i \in 1 .. Len(calls)
        BY <3>1, <4>0, <4>1
      <4>3. calls[i].code = "continuity_recheck_stagnated"
        BY <2>3, <3>1, <4>2
      <4>4. ASSUME NEW k \in i + 1 .. j - 1 PROVE calls[k].code = "interrupted_execution"
        <5>1. k \in 1 .. Len(calls)
          BY <4>0, <4>1, <4>2
        <5> QED
          BY <2>3, <3>1, <5>1
      <4>5. CASE j = Len(calls) + 1
        <5>1. j - 1 = Len(calls)
          BY <4>0, <4>5
        <5>2. Selected = frozen.models.cloud
          BY <1>2, <3>1, <4>2, <4>3, <4>4, <5>1, CauseHasEscalation DEF Stagnated
        <5> QED
          BY <2>1, <2>3, <4>5, <5>2
      <4>6. CASE j # Len(calls) + 1
        <5>1. j \in 1 .. Len(calls)
          BY <4>0, <4>1, <4>6
        <5>2. calls[j].selection = frozen.models.cloud
          BY <1>2, <3>1, <4>2, <4>3, <4>4, <5>1 DEF EscalationSurvivesLoss
        <5> QED
          BY <2>3, <5>1, <5>2
      <4> QED
        BY <4>5, <4>6
    <3> QED
      BY <1>1, <3>1 DEF EscalationSurvivesLoss
  <2> QED
    BY <2>6, <2>7, <2>8, <2>9, <2>10, <2>11, <2>13, <2>14
<1> QED
  BY <1>4, <1>5 DEF StartInvocation

-----------------------------------------------------------------------------
(* The executions.                                                          *)

(* Closing what an earlier execution left leaves every other call as it is. *)
LEMMA ClosedCalls ==
  ASSUME TypesInv, ExecuteRun
  PROVE  /\ calls' \in Seq(CallRecord) /\ Len(calls') = Len(calls)
         /\ DOMAIN calls' = DOMAIN calls
         /\ \A i \in DOMAIN calls :
              /\ calls[i].status # "RUNNING" => calls'[i] = calls[i]
              /\ calls'[i].status # "RUNNING"
              /\ calls'[i].code \in {calls[i].code, "interrupted_execution"}
              /\ calls[i].status = "RUNNING" => calls'[i].code = "interrupted_execution"
              /\ calls'[i].selection = calls[i].selection
              /\ calls'[i].execution = calls[i].execution
              /\ calls'[i].over = calls[i].over /\ calls'[i].billed = calls[i].billed
              /\ calls'[i].place = calls[i].place
<1> DEFINE Close(call) == IF call.status = "RUNNING"
                          THEN [call EXCEPT !.status = "FAILED", !.code = "interrupted_execution"]
                          ELSE call
<1>1. /\ DOMAIN calls = 1 .. Len(calls) /\ Len(calls) \in Nat
      /\ \A i \in DOMAIN calls : calls[i] \in CallRecord
  BY Calls
<1>2. ASSUME NEW call \in CallRecord
      PROVE  /\ Close(call) \in CallRecord
             /\ call.status # "RUNNING" => Close(call) = call
             /\ Close(call).status # "RUNNING"
             /\ Close(call).code \in {call.code, "interrupted_execution"}
             /\ call.status = "RUNNING" => Close(call).code = "interrupted_execution"
             /\ Close(call).selection = call.selection /\ Close(call).execution = call.execution
             /\ Close(call).over = call.over /\ Close(call).billed = call.billed
             /\ Close(call).place = call.place
  <2>1. CASE call.status = "RUNNING"
    BY <2>1 DEF CallRecord, Codes
  <2>2. CASE call.status # "RUNNING"
    BY <2>2
  <2> QED
    BY <2>1, <2>2
<1>3. calls' = [i \in DOMAIN calls |-> Close(calls[i])]
  BY DEF ExecuteRun
<1> HIDE DEF Close
<1>4. calls' = [i \in 1 .. Len(calls) |-> calls'[i]]
  BY <1>1, <1>3
<1>5. \A i \in 1 .. Len(calls) : calls'[i] \in CallRecord
  BY <1>1, <1>2, <1>3
<1>6. calls' \in Seq(CallRecord)
  BY <1>1, <1>4, <1>5, IsASeq
<1>7. DOMAIN calls' = DOMAIN calls
  BY <1>3
<1>8. Len(calls') = Len(calls)
  <2>1. DOMAIN calls' = 1 .. Len(calls') /\ Len(calls') \in Nat
    BY <1>6, LenProperties
  <2> QED
    BY <1>1, <1>7, <2>1
<1> QED
  BY <1>1, <1>2, <1>3, <1>6, <1>7, <1>8

(* An execution finds at most one call to close, and no call of its own.    *)
LEMMA ExecuteKeepsInv == CallInv /\ ExecuteRun => CallInv'
<1> SUFFICES ASSUME CallInv, ExecuteRun PROVE CallInv'
  OBVIOUS
<1> USE DEF CallInv
<1>1. /\ trying.pc = "idle" /\ frozen' = frozen /\ Primary' = Primary
      /\ trying.execution < MaxExecutions
      /\ trying' = [pc |-> "load", attempt |-> 1, execution |-> trying.execution + 1,
                    input |-> 0]
  BY DEF ExecuteRun, Primary
<1>2. /\ calls' \in Seq(CallRecord) /\ Len(calls') = Len(calls)
      /\ DOMAIN calls' = DOMAIN calls
      /\ \A i \in DOMAIN calls :
           /\ calls[i].status # "RUNNING" => calls'[i] = calls[i]
           /\ calls'[i].status # "RUNNING"
           /\ calls'[i].code \in {calls[i].code, "interrupted_execution"}
           /\ calls[i].status = "RUNNING" => calls'[i].code = "interrupted_execution"
           /\ calls'[i].selection = calls[i].selection
           /\ calls'[i].execution = calls[i].execution
           /\ calls'[i].over = calls[i].over /\ calls'[i].billed = calls[i].billed
           /\ calls'[i].place = calls[i].place
  BY ClosedCalls
<1>3. /\ Len(calls) \in Nat /\ DOMAIN calls = 1 .. Len(calls)
      /\ \A i \in DOMAIN calls : calls[i] \in CallRecord
  BY Calls
<1>4. /\ NodeAttempts \in Nat /\ NodeAttempts >= 1 /\ MaxExecutions \in Nat
      /\ trying.execution \in 0 .. MaxExecutions
  BY Trying
<1>5. \A i \in DOMAIN calls : calls[i].execution \in Nat /\ calls[i].execution <= trying.execution
  <2>1. \A i \in DOMAIN calls : calls[i].execution \in 0 .. MaxExecutions
    BY <1>3 DEF CallRecord
  <2> QED
    BY <1>4, <2>1 DEF SoundInv, Sound
<1>6. TypesInv'
  <2>1. trying.execution + 1 \in 0 .. MaxExecutions /\ 1 \in 0 .. NodeAttempts
    BY <1>1, <1>4
  <2>2. trying' \in Nodes
    BY <1>1, <2>1 DEF Nodes
  <2> QED
    BY <1>1, <1>2, <2>2 DEF TypesInv
<1>7. LengthInv'
  <2>1. Len(calls) <= NodeAttempts * trying.execution /\ NodeAttempts * trying.execution \in Nat
    BY <1>1, Counted DEF LengthInv
  <2>2. EarlierCalls' = NodeAttempts * trying.execution
    <3>1. (trying.execution + 1) - 1 = trying.execution
      BY <1>4
    <3> QED
      BY <1>1, <3>1 DEF EarlierCalls
  <2>3. /\ trying'.pc = "load" /\ trying'.attempt = 1
        /\ trying'.execution = trying.execution + 1
    BY <1>1
  <2>4. Len(calls) + 1 <= NodeAttempts * trying.execution + 1 /\ trying.execution + 1 >= 1
    BY <1>3, <1>4, <2>1
  <2> QED
    BY <1>2, <2>2, <2>3, <2>4 DEF LengthInv, InCall
<1>8. OpenInv'
  BY <1>1, <1>2 DEF OpenInv, InCall
<1>9. SoundInv'
  <2>1. ASSUME NEW i \in DOMAIN calls
        PROVE  Sound(calls'[i])
    BY <1>2 DEF SoundInv, Sound
  <2>2. \A n \in Nat : n <= trying.execution => n <= trying.execution + 1
    BY <1>4
  <2>3. trying'.execution = trying.execution + 1
    BY <1>1
  <2>4. \A i \in DOMAIN calls : calls'[i].execution <= trying.execution + 1
    BY <1>2, <1>5, <2>2
  <2> QED
    BY <1>1, <1>2, <2>1, <2>3, <2>4 DEF SoundInv, Sound
<1>10. PayableInv'
  BY <1>1 DEF PayableInv
<1>11. ChargeInv'
  <2>1. ASSUME NEW i \in DOMAIN calls, LostCharge(calls'[i])
        PROVE  /\ calls'[i].execution # trying'.execution
               /\ \A j \in i + 1 .. Len(calls) : calls'[j].execution # calls'[i].execution
    <3>1. LostCharge(calls[i])
      BY <1>2, <2>1 DEF LostCharge
    <3>2. calls[i].execution # trying.execution + 1
      BY <1>4, <1>5
    <3>3. \A j \in i + 1 .. Len(calls) : j \in DOMAIN calls
      BY <1>3
    <3> QED
      BY <1>1, <1>2, <3>1, <3>2, <3>3 DEF ChargeInv
  <2> QED
    BY <1>2, <2>1 DEF ChargeInv, LostCharge
<1>12. \A i \in DOMAIN calls : Stagnated(i)' <=> Stagnated(i)
  <2>1. ASSUME NEW i \in DOMAIN calls, Stagnated(i) PROVE calls'[i] = calls[i]
    <3>1. calls[i].status # "RUNNING"
      BY <2>1 DEF SoundInv, Sound, Stagnated
    <3> QED
      BY <1>2, <3>1
  <2> QED
    BY <1>2, <2>1 DEF Stagnated
<1>13. RoutesInv'
  <2>1. \A i \in DOMAIN calls : \A j \in 1 .. i - 1 : j \in DOMAIN calls
    BY <1>3
  <2> QED
    BY <1>1, <1>2, <1>12, <2>1 DEF RoutesInv
<1>14. EscalationSurvivesLoss'
  <2>1. ASSUME NEW i \in DOMAIN calls, NEW j \in DOMAIN calls,
               i < j, frozen.mode = "hybrid",
               calls'[i].code = "continuity_recheck_stagnated",
               \A k \in i + 1 .. j - 1 : calls'[k].code = "interrupted_execution"
        PROVE  calls'[j].selection = frozen.models.cloud
    <3>0. Len(calls) \in Nat
      BY <1>3
    <3>1. i \in 1 .. Len(calls) /\ j \in 1 .. Len(calls)
      BY <1>3
    <3>2. ASSUME NEW k \in i + 1 .. j - 1 PROVE calls[k].code = "interrupted_execution"
      <4>1. k \in 1 .. Len(calls) /\ k # Len(calls)
        BY <3>0, <3>1
      <4>2. calls[k].status # "RUNNING"
        BY <1>3, <4>1 DEF OpenInv
      <4> QED
        BY <1>2, <1>3, <2>1, <4>1, <4>2
    <3>3. calls[i].code = "continuity_recheck_stagnated"
      BY <1>12, <2>1 DEF Stagnated
    <3>4. calls[j].selection = frozen.models.cloud
      BY <2>1, <3>2, <3>3 DEF EscalationSurvivesLoss
    <3> QED
      BY <1>2, <3>4
  <2> QED
    BY <1>1, <1>2, <2>1 DEF EscalationSurvivesLoss
<1> QED
  BY <1>6, <1>7, <1>8, <1>9, <1>10, <1>11, <1>13, <1>14

(* A lost process leaves its call RUNNING.                                  *)
LEMMA LossKeepsInv == CallInv /\ ProcessLost => CallInv'
<1> SUFFICES ASSUME CallInv, ProcessLost PROVE CallInv'
  OBVIOUS
<1> USE DEF CallInv
<1>1. /\ frozen' = frozen /\ calls' = calls
      /\ trying' = [trying EXCEPT !.pc = "idle", !.input = 0]
  BY DEF ProcessLost
<1>2. /\ trying' \in Nodes /\ trying'.pc = "idle"
      /\ trying'.execution = trying.execution
  <2>1. 0 \in InputTokens \cup {0}
    OBVIOUS
  <2> QED
    BY <1>1, <2>1, Moves
<1>3. LengthInv'
  <2>1. /\ Len(calls) \in Nat /\ EarlierCalls \in Int
        /\ trying.attempt \in 0 .. NodeAttempts /\ NodeAttempts \in Nat
        /\ EarlierCalls + NodeAttempts = NodeAttempts * trying.execution
        /\ trying.pc \in {"idle", "load", "generate", "answer", "materialize", "done"}
    BY Calls, Counted, Trying
  <2>2. Len(calls) <= NodeAttempts * trying.execution
    <3>1. CASE trying.pc \in {"idle", "done"}
      BY <3>1 DEF LengthInv
    <3>2. CASE trying.pc \notin {"idle", "done"}
      <4>1. Len(calls) <= EarlierCalls + trying.attempt
        BY <2>1, <3>2 DEF LengthInv, InCall
      <4> QED
        BY <2>1, <4>1
    <3> QED
      BY <3>1, <3>2
  <2> QED
    BY <1>1, <1>2, <2>2 DEF LengthInv, InCall
<1>4. OpenInv' /\ PayableInv' /\ ChargeInv'
  BY <1>1, <1>2 DEF OpenInv, PayableInv, ChargeInv, LostCharge, InCall
<1>5. SoundInv'
  BY <1>1, <1>2 DEF SoundInv, Sound
<1>6. RoutesInv' /\ EscalationSurvivesLoss'
  BY <1>1 DEF RoutesInv, Stagnated, Primary, EscalationSurvivesLoss
<1> QED
  BY <1>1, <1>2, <1>3, <1>4, <1>5, <1>6 DEF TypesInv

-----------------------------------------------------------------------------
(* The invariant.                                                           *)

(* It holds initially.                                                      *)
LEMMA InvInit == CallInit => CallInv
<1> SUFFICES ASSUME CallInit PROVE CallInv
  OBVIOUS
<1>1. /\ calls \in Seq(CallRecord) /\ Len(calls) = 0 /\ DOMAIN calls = {}
      /\ trying.pc = "idle" /\ trying.execution = 0
  BY DEF CallInit
<1>2. TypesInv
  <2>1. 0 \in 0 .. NodeAttempts /\ 0 \in 0 .. MaxExecutions
    BY RatesAssumption
  <2>2. trying \in Nodes
    BY <2>1 DEF CallInit, Nodes
  <2> QED
    BY <1>1, <2>2 DEF CallInit, TypesInv
<1>3. LengthInv
  <2>1. NodeAttempts * 0 = 0
    BY RatesAssumption
  <2> QED
    BY <1>1, <2>1 DEF LengthInv, InCall
<1> QED
  BY <1>1, <1>2, <1>3 DEF CallInv, OpenInv, SoundInv, PayableInv, ChargeInv, RoutesInv, InCall,
     EscalationSurvivesLoss

(* Every step preserves it.                                                 *)
LEMMA InvNext == CallInv /\ [CallNext]_callVars => CallInv'
<1> SUFFICES ASSUME CallInv, [CallNext]_callVars PROVE CallInv'
  OBVIOUS
<1>1. CASE UNCHANGED callVars
  BY <1>1 DEF callVars, CallInv, TypesInv, LengthInv, InCall, EarlierCalls, OpenInv, SoundInv,
     Sound, PayableInv, Reserved, Cost, ChargeInv, LostCharge, RoutesInv, Primary, Stagnated,
     EscalationSurvivesLoss
<1> QED
  BY <1>1, ExecuteKeepsInv, StartKeepsInv, OllamaKeepsInv, OpenAIKeepsInv, AnswerKeepsInv,
     MaterializeKeepsInv, LossKeepsInv, CancelKeepsInv DEF CallNext

(* It is an invariant of the specification.                                 *)
LEMMA InvHolds == CallSpec => []CallInv
  BY InvInit, InvNext, PTL DEF CallSpec

(* Every execution makes at most NodeAttempts calls, whatever fails.        *)
THEOREM CallTypes == CallSpec => []CallTypeOK
<1>1. CallInv => CallTypeOK
  <2> SUFFICES ASSUME CallInv PROVE CallTypeOK
    OBVIOUS
  <2>1. TypesInv /\ LengthInv
    BY DEF CallInv
  <2>2. \A i \in DOMAIN calls :
          /\ calls[i].status \in {"RUNNING", "FAILED", "SUCCEEDED"}
          /\ calls[i].place \in {"nowhere", "device", "cloud"}
          /\ calls[i].billed \in Nat
    BY <2>1, Calls DEF CallRecord
  <2>3. Len(calls) <= NodeAttempts * MaxExecutions
    <3>1. /\ Len(calls) \in Nat /\ EarlierCalls \in Int
          /\ trying.attempt \in 0 .. NodeAttempts /\ NodeAttempts \in Nat
          /\ EarlierCalls + NodeAttempts = NodeAttempts * trying.execution
          /\ NodeAttempts * trying.execution \in Nat
          /\ NodeAttempts * trying.execution <= NodeAttempts * MaxExecutions
          /\ NodeAttempts * MaxExecutions \in Nat
          /\ trying.pc \in {"idle", "load", "generate", "answer", "materialize", "done"}
      BY <2>1, Calls, Counted, Trying
    <3>2. Len(calls) <= NodeAttempts * trying.execution
      <4>1. CASE trying.pc \in {"idle", "done"}
        BY <2>1, <4>1 DEF LengthInv
      <4>2. CASE trying.pc \notin {"idle", "done"}
        <5>1. Len(calls) <= EarlierCalls + trying.attempt
          BY <2>1, <3>1, <4>2 DEF LengthInv, InCall
        <5> QED
          BY <3>1, <5>1
      <4> QED
        BY <4>1, <4>2
    <3> QED
      BY <3>1, <3>2
  <2> QED
    BY <2>1, <2>2, <2>3, Trying DEF CallTypeOK
<1> QED
  BY <1>1, InvHolds, PTL

(* For every rate, budget and number of tokens: a provider that keeps to    *)
(* the request never charges more for a call than its budget, and no        *)
(* execution repeats a call that may have been charged.                     *)
THEOREM ChargesBounded == CallSpec => []ChargesAreBounded
<1>1. CallInv => ChargesAreBounded
  <2> SUFFICES ASSUME CallInv, NEW i \in DOMAIN calls
               PROVE  /\ ~ calls[i].over => calls[i].billed <= frozen.budget.cost
                      /\ calls[i].selection.provider = "openai"
                         /\ calls[i].code = "provider_timeout" =>
                           \A j \in i + 1 .. Len(calls) :
                             calls[j].execution # calls[i].execution
    BY DEF ChargesAreBounded
  <2>1. Sound(calls[i])
    BY DEF CallInv, SoundInv
  <2>2. LostCharge(calls[i]) =>
          \A j \in i + 1 .. Len(calls) : calls[j].execution # calls[i].execution
    BY DEF CallInv, ChargeInv
  <2> QED
    BY <2>1, <2>2 DEF Sound, LostCharge
<1> QED
  BY <1>1, InvHolds, PTL

(* A prompt goes to the cloud only for a role that the preset sends there,  *)
(* or after a stagnation, whatever the models in the slots are called.      *)
THEOREM PromptsStay == CallSpec => []PromptsStayOnDevice
<1>1. CallInv => PromptsStayOnDevice
  <2> SUFFICES ASSUME CallInv, NEW i \in DOMAIN calls, calls[i].place = "cloud"
               PROVE  \/ AssignedDeployment(frozen.mode, frozen.role) = "cloud"
                      \/ /\ frozen.mode = "hybrid"
                         /\ \E j \in 1 .. i - 1 :
                              calls[j].code = "continuity_recheck_stagnated"
    BY DEF PromptsStayOnDevice
  <2>1. calls[i].selection.deployment = "cloud"
    BY DEF CallInv, SoundInv, Sound
  <2>2. CASE calls[i].selection = Primary
    BY <2>1, <2>2, Routed DEF CallInv
  <2>3. CASE frozen.mode = "hybrid" /\ \E j \in 1 .. i - 1 : Stagnated(j)
    BY <2>3 DEF Stagnated
  <2> QED
    BY <2>2, <2>3 DEF CallInv, RoutesInv
<1> QED
  BY <1>1, InvHolds, PTL

(* The call after a stagnation is escalated, however many executions were   *)
(* lost in between.                                                         *)
THEOREM EscalationSurvives == CallSpec => []EscalationSurvivesLoss
<1>1. CallInv => EscalationSurvivesLoss
  BY DEF CallInv
<1> QED
  BY <1>1, InvHolds, PTL
=============================================================================
