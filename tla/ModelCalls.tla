----------------------------- MODULE ModelCalls -----------------------------
(***************************************************************************)
(* The calls of one production task through the run's frozen preset: the    *)
(* model a role is routed to, the escalation of a continuity re-check that  *)
(* stagnates, the gateways to Ollama and OpenAI with the charges they       *)
(* reserve, and what is recorded of each call when the provider rejects,    *)
(* refuses or loses it, when the service stops in the middle, and when the  *)
(* graph or a later execution tries again.                                  *)
(***************************************************************************)
EXTENDS Integers, Sequences, ModelProfiles

CONSTANTS
  InputRate, CachedRate, OutputRate,  \* charge per token; input with its multiplier
  CallBudgets,      \* call budgets [input, output, cost]
  InputTokens, OutputTokens,  \* tokens a request and a response may have
  NodeAttempts,     \* attempts of a node per execution (the graph's RetryPolicy)
  MaxExecutions     \* bound: executions of the run

ASSUME RatesAssumption ==
  /\ {InputRate, CachedRate, OutputRate} \subseteq Nat /\ CachedRate <= InputRate
  /\ InputTokens \subseteq Nat /\ OutputTokens \subseteq Nat
  /\ CallBudgets \subseteq [input : Nat, output : Nat, cost : Nat]
  /\ NodeAttempts \in Nat \ {0} /\ MaxExecutions \in Nat

VARIABLES
  frozen,  \* the run's preset and call budget, and the role of the task
  calls,   \* the invocations of the task
  trying   \* the node: where it is, its attempt, the execution it is in, and the
           \* counted input of its request

callVars == <<frozen, calls, trying>>

Primary == SelectionFor(frozen.mode, frozen.models, frozen.role)

-----------------------------------------------------------------------------
(* The invocations.                                                         *)

(* billed is what the provider charges and over that it exceeded what was   *)
(* asked for, known to the application or not; place is where the prompt    *)
(* has been sent.                                                           *)
NewCall(selection) ==
  [selection |-> selection, status |-> "RUNNING", code |-> "", place |-> "nowhere",
   billed |-> 0, over |-> FALSE, execution |-> trying.execution]
Current == calls[Len(calls)]
Update(call) == calls' = [calls EXCEPT ![Len(calls)] = call]

(* Mutant: an interrupted call counts as the latest failure.                *)
LatestFailureOfAnyKind ==
  LET failures == {i \in DOMAIN calls : calls[i].status = "FAILED"}
  IN  IF failures = {} THEN "" ELSE calls[CHOOSE i \in failures : \A j \in failures : j <= i].code

(* _retry_context: the latest failure that says something about the model.  *)
LatestFailure ==
  LET failures == {i \in DOMAIN calls : /\ calls[i].status = "FAILED"
                                        /\ calls[i].code # "interrupted_execution"}
  IN  IF failures = {} THEN "" ELSE calls[CHOOSE i \in failures : \A j \in failures : j <= i].code

Escalates ==
  /\ frozen.role = "continuity_supervisor" /\ frozen.mode = "hybrid"
  /\ LatestFailure = "continuity_recheck_stagnated"
Selected == IF Escalates THEN frozen.models.cloud ELSE Primary

(* The schema goes with the request when the gateway can enforce it.        *)
SchemaEnforcedByProvider(selection) == selection.provider = "openai"
SchemaEnforced(selection) == selection.deployment = "local" \/ selection.provider = "openai"

(* What the Ollama gateway makes of a model's name (_deployment_for).       *)
NamedDeployment(selection) == IF selection.tag = "cloud" THEN "cloud" ELSE "local"

Settle(call, code, retryable) ==
  /\ Update([call EXCEPT !.status = "FAILED", !.code = code])
  /\ trying' = IF retryable /\ trying.attempt < NodeAttempts
               THEN [trying EXCEPT !.pc = "load", !.attempt = @ + 1, !.input = 0]
               ELSE [trying EXCEPT !.pc = "idle", !.input = 0]

-----------------------------------------------------------------------------
(* The worker executes the run, also again after a failure, a shutdown or a *)
(* crash; calls found RUNNING are closed first.                             *)
ExecuteRun ==
  /\ trying.pc = "idle" /\ trying.execution < MaxExecutions
  /\ calls' = [i \in DOMAIN calls |->
                 IF calls[i].status = "RUNNING"
                 THEN [calls[i] EXCEPT !.status = "FAILED", !.code = "interrupted_execution"]
                 ELSE calls[i]]
  /\ trying' = [pc |-> "load", attempt |-> 1, execution |-> trying.execution + 1, input |-> 0]
  /\ UNCHANGED frozen

Supports(selection) == selection.provider \in {"ollama", "openai"}

(* _load_execution and _replay; then _start_invocation, unless no gateway   *)
(* is configured for the selection.                                         *)
StartInvocation ==
  /\ trying.pc = "load"
  /\ \/ /\ \E i \in DOMAIN calls : calls[i].status = "SUCCEEDED"
        /\ trying' = [trying EXCEPT !.pc = "done"]
        /\ UNCHANGED calls
     \/ /\ \A i \in DOMAIN calls : calls[i].status # "SUCCEEDED"
        /\ IF Supports(Selected)
           THEN /\ calls' = Append(calls, NewCall(Selected))
                /\ trying' = [trying EXCEPT !.pc = "generate"]
           ELSE /\ trying' = [trying EXCEPT !.pc = "idle"]
                /\ UNCHANGED calls
  /\ UNCHANGED frozen

Sent(place) == Update([Current EXCEPT !.place = place])

OllamaGenerate ==
  /\ trying.pc = "generate" /\ Current.selection.provider = "ollama"
  /\ IF SchemaEnforced(Current.selection) /\ NamedDeployment(Current.selection) = "cloud"
     THEN Settle(Current, "unsupported_capability", FALSE)
     ELSE /\ Sent(IF NamedDeployment(Current.selection) = "cloud" THEN "cloud" ELSE "device")
          /\ trying' = [trying EXCEPT !.pc = "answer"]
  /\ UNCHANGED frozen

Cost(input, output, cached) ==
  (input - cached) * InputRate + cached * CachedRate + output * OutputRate

(* Mutant: reserves the input at the price of cached input.                 *)
ReservedCheaply(input) == Cost(input, frozen.budget.output, input)
Reserved(input) == Cost(input, frozen.budget.output, 0)

(* The prompt goes out to be counted, and the answer is asked for only when *)
(* the largest one that is allowed can be paid.                             *)
OpenAICount ==
  /\ trying.pc = "generate" /\ Current.selection.provider = "openai"
  /\ IF Cost(0, frozen.budget.output, 0) > frozen.budget.cost
     THEN Settle(Current, "budget_exceeded", FALSE)
     ELSE LET sent == [Current EXCEPT !.place = "cloud"]
          IN  \/ Settle(sent, "rate_limited", TRUE)
              \/ Settle(sent, "provider_unavailable", FALSE)
              \/ \E input \in InputTokens :
                   IF input > frozen.budget.input \/ Reserved(input) > frozen.budget.cost
                   THEN Settle(sent, "budget_exceeded", FALSE)
                   ELSE /\ Update(sent)
                        /\ trying' = [trying EXCEPT !.pc = "answer", !.input = input]
  /\ UNCHANGED frozen

(* What the provider does with the request; OpenAI charges for an answer    *)
(* that is refused, cut off or lost as well.  A lost connection is one with *)
(* a timeout, an answer that cannot be read with a refused one.             *)
Charged(call, output, cached) ==
  [call EXCEPT !.billed = Cost(trying.input, output, cached),
               !.over = output > frozen.budget.output]
Answered(call) ==
  IF call.selection.provider = "openai"
  THEN {Charged(call, output, cached) :
          output \in OutputTokens, cached \in {0, trying.input}}
  ELSE {[call EXCEPT !.over = over] : over \in BOOLEAN}

Repeats(selection) == selection.provider = "ollama"

Answer ==
  /\ trying.pc = "answer"
  /\ \/ Settle(Current, "rate_limited", TRUE)
     \/ \E call \in Answered(Current) :
          \/ Settle(call, "provider_timeout", Repeats(call.selection))
          \/ Settle(call, "refusal", FALSE)
          \/ call.over /\ Settle(call, "budget_exceeded", FALSE)
          \/ /\ ~ call.over
             /\ Update(call)
             /\ trying' = [trying EXCEPT !.pc = "materialize", !.input = 0]
  /\ UNCHANGED frozen

(* _require_matching_response, then what the output is worth.  Only a re-   *)
(* check of continuity can stagnate.                                        *)
RespondingDeployment(selection) ==
  IF selection.provider = "ollama" THEN NamedDeployment(selection) ELSE "cloud"
Materialize ==
  /\ trying.pc = "materialize"
  /\ IF RespondingDeployment(Current.selection) # Current.selection.deployment
     THEN Settle(Current, "production_contract_failed", FALSE)
     ELSE \/ /\ Update([Current EXCEPT !.status = "SUCCEEDED"])
             /\ trying' = [trying EXCEPT !.pc = "done"]
          \/ Settle(Current, "schema_validation_failed", TRUE)
          \/ /\ frozen.role = "continuity_supervisor"
             /\ Settle(Current, "continuity_recheck_stagnated", TRUE)
  /\ UNCHANGED frozen

(* The process dies; or it is shut down, which closes the call of this      *)
(* execution as failed.                                                     *)
InCall == trying.pc \in {"generate", "answer", "materialize"}
ProcessLost ==
  /\ trying.pc # "idle"
  /\ trying' = [trying EXCEPT !.pc = "idle", !.input = 0]
  /\ UNCHANGED <<frozen, calls>>
Cancel ==
  /\ InCall
  /\ \E call \in IF trying.pc = "answer" THEN Answered(Current) \cup {Current} ELSE {Current} :
       Settle(call, "cancelled_execution", FALSE)
  /\ UNCHANGED frozen

CallInit ==
  /\ frozen \in [mode : Modes, models : ModelSlots, role : Roles, budget : CallBudgets]
  /\ IsComplete(frozen.mode, frozen.models)
  /\ calls = << >>
  /\ trying = [pc |-> "idle", attempt |-> 0, execution |-> 0, input |-> 0]

CallNext ==
  \/ ExecuteRun \/ StartInvocation
  \/ OllamaGenerate \/ OpenAICount \/ Answer \/ Materialize
  \/ ProcessLost \/ Cancel

CallSpec == CallInit /\ [][CallNext]_callVars

-----------------------------------------------------------------------------
CallTypeOK ==
  /\ trying.pc \in {"idle", "load", "generate", "answer", "materialize", "done"}
  /\ trying.attempt \in 0 .. NodeAttempts /\ trying.execution \in 0 .. MaxExecutions
  /\ trying.input \in InputTokens \cup {0}
  /\ Len(calls) <= NodeAttempts * MaxExecutions
  /\ \A i \in DOMAIN calls :
       /\ calls[i].status \in {"RUNNING", "FAILED", "SUCCEEDED"}
       /\ calls[i].place \in {"nowhere", "device", "cloud"}
       /\ calls[i].billed \in Nat

(* A provider that keeps to the request never charges more for a call than  *)
(* its budget, answered or not; and a charge that may have been made is not *)
(* repeated by the graph's own retries (OpenAIGateway._generate).           *)
ChargesAreBounded ==
  \A i \in DOMAIN calls :
    /\ ~ calls[i].over => calls[i].billed <= frozen.budget.cost
    /\ calls[i].selection.provider = "openai" /\ calls[i].code = "provider_timeout" =>
         \A j \in i + 1 .. Len(calls) : calls[j].execution # calls[i].execution

(* A prompt leaves the device only for a role that the preset sends to the  *)
(* cloud, or as the escalation of a stagnated re-check: a cloud model named *)
(* in the local slot, a retry or a recovery sends nothing.                  *)
PromptsStayOnDevice ==
  \A i \in DOMAIN calls : calls[i].place = "cloud" =>
    \/ AssignedDeployment(frozen.mode, frozen.role) = "cloud"
    \/ /\ frozen.mode = "hybrid"
       /\ \E j \in 1 .. i - 1 : calls[j].code = "continuity_recheck_stagnated"

(* A process loss after a stagnation does not lose the escalation           *)
(* (_retry_context leaves interrupted calls out; a call that a shutdown     *)
(* closed counts).                                                          *)
EscalationSurvivesLoss ==
  \A i, j \in DOMAIN calls :
    /\ i < j /\ frozen.mode = "hybrid"
    /\ calls[i].code = "continuity_recheck_stagnated"
    /\ \A k \in i + 1 .. j - 1 : calls[k].code = "interrupted_execution"
    => calls[j].selection = frozen.models.cloud
=============================================================================
