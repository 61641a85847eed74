-------------------------- MODULE MCSceneProduction --------------------------
(***************************************************************************)
(* Instances for TLC of SceneProduction and of what every production rests  *)
(* on: the calls of one of its tasks, the evidence its writers are handed,  *)
(* the store its preset is frozen from, and the event log.  They share no   *)
(* state: a behaviour is about the one its `part` names.                    *)
(***************************************************************************)
EXTENDS SceneProduction, ModelCalls, WriterHandoff, ModelPresets, EventLog

(* Two instances: every review of two units without losses and with a       *)
(* dialogue pass of one step, and losses in the first unit, whose second    *)
(* unit passes its reviews.                                                 *)
VARIABLE part

ReviewsPart ==
  /\ part = "reviews"
  /\ losses' = 0
  /\ cp'.steps <= cp.steps + 1

LossesPart ==
  /\ part = "losses"
  /\ cp.unit = 2 => losses' = losses /\ status' # "failed"
  /\ cp.unit = 2 /\ outputs' # outputs => Last(outputs', 1)[1].verdict \in {"pass", "clear", "done"}

(* A local and a cloud preset with every model a slot may hold, and hybrid  *)
(* ones for the role that may escalate.                                     *)
Preset(mode, local, cloud, role) ==
  [mode |-> mode, models |-> [local |-> local, cloud |-> cloud], role |-> role,
   budget |-> CHOOSE b \in CallBudgets : TRUE]
MCCallBudgets == {[input |-> 2, output |-> 1, cost |-> 5]}
OpenAIModel == Served("openai", "cloud", "")
AnyPreset == Preset("cloud", NoModel, OpenAIModel, "scene_writer")
MCPresets ==
  {Preset("local", m, NoModel, "continuity_supervisor") : m \in LocalModels}
    \cup {Preset("cloud", NoModel, m, "scene_writer") : m \in CloudModels}
    \cup {Preset("hybrid", Served("ollama", "local", ""), m, "continuity_supervisor") :
            m \in {OpenAIModel, Served("ollama", "cloud", "cloud")}}

(* Editors of the presets who leave the cloud preset alone.                 *)
PresetPart ==
  /\ part = "presets"
  /\ PresetNext
  /\ \A e \in Editors : editor'[e].mode # "cloud"

(* What a critic's record may hold: an omission of each kind, a packet of   *)
(* one requirement or of both.                                              *)
HandoffChecks(outcome) == [r \in Assigned |-> IF r = "turning_point" THEN "met" ELSE outcome]
MCHandoffAudits ==
  {Audit({fault}, HandoffChecks("met"), FALSE) : fault \in {"missing_creator", "stale_audit"}}
    \cup {Audit({}, HandoffChecks(check), FALSE) : check \in Checks}
    \cup {Audit({}, [r \in Assigned |-> "unmet"], FALSE), Audit({}, HandoffChecks("met"), TRUE)}
SomeAudit == Audit({}, HandoffChecks("met"), FALSE)

besideVars == <<callVars, presetVars, logVars, handoffVars>>

PartsInit ==
  /\ Init /\ part \in {"reviews", "losses", "calls", "writers", "presets", "events"}
  /\ frozen \in IF part = "calls" THEN MCPresets ELSE {AnyPreset}
  /\ CallInit /\ PresetInit
  /\ HandoffInit /\ audit \in IF part = "writers" THEN MCHandoffAudits ELSE {SomeAudit}
  /\ LogInit /\ follower = [f \in Followers |-> FollowerOf("a")]  \* the other run is beside it

PartsNext ==
  /\ UNCHANGED part
  /\ \/ Next /\ (ReviewsPart \/ LossesPart) /\ UNCHANGED besideVars
     \/ part = "calls" /\ CallNext /\ UNCHANGED <<vars, presetVars, logVars, handoffVars>>
     \/ part = "writers" /\ HandoffNext /\ UNCHANGED <<vars, callVars, presetVars, logVars>>
     \/ PresetPart /\ UNCHANGED <<vars, callVars, logVars, handoffVars>>
     \/ part = "events" /\ LogNext /\ UNCHANGED <<vars, callVars, presetVars, handoffVars>>

(* A production goes on in its own parts only.                              *)
PartsSpec ==
  /\ PartsInit /\ [][PartsNext]_<<part, vars, besideVars>>
  /\ WF_vars(part \in {"reviews", "losses"} /\ (Call \/ NodeUpdate \/ Complete))

PartsTypeOK == TypeOK /\ CallTypeOK /\ HandoffTypeOK /\ PresetTypeOK /\ LogTypeOK
ScenesEnd == part \in {"reviews", "losses"} => ProductionEnds
=============================================================================
