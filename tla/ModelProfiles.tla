---------------------------- MODULE ModelProfiles ----------------------------
(***************************************************************************)
(* The three model presets: which deployment each gives a role, which model *)
(* slots it needs, and the model a role runs on.                            *)
(***************************************************************************)

NoModel == [provider |-> "", deployment |-> "", tag |-> ""]
Served(provider, deployment, tag) ==
  [provider |-> provider, deployment |-> deployment, tag |-> tag]
(* An Ollama name may carry the -cloud tag whatever slot it was put into;   *)
(* a slot accepts a provider nobody has a gateway for.                      *)
LocalModels == {Served("ollama", "local", tag) : tag \in {"", "cloud"}}
CloudModels == {Served("ollama", "cloud", tag) : tag \in {"", "cloud"}}
                 \cup {Served("openai", "cloud", ""), Served("unknown", "cloud", "")}

Modes == {"local", "cloud", "hybrid"}
Roles == {"scene_writer", "continuity_supervisor"}
AssignedDeployment(mode, role) ==
  IF mode # "hybrid" THEN mode
  ELSE IF role = "scene_writer" THEN "cloud" ELSE "local"

RequiredDeployments(mode) == {AssignedDeployment(mode, role) : role \in Roles}
IsComplete(mode, models) == \A d \in RequiredDeployments(mode) : models[d] # NoModel
SelectionFor(mode, models, role) == models[AssignedDeployment(mode, role)]

ModelSlots == {[local |-> l, cloud |-> c] : l \in LocalModels \cup {NoModel},
                                            c \in CloudModels \cup {NoModel}}
=============================================================================
