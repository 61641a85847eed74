---------------------------- MODULE ModelPresets ----------------------------
(***************************************************************************)
(* The store of the three presets under concurrent requests of the settings *)
(* page, and the worker that freezes the default preset into a story before *)
(* its first execution.  A SELECT before the first write of a transaction   *)
(* takes no lock in SQLite as the service uses it, so what it reads may be  *)
(* stale when the transaction writes.                                       *)
(***************************************************************************)
EXTENDS Integers, ModelProfiles

CONSTANTS
  Editors,     \* concurrent requests of the settings page
  MaxRequests  \* bound: requests that configure or activate

ASSUME PresetAssumption == MaxRequests \in Nat

VARIABLES
  rows,      \* [Modes -> the preset's row]: whether it exists, its models, is_default
  editor,    \* [Editors -> the request being served, and the row it has read]
  requests,  \* requests made
  brief      \* the story: what the worker has read for it, its frozen preset, and
             \* whether it is known to be waiting for one

presetVars == <<rows, editor, requests, brief>>

EmptySlots == [local |-> NoModel, cloud |-> NoModel]
EditedSlots ==
  {[local |-> l, cloud |-> c] : l \in {NoModel, Served("ollama", "local", "")},
                                c \in {NoModel, Served("openai", "cloud", "")}}
BuiltIn == [exists |-> TRUE, models |-> EmptySlots, isDefault |-> FALSE]
Unread == [mode |-> "", models |-> EmptySlots]
Serving == [pc |-> "idle", kind |-> "", mode |-> "local", models |-> EmptySlots, seen |-> BuiltIn]

-----------------------------------------------------------------------------
(* The requests: listModelProfiles, configureModelProfile,                  *)
(* activateModelProfile.                                                    *)
Ask(e) ==
  /\ editor[e].pc = "idle"
  /\ \/ /\ editor' = [editor EXCEPT ![e].pc = "ensure", ![e].kind = "list"]
        /\ \E m \in Modes : ~ rows[m].exists  \* a list of what is there changes nothing
        /\ UNCHANGED requests
     \/ /\ requests < MaxRequests /\ requests' = requests + 1
        /\ \E kind \in {"configure", "activate"}, m \in Modes, models \in EditedSlots :
             /\ kind = "activate" => models = EmptySlots
             /\ editor' = [editor EXCEPT ![e] = [Serving EXCEPT !.pc = "ensure", !.kind = kind,
                                                   !.mode = m, !.models = models]]
  /\ UNCHANGED <<rows, brief>>

(* What a transaction writes to the rows, given the row it has read.  Equal *)
(* values are not written.                                                  *)
Configured(table, mode, models, seen) ==
  [table EXCEPT ![mode].models = IF models = seen.models THEN @ ELSE models,
                ![mode].isDefault = @ /\ ~ (seen.isDefault /\ ~ IsComplete(mode, models))]

Activated(table, mode) == [m \in Modes |-> [table[m] EXCEPT !.isDefault = m = mode]]

Written(table, e, seen) ==
  CASE editor[e].kind = "list"      -> table
    [] editor[e].kind = "configure" -> Configured(table, editor[e].mode, editor[e].models, seen)
    [] editor[e].kind = "activate"  -> Activated(table, editor[e].mode)
ActivationRefused(e, seen) == editor[e].kind = "activate" /\ ~ IsComplete(editor[e].mode, seen.models)

(* _ensure_builtin_profiles: reads which presets exist.                     *)
Ensure(e) ==
  /\ editor[e].pc = "ensure"
  /\ editor' = [editor EXCEPT ![e].pc =
                  IF \E m \in Modes : ~ rows[m].exists THEN "insert"
                  ELSE IF editor[e].kind = "list" THEN "idle" ELSE "read"]
  /\ UNCHANGED <<rows, requests, brief>>

(* It inserts them, which takes the write lock for the rest; the request    *)
(* fails if another has inserted them, and a refusal takes them back.       *)
Seed(e) ==
  /\ editor[e].pc = "insert"
  /\ editor' = [editor EXCEPT ![e] = Serving]
  /\ rows' = IF ActivationRefused(e, BuiltIn) \/ \E m \in Modes : rows[m].exists THEN rows
             ELSE Written([m \in Modes |-> BuiltIn], e, BuiltIn)
  /\ UNCHANGED <<requests, brief>>

ReadPreset(e) ==
  /\ editor[e].pc = "read"
  /\ LET seen == rows[editor[e].mode]
     IN  editor' = [editor EXCEPT ![e] =
                      IF ActivationRefused(e, seen) THEN Serving
                      ELSE [editor[e] EXCEPT !.pc = "write", !.seen = seen]]
  /\ UNCHANGED <<rows, requests, brief>>

WritePreset(e) ==
  /\ editor[e].pc = "write"
  /\ rows' = Written(rows, e, editor[e].seen)
  /\ editor' = [editor EXCEPT ![e] = Serving]
  /\ UNCHANGED <<requests, brief>>

(* The service stops in the middle of a request.                            *)
RequestLost(e) ==
  /\ editor[e].pc # "idle"
  /\ editor' = [editor EXCEPT ![e] = Serving]
  /\ UNCHANGED <<rows, requests, brief>>

-----------------------------------------------------------------------------
(* The worker (_freeze_interactive_inputs): it looks for the default        *)
(* preset, and freezes what it has read in a later write.                   *)
Defaults == {m \in Modes : rows[m].isDefault}

(* Mutant: a default preset is taken to be complete.                        *)
FreezableUnchecked(mode) == TRUE
Freezable(mode) == IsComplete(mode, rows[mode].models)

LookForDefault ==
  /\ brief.pc = "pending"
  /\ \/ /\ Defaults = {}
        /\ brief' = [brief EXCEPT !.waiting = TRUE]
     \/ \E m \in Defaults :
          brief' = IF Freezable(m)
                   THEN [brief EXCEPT !.pc = "freeze",
                                      !.read = [mode |-> m, models |-> rows[m].models]]
                   ELSE [brief EXCEPT !.waiting = TRUE]
  /\ UNCHANGED <<rows, editor, requests>>

Freeze ==
  /\ brief.pc = "freeze"
  /\ brief' = [brief EXCEPT !.pc = "frozen"]
  /\ UNCHANGED <<rows, editor, requests>>

(* The worker stops before it has written.                                  *)
WorkerStops ==
  /\ brief.pc = "freeze"
  /\ brief' = [brief EXCEPT !.pc = "pending", !.read = Unread]
  /\ UNCHANGED <<rows, editor, requests>>

PresetInit ==
  /\ rows = [m \in Modes |-> [BuiltIn EXCEPT !.exists = FALSE]]
  /\ editor = [e \in Editors |-> Serving]
  /\ requests = 0
  /\ brief = [pc |-> "pending", read |-> Unread, waiting |-> FALSE]

PresetNext ==
  \/ \E e \in Editors : Ask(e) \/ Ensure(e) \/ Seed(e) \/ ReadPreset(e) \/ WritePreset(e)
                          \/ RequestLost(e)
  \/ LookForDefault \/ Freeze \/ WorkerStops

PresetSpec == PresetInit /\ [][PresetNext]_presetVars

-----------------------------------------------------------------------------
PresetTypeOK ==
  /\ \A m \in Modes : rows[m].models \in EditedSlots /\ rows[m].isDefault \in BOOLEAN
  /\ \A e \in Editors : editor[e].pc \in {"idle", "ensure", "insert", "read", "write"}
  /\ requests \in 0 .. MaxRequests
  /\ brief.pc \in {"pending", "freeze", "frozen"}

(* Whatever requests interleave, the preset the worker takes for a story is *)
(* the only default there is, and complete: never one of two, nor the       *)
(* incomplete default that an activation leaves behind when the preset is   *)
(* emptied between its check and its write.                                 *)
StoriesRunTheDefault ==
  [][brief'.read # brief.read /\ brief'.read # Unread =>
       /\ Defaults = {brief'.read.mode}
       /\ IsComplete(brief'.read.mode, brief'.read.models)]_presetVars
=============================================================================
