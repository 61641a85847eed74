---------------------------- MODULE DialogueRounds ----------------------------
(***************************************************************************)
(* The dialogue passes of a production, one after the other: a pass is a    *)
(* subgraph of the production graph, run after the draft of a scene or of   *)
(* its revision when the scene has a dialogue pass.  The director briefs,   *)
(* the two characters speak in turn, and the director's evaluation ends the *)
(* pass or begins the next round.  The subgraph keeps its state in the      *)
(* checkpoint of the production, which the next pass finds.                 *)
(*                                                                          *)
(* A character's turn or an evaluation is the task it was made for.         *)
(***************************************************************************)
EXTENDS Naturals, Sequences

CONSTANTS
  Minimums, Maximums,  \* rounds a scene may be configured with
  MaxPasses            \* bound: passes of the production

ASSUME DialogueAssumption ==
  Minimums \subseteq Nat \ {0} /\ Maximums \subseteq Nat /\ MaxPasses \in Nat

(* DialogueSceneInput: minimum_rounds and maximum_rounds                    *)
Unassigned == <<0, 0>>  \* before the first pass
Assigned == {r \in Minimums \X Maximums : r[1] <= r[2]}

VARIABLES
  node,         \* the node that runs next
  speech,       \* the checkpoint of the dialogue; briefing is the pass it was made in, or 0
  pass,         \* passes begun
  steps         \* super-steps of this pass
dialogueVars == <<node, speech, pass, steps>>

Nothing == "none"
Ended == "director_ended"
Maximum == "maximum_rounds"

minimum_rounds == speech.rounds[1]
maximum_rounds == speech.rounds[2]
max_graph_steps == 1 + 3 * maximum_rounds

ValidTurn(n, character, round) == [pass |-> n, character |-> character, round |-> round]

(* Mutant: the turns of the pass before are kept.                           *)
NewDialogueOnTop(rounds) ==
  [speech EXCEPT !.rounds = rounds, !.current_round = 1, !.evaluations = << >>]
(* initial_dialogue_state, as an update of the checkpoint                   *)
NewDialogue(rounds) ==
  [speech EXCEPT !.rounds = rounds, !.current_round = 1, !.turns = << >>, !.evaluations = << >>]

-----------------------------------------------------------------------------
(* What the specialists may answer, of which a wrong round, character,      *)
(* ending or artifact is one case.                                          *)
Evaluations ==
  {e \in [fits : BOOLEAN, late : BOOLEAN, closure_detected : BOOLEAN, scene_end : BOOLEAN,
          ending_type : {"declared", "undeclared", Nothing}] :
     e.scene_end => e.closure_detected /\ e.late}

(* _validate_evaluation                                                     *)
EvaluationValid(e) ==
  /\ e.fits
  /\ e.ending_type # "undeclared"
  /\ e.scene_end => e.ending_type # Nothing

EndsScene(e) == e.scene_end /\ e.closure_detected /\ e.late

-----------------------------------------------------------------------------
Reached(next) == node' = next /\ steps' = steps + 1
(* DialogueStateError: the node does not run, and a retry finds the same.   *)
StateError == node' = "state_error" /\ UNCHANGED <<speech, pass, steps>>

(* _draft_node                                                              *)
Draft ==
  /\ node = "draft" /\ pass < MaxPasses
  /\ pass' = pass + 1 /\ steps' = 0
  /\ \E rounds \in Assigned : speech' = NewDialogue(rounds)
  /\ node' = "director_briefing"

Brief ==
  /\ node = "director_briefing"
  /\ speech' = [speech EXCEPT !.briefing = pass]
  /\ Reached("character_one") /\ UNCHANGED pass

(* The checkpoint must hold both turns of each earlier round, and this one's. *)
Sequenced(character) ==
  /\ Len(speech.turns) = 2 * (speech.current_round - 1) + character
  /\ Len(speech.evaluations) = speech.current_round - 1

Speak(character, next) ==
  IF speech.briefing # 0 /\ Sequenced(character)
  THEN /\ speech' = [speech EXCEPT !.turns = Append(@, ValidTurn(pass, character, speech.current_round))]
       /\ Reached(next) /\ UNCHANGED pass
  ELSE StateError
CharacterOne == node = "character_one" /\ Speak(0, "character_two")
CharacterTwo == node = "character_two" /\ Speak(1, "director_evaluation")

(* _director_node                                                           *)
Assessed(e) ==
  LET round == speech.current_round
      assessed == [speech EXCEPT !.evaluations = Append(@, ValidTurn(pass, 2, round))]
  IN  IF round >= minimum_rounds /\ EndsScene(e) THEN [assessed EXCEPT !.completion_reason = Ended]
      ELSE IF round >= maximum_rounds THEN [assessed EXCEPT !.completion_reason = Maximum]
      ELSE [assessed EXCEPT !.current_round = round + 1]

Evaluate ==
  /\ node = "director_evaluation"
  /\ IF speech.briefing # 0 /\ Sequenced(2)
     THEN \E e \in {f \in Evaluations : EvaluationValid(f)} :
            /\ speech' = Assessed(e) /\ UNCHANGED pass
            /\ Reached(IF speech'.completion_reason # Nothing  \* _route_after_director
                       THEN "dialogue_integration" ELSE "character_one")
     ELSE StateError

(* An answer the node refuses fails the run, as a call does that is lost or *)
(* fails too often; the retry of the run starts the node again from the     *)
(* checkpoint, so that neither is visible here.                             *)

(* _dialogue_integration_node, after which a review leads to the next draft, *)
(* or to that of the next scene.                                            *)
Integrate ==
  /\ node = "dialogue_integration"
  /\ IF speech.completion_reason # Nothing /\ speech.briefing # 0
     THEN node' = "draft" /\ UNCHANGED <<speech, pass, steps>>
     ELSE StateError

DialogueInit ==
  /\ node = "draft" /\ pass = 0 /\ steps = 0
  /\ speech = [rounds |-> Unassigned, current_round |-> 1, briefing |-> 0, turns |-> << >>,
               evaluations |-> << >>, completion_reason |-> Nothing]

DialogueNext == Draft \/ Brief \/ CharacterOne \/ CharacterTwo \/ Evaluate \/ Integrate

DialogueSpec == DialogueInit /\ [][DialogueNext]_dialogueVars

-----------------------------------------------------------------------------
DialogueTypeOK ==
  /\ node \in {"draft", "director_briefing", "character_one", "character_two",
               "director_evaluation", "dialogue_integration", "state_error"}
  /\ speech.rounds \in Assigned \cup {Unassigned}
  /\ pass \in 0 .. MaxPasses
  /\ speech.completion_reason \in {Nothing, Ended, Maximum}

(* Whatever a pass finds in the checkpoint from an earlier one, its         *)
(* integration is given this pass's briefing and whole rounds only, each    *)
(* of both characters in their order and then the director, and no node     *)
(* refuses the state the others left (the checks of _character_node,        *)
(* _director_node and dialogue_result_from_state never fire); nor does it   *)
(* need more steps than the production's step limit counts for it           *)
(* (DialogueSceneInput.max_graph_steps).                                    *)
IntegratesThisPass ==
  /\ node # "draft" => steps <= max_graph_steps
  /\ node # "state_error"
  /\ node = "dialogue_integration" =>
       /\ speech.briefing = pass
       /\ Len(speech.turns) = 2 * Len(speech.evaluations)
       /\ \A r \in 1 .. Len(speech.evaluations) :
            /\ speech.turns[2 * r - 1] = ValidTurn(pass, 0, r)
            /\ speech.turns[2 * r] = ValidTurn(pass, 1, r)
            /\ speech.evaluations[r] = ValidTurn(pass, 2, r)

(* "The director may end only after the configured minimum round": a pass   *)
(* that is integrated has its minimum of rounds, and all of them when it is *)
(* said to have reached the maximum.                                        *)
MinimumRoundsHeld ==
  node = "dialogue_integration" =>
    /\ Len(speech.evaluations) >= minimum_rounds
    /\ speech.completion_reason = Maximum => Len(speech.evaluations) = maximum_rounds
=============================================================================
