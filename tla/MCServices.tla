----------------------------- MODULE MCServices -----------------------------
(***************************************************************************)
(* The services beside the two graphs, one instance of each.  They share no *)
(* state: a behaviour is about the one its `part` names.                    *)
(***************************************************************************)
EXTENDS StoryLife, Campaign, ContinuityRechecks, CriticReviews, StoryBible,
        DialogueRounds

CONSTANTS d1, d2, q1, q2, r1, r2  \* members of Decisions, Requests and Runners

VARIABLE part

(* Three instances of StoryLife: a decision delivered again while it is     *)
(* handled, a fork and an approval of two clients, and decisions in turn.   *)
LifeParts == {"life redelivery", "life rivals", "life rounds"}
LifePart ==
  /\ part \in LifeParts
  /\ LifeNext
  /\ part = "life redelivery" => /\ decision'[d2] = NotSent
                                 /\ decision'[d1].action \in {"none", "approve", "fork"}
  /\ part = "life rivals" =>
       /\ decision'[d1].action \in {"none", "fork"} /\ executor'[q1].dec # d2
       /\ decision'[d2].action \in {"none", "approve"} /\ executor'[q2].dec # d1
  /\ part = "life rounds" =>
       /\ executor'[q2] = Idle
       /\ \A d \in Decisions : decision'[d].about # Story => decision'[d].action # "fork"

(* Two instances of Campaign: the reviews with the batches of one process,  *)
(* and concurrent batches.                                                  *)
CampaignPart ==
  /\ part \in {"campaign reviews", "campaign batches"}
  /\ CampaignNext
  /\ part = "campaign reviews" => runner'[r2].pc = "idle" /\ runner'[r1].cases \subseteq {1, 3}
  /\ part = "campaign batches" => blueprint' = blueprint

MCAlleged == {<<"claim", "a">>, <<"claim", "b">>, <<"rule", "b">>, <<"shortcut", "b">>, <<"turn", "b">>}
MCSelections == {{"said"}, {"done"}}

Audited(outcome, viewpoint, boundary) ==
  [outcome |-> outcome, viewpoint |-> viewpoint, boundary |-> boundary]
MCAudits == {Audited(Met, Met, Met), Audited("a", Met, Met), Audited("b", Met, Met),
             Audited(Met, "a", Met), Audited(Met, Met, "a"), Audited("a", Met, "a"),
             Audited("a", "a", Met)}
MCIssueKinds == {<<"pacing", "major">>, <<"pacing", "blocking">>, <<"length", "major">>,
                 <<"outcome", "major">>}  \* the last is of an assignment category

ServicesTypeOK ==
  /\ LifeTypeOK /\ CampaignTypeOK /\ RecheckTypeOK /\ CriticTypeOK /\ BibleTypeOK
  /\ DialogueTypeOK

servicesVars == <<part, lifeVars, campaignVars, recheckVars, criticVars, bible, dialogueVars>>

ServicesInit ==
  /\ part \in LifeParts \cup {"campaign reviews", "campaign batches", "rechecks", "critic", "bible",
                       "dialogue"}
  /\ LifeInit /\ CampaignInit /\ CriticInit /\ BibleInit /\ DialogueInit
  /\ RecheckInit /\ (part # "rechecks" => prose = Excerpts)

ServicesNext ==
  /\ UNCHANGED part
  /\ \/ LifePart /\ UNCHANGED <<campaignVars, recheckVars, criticVars, bible, dialogueVars>>
     \/ CampaignPart /\ UNCHANGED <<lifeVars, recheckVars, criticVars, bible, dialogueVars>>
     \/ part = "rechecks" /\ RecheckNext /\ UNCHANGED <<lifeVars, campaignVars, criticVars, bible, dialogueVars>>
     \/ part = "critic" /\ CriticNext /\ UNCHANGED <<lifeVars, campaignVars, recheckVars, bible, dialogueVars>>
     \/ part = "bible" /\ BibleNext /\ UNCHANGED <<lifeVars, campaignVars, recheckVars, criticVars, dialogueVars>>
     \/ part = "dialogue" /\ DialogueNext /\ UNCHANGED <<lifeVars, campaignVars, recheckVars, criticVars, bible>>

(* KnowledgeMeansWhatWasSaid and AnswersWithinTheRulesApply, about every    *)
(* answer a specialist may give to apply_story_bible_update in the states   *)
(* of the Story Bible's own part.                                           *)
KnowledgeOfScenes == part = "bible" => KnowledgeMeansWhatWasSaid
RulesOfAnswers == part = "bible" => AnswersWithinTheRulesApply

(* Outside its own parts nothing of StoryLife is ready to run.              *)
ServicesSpec == ServicesInit /\ [][ServicesNext]_servicesVars /\ LifeFairness
=============================================================================
