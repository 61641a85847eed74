------------------------------ MODULE StoryBible ------------------------------
(***************************************************************************)
(* The Story Bible of a production, scene after scene.  For each accepted   *)
(* scene a specialist answers with a delta: facts, what characters now      *)
(* know, changes of story threads, prohibited contradictions.  The          *)
(* application attaches identity and lineage to the delta, and the reducer  *)
(* applies it or refuses it; a refused answer is asked for again.           *)
(*                                                                          *)
(* An identifier or a text is written with or without white space around    *)
(* it, which only the schema strips.  Relationship and location states are  *)
(* handled as the states of characters, and left out.                       *)
(***************************************************************************)
EXTENDS Naturals, Sequences, Functions
Seqs == INSTANCE SequencesExt

CONSTANTS
  Characters,   \* of the Blueprint
  Stranger,     \* a name no character of the Blueprint has
  ThreadIds,
  Statements,        \* what a fact, a thread or its resolution says
  Prohibitions,
  MaxScenes,    \* scenes of the production
  MaxDelta      \* bound: entries of one kind in an answer

ASSUME BibleAssumption ==
  /\ Stranger \notin Characters
  /\ MaxScenes \in Nat \ {0} /\ MaxDelta \in Nat

VARIABLE bible  \* the canonical snapshot

Open == "open"
Resolved == "resolved"
Unsaid == "unsaid"   \* no resolution given
Number == Len(bible.scenes) + 1

(* A fact is known by its scene and its place in it; a specialist declares  *)
(* it under a name of its own, which may be the identifier of another one.  *)
FactIds(facts) == {facts[k].id : k \in DOMAIN facts}
Provisional == <<0, 1>>
Names == {Provisional} \cup {<<n, 1>> : n \in 1 .. Number} \cup {<<Number, MaxDelta>>}

-----------------------------------------------------------------------------
(* The answer, with the application's identity and lineage.                 *)

Declaring(answer, name) == {k \in DOMAIN answer.facts : answer.facts[k].name = name}
LastDeclaring(answer, name) ==
  CHOOSE k \in Declaring(answer, name) : \A j \in Declaring(answer, name) : j <= k
(* Mutant: one renaming after the other.                                    *)
KnownAsInTurn(answer, name) ==
  Seqs!FoldLeftDomain(LAMBDA id, k : IF answer.facts[k].name = id THEN <<Number, k>> ELSE id,
                      name, answer.facts)
(* _materialize_character_state: all facts of the answer are renamed at     *)
(* once, and a name declared twice is the last fact's.                      *)
KnownAs(answer, name) ==
  IF Declaring(answer, name) = {} THEN name ELSE <<Number, LastDeclaring(answer, name)>>

ThreadsWith(id) == {t \in bible.threads : t.id = id}
(* The thread a change is compared with, its identifier as it is written.   *)
Existing(change) == IF change.padded THEN {} ELSE ThreadsWith(change.id)
Echoes(change) == \E t \in Existing(change) : t.status = Resolved

(* _materialize_thread_change: what it refuses.                             *)
ThreadContract(change) ==
  /\ Echoes(change) => \A t \in Existing(change) :
       change.status = Resolved /\ change.resolution = t.resolution
  /\ (change.status = Resolved) = (change.resolution # Unsaid)

Materialised(change) ==
  LET origin == IF Existing(change) = {} THEN [says |-> change.says, introduced |-> Number]
                ELSE LET t == CHOOSE t \in Existing(change) : TRUE
                     IN  [says |-> t.says, introduced |-> t.introduced]
  IN  [id |-> change.id, says |-> origin.says, introduced |-> origin.introduced,
       status |-> change.status, resolution |-> change.resolution,
       resolved |-> IF change.status = Open THEN 0
                    ELSE IF Echoes(change) THEN (CHOOSE t \in Existing(change) : TRUE).resolved
                    ELSE Number]

(* Mutant: a resolved thread that is repeated unchanged stays in the delta. *)
MaterialisedWithEchoes(changes) == [k \in DOMAIN changes |-> Materialised(changes[k])]
(* _materialize_thread_changes: the repetition of a resolved thread is      *)
(* left out.                                                                *)
MaterialisedThreads(changes) ==
  [k \in {j \in DOMAIN changes : ~ Echoes(changes[j])} |-> Materialised(changes[k])]

(* _new_prohibitions: compared as they are written, each is kept once.      *)
NewProhibitions(written) ==
  {k \in DOMAIN written : /\ \A j \in DOMAIN written : j < k => written[j] # written[k]
                          /\ ~ written[k].padded => written[k].text \notin bible.prohibitions}

Materialisable(answer) ==
  /\ \A k \in DOMAIN answer.threads : ThreadContract(answer.threads[k])
  /\ \A j, k \in DOMAIN answer.threads :
       j # k => \/ answer.threads[j].id # answer.threads[k].id
                \/ answer.threads[j].padded # answer.threads[k].padded

(* _materialize_output_data_unchecked, and the white space stripped.        *)
UpdateOf(answer) ==
  [facts |-> [k \in DOMAIN answer.facts |-> [id |-> <<Number, k>>, says |-> answer.facts[k].says]],
   states |-> [k \in DOMAIN answer.states |->
                 [character |-> answer.states[k].character, updated |-> Number,
                  knows |-> {KnownAs(answer, name) : name \in answer.states[k].knows}]],
   threads |-> MaterialisedThreads(answer.threads),
   prohibitions |-> [k \in NewProhibitions(answer.prohibitions) |-> answer.prohibitions[k].text]]

(* updates_must_be_tied_to_accepted_scene                                   *)
UpdateValid(update) == \A t \in Range(update.threads) : t.resolved \in {0, Number}

-----------------------------------------------------------------------------
(* The reducer.                                                             *)

(* Mutant: the identity of an existing thread is not compared.              *)
ThreadAppliesUnidentified(thread) ==
  \A t \in ThreadsWith(thread.id) :
    t.status = Resolved =>
      /\ thread.status = Resolved
      /\ thread.resolved = t.resolved /\ thread.resolution = t.resolution
ThreadApplies(thread) ==
  \A t \in ThreadsWith(thread.id) :
    /\ thread.says = t.says /\ thread.introduced = t.introduced
    /\ t.status = Resolved =>
         /\ thread.status = Resolved
         /\ thread.resolved = t.resolved /\ thread.resolution = t.resolution

EachOnce(records, key) ==
  \A j, k \in DOMAIN records : records[j][key] = records[k][key] => j = k

(* _require_known_ids, _upsert and the validation of the snapshot.          *)
Applies(update) ==
  LET facts == bible.facts \o update.facts
  IN  /\ \A s \in Range(update.states) : s.character \in Characters /\ s.knows \subseteq FactIds(facts)
      /\ EachOnce(update.states, "character")
      /\ \A t \in Range(update.threads) : ThreadApplies(t)
      /\ EachOnce(update.threads, "id")
      /\ IsInjective(update.prohibitions)
      /\ Range(update.prohibitions) \cap bible.prohibitions = {}

Upsert(records, changes, key) ==
  {r \in records : \A c \in changes : c[key] # r[key]} \cup changes

(* apply_story_bible_update                                                 *)
Successor(update) ==
  [scenes |-> Append(bible.scenes, Number),
   facts |-> bible.facts \o update.facts,
   states |-> Upsert(bible.states, Range(update.states), "character"),
   threads |-> Upsert(bible.threads, Range(update.threads), "id"),
   prohibitions |-> bible.prohibitions \cup Range(update.prohibitions)]

Applied(answer) ==
  /\ Materialisable(answer)
  /\ LET update == UpdateOf(answer) IN UpdateValid(update) /\ Applies(update)

-----------------------------------------------------------------------------
(* Answers: each is about facts and who knows them, about threads, or about *)
(* prohibitions; the reducer handles the three apart.                       *)
UpTo(S, n) == UNION {[1 .. k -> S] : k \in 0 .. n}
States ==
  {<< >>} \cup {<<[character |-> c, knows |-> names]>> :
                  c \in Characters \cup {Stranger}, names \in {{}} \cup {{n} : n \in Names}}
          \cup {<<[character |-> c, knows |-> {}], [character |-> d, knows |-> {}]>> : c, d \in Characters}
Changes ==
  [id : ThreadIds, padded : BOOLEAN, says : Statements, status : {Open, Resolved},
   resolution : Statements \cup {Unsaid}]
NoneWritten == {<< >>}
FactAnswers ==
  [facts : UpTo([name : Names, says : Statements], MaxDelta), states : States,
   threads : NoneWritten, prohibitions : NoneWritten]
ThreadAnswers ==
  [facts : NoneWritten, states : NoneWritten, threads : UpTo(Changes, MaxDelta), prohibitions : NoneWritten]
ProhibitionAnswers ==
  [facts : NoneWritten, states : NoneWritten, threads : NoneWritten,
   prohibitions : UpTo([text : Prohibitions, padded : BOOLEAN], MaxDelta)]
BibleAnswers == FactAnswers \cup ThreadAnswers \cup ProhibitionAnswers

BibleInit ==
  /\ bible = [scenes |-> << >>, facts |-> << >>, states |-> {}, threads |-> {}, prohibitions |-> {}]

(* An answer that is refused at any of the gates leaves the Story Bible as  *)
(* it is.                                                                   *)
UpdateStoryBible(answer) ==
  /\ Applied(answer)
  /\ bible' = Successor(UpdateOf(answer))

Updating == Number <= MaxScenes
BibleNext == Updating /\ \E answer \in BibleAnswers : UpdateStoryBible(answer)

BibleSpec == BibleInit /\ [][BibleNext]_bible

-----------------------------------------------------------------------------
BibleTypeOK ==
  /\ bible.scenes = [n \in 1 .. Len(bible.scenes) |-> n] /\ Len(bible.scenes) <= MaxScenes
  /\ \A f \in Range(bible.facts) : f.id[1] \in Range(bible.scenes) /\ f.says \in Statements
  /\ IsInjective(bible.facts)
  /\ \A s \in bible.states : s.character \in Characters /\ s.updated \in Range(bible.scenes)
  /\ \A t \in bible.threads : /\ t.id \in ThreadIds /\ t.introduced \in Range(bible.scenes)
                              /\ t.status \in {Open, Resolved}

(* A thread, once introduced, keeps its statement and its origin, and once  *)
(* resolved it is neither reopened nor given another resolution, however    *)
(* the deltas write its identifier (_materialize_thread_changes and         *)
(* apply_story_bible_update, of which neither is enough alone).             *)
ThreadsKeepTheirHistory ==
  [][\A t \in bible.threads : \E u \in bible'.threads :
       /\ u.id = t.id /\ u.says = t.says /\ u.introduced = t.introduced
       /\ t.status = Resolved => u = t]_bible

(* What a character is said to know is what the snapshot says it knows:     *)
(* a name stands for the fact the answer declares under it, and for the     *)
(* canonical fact otherwise, whatever identifiers the answer's own facts    *)
(* are given or happen to have (fact_id_map).  A name that is neither may   *)
(* still be accepted, if it is the identifier a new fact is about to get.   *)
SaidBy(facts, id) == {f.says : f \in {g \in Range(facts) : g.id = id}}
MeantBy(answer, name) ==
  IF Declaring(answer, name) = {} THEN SaidBy(bible.facts, name)
  ELSE {answer.facts[LastDeclaring(answer, name)].says}
Named(answer) == FactIds(bible.facts) \cup {f.name : f \in Range(answer.facts)}
KnowledgeMeansWhatWasSaid ==
  Updating => \A answer \in FactAnswers :
    Applied(answer) /\ (\A s \in Range(answer.states) : s.knows \subseteq Named(answer)) =>
    LET next == Successor(UpdateOf(answer)) IN
    \A k \in DOMAIN answer.states : \A s \in next.states :
      s.character = answer.states[k].character =>
        UNION {SaidBy(next.facts, id) : id \in s.knows}
          = UNION {MeantBy(answer, name) : name \in answer.states[k].knows}

(* An answer that follows the rules it is given is applied: it may repeat a *)
(* resolved thread or a prohibition as it stands, in any scene, and declare *)
(* facts under any name; neither of the three gates refuses it.             *)
FollowsRules(answer) ==
  /\ \A k \in DOMAIN answer.states :
       /\ answer.states[k].character \in Characters
       /\ answer.states[k].knows \subseteq Named(answer)
       /\ \A j \in DOMAIN answer.states : answer.states[j].character = answer.states[k].character => j = k
  /\ \A k \in DOMAIN answer.threads :
       /\ ~ answer.threads[k].padded
       /\ (answer.threads[k].status = Open) = (answer.threads[k].resolution = Unsaid)
       /\ \A t \in bible.threads : t.id = answer.threads[k].id /\ t.status = Resolved =>
            answer.threads[k].resolution = t.resolution
       /\ \A j \in DOMAIN answer.threads : answer.threads[j].id = answer.threads[k].id => j = k
  /\ \A p \in Range(answer.prohibitions) : ~ p.padded
AnswersWithinTheRulesApply ==
  Updating => \A answer \in BibleAnswers : FollowsRules(answer) => Applied(answer)
=============================================================================
