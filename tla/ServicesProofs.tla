--------------------------- MODULE ServicesProofs ---------------------------
(***************************************************************************)
(* Proofs about the services of one scene, StoryBible, CriticReviews and    *)
(* DialogueRounds, for every production, answer, number of reviews, scenes  *)
(* and rounds; and about all the services beside the two graphs together.   *)
(***************************************************************************)
EXTENDS MCServices, StoryLifeProofs, CampaignProofs, ContinuityRechecksProofs,
        SequenceTheorems, FiniteSetTheorems, WellFoundedInduction, TLAPS

-----------------------------------------------------------------------------
(* One sequence after another.                                              *)
LEMMA Concatenated ==
  ASSUME NEW S, NEW s \in Seq(S), NEW t \in Seq(S), NEW m, NEW n, Len(s) = m, Len(t) = n
  PROVE  /\ s \o t \in Seq(S) /\ Len(s \o t) = m + n /\ DOMAIN (s \o t) = 1 .. m + n
         /\ \A k \in 1 .. m : (s \o t)[k] = s[k]
         /\ \A k \in 1 .. n : (s \o t)[m + k] = t[k]
<1>1. /\ m \in Nat /\ n \in Nat
      /\ \A k \in 1 .. n : m + k \in 1 .. m + n /\ ~ m + k <= m /\ m + k - m = k
  OBVIOUS
<1>2. \A k \in 1 .. m : k \in 1 .. m + n
  BY <1>1
<1> QED
  BY <1>1, <1>2

-----------------------------------------------------------------------------
(* StoryBible.                                                              *)

(* What a thread of the snapshot consists of, whatever an answer put there. *)
IsThread(t) ==
  t = [id |-> t.id, says |-> t.says, introduced |-> t.introduced, status |-> t.status,
       resolution |-> t.resolution, resolved |-> t.resolved]
ThreadsInv == \A t \in bible.threads : IsThread(t)

(* A change becomes a thread of its own identifier, whatever it says.       *)
LEMMA MaterialisedThread ==
  ASSUME NEW change
  PROVE  /\ IsThread(Materialised(change))
         /\ Materialised(change).id = change.id
BY DEF Materialised, IsThread

(* So are all the threads of an update.                                     *)
LEMMA UpdatedThreads ==
  ASSUME NEW delta
  PROVE  \A u \in Range(UpdateOf(delta).threads) : IsThread(u)
<1>1. UpdateOf(delta).threads = MaterialisedThreads(delta.threads)
  BY DEF UpdateOf
<1>2. PICK K, new : MaterialisedThreads(delta.threads) = [k \in K |-> Materialised(new[k])]
  BY DEF MaterialisedThreads
<1> QED
  BY <1>1, <1>2, MaterialisedThread DEF Range

(* An update keeps the threads that it names as it found them.              *)
LEMMA UpdateSteps ==
  ASSUME ThreadsInv, NEW delta, UpdateStoryBible(delta)
  PROVE  /\ \A u \in bible'.threads : IsThread(u)
         /\ \A t \in bible.threads : \E u \in bible'.threads :
              /\ u.id = t.id /\ u.says = t.says /\ u.introduced = t.introduced
              /\ t.status = Resolved => u = t
<1> DEFINE changes == Range(UpdateOf(delta).threads)
<1>1. bible'.threads = {r \in bible.threads : \A c \in changes : c.id # r.id} \cup changes
  BY DEF UpdateStoryBible, Successor, Upsert
<1>2. \A c \in changes : IsThread(c) /\ ThreadApplies(c)
  BY UpdatedThreads DEF UpdateStoryBible, Applied, Applies
<1> HIDE DEF changes
<1>3. ASSUME NEW t \in bible.threads
      PROVE  \E u \in bible'.threads :
               /\ u.id = t.id /\ u.says = t.says /\ u.introduced = t.introduced
               /\ t.status = Resolved => u = t
  <2>1. CASE \A c \in changes : c.id # t.id
    BY <2>1, <1>1
  <2>2. ASSUME NEW c \in changes, c.id = t.id
        PROVE  /\ c.says = t.says /\ c.introduced = t.introduced
               /\ t.status = Resolved => c = t
    <3>1. t \in ThreadsWith(c.id)
      BY <2>2 DEF ThreadsWith
    <3>2. IsThread(c) /\ IsThread(t)
      BY <1>2 DEF ThreadsInv
    <3> QED
      BY <1>2, <2>2, <3>1, <3>2 DEF ThreadApplies, IsThread
  <2> QED
    BY <2>1, <2>2, <1>1
<1> QED
  BY <1>1, <1>2, <1>3 DEF ThreadsInv

(* Whatever happens to the Story Bible, its threads keep their history.     *)
LEMMA BibleSteps ==
  ThreadsInv /\ [BibleNext]_bible =>
    /\ ThreadsInv'
    /\ [\A t \in bible.threads : \E u \in bible'.threads :
          /\ u.id = t.id /\ u.says = t.says /\ u.introduced = t.introduced
          /\ t.status = Resolved => u = t]_bible
<1> SUFFICES ASSUME ThreadsInv, [BibleNext]_bible
             PROVE  /\ ThreadsInv'
                    /\ [\A t \in bible.threads : \E u \in bible'.threads :
                          /\ u.id = t.id /\ u.says = t.says /\ u.introduced = t.introduced
                          /\ t.status = Resolved => u = t]_bible
  OBVIOUS
<1>1. CASE UNCHANGED bible
  BY <1>1 DEF ThreadsInv
<1>2. CASE BibleNext
  <2>1. PICK delta : UpdateStoryBible(delta)
    BY <1>2 DEF BibleNext
  <2> QED
    BY <2>1, UpdateSteps DEF ThreadsInv
<1> QED
  BY <1>1, <1>2

(* However many scenes, threads and changes there are and however an answer *)
(* writes an identifier, a thread keeps its statement and its origin, and   *)
(* once it is resolved it stays as it is.                                   *)
THEOREM ThreadsKeep == BibleSpec => ThreadsKeepTheirHistory
<1>1. BibleInit => ThreadsInv
  BY DEF BibleInit, ThreadsInv
<1> QED
  BY <1>1, BibleSteps, PTL DEF BibleSpec, ThreadsKeepTheirHistory

-----------------------------------------------------------------------------
(* What characters know.                                                    *)

Facts == [id : Nat \X Nat, says : Statements]
Declared == [name : Names, says : Statements]

(* A canonical fact is known by a scene that was accepted.                  *)
FactsInv ==
  /\ bible.scenes \in Seq(Nat) /\ bible.facts \in Seq(Facts)
  /\ \A k \in 1 .. Len(bible.facts) : bible.facts[k].id[1] <= Len(bible.scenes)

(* Of a set of natural numbers one is the least.                            *)
LEMMA LeastNat ==
  ASSUME NEW S \in SUBSET Nat, S # {}
  PROVE  \E m \in S : \A k \in S : m <= k
<1>1. PICK m \in S : \A k \in S : ~ (<<k, m>> \in OpToRel(<, Nat))
  BY NatLessThanWellFounded, WFMin
<1>2. ASSUME NEW k \in S, k < m PROVE FALSE
  <2>1. <<k, m>> \in Nat \X Nat /\ <<k, m>>[1] < <<k, m>>[2]
    BY <1>2
  <2>2. <<k, m>> \in OpToRel(<, Nat)
    BY <2>1, Zenon DEF OpToRel
  <2> QED
    BY <1>1, <2>2
<1> QED
  BY <1>2

(* Of a bounded set of natural numbers one is the greatest.                 *)
LEMMA GreatestNat ==
  ASSUME NEW n \in Nat, NEW S \in SUBSET (1 .. n), S # {}
  PROVE  \E m \in S : \A k \in S : k <= m
<1> DEFINE After == {n - k : k \in S}
<1>1. After \in SUBSET Nat /\ After # {}
  <2>1. \A k \in S : n - k \in Nat
    OBVIOUS
  <2> QED
    BY <2>1
<1>2. PICK d \in After : \A e \in After : d <= e
  <2> HIDE DEF After
  <2> QED
    BY <1>1, LeastNat
<1>3. PICK m \in S : d = n - m
  OBVIOUS
<1>4. ASSUME NEW k \in S PROVE k <= m
  <2>1. n - m <= n - k
    BY <1>2, <1>3
  <2> QED
    BY <2>1
<1> QED
  BY <1>4

(* What is in one sequence after another is in one of the two.              *)
LEMMA RangeOfBoth ==
  ASSUME NEW S, NEW s \in Seq(S), NEW t \in Seq(S)
  PROVE  s \o t \in Seq(S) /\ Range(s \o t) = Range(s) \cup Range(t)
<1> DEFINE m == Len(s)
           n == Len(t)
<1>1. /\ s \o t \in Seq(S) /\ DOMAIN (s \o t) = 1 .. m + n
      /\ \A k \in 1 .. m : (s \o t)[k] = s[k]
      /\ \A k \in 1 .. n : (s \o t)[m + k] = t[k]
      /\ m \in Nat /\ n \in Nat /\ DOMAIN s = 1 .. m /\ DOMAIN t = 1 .. n
  BY Concatenated
<1> DEFINE both == s \o t
<1> HIDE DEF m, n, both
<1>2. ASSUME NEW x \in Range(s) \cup Range(t) PROVE x \in Range(both)
  <2>1. CASE x \in Range(s)
    <3>1. PICK k \in 1 .. m : x = s[k]
      BY <2>1, <1>1 DEF Range
    <3>2. k \in 1 .. m + n /\ both[k] = x
      BY <3>1, <1>1 DEF both
    <3> QED
      BY <3>2, <1>1 DEF Range, both
  <2>2. CASE x \in Range(t)
    <3>1. PICK k \in 1 .. n : x = t[k]
      BY <2>2, <1>1 DEF Range
    <3>2. m + k \in 1 .. m + n /\ both[m + k] = x
      BY <3>1, <1>1 DEF both
    <3> QED
      BY <3>2, <1>1 DEF Range, both
  <2> QED
    BY <2>1, <2>2
<1>3. ASSUME NEW x \in Range(both) PROVE x \in Range(s) \cup Range(t)
  <2>1. PICK k \in 1 .. m + n : x = both[k]
    BY <1>1 DEF Range, both
  <2>2. CASE k <= m
    <3>1. k \in 1 .. m /\ x = s[k]
      BY <2>1, <2>2, <1>1 DEF both
    <3> QED
      BY <3>1, <1>1 DEF Range
  <2>3. CASE ~ k <= m
    <3>1. k - m \in 1 .. n /\ m + (k - m) = k
      BY <2>3, <1>1
    <3>2. x = t[k - m]
      BY <3>1, <2>1, <1>1 DEF both
    <3> QED
      BY <3>1, <3>2, <1>1 DEF Range
  <2> QED
    BY <2>2, <2>3
<1> QED
  BY <1>1, <1>2, <1>3 DEF both

(* The facts of an answer, and the names its states are about.              *)
LEMMA AnswerTypes ==
  ASSUME NEW delta \in BibleAnswers
  PROVE  delta.facts \in Seq(Declared)
<1>1. \A S, n : UpTo(S, n) \subseteq Seq(S)
  BY DEF UpTo
<1>2. CASE delta \in FactAnswers
  <2>1. delta.facts \in UpTo(Declared, MaxDelta)
    BY <1>2 DEF FactAnswers, Declared
  <2> QED
    BY <1>1, <2>1
<1>3. CASE delta \in ThreadAnswers
  <2>1. delta.facts = << >>
    BY <1>3 DEF ThreadAnswers, NoneWritten
  <2> QED
    BY <2>1
<1>4. CASE delta \in ProhibitionAnswers
  <2>1. delta.facts = << >>
    BY <1>4 DEF ProhibitionAnswers, NoneWritten
  <2> QED
    BY <2>1
<1> QED
  BY <1>2, <1>3, <1>4 DEF BibleAnswers

(* The facts after an update: the old ones, and those of the answer under   *)
(* identifiers of its scene, which no old one has.                          *)
LEMMA NextFacts ==
  ASSUME FactsInv, NEW delta, delta.facts \in Seq(Declared),
         NEW new, new = UpdateOf(delta).facts, NEW facts, facts = Successor(UpdateOf(delta)).facts
  PROVE  /\ Number \in Nat /\ Number = Len(bible.scenes) + 1
         /\ new \in Seq(Facts) /\ facts \in Seq(Facts)
         /\ Len(new) = Len(delta.facts)
         /\ \A k \in 1 .. Len(new) :
              new[k].id = <<Number, k>> /\ new[k].says = delta.facts[k].says
         /\ Range(facts) = Range(bible.facts) \cup Range(new)
         /\ \A f \in Range(bible.facts) : f \in Facts /\ f.id[1] < Number
<1>1. Number \in Nat /\ Number = Len(bible.scenes) + 1 /\ Len(bible.scenes) \in Nat
  BY DEF FactsInv, Number
<1>2. new = [k \in DOMAIN delta.facts |-> [id |-> <<Number, k>>, says |-> delta.facts[k].says]]
  BY DEF UpdateOf
<1>3. facts = bible.facts \o new
  BY DEF Successor
<1>4. /\ DOMAIN delta.facts = 1 .. Len(delta.facts) /\ Len(delta.facts) \in Nat
      /\ \A k \in 1 .. Len(delta.facts) : delta.facts[k].says \in Statements
  <2>1. \A k \in 1 .. Len(delta.facts) : delta.facts[k] \in Declared
    OBVIOUS
  <2> QED
    BY <2>1 DEF Declared
<1>5. /\ new \in Seq(Facts) /\ Len(new) = Len(delta.facts)
      /\ \A k \in 1 .. Len(new) : new[k] = [id |-> <<Number, k>>, says |-> delta.facts[k].says]
  <2>1. \A k \in 1 .. Len(delta.facts) :
          [id |-> <<Number, k>>, says |-> delta.facts[k].says] \in Facts
    BY <1>1, <1>4 DEF Facts
  <2> QED
    BY <1>2, <1>4, <2>1
<1>6. /\ bible.facts \in Seq(Facts)
      /\ \A k \in 1 .. Len(bible.facts) : bible.facts[k].id[1] <= Len(bible.scenes)
  BY DEF FactsInv
<1>7. Range(bible.facts) = {bible.facts[k] : k \in 1 .. Len(bible.facts)}
  BY <1>5, <1>6 DEF Range
<1>8. \A f \in Range(bible.facts) : f \in Facts /\ f.id[1] < Number
  <2> SUFFICES ASSUME NEW k \in 1 .. Len(bible.facts)
               PROVE  bible.facts[k] \in Facts /\ bible.facts[k].id[1] < Number
    BY <1>7
  <2>1. bible.facts[k] \in Facts /\ bible.facts[k].id[1] <= Len(bible.scenes)
    BY <1>6
  <2>2. bible.facts[k].id[1] \in Nat
    BY <2>1 DEF Facts
  <2> QED
    BY <1>1, <2>1, <2>2
<1>9. /\ bible.facts \o new \in Seq(Facts)
      /\ Range(bible.facts \o new) = Range(bible.facts) \cup Range(new)
  BY <1>5, <1>6, RangeOfBoth
<1> QED
  <2>1. Range(facts) = Range(bible.facts) \cup Range(new) /\ facts \in Seq(Facts)
    BY <1>3, <1>9
  <2>2. \A k \in 1 .. Len(new) : new[k].id = <<Number, k>> /\ new[k].says = delta.facts[k].says
    <3> SUFFICES ASSUME NEW k \in 1 .. Len(new)
                 PROVE  new[k].id = <<Number, k>> /\ new[k].says = delta.facts[k].says
      OBVIOUS
    <3>1. new[k] = [id |-> <<Number, k>>, says |-> delta.facts[k].says]
      BY <1>5
    <3> QED
      BY <3>1
  <2> QED
    BY <1>1, <1>5, <1>8, <2>1, <2>2, Zenon

(* An update puts its facts, of its own scene, after the others.            *)
LEMMA FactsKept == FactsInv /\ [BibleNext]_bible => FactsInv'
<1> SUFFICES ASSUME FactsInv, [BibleNext]_bible PROVE FactsInv'
  OBVIOUS
<1>1. CASE UNCHANGED bible
  BY <1>1 DEF FactsInv
<1>2. CASE BibleNext
  <2>1. PICK delta \in BibleAnswers : bible' = Successor(UpdateOf(delta))
    BY <1>2 DEF BibleNext, UpdateStoryBible
  <2>2. delta.facts \in Seq(Declared)
    BY AnswerTypes
  <2>3. bible'.scenes = Append(bible.scenes, Number)
    BY <2>1 DEF Successor
  <2>4. PICK number, new, facts :
          /\ number = Number /\ new = UpdateOf(delta).facts
          /\ facts = Successor(UpdateOf(delta)).facts
    OBVIOUS
  <2>5. /\ number \in Nat /\ number = Len(bible.scenes) + 1
        /\ facts \in Seq(Facts) /\ new \in Seq(Facts)
        /\ \A k \in 1 .. Len(new) : new[k].id = <<number, k>>
        /\ Range(facts) = Range(bible.facts) \cup Range(new)
        /\ \A f \in Range(bible.facts) : f \in Facts /\ f.id[1] < number
    BY <2>2, <2>4, NextFacts
  <2>6. bible'.scenes \in Seq(Nat) /\ Len(bible'.scenes) = number
    BY <2>3, <2>4, <2>5 DEF FactsInv
  <2>7. ASSUME NEW k \in 1 .. Len(facts) PROVE facts[k].id[1] <= number
    <3>1. facts[k] \in Range(facts)
      BY <2>5 DEF Range
    <3>2. CASE facts[k] \in Range(bible.facts)
      <4>1. facts[k] \in Facts /\ facts[k].id[1] < number
        BY <2>5, <3>2
      <4>2. facts[k].id[1] \in Nat
        BY <4>1 DEF Facts
      <4> QED
        BY <4>1, <4>2, <2>5
    <3>3. CASE facts[k] \in Range(new)
      <4>1. facts[k].id[1] = number
        BY <2>5, <3>3 DEF Range
      <4> QED
        BY <4>1, <2>5
    <3> QED
      BY <3>1, <3>2, <3>3, <2>5
  <2>8. bible'.facts = facts
    BY <2>1, <2>4
  <2> QED
    BY <2>5, <2>6, <2>7, <2>8 DEF FactsInv
<1> QED
  BY <1>1, <1>2

(* A name says after the update what the answer meant by it.                *)
LEMMA NameKept ==
  ASSUME FactsInv, NEW delta, delta.facts \in Seq(Declared), NEW name \in Named(delta)
  PROVE  SaidBy(Successor(UpdateOf(delta)).facts, KnownAs(delta, name)) = MeantBy(delta, name)
<1>0. PICK new, facts :
        new = UpdateOf(delta).facts /\ facts = Successor(UpdateOf(delta)).facts
  OBVIOUS
<1>1. /\ Number \in Nat
      /\ new \in Seq(Facts) /\ Len(new) = Len(delta.facts)
      /\ \A k \in 1 .. Len(new) :
           new[k].id = <<Number, k>> /\ new[k].says = delta.facts[k].says
      /\ Range(facts) = Range(bible.facts) \cup Range(new)
      /\ \A f \in Range(bible.facts) : f \in Facts /\ f.id[1] < Number
  BY <1>0, NextFacts
<1>2. Range(new) = {new[k] : k \in 1 .. Len(new)} /\ DOMAIN delta.facts = 1 .. Len(new)
  BY <1>1 DEF Range
<1>3. CASE Declaring(delta, name) = {}
  <2>1. KnownAs(delta, name) = name /\ MeantBy(delta, name) = SaidBy(bible.facts, name)
    BY <1>3 DEF KnownAs, MeantBy
  <2>2. PICK f \in Range(bible.facts) : f.id = name
    BY <1>3 DEF Named, Declaring, FactIds, Range
  <2>3. \A g \in Range(new) : g.id[1] = Number /\ g.id # name
    <3> SUFFICES ASSUME NEW j \in 1 .. Len(new)
                 PROVE  new[j].id[1] = Number /\ new[j].id # name
      BY <1>2
    <3>1. new[j].id = <<Number, j>>
      BY <1>1
    <3>2. f.id[1] < Number
      BY <1>1
    <3> QED
      BY <3>1, <3>2, <2>2, <1>1
  <2>4. {g \in Range(facts) : g.id = name} = {g \in Range(bible.facts) : g.id = name}
    BY <1>1, <2>3
  <2> QED
    BY <1>0, <2>1, <2>4 DEF SaidBy
<1>4. CASE Declaring(delta, name) # {}
  <2>1. Declaring(delta, name) \in SUBSET (1 .. Len(new)) /\ Len(new) \in Nat
    BY <1>1, <1>2 DEF Declaring
  <2>2. \E m \in Declaring(delta, name) : \A j \in Declaring(delta, name) : j <= m
    BY <1>4, <2>1, GreatestNat
  <2>3. PICK k : k = LastDeclaring(delta, name)
    OBVIOUS
  <2>4. k \in 1 .. Len(new)
    BY <2>1, <2>2, <2>3 DEF LastDeclaring
  <2>5. KnownAs(delta, name) = <<Number, k>> /\ MeantBy(delta, name) = {delta.facts[k].says}
    BY <1>4, <2>3 DEF KnownAs, MeantBy
  <2>6. \A g \in Range(bible.facts) : g.id # <<Number, k>>
    <3> SUFFICES ASSUME NEW g \in Range(bible.facts), g.id = <<Number, k>> PROVE FALSE
      OBVIOUS
    <3>1. g.id[1] = Number /\ g.id[1] < Number
      BY <1>1
    <3> QED
      BY <3>1, <1>1
  <2>7. \A j \in 1 .. Len(new) : new[j].id = <<Number, k>> <=> j = k
    <3>1. \A j \in 1 .. Len(new) : new[j].id = <<Number, j>>
      BY <1>1
    <3> QED
      BY <3>1
  <2>8. {g \in Range(facts) : g.id = <<Number, k>>} = {new[k]}
    BY <1>1, <1>2, <2>4, <2>6, <2>7
  <2>9. new[k].says = delta.facts[k].says
    BY <1>1, <2>4
  <2> QED
    BY <1>0, <2>5, <2>8, <2>9 DEF SaidBy
<1> QED
  BY <1>3, <1>4

(* The state of a character in the answer is its only one afterwards.       *)
LEMMA StateKept ==
  ASSUME NEW delta \in FactAnswers, Applied(delta), NEW k \in DOMAIN delta.states,
         NEW s \in Successor(UpdateOf(delta)).states,
         s.character = delta.states[k].character
  PROVE  s.knows = {KnownAs(delta, name) : name \in delta.states[k].knows}
<1> DEFINE states == UpdateOf(delta).states
<1>1. states = [j \in DOMAIN delta.states |->
                  [character |-> delta.states[j].character, updated |-> Number,
                   knows |-> {KnownAs(delta, name) : name \in delta.states[j].knows}]]
  BY DEF UpdateOf
<1>2. \A i, j \in DOMAIN states : states[i]["character"] = states[j]["character"] => i = j
  BY DEF Applied, Applies, EachOnce
<1>3. Successor(UpdateOf(delta)).states
        = {r \in bible.states : \A c \in Range(states) : c.character # r.character}
            \cup Range(states)
  BY DEF Successor, Upsert
<1> HIDE DEF states
<1>4. states[k] \in Range(states) /\ states[k].character = s.character
  BY <1>1 DEF Range
<1>5. s \in Range(states)
  BY <1>3, <1>4
<1>6. PICK j \in DOMAIN states : s = states[j]
  BY <1>5 DEF Range
<1>7. j = k
  BY <1>1, <1>2, <1>4, <1>6
<1> QED
  BY <1>1, <1>6, <1>7

(* Facts that no coming scene can have decide what is known.                *)
LEMMA KnowledgeFollows == FactsInv => KnowledgeMeansWhatWasSaid
<1> SUFFICES ASSUME FactsInv, NEW delta \in FactAnswers, Applied(delta),
                    \A s \in Range(delta.states) : s.knows \subseteq Named(delta),
                    NEW k \in DOMAIN delta.states, NEW s \in Successor(UpdateOf(delta)).states,
                    s.character = delta.states[k].character
             PROVE  UNION {SaidBy(Successor(UpdateOf(delta)).facts, id) : id \in s.knows}
                      = UNION {MeantBy(delta, name) : name \in delta.states[k].knows}
  BY DEF KnowledgeMeansWhatWasSaid
<1> DEFINE Said(id) == SaidBy(Successor(UpdateOf(delta)).facts, id)
<1>1. delta.facts \in Seq(Declared)
  BY AnswerTypes DEF BibleAnswers
<1>2. s.knows = {KnownAs(delta, name) : name \in delta.states[k].knows}
  BY StateKept
<1>3. delta.states[k].knows \subseteq Named(delta)
  BY DEF Range
<1>4. \A name \in delta.states[k].knows : Said(KnownAs(delta, name)) = MeantBy(delta, name)
  BY <1>1, <1>3, NameKept
<1> HIDE DEF Said
<1>5. {Said(id) : id \in s.knows} = {MeantBy(delta, name) : name \in delta.states[k].knows}
  BY <1>2, <1>4
<1> QED
  BY <1>5 DEF Said

(* In every production, whatever facts an answer declares and under which   *)
(* names, a character is known to know what the answer said it knows.       *)
THEOREM KnowledgeIsKept == BibleSpec => []KnowledgeMeansWhatWasSaid
<1>1. BibleInit => FactsInv
  BY DEF BibleInit, FactsInv
<1> QED
  BY <1>1, FactsKept, KnowledgeFollows, PTL DEF BibleSpec

-----------------------------------------------------------------------------
(* The whole Story Bible.                                                   *)

(* A thread has one entry, and a resolution exactly when it is resolved;    *)
(* facts are those of the accepted scenes.                                  *)
EntriesInv ==
  /\ \A t, u \in bible.threads : t.id = u.id => t = u
  /\ \A t \in bible.threads : (t.status = Resolved) = (t.resolution # Unsaid)
BibleInv == BibleTypeOK /\ FactsInv /\ EntriesInv

(* The scenes are numbered from 1.                                          *)
LEMMA ScenesNumbered ==
  ASSUME BibleInv
  PROVE  /\ Len(bible.scenes) \in Nat /\ Number \in Nat /\ Number = Len(bible.scenes) + 1
         /\ Range(bible.scenes) = 1 .. Len(bible.scenes)
<1>1. /\ bible.scenes \in Seq(Nat)
      /\ bible.scenes = [n \in 1 .. Len(bible.scenes) |-> n]
  BY DEF BibleInv, BibleTypeOK, FactsInv
<1>2. Len(bible.scenes) \in Nat
  BY <1>1
<1>3. PICK n : n = Len(bible.scenes)
  OBVIOUS
<1>4. Range([k \in 1 .. n |-> k]) = 1 .. n
  BY DEF Range
<1> QED
  BY <1>1, <1>2, <1>3, <1>4 DEF Number

(* And the next one takes the next number.                                  *)
LEMMA NextScene ==
  ASSUME BibleInv, Updating, NEW scenes, scenes = Append(bible.scenes, Number)
  PROVE  /\ scenes \in Seq(Nat) /\ Len(scenes) = Number /\ Number <= MaxScenes
         /\ scenes = [n \in 1 .. Len(scenes) |-> n]
         /\ Range(scenes) = 1 .. Number
<1> DEFINE n == Len(bible.scenes)
<1>1. /\ bible.scenes \in Seq(Nat) /\ bible.scenes = [k \in 1 .. n |-> k]
      /\ n \in Nat /\ Number = n + 1 /\ Number \in Nat
  BY ScenesNumbered DEF BibleInv, BibleTypeOK, FactsInv
<1>2. scenes \in Seq(Nat) /\ Len(scenes) = n + 1 /\ DOMAIN scenes = 1 .. n + 1
  BY <1>1
<1>3. ASSUME NEW k \in 1 .. n + 1 PROVE scenes[k] = k
  <2>1. CASE k = n + 1
    BY <2>1, <1>1
  <2>2. CASE k \in 1 .. n
    <3>1. scenes[k] = bible.scenes[k]
      BY <2>2, <1>1
    <3> QED
      BY <3>1, <2>2, <1>1
  <2> QED
    BY <2>1, <2>2, <1>1
<1> HIDE DEF n
<1>4. scenes = [k \in 1 .. n + 1 |-> k]
  <2>1. scenes = [k \in 1 .. n + 1 |-> scenes[k]]
    BY <1>1, <1>2
  <2> QED
    BY <2>1, <1>3
<1>5. Range([k \in 1 .. n + 1 |-> k]) = 1 .. n + 1
  BY DEF Range
<1> QED
  BY <1>1, <1>2, <1>4, <1>5 DEF Updating

(* The changes of threads in an answer, and its prohibitions.               *)
LEMMA AnswerChanges ==
  ASSUME NEW delta \in BibleAnswers
  PROVE  /\ delta.threads \in Seq(Changes)
         /\ delta.prohibitions \in Seq([text : Prohibitions, padded : BOOLEAN])
<1>1. \A S, n : UpTo(S, n) \subseteq Seq(S)
  BY DEF UpTo
<1>2. CASE delta \in FactAnswers
  <2>1. delta.threads = << >> /\ delta.prohibitions = << >>
    BY <1>2 DEF FactAnswers, NoneWritten
  <2> QED
    BY <2>1
<1>3. CASE delta \in ThreadAnswers
  <2>1. delta.threads \in UpTo(Changes, MaxDelta) /\ delta.prohibitions = << >>
    BY <1>3 DEF ThreadAnswers, NoneWritten
  <2> QED
    BY <2>1, <1>1
<1>4. CASE delta \in ProhibitionAnswers
  <2>1. /\ delta.threads = << >>
        /\ delta.prohibitions \in UpTo([text : Prohibitions, padded : BOOLEAN], MaxDelta)
    BY <1>4 DEF ProhibitionAnswers, NoneWritten
  <2> QED
    BY <2>1, <1>1
<1> QED
  BY <1>2, <1>3, <1>4 DEF BibleAnswers

(* What a change becomes.                                                   *)
LEMMA MaterialisedFields ==
  ASSUME NEW change \in Changes
  PROVE  /\ Materialised(change).id = change.id /\ change.id \in ThreadIds
         /\ Materialised(change).status = change.status
         /\ Materialised(change).resolution = change.resolution
         /\ change.status \in {Open, Resolved} /\ Open # Resolved
         /\ Existing(change) = {} => /\ Materialised(change).says = change.says
                                     /\ Materialised(change).introduced = Number
         /\ \A t \in Existing(change) : Existing(change) = {t} =>
              /\ Materialised(change).says = t.says
              /\ Materialised(change).introduced = t.introduced
         /\ ~ Echoes(change) => Materialised(change).resolved \in {0, Number}
<1>1. /\ change.id \in ThreadIds /\ change.status \in {Open, Resolved}
      /\ Open # Resolved
  BY DEF Changes, Open, Resolved
<1>2. /\ Materialised(change).id = change.id /\ Materialised(change).status = change.status
      /\ Materialised(change).resolution = change.resolution
  BY DEF Materialised
<1>3. ASSUME Existing(change) = {}
      PROVE  Materialised(change).says = change.says /\ Materialised(change).introduced = Number
  BY <1>3 DEF Materialised
<1>4. ASSUME NEW t \in Existing(change), Existing(change) = {t}
      PROVE  /\ Materialised(change).says = t.says
             /\ Materialised(change).introduced = t.introduced
  <2>1. (CHOOSE u \in Existing(change) : TRUE) = t /\ Existing(change) # {}
    BY <1>4
  <2> QED
    BY <2>1 DEF Materialised
<1>5. ASSUME ~ Echoes(change) PROVE Materialised(change).resolved \in {0, Number}
  BY <1>5 DEF Materialised
<1> QED
  BY <1>1, <1>2, <1>3, <1>4, <1>5

(* Of a thread there is at most one that an answer can mean.                *)
LEMMA ExistingIs ==
  ASSUME EntriesInv, NEW change
  PROVE  /\ Existing(change) \subseteq bible.threads
         /\ \A t \in Existing(change) : t.id = change.id /\ Existing(change) = {t}
BY DEF Existing, ThreadsWith, EntriesInv

(* The threads of an update are the changes that repeat no resolved thread. *)
LEMMA UpdateThreads ==
  ASSUME NEW delta \in BibleAnswers
  PROVE  LET threads == UpdateOf(delta).threads IN
         /\ DOMAIN threads = {j \in DOMAIN delta.threads : ~ Echoes(delta.threads[j])}
         /\ \A k \in DOMAIN threads : /\ delta.threads[k] \in Changes
                                      /\ threads[k] = Materialised(delta.threads[k])
<1>1. UpdateOf(delta).threads = MaterialisedThreads(delta.threads)
  BY DEF UpdateOf
<1>2. \A k \in DOMAIN delta.threads : delta.threads[k] \in Changes
  BY AnswerChanges
<1> QED
  BY <1>1, <1>2 DEF MaterialisedThreads
(* The threads after an update.                                             *)
LEMMA ThreadsStep ==
  ASSUME BibleInv, Updating, NEW delta \in BibleAnswers, UpdateStoryBible(delta)
  PROVE  /\ EntriesInv'
         /\ \A t \in bible'.threads : /\ t.id \in ThreadIds /\ t.introduced \in 1 .. Number
                                      /\ t.status \in {Open, Resolved}
<1> DEFINE threads == UpdateOf(delta).threads
           changes == Range(threads)
           WellFormed(t) == /\ t.id \in ThreadIds /\ t.introduced \in 1 .. Number
                            /\ t.status \in {Open, Resolved}
                            /\ (t.status = Resolved) = (t.resolution # Unsaid)
<1>1. bible'.threads = {r \in bible.threads : \A c \in changes : c.id # r.id} \cup changes
  BY DEF UpdateStoryBible, Successor, Upsert
<1>2. /\ \A k \in DOMAIN delta.threads : ThreadContract(delta.threads[k])
      /\ \A j, k \in DOMAIN threads : threads[j]["id"] = threads[k]["id"] => j = k
  BY DEF UpdateStoryBible, Applied, Materialisable, Applies, EachOnce
<1>3. /\ DOMAIN threads = {j \in DOMAIN delta.threads : ~ Echoes(delta.threads[j])}
      /\ \A k \in DOMAIN threads : /\ delta.threads[k] \in Changes
                                   /\ threads[k] = Materialised(delta.threads[k])
  BY UpdateThreads
<1>4. /\ EntriesInv /\ Number \in Nat \ {0} /\ Number = Len(bible.scenes) + 1
      /\ Len(bible.scenes) \in Nat
      /\ Range(bible.scenes) = 1 .. Len(bible.scenes)
  BY ScenesNumbered DEF BibleInv
<1>5. \A t \in bible.threads : WellFormed(t)
  <2> SUFFICES ASSUME NEW t \in bible.threads PROVE WellFormed(t)
    OBVIOUS
  <2>1. /\ t.id \in ThreadIds /\ t.introduced \in Range(bible.scenes)
        /\ t.status \in {Open, Resolved}
    BY DEF BibleInv, BibleTypeOK
  <2>2. t.introduced \in 1 .. Number
    BY <2>1, <1>4
  <2> QED
    BY <2>1, <2>2 DEF BibleInv, EntriesInv
<1> HIDE DEF threads
<1>6. \A c \in changes : WellFormed(c)
  <2> SUFFICES ASSUME NEW k \in DOMAIN threads PROVE WellFormed(threads[k])
    BY DEF Range
  <2>1. PICK change \in Changes : change = delta.threads[k] /\ threads[k] = Materialised(change)
    BY <1>3
  <2>2. /\ threads[k].id \in ThreadIds /\ threads[k].status \in {Open, Resolved}
        /\ threads[k].status = change.status /\ threads[k].resolution = change.resolution
    BY <2>1, MaterialisedFields
  <2>3. (change.status = Resolved) = (change.resolution # Unsaid)
    BY <1>2, <1>3, <2>1 DEF ThreadContract
  <2>4. threads[k].introduced \in 1 .. Number
    <3>1. CASE Existing(change) = {}
      BY <3>1, <2>1, <1>4, MaterialisedFields
    <3>2. CASE Existing(change) # {}
      <4>1. PICK t \in Existing(change) : t \in bible.threads /\ Existing(change) = {t}
        BY <3>2, <1>4, ExistingIs
      <4>2. threads[k].introduced = t.introduced
        BY <4>1, <2>1, MaterialisedFields
      <4> QED
        BY <4>1, <4>2, <1>5
    <3> QED
      BY <3>1, <3>2
  <2> QED
    BY <2>2, <2>3, <2>4
<1>7. \A c, d \in changes : c.id = d.id => c = d
  BY <1>2 DEF Range
<1> HIDE DEF changes, WellFormed
<1>8. \A t \in bible'.threads : WellFormed(t)
  BY <1>1, <1>5, <1>6
<1>9. \A t, u \in bible'.threads : t.id = u.id => t = u
  <2>1. \A t, u \in bible.threads : t.id = u.id => t = u
    BY <1>4 DEF EntriesInv
  <2> QED
    BY <1>1, <1>7, <2>1
<1> QED
  BY <1>8, <1>9 DEF EntriesInv, WellFormed

(* The facts after an update, none of them twice.                           *)
LEMMA FactsDistinct ==
  ASSUME BibleInv, NEW delta \in BibleAnswers, NEW facts,
         facts = Successor(UpdateOf(delta)).facts
  PROVE  /\ \A f \in Range(facts) : f.id[1] \in 1 .. Number /\ f.says \in Statements
         /\ IsInjective(facts)
<1> DEFINE m == Len(bible.facts)
           n == Len(delta.facts)
<1>1. PICK new : new = UpdateOf(delta).facts
  OBVIOUS
<1>2. delta.facts \in Seq(Declared) /\ FactsInv
  BY AnswerTypes DEF BibleInv
<1>3. /\ Number \in Nat /\ new \in Seq(Facts) /\ facts \in Seq(Facts) /\ Len(new) = n
      /\ \A k \in 1 .. Len(new) : new[k].id = <<Number, k>>
      /\ Range(facts) = Range(bible.facts) \cup Range(new)
      /\ \A f \in Range(bible.facts) : f \in Facts /\ f.id[1] < Number
  BY <1>1, <1>2, NextFacts
<1>4. bible.facts \in Seq(Facts) /\ facts = bible.facts \o new
  BY <1>1, <1>2 DEF FactsInv, Successor
<1>5. /\ Len(facts) = m + n /\ DOMAIN facts = 1 .. m + n /\ m \in Nat /\ n \in Nat
      /\ \A k \in 1 .. m : facts[k] = bible.facts[k]
      /\ \A k \in 1 .. n : facts[m + k] = new[k]
  <2>1. new \in Seq(Facts) /\ Len(new) = n /\ Len(bible.facts) = m
    BY <1>3
  <2>2. /\ Len(bible.facts \o new) = m + n /\ DOMAIN (bible.facts \o new) = 1 .. m + n
        /\ \A k \in 1 .. m : (bible.facts \o new)[k] = bible.facts[k]
        /\ \A k \in 1 .. n : (bible.facts \o new)[m + k] = new[k]
    <3> HIDE DEF m, n
    <3> QED
      BY <1>4, <2>1, Concatenated
  <2>3. m \in Nat /\ n \in Nat
    BY <1>2, <1>4
  <2> QED
    BY <1>4, <2>2, <2>3, Zenon
<1>6. IsInjective(bible.facts) /\ DOMAIN bible.facts = 1 .. m
  BY <1>4 DEF BibleInv, BibleTypeOK
<1>7. \A k \in 1 .. m : facts[k].id[1] < Number
  <2> SUFFICES ASSUME NEW k \in 1 .. m PROVE facts[k].id[1] < Number
    OBVIOUS
  <2>1. bible.facts[k] \in Range(bible.facts)
    BY <1>6 DEF Range
  <2> QED
    BY <2>1, <1>3, <1>5
<1> HIDE DEF m, n
<1>8. \A k \in 1 .. m + n : ~ k \in 1 .. m => /\ facts[k].id[1] = Number
                                              /\ facts[k].id[2] = k - m
  <2> SUFFICES ASSUME NEW k \in 1 .. m + n, ~ k \in 1 .. m
               PROVE  facts[k].id[1] = Number /\ facts[k].id[2] = k - m
    OBVIOUS
  <2>1. k - m \in 1 .. n /\ m + (k - m) = k
    BY <1>5
  <2>2. facts[k] = new[k - m] /\ new[k - m].id = <<Number, k - m>>
    BY <2>1, <1>3, <1>5
  <2> QED
    BY <2>2
<1>9. ASSUME NEW j \in 1 .. m + n, NEW k \in 1 .. m + n, facts[j] = facts[k]
      PROVE  j = k
  <2>1. CASE j \in 1 .. m /\ k \in 1 .. m
    BY <2>1, <1>5, <1>6, <1>9 DEF IsInjective
  <2>2. CASE ~ j \in 1 .. m /\ ~ k \in 1 .. m
    <3>1. j - m = k - m
      BY <2>2, <1>8, <1>9
    <3> QED
      BY <3>1, <1>5
  <2>3. CASE j \in 1 .. m /\ ~ k \in 1 .. m
    BY <2>3, <1>3, <1>7, <1>8, <1>9
  <2>4. CASE ~ j \in 1 .. m /\ k \in 1 .. m
    BY <2>4, <1>3, <1>7, <1>8, <1>9
  <2> QED
    BY <2>1, <2>2, <2>3, <2>4
<1>10. IsInjective(facts)
  BY <1>5, <1>9 DEF IsInjective
<1>11. ASSUME NEW f \in Range(facts) PROVE f.id[1] \in 1 .. Number /\ f.says \in Statements
  <2>1. f \in Facts
    BY <1>3 DEF Range
  <2>2. Number = Len(bible.scenes) + 1 /\ Len(bible.scenes) \in Nat
        /\ Range(bible.scenes) = 1 .. Len(bible.scenes)
    BY ScenesNumbered
  <2>3. CASE f \in Range(bible.facts)
    <3>1. f.id[1] \in Range(bible.scenes)
      BY <2>3 DEF BibleInv, BibleTypeOK
    <3> QED
      BY <3>1, <2>1, <2>2 DEF Facts
  <2>4. CASE f \in Range(new)
    <3>1. f.id[1] = Number
      BY <2>4, <1>3 DEF Range
    <3> QED
      BY <3>1, <2>1, <2>2 DEF Facts
  <2> QED
    BY <2>3, <2>4, <1>3
<1> QED
  BY <1>10, <1>11

(* The states after an update.                                              *)
LEMMA StatesStep ==
  ASSUME BibleInv, NEW delta, UpdateStoryBible(delta)
  PROVE  \A s \in bible'.states : s.character \in Characters /\ s.updated \in 1 .. Number
<1> DEFINE states == UpdateOf(delta).states
<1>1. bible'.states = {r \in bible.states : \A c \in Range(states) : c.character # r.character}
                        \cup Range(states)
  BY DEF UpdateStoryBible, Successor, Upsert
<1>2. \A s \in Range(states) : s.character \in Characters
  BY DEF UpdateStoryBible, Applied, Applies
<1>3. states = [j \in DOMAIN delta.states |->
                  [character |-> delta.states[j].character, updated |-> Number,
                   knows |-> {KnownAs(delta, name) : name \in delta.states[j].knows}]]
  BY DEF UpdateOf
<1>4. \A s \in Range(states) : s.updated = Number
  BY <1>3 DEF Range
<1>5. \A s \in bible.states : s.character \in Characters /\ s.updated \in Range(bible.scenes)
  BY DEF BibleInv, BibleTypeOK
<1>6. Number = Len(bible.scenes) + 1 /\ Len(bible.scenes) \in Nat
      /\ Range(bible.scenes) = 1 .. Len(bible.scenes)
  BY ScenesNumbered
<1> HIDE DEF states
<1>7. Number \in 1 .. Number /\ Range(bible.scenes) \subseteq 1 .. Number
  BY <1>6
<1> QED
  BY <1>1, <1>2, <1>4, <1>5, <1>7

(* Every accepted scene leaves a Story Bible of that kind.                  *)
LEMMA BibleKept == BibleInv /\ [BibleNext]_bible => BibleInv'
<1> SUFFICES ASSUME BibleInv, [BibleNext]_bible PROVE BibleInv'
  OBVIOUS
<1>1. CASE UNCHANGED bible
  BY <1>1 DEF BibleInv, BibleTypeOK, FactsInv, EntriesInv
<1>2. CASE BibleNext
  <2>1. PICK delta \in BibleAnswers : UpdateStoryBible(delta)
    BY <1>2 DEF BibleNext
  <2>2. Updating
    BY <1>2 DEF BibleNext
  <2>3. /\ bible'.scenes = Append(bible.scenes, Number)
        /\ bible'.facts = Successor(UpdateOf(delta)).facts
    BY <2>1 DEF UpdateStoryBible, Successor
  <2>4. /\ bible'.scenes = [n \in 1 .. Len(bible'.scenes) |-> n]
        /\ Len(bible'.scenes) <= MaxScenes /\ Range(bible'.scenes) = 1 .. Number
    BY <2>2, <2>3, NextScene
  <2>5. /\ \A f \in Range(bible'.facts) : f.id[1] \in 1 .. Number /\ f.says \in Statements
        /\ IsInjective(bible'.facts)
    BY <2>3, FactsDistinct
  <2>6. /\ \A s \in bible'.states : s.character \in Characters /\ s.updated \in 1 .. Number
        /\ EntriesInv'
        /\ \A t \in bible'.threads : /\ t.id \in ThreadIds /\ t.introduced \in 1 .. Number
                                     /\ t.status \in {Open, Resolved}
    BY <2>1, <2>2, StatesStep, ThreadsStep
  <2>7. FactsInv'
    BY FactsKept DEF BibleInv
  <2>8. BibleTypeOK'
    BY <2>4, <2>5, <2>6 DEF BibleTypeOK
  <2> QED
    BY <2>6, <2>7, <2>8 DEF BibleInv
<1> QED
  BY <1>1, <1>2

(* A production starts with an empty one.                                   *)
LEMMA BibleStarts == BibleInit => BibleInv
<1> SUFFICES ASSUME BibleInit PROVE BibleInv
  OBVIOUS
<1>1. /\ bible.scenes = << >> /\ bible.facts = << >>
      /\ bible.states = {} /\ bible.threads = {}
  BY DEF BibleInit
<1>2. bible.scenes = [n \in 1 .. Len(bible.scenes) |-> n] /\ Len(bible.scenes) <= MaxScenes
  BY <1>1, BibleAssumption
<1>3. Range(bible.facts) = {} /\ IsInjective(bible.facts)
  BY <1>1 DEF Range, IsInjective
<1> QED
  BY <1>1, <1>2, <1>3 DEF BibleInv, BibleTypeOK, FactsInv, EntriesInv

(* However many scenes, characters, facts and threads there are: scenes are *)
(* numbered in the order they are accepted, and what the Story Bible holds  *)
(* comes from one of them, about a character and a thread it can be about.  *)
THEOREM BibleTypes == BibleSpec => []BibleTypeOK
<1>1. BibleInv => BibleTypeOK
  BY DEF BibleInv
<1> QED
  BY <1>1, BibleStarts, BibleKept, PTL DEF BibleSpec
-----------------------------------------------------------------------------
(* What answers may rely on.                                                *)

(* A change within the rules can be made of the thread it is about.         *)
LEMMA ContractMet ==
  ASSUME EntriesInv, NEW delta \in BibleAnswers, FollowsRules(delta),
         NEW k \in DOMAIN delta.threads
  PROVE  ThreadContract(delta.threads[k])
<1>1. PICK change \in Changes : change = delta.threads[k]
  BY AnswerChanges
<1>2. /\ (change.status = Open) = (change.resolution = Unsaid)
      /\ \A t \in bible.threads : t.id = change.id /\ t.status = Resolved =>
           change.resolution = t.resolution
  BY <1>1 DEF FollowsRules
<1>3. change.status \in {Open, Resolved} /\ Open # Resolved
  BY MaterialisedFields
<1>4. (change.status = Resolved) = (change.resolution # Unsaid)
  BY <1>2, <1>3
<1>5. ASSUME Echoes(change), NEW t \in Existing(change)
      PROVE  change.status = Resolved /\ change.resolution = t.resolution
  <2>1. t \in bible.threads /\ t.id = change.id /\ t.status = Resolved
    BY <1>5, ExistingIs DEF Echoes
  <2>2. change.resolution = t.resolution /\ t.resolution # Unsaid
    BY <2>1, <1>2 DEF EntriesInv
  <2> QED
    BY <2>2, <1>4
<1> QED
  BY <1>1, <1>4, <1>5 DEF ThreadContract

(* And what is made of it, when it repeats no resolved thread, applies.     *)
LEMMA ThreadsApply ==
  ASSUME EntriesInv, NEW delta \in BibleAnswers, FollowsRules(delta),
         NEW entry \in Range(UpdateOf(delta).threads)
  PROVE  ThreadApplies(entry) /\ entry.resolved \in {0, Number}
<1>1. PICK k \in DOMAIN UpdateOf(delta).threads : entry = UpdateOf(delta).threads[k]
  BY DEF Range
<1>2. PICK change \in Changes :
        /\ change = delta.threads[k] /\ k \in DOMAIN delta.threads
        /\ entry = Materialised(change) /\ ~ Echoes(change)
  BY <1>1, UpdateThreads
<1>3. ~ change.padded
  BY <1>2 DEF FollowsRules
<1>4. entry.id = change.id /\ entry.resolved \in {0, Number}
  BY <1>2, MaterialisedFields
<1>5. ThreadsWith(entry.id) = Existing(change)
  BY <1>3, <1>4 DEF Existing
<1>6. ASSUME NEW t \in Existing(change)
      PROVE  entry.says = t.says /\ entry.introduced = t.introduced /\ t.status # Resolved
  <2>1. Existing(change) = {t}
    BY ExistingIs
  <2> QED
    BY <2>1, <1>2, MaterialisedFields DEF Echoes
<1> QED
  BY <1>4, <1>5, <1>6 DEF ThreadApplies

(* Its characters know facts that are there after the update.               *)
LEMMA StatesApply ==
  ASSUME FactsInv, NEW delta \in BibleAnswers, FollowsRules(delta),
         NEW s \in Range(UpdateOf(delta).states)
  PROVE  s.character \in Characters /\ s.knows \subseteq FactIds(Successor(UpdateOf(delta)).facts)
<1>1. PICK new, facts :
        new = UpdateOf(delta).facts /\ facts = Successor(UpdateOf(delta)).facts
  OBVIOUS
<1>2. delta.facts \in Seq(Declared)
  BY AnswerTypes
<1>3. /\ Len(new) = Len(delta.facts) /\ new \in Seq(Facts)
      /\ \A j \in 1 .. Len(new) : new[j].id = <<Number, j>>
      /\ Range(facts) = Range(bible.facts) \cup Range(new)
  BY <1>1, <1>2, NextFacts
<1>4. \A f \in Range(facts) : f.id \in FactIds(facts)
  BY DEF Range, FactIds
<1>5. PICK k \in DOMAIN delta.states :
        /\ s.character = delta.states[k].character
        /\ s.knows = {KnownAs(delta, name) : name \in delta.states[k].knows}
  <2>1. UpdateOf(delta).states =
          [j \in DOMAIN delta.states |->
             [character |-> delta.states[j].character, updated |-> Number,
              knows |-> {KnownAs(delta, name) : name \in delta.states[j].knows}]]
    BY DEF UpdateOf
  <2>2. PICK states : states = UpdateOf(delta).states
    OBVIOUS
  <2>3. DOMAIN states = DOMAIN delta.states
    BY <2>1, <2>2
  <2>4. PICK k \in DOMAIN delta.states : s = states[k]
    BY <2>2, <2>3 DEF Range
  <2>5. s = [character |-> delta.states[k].character, updated |-> Number,
             knows |-> {KnownAs(delta, name) : name \in delta.states[k].knows}]
    BY <2>1, <2>2, <2>4
  <2> QED
    BY <2>5
<1>6. /\ delta.states[k].character \in Characters
      /\ delta.states[k].knows \subseteq Named(delta)
  BY DEF FollowsRules
<1>7. ASSUME NEW name \in Named(delta) PROVE KnownAs(delta, name) \in FactIds(facts)
  <2>1. CASE Declaring(delta, name) = {}
    <3>1. KnownAs(delta, name) = name
      BY <2>1 DEF KnownAs
    <3>2. PICK f \in Range(bible.facts) : f.id = name
      BY <2>1 DEF Named, Declaring, FactIds, Range
    <3> QED
      BY <3>1, <3>2, <1>3, <1>4
  <2>2. CASE Declaring(delta, name) # {}
    <3>1. Declaring(delta, name) \in SUBSET (1 .. Len(new)) /\ Len(new) \in Nat
      BY <1>2, <1>3 DEF Declaring
    <3>2. \E m \in Declaring(delta, name) : \A j \in Declaring(delta, name) : j <= m
      BY <2>2, <3>1, GreatestNat
    <3>3. PICK j : j = LastDeclaring(delta, name)
      OBVIOUS
    <3>4. j \in 1 .. Len(new)
      BY <3>1, <3>2, <3>3 DEF LastDeclaring
    <3>5. new[j] \in Range(new) /\ new[j].id = <<Number, j>>
      BY <1>3, <3>4 DEF Range
    <3>6. KnownAs(delta, name) = new[j].id
      BY <2>2, <3>3, <3>5 DEF KnownAs
    <3> QED
      BY <3>5, <3>6, <1>3, <1>4
  <2> QED
    BY <2>1, <2>2
<1> QED
  BY <1>1, <1>5, <1>6, <1>7

(* Its prohibitions are new, and each is there once.                        *)
LEMMA ProhibitionsApply ==
  ASSUME NEW delta \in BibleAnswers, FollowsRules(delta),
         NEW update, update = UpdateOf(delta).prohibitions
  PROVE  IsInjective(update) /\ Range(update) \cap bible.prohibitions = {}
<1>1. PICK written : written = delta.prohibitions
  OBVIOUS
<1> DEFINE Prohibiting == [text : Prohibitions, padded : BOOLEAN]
<1>2. /\ written \in Seq(Prohibiting)
      /\ \A p \in Range(written) : ~ p.padded
  BY <1>1, AnswerChanges DEF FollowsRules
<1>3. update = [k \in NewProhibitions(written) |-> written[k].text]
  BY <1>1 DEF UpdateOf
<1>4. /\ DOMAIN written \subseteq Nat
      /\ \A k \in DOMAIN written :
           ~ written[k].padded /\ written[k] = [text |-> written[k].text, padded |-> FALSE]
  <2>1. DOMAIN written = 1 .. Len(written) /\ Len(written) \in Nat
    BY <1>2
  <2>2. ASSUME NEW k \in DOMAIN written
        PROVE  ~ written[k].padded /\ written[k] = [text |-> written[k].text, padded |-> FALSE]
    <3>1. written[k] \in Prohibiting
      <4> HIDE DEF Prohibiting
      <4> QED
        BY <1>2
    <3>2. written[k] \in Range(written)
      BY DEF Range
    <3>3. ~ written[k].padded
      BY <1>2, <3>2
    <3> QED
      BY <3>1, <3>3
  <2> QED
    BY <2>1, <2>2
<1>5. /\ NewProhibitions(written) \subseteq DOMAIN written
      /\ \A j, k \in NewProhibitions(written) : j < k => written[j] # written[k]
      /\ \A k \in NewProhibitions(written) : written[k].text \notin bible.prohibitions
  BY <1>4 DEF NewProhibitions
<1>6. ASSUME NEW j \in NewProhibitions(written), NEW k \in NewProhibitions(written),
             written[j].text = written[k].text
      PROVE  j = k
  <2>1. written[j] = written[k] /\ j \in Nat /\ k \in Nat
    BY <1>4, <1>5, <1>6
  <2>2. ~ j < k /\ ~ k < j
    BY <2>1, <1>5
  <2> QED
    BY <2>1, <2>2
<1>7. IsInjective(update)
  BY <1>3, <1>6 DEF IsInjective
<1>8. Range(update) = {written[k].text : k \in NewProhibitions(written)}
  BY <1>3 DEF Range
<1> QED
  BY <1>5, <1>7, <1>8

(* Entries that are unique, and facts of the accepted scenes, let every     *)
(* answer within the rules through the three gates.                         *)
LEMMA RulesSuffice == BibleInv => AnswersWithinTheRulesApply
<1> SUFFICES ASSUME BibleInv, NEW delta \in BibleAnswers, FollowsRules(delta)
             PROVE  Applied(delta)
  BY DEF AnswersWithinTheRulesApply
<1>1. EntriesInv /\ FactsInv
  BY DEF BibleInv
<1>2. Materialisable(delta)
  <2>1. \A k \in DOMAIN delta.threads : ThreadContract(delta.threads[k])
    BY <1>1, ContractMet
  <2>2. \A j, k \in DOMAIN delta.threads : j # k => delta.threads[j].id # delta.threads[k].id
    BY DEF FollowsRules
  <2> QED
    BY <2>1, <2>2 DEF Materialisable
<1>3. UpdateValid(UpdateOf(delta))
  BY <1>1, ThreadsApply DEF UpdateValid
<1>4. EachOnce(UpdateOf(delta).threads, "id")
  <2>1. PICK threads : threads = UpdateOf(delta).threads
    OBVIOUS
  <2>2. \A k \in DOMAIN threads : /\ delta.threads[k] \in Changes /\ k \in DOMAIN delta.threads
                                  /\ threads[k] = Materialised(delta.threads[k])
    BY <2>1, UpdateThreads
  <2>3. \A k \in DOMAIN threads : threads[k].id = delta.threads[k].id
    BY <2>2, MaterialisedFields
  <2>4. \A j, k \in DOMAIN threads : threads[j].id = threads[k].id => j = k
    BY <2>2, <2>3 DEF FollowsRules
  <2> QED
    BY <2>1, <2>4 DEF EachOnce
<1>5. EachOnce(UpdateOf(delta).states, "character")
  <2>1. UpdateOf(delta).states =
          [j \in DOMAIN delta.states |->
             [character |-> delta.states[j].character, updated |-> Number,
              knows |-> {KnownAs(delta, name) : name \in delta.states[j].knows}]]
    BY DEF UpdateOf
  <2>2. \A j, k \in DOMAIN delta.states :
          delta.states[j].character = delta.states[k].character => j = k
    BY DEF FollowsRules
  <2> QED
    BY <2>1, <2>2 DEF EachOnce
<1>6. Successor(UpdateOf(delta)).facts = bible.facts \o UpdateOf(delta).facts
  BY DEF Successor
<1>7. \A s \in Range(UpdateOf(delta).states) :
        /\ s.character \in Characters
        /\ s.knows \subseteq FactIds(bible.facts \o UpdateOf(delta).facts)
  BY <1>1, <1>6, StatesApply
<1>8. \A t \in Range(UpdateOf(delta).threads) : ThreadApplies(t)
  BY <1>1, ThreadsApply
<1>9. /\ IsInjective(UpdateOf(delta).prohibitions)
      /\ Range(UpdateOf(delta).prohibitions) \cap bible.prohibitions = {}
  BY ProhibitionsApply
<1>10. Applies(UpdateOf(delta))
  BY <1>4, <1>5, <1>7, <1>8, <1>9 DEF Applies
<1> QED
  BY <1>2, <1>3, <1>10 DEF Applied

(* Whatever a production has been through, an answer that follows the rules *)
(* it is given is applied, however many entries of each kind it has.        *)
THEOREM RulesAreEnough == BibleSpec => []AnswersWithinTheRulesApply
BY BibleStarts, BibleKept, RulesSuffice, PTL DEF BibleSpec

-----------------------------------------------------------------------------
(* CriticReviews.                                                           *)

CriticTexts ==
  {<<r, a[r]>> : r \in Routes, a \in Audits} \cup {<<kind[1], s>> : kind \in IssueKinds, s \in Says}
CritiqueIssues == [category : Categories, severity : Severities, texts : SUBSET CriticTexts]
Critiques == [verdict : {"pass", "revise"}, issues : Seq(CritiqueIssues)]
PassBlocksNothing(critique) ==
  critique.verdict = "pass" => \A k \in DOMAIN critique.issues : ~ Blocks(critique.issues[k])

IssueAt(all, t) == all[t[1]].issues[t[2]]

(* What is known of the last review: the tests it was asked about are still *)
(* tests, and nothing is released before the adjudication, which is the end.*)
ReviewInv ==
  /\ unmet \subseteq Tests /\ \A r \in reported : r.owner \in Tests \cup {NoTest}
  /\ critiques = << >> => step = "review" /\ unmet = {} /\ reported = {}
  /\ step \in {"review", "adjudicate"} => released = {}

RetainedInv ==
  /\ \A e \in retained : /\ e.kind \in IssueKinds
                         /\ e.choices \in [Routes \cup {None} -> 0 .. MaxReported]
  /\ failed \in BOOLEAN /\ (retained # {} => failed)

CritiquesInv ==
  /\ step \in {"review", "adjudicate", "accepted", "rejected"}
  /\ critiques \in Seq(Critiques)
  /\ \A n \in 1 .. Len(critiques) : PassBlocksNothing(critiques[n])

CriticInv ==
  /\ CritiquesInv /\ RetainedInv /\ ReviewInv
  /\ NothingReportedIsLost /\ UnmetRepairStays /\ AcceptedMeansSettled

(* An answer as the model may give it.                                      *)
Answered(reply) ==
  /\ reply.audit \in Audits /\ reply.verdict \in {"pass", "revise"}
  /\ reply.same \in SameEvidence(reply.audit)
  /\ reply.issues \in {<< >>} \cup {<<i>> : i \in Issues(reply.audit)}
  /\ reply.issues # << >> => Cardinality(Alleging(reply.audit)) < MaxReported
  /\ reply.checks \in [Tests -> Checks(reply.audit)]

-----------------------------------------------------------------------------
(* A finite set put in some order is all of it.                             *)
LEMMA SomeOrder ==
  ASSUME NEW S, IsFiniteSet(S)
  PROVE  /\ InSomeOrder(S) \in Seq(S)
         /\ \A x \in S : \E k \in DOMAIN InSomeOrder(S) : InSomeOrder(S)[k] = x
<1> DEFINE n == Cardinality(S)
           s == InSomeOrder(S)
<1>1. n \in Nat /\ ExistsBijection(1 .. n, S)
  BY FS_CardinalityType
<1>2. PICK f \in Bijection(1 .. n, S) : TRUE
  BY <1>1 DEF ExistsBijection
<1>3. f \in [1 .. n -> S] /\ IsInjective(f)
  BY <1>2 DEF Bijection, Injection, IsInjective
<1>4. s \in [1 .. n -> S] /\ IsInjective(s)
  BY <1>3 DEF InSomeOrder
<1>5. s \in Injection(1 .. n, S)
  BY <1>4 DEF Injection, IsInjective
<1>6. IsFiniteSet(1 .. n) /\ Cardinality(1 .. n) = n
  BY <1>1, FS_Interval
<1> HIDE DEF s
<1>7. s \in Surjection(1 .. n, S)
  BY <1>5, <1>6, FS_Injection
<1>8. s \in Seq(S) /\ DOMAIN s = 1 .. n
  BY <1>1, <1>4
<1> QED
  BY <1>7, <1>8 DEF Surjection, s

(* What is made of the members of a finite set is finite.                   *)
LEMMA FiniteImage ==
  ASSUME NEW S, IsFiniteSet(S), NEW T, NEW f \in [S -> T],
         \A t \in T : \E x \in S : f[x] = t
  PROVE  IsFiniteSet(T)
<1>1. f \in Surjection(S, T)
  BY DEF Surjection
<1> QED
  BY <1>1, FS_Surjection

-----------------------------------------------------------------------------
(* The repairs.                                                             *)

(* A repair is asked for by its first occurrence.                           *)
LEMMA TestIs ==
  ASSUME NEW all \in Seq(Critiques), NEW t
  PROVE  t \in RepairTests(all) <=>
           \E n \in 1 .. Len(all) : \E k \in ActionableOf(all[n]) :
             /\ t = <<n, k>>
             /\ \A m \in 1 .. n - 1 : \A j \in ActionableOf(all[m]) :
                  all[m].issues[j] # all[n].issues[k]
<1> DEFINE First(n, k) == \A m \in 1 .. n - 1 : \A j \in ActionableOf(all[m]) :
                            all[m].issues[j] # all[n].issues[k]
<1>1. DOMAIN all = 1 .. Len(all)
  OBVIOUS
<1>2. ASSUME t \in RepairTests(all)
      PROVE  \E n \in 1 .. Len(all) : \E k \in ActionableOf(all[n]) : t = <<n, k>> /\ First(n, k)
  <2>1. PICK n \in DOMAIN all : t \in {n} \X ActionableOf(all[n])
    BY <1>2 DEF RepairTests
  <2>2. PICK k \in ActionableOf(all[n]) : t = <<n, k>>
    BY <2>1
  <2>3. t[1] = n /\ t[2] = k
    BY <2>2
  <2>4. First(n, k)
    BY <1>2, <2>3 DEF RepairTests
  <2> QED
    BY <1>1, <2>2, <2>4
<1>3. ASSUME NEW n \in 1 .. Len(all), NEW k \in ActionableOf(all[n]), t = <<n, k>>, First(n, k)
      PROVE  t \in RepairTests(all)
  <2>1. t \in UNION {{m} \X ActionableOf(all[m]) : m \in DOMAIN all}
    BY <1>1, <1>3
  <2>2. t[1] = n /\ t[2] = k
    BY <1>3
  <2> QED
    BY <1>3, <2>1, <2>2 DEF RepairTests
<1> QED
  BY <1>2, <1>3

(* A repair that was asked for is a blocking or major issue.                *)
LEMMA TestFacts ==
  ASSUME NEW all \in Seq(Critiques), NEW t \in RepairTests(all)
  PROVE  /\ t[1] \in 1 .. Len(all) /\ t # NoTest
         /\ t[2] \in ActionableOf(all[t[1]]) /\ IssueAt(all, t) \in CritiqueIssues
         /\ IssueAt(all, t).severity \in {"blocking", "major"}
<1>0. PICK n \in 1 .. Len(all) : \E k \in ActionableOf(all[n]) : t = <<n, k>>
  BY TestIs
<1>1. PICK k \in ActionableOf(all[n]) : t = <<n, k>>
  BY <1>0
<1>2. t[1] = n /\ t[2] = k /\ n # 0
  BY <1>1
<1>3. t # NoTest
  BY <1>2 DEF NoTest
<1>4. all[n] \in Critiques
  OBVIOUS
<1>5. k \in DOMAIN all[n].issues /\ Actionable(all[n], all[n].issues[k])
  BY DEF ActionableOf
<1>6. all[n].issues[k] \in CritiqueIssues
  BY <1>4, <1>5 DEF Critiques
<1> QED
  BY <1>2, <1>3, <1>5, <1>6 DEF IssueAt, Actionable, Blocks

(* A later critique changes nothing about the earlier repairs.              *)
LEMMA TestsGrow ==
  ASSUME NEW all \in Seq(Critiques), NEW c \in Critiques
  PROVE  /\ Append(all, c) \in Seq(Critiques) /\ Len(Append(all, c)) = Len(all) + 1
         /\ Append(all, c)[Len(all) + 1] = c
         /\ RepairTests(all) \subseteq RepairTests(Append(all, c))
         /\ \A t \in RepairTests(all) : IssueAt(Append(all, c), t) = IssueAt(all, t)
         /\ \A t \in RepairTests(Append(all, c)) :
              \/ t \in RepairTests(all)
              \/ /\ t[1] = Len(all) + 1 /\ t[2] \in ActionableOf(c)
                 /\ IssueAt(Append(all, c), t) = c.issues[t[2]]
<1> DEFINE more == Append(all, c)
<1>1. /\ more \in Seq(Critiques) /\ Len(more) = Len(all) + 1 /\ more[Len(all) + 1] = c
      /\ \A n \in 1 .. Len(all) : more[n] = all[n]
      /\ Len(all) \in Nat
  OBVIOUS
<1> HIDE DEF more
<1>2. \A n \in 1 .. Len(all) : \A m \in 1 .. n - 1 : m \in 1 .. Len(all)
  BY <1>1
<1>3. ASSUME NEW t \in RepairTests(all)
      PROVE  t \in RepairTests(more) /\ IssueAt(more, t) = IssueAt(all, t)
  <2>0. PICK n \in 1 .. Len(all) : \E k \in ActionableOf(all[n]) :
          /\ t = <<n, k>>
          /\ \A m \in 1 .. n - 1 : \A j \in ActionableOf(all[m]) :
                all[m].issues[j] # all[n].issues[k]
    BY TestIs
  <2>1. PICK k \in ActionableOf(all[n]) :
          /\ t = <<n, k>>
          /\ \A m \in 1 .. n - 1 : \A j \in ActionableOf(all[m]) :
                all[m].issues[j] # all[n].issues[k]
    BY <2>0
  <2>2. n \in 1 .. Len(more) /\ k \in ActionableOf(more[n])
    BY <1>1
  <2>3. \A m \in 1 .. n - 1 : \A j \in ActionableOf(more[m]) :
          more[m].issues[j] # more[n].issues[k]
    BY <1>1, <1>2, <2>1
  <2>4. t \in RepairTests(more)
    BY <1>1, <2>1, <2>2, <2>3, TestIs
  <2>5. t[1] = n
    BY <2>1
  <2> QED
    BY <1>1, <2>4, <2>5 DEF IssueAt
<1>4. ASSUME NEW t \in RepairTests(more)
      PROVE  \/ t \in RepairTests(all)
             \/ t[1] = Len(all) + 1 /\ t[2] \in ActionableOf(c) /\ IssueAt(more, t) = c.issues[t[2]]
  <2>1. more \in Seq(Critiques)
    BY <1>1
  <2>2. PICK n \in 1 .. Len(more) : \E k \in ActionableOf(more[n]) :
          /\ t = <<n, k>>
          /\ \A m \in 1 .. n - 1 : \A j \in ActionableOf(more[m]) :
                more[m].issues[j] # more[n].issues[k]
    BY ONLY <1>4, <2>1, TestIs
  <2>3. PICK k \in ActionableOf(more[n]) :
          /\ t = <<n, k>>
          /\ \A m \in 1 .. n - 1 : \A j \in ActionableOf(more[m]) :
                more[m].issues[j] # more[n].issues[k]
    BY <2>2
  <2>4. t[1] = n /\ t[2] = k
    BY <2>3
  <2>5. CASE n = Len(all) + 1
    BY <1>1, <2>4, <2>5 DEF IssueAt
  <2>6. CASE n \in 1 .. Len(all)
    <3>1. k \in ActionableOf(all[n])
      BY <1>1, <2>6
    <3>2. \A m \in 1 .. n - 1 : \A j \in ActionableOf(all[m]) : all[m].issues[j] # all[n].issues[k]
      BY <1>1, <1>2, <2>3, <2>6
    <3> QED
      BY <2>3, <2>6, <3>1, <3>2, TestIs
  <2> QED
    BY <1>1, <2>5, <2>6
<1> QED
  BY <1>1, <1>3, <1>4 DEF more

(* Finitely many repairs are asked for.                                     *)
LEMMA TestsFinite ==
  ASSUME NEW all \in Seq(Critiques)
  PROVE  IsFiniteSet(RepairTests(all))
<1> DEFINE PlaceOf(n) == {n} \X DOMAIN all[n].issues
           sets == {PlaceOf(n) : n \in 1 .. Len(all)}
           f == [n \in 1 .. Len(all) |-> PlaceOf(n)]
<1>1. IsFiniteSet(1 .. Len(all))
  BY FS_Interval
<1>2. ASSUME NEW n \in 1 .. Len(all) PROVE IsFiniteSet(PlaceOf(n))
  <2>1. all[n] \in Critiques
    OBVIOUS
  <2>2. all[n].issues \in Seq(CritiqueIssues)
    BY <2>1 DEF Critiques
  <2>3. DOMAIN all[n].issues = 1 .. Len(all[n].issues) /\ Len(all[n].issues) \in Int /\ 1 \in Int
    BY <2>2
  <2>4. IsFiniteSet(DOMAIN all[n].issues)
    BY <2>3, FS_Interval
  <2> QED
    BY <2>4, FS_Singleton, FS_Product
<1>3. f \in [1 .. Len(all) -> sets] /\ \A s \in sets : \E n \in 1 .. Len(all) : f[n] = s
  OBVIOUS
<1> HIDE DEF f
<1>4. IsFiniteSet(sets)
  BY <1>1, <1>3, FiniteImage
<1>5. IsFiniteSet(UNION sets)
  BY <1>2, <1>4, FS_UNION
<1>6. RepairTests(all) \subseteq UNION sets
  <2> SUFFICES ASSUME NEW t \in RepairTests(all) PROVE t \in UNION sets
    OBVIOUS
  <2>0. PICK n \in 1 .. Len(all) : \E k \in ActionableOf(all[n]) : t = <<n, k>>
    BY TestIs
  <2>1. PICK k \in ActionableOf(all[n]) : t = <<n, k>>
    BY <2>0
  <2> QED
    BY <2>1 DEF ActionableOf
<1> HIDE DEF sets
<1> QED
  BY <1>5, <1>6, FS_Subset

-----------------------------------------------------------------------------
(* What an answer reports.                                                  *)

(* The answers of the model are of their types.                             *)
LEMMA AnswerFacts ==
  ASSUME NEW checked, NEW mistakes, NEW reply \in Answers(checked, mistakes),
         \A audit \in Audits : checked[audit] \subseteq [Tests -> Checks(audit)]
  PROVE  Answered(reply)
<1>1. PICK audit \in Audits :
        reply \in [audit : {audit}, same : SameEvidence(audit), verdict : {"pass", "revise"},
          issues : {<< >>} \cup IF Cardinality(Alleging(audit)) < MaxReported
                                THEN {<<i>> : i \in Issues(audit)} ELSE {},
          malformed : mistakes, checks : checked[audit]]
  BY DEF Answers
<1>2. /\ reply.audit = audit /\ reply.same \in SameEvidence(audit)
      /\ reply.verdict \in {"pass", "revise"}
      /\ reply.issues \in {<< >>} \cup IF Cardinality(Alleging(audit)) < MaxReported
                                        THEN {<<i>> : i \in Issues(audit)} ELSE {}
      /\ reply.checks \in checked[audit]
  BY <1>1
<1> QED
  BY <1>2 DEF Answered

(* An answer has at most one issue of the critic's own.                     *)
LEMMA IssueFacts ==
  ASSUME NEW reply, Answered(reply), NEW k \in DOMAIN reply.issues
  PROVE  /\ k = 1 /\ reply.issues[k] \in Issues(reply.audit)
         /\ reply.issues[k].kind \in IssueKinds /\ reply.issues[k].says \in Says
         /\ reply.issues[k].restates \in Routes \cup {None}
         /\ reply.issues[k].repeats \in Tests \cup {NoTest}
<1>1. PICK i \in Issues(reply.audit) : reply.issues = <<i>>
  BY DEF Answered
<1>2. k = 1 /\ reply.issues[k] = i
  BY <1>1
<1> QED
  BY <1>2 DEF Issues

(* An assignment has finitely many routes to allege anything along.         *)
LEMMA RoutesFinite ==
  ASSUME NEW audit \in Audits
  PROVE  /\ IsFiniteSet(Routes) /\ Alleging(audit) \subseteq Routes
         /\ IsFiniteSet(Alleging(audit))
<1>1. IsFiniteSet(Anchors)
  BY CriticAssumption
<1>2. IsFiniteSet({"viewpoint"}) /\ IsFiniteSet({"viewpoint"} \cup {"boundary"})
  BY FS_Singleton, FS_AddElement
<1>3. {"viewpoint"} \cup {"boundary"} = {"viewpoint", "boundary"}
  OBVIOUS
<1>4. IsFiniteSet(Routes)
  BY <1>1, <1>2, <1>3, FS_Union DEF Routes
<1>5. Alleging(audit) \subseteq Routes
  BY DEF Alleging, AssignmentViolations, PointOfViewCheck, SceneBoundaryCheck, Routes
<1> QED
  BY <1>4, <1>5, FS_Subset

(* Findings are grouped by routes that allege something.                    *)
LEMMA GroupFacts ==
  ASSUME NEW reply, Answered(reply), NEW g \in Groups(reply)
  PROVE  /\ g \subseteq Alleging(reply.audit) /\ g # {}
         /\ CategoryOf(CHOOSE r \in g : TRUE) \in Categories
<1>1. reply.same \in {FALSE} \cup {BoundaryEnds \subseteq Alleging(reply.audit)}
  BY DEF Answered, SameEvidence
<1>2. g \subseteq Alleging(reply.audit) /\ g # {}
  <2>1. reply.same => BoundaryEnds \subseteq Alleging(reply.audit)
    BY <1>1
  <2>2. \/ reply.same /\ g = BoundaryEnds
        \/ \E r \in Alleging(reply.audit) : g = {r}
    BY DEF Groups
  <2> QED
    BY <2>1, <2>2 DEF BoundaryEnds
<1>3. (CHOOSE r \in g : TRUE) \in Routes
  BY <1>2, RoutesFinite DEF Answered
<1>4. CategoryOf(CHOOSE r \in g : TRUE) \in AssignmentCategories
  BY <1>3, CriticAssumption DEF CategoryOf, Routes, AssignmentCategories
<1> QED
  BY <1>2, <1>4 DEF Categories

(* A finding is of a known category and severity, and says something.       *)
LEMMA FindingFacts ==
  ASSUME NEW reply, Answered(reply), NEW f \in Findings(reply)
  PROVE  Canonical(f) \in CritiqueIssues
<1>1. CASE f \in AuditFindings(reply)
  <2>1. PICK g \in Groups(reply) :
          f = [refs |-> g, category |-> CategoryOf(CHOOSE r \in g : TRUE), severity |-> "blocking",
               texts |-> {<<r, reply.audit[r]>> : r \in g}
                           \cup {Text(reply.issues[k]) : k \in Restating(reply, g)}]
    BY <1>1 DEF AuditFindings
  <2>2. g \subseteq Routes /\ reply.audit \in Audits
    BY GroupFacts, RoutesFinite DEF Answered
  <2>3. \A k \in Restating(reply, g) : Text(reply.issues[k]) \in CriticTexts
    BY IssueFacts DEF Restating, Text, CriticTexts
  <2>4. f.texts \subseteq CriticTexts
    BY <2>1, <2>2, <2>3 DEF CriticTexts
  <2>5. f.category \in Categories /\ f.severity \in Severities
    BY <2>1, GroupFacts DEF Severities
  <2> QED
    BY <2>4, <2>5 DEF Canonical, CritiqueIssues
<1>2. CASE f \in OwnFindings(reply)
  <2>1. PICK k \in Independent(reply) :
          f = [refs |-> {IssueRefs[k]}, category |-> reply.issues[k].kind[1],
               severity |-> SeverityOf(reply.issues[k]), texts |-> {Text(reply.issues[k])}]
    BY <1>2 DEF OwnFindings
  <2>2. reply.issues[k].kind \in IssueKinds /\ reply.issues[k].says \in Says
    BY IssueFacts DEF Independent
  <2>3. Text(reply.issues[k]) \in CriticTexts
    BY <2>2 DEF Text, CriticTexts
  <2>4. f.category \in Categories /\ f.severity \in Severities
    BY <2>1, <2>2 DEF SeverityOf, Severities, Categories
  <2>5. f.texts \subseteq CriticTexts
    BY <2>1, <2>3
  <2> QED
    BY <2>4, <2>5 DEF Canonical, CritiqueIssues
<1> QED
  BY <1>1, <1>2 DEF Findings

(* An answer has finitely many findings.                                    *)
LEMMA FindingsFinite ==
  ASSUME NEW reply, Answered(reply)
  PROVE  IsFiniteSet(Findings(reply))
<1> DEFINE OfGroup(g) ==
             [refs |-> g, category |-> CategoryOf(CHOOSE r \in g : TRUE), severity |-> "blocking",
              texts |-> {<<r, reply.audit[r]>> : r \in g}
                          \cup {Text(reply.issues[k]) : k \in Restating(reply, g)}]
           OfIssue(k) ==
             [refs |-> {IssueRefs[k]}, category |-> reply.issues[k].kind[1],
              severity |-> SeverityOf(reply.issues[k]), texts |-> {Text(reply.issues[k])}]
<1>1. IsFiniteSet(SUBSET Routes) /\ Groups(reply) \subseteq SUBSET Routes
  BY GroupFacts, RoutesFinite, FS_SUBSET DEF Answered
<1>2. IsFiniteSet(Groups(reply))
  BY <1>1, FS_Subset
<1>3. AuditFindings(reply) = {OfGroup(g) : g \in Groups(reply)}
  BY DEF AuditFindings
<1>4. IsFiniteSet(AuditFindings(reply))
  <2> DEFINE fn == [g \in Groups(reply) |-> OfGroup(g)]
  <2>1. /\ fn \in [Groups(reply) -> AuditFindings(reply)]
        /\ \A f \in AuditFindings(reply) : \E g \in Groups(reply) : fn[g] = f
    <3> HIDE DEF OfGroup
    <3> QED
      BY <1>3
  <2> HIDE DEF fn
  <2> QED
    BY <1>2, <2>1, FiniteImage
<1>5. Independent(reply) \subseteq {1}
  BY IssueFacts DEF Independent
<1>6. IsFiniteSet(Independent(reply))
  BY <1>5, FS_Singleton, FS_Subset
<1>7. OwnFindings(reply) = {OfIssue(k) : k \in Independent(reply)}
  BY DEF OwnFindings
<1>8. IsFiniteSet(OwnFindings(reply))
  <2> DEFINE fn == [k \in Independent(reply) |-> OfIssue(k)]
  <2>1. /\ fn \in [Independent(reply) -> OwnFindings(reply)]
        /\ \A f \in OwnFindings(reply) : \E k \in Independent(reply) : fn[k] = f
    <3> HIDE DEF OfIssue
    <3> QED
      BY <1>7
  <2> HIDE DEF fn
  <2> QED
    BY <1>6, <2>1, FiniteImage
<1> QED
  BY <1>4, <1>8, FS_Union DEF Findings

(* The critique of an answer says what the answer reports, apart from what  *)
(* repeats a repair, and every repair found unmet, and nothing else.        *)
LEMMA CritiqueSays ==
  ASSUME critiques \in Seq(Critiques), NEW reply, Answered(reply)
  PROVE  LET c == CritiqueOf(reply)
         IN  /\ c \in Critiques /\ c.verdict = Verdict(reply)
             /\ \A f \in Findings(reply) \ Linked(reply) :
                  \E k \in DOMAIN c.issues : c.issues[k] = Canonical(f)
             /\ \A t \in Unmet(reply) : \E k \in DOMAIN c.issues : c.issues[k] = Original(t)
             /\ \A k \in DOMAIN c.issues :
                  \/ \E f \in Findings(reply) : c.issues[k] = Canonical(f)
                  \/ \E t \in Unmet(reply) : c.issues[k] = Original(t)
<1> DEFINE c == CritiqueOf(reply)
           S == Findings(reply) \ Linked(reply)
           own == InSomeOrder(S)
           owed == InSomeOrder(Unmet(reply))
           first == [k \in DOMAIN own |-> Canonical(own[k])]
           second == [k \in DOMAIN owed |-> Original(owed[k])]
<1>1. IsFiniteSet(S)
  BY FindingsFinite, FS_Difference
<1>2. IsFiniteSet(Unmet(reply)) /\ Unmet(reply) \subseteq Tests
  <2>1. IsFiniteSet(Tests) /\ Unmet(reply) \subseteq Tests
    BY TestsFinite DEF Tests, Unmet
  <2> QED
    BY <2>1, FS_Subset
<1>3. own \in Seq(S) /\ \A f \in S : \E k \in DOMAIN own : own[k] = f
  BY <1>1, SomeOrder
<1>4. owed \in Seq(Unmet(reply)) /\ \A t \in Unmet(reply) : \E k \in DOMAIN owed : owed[k] = t
  BY <1>2, SomeOrder
<1>5. c = [verdict |-> Verdict(reply), issues |-> first \o second]
  BY DEF CritiqueOf
<1>6. Verdict(reply) \in {"pass", "revise"}
  BY DEF Verdict, Answered
<1>7. \A f \in S : Canonical(f) \in CritiqueIssues
  BY FindingFacts
<1>8. \A t \in Unmet(reply) : Original(t) \in CritiqueIssues
  BY <1>2, TestFacts DEF Tests, IssueAt, Original
<1> HIDE DEF S, own, owed
<1>9. /\ first \in Seq(CritiqueIssues) /\ Len(first) = Len(own) /\ Len(own) \in Nat
      /\ \A k \in 1 .. Len(own) : first[k] = Canonical(own[k]) /\ own[k] \in S
      /\ DOMAIN own = 1 .. Len(own)
  BY <1>3, <1>7
<1>10. /\ second \in Seq(CritiqueIssues) /\ Len(second) = Len(owed) /\ Len(owed) \in Nat
       /\ \A k \in 1 .. Len(owed) : second[k] = Original(owed[k]) /\ owed[k] \in Unmet(reply)
       /\ DOMAIN owed = 1 .. Len(owed)
  BY <1>4, <1>8
<1> DEFINE all == first \o second
<1> HIDE DEF first, second
<1>11. /\ all \in Seq(CritiqueIssues) /\ Len(all) = Len(own) + Len(owed)
       /\ DOMAIN all = 1 .. Len(own) + Len(owed)
       /\ \A k \in 1 .. Len(own) : all[k] = first[k]
       /\ \A k \in 1 .. Len(owed) : all[Len(own) + k] = second[k]
  <2>1. first \in Seq(CritiqueIssues) /\ second \in Seq(CritiqueIssues)
    BY <1>9, <1>10
  <2>2. Len(first) = Len(own) /\ Len(second) = Len(owed) /\ Len(own) \in Nat /\ Len(owed) \in Nat
    BY <1>9, <1>10
  <2> QED
    BY ONLY <2>1, <2>2, Concatenated
<1>12. c \in Critiques /\ c.verdict = Verdict(reply) /\ c.issues = all
  BY <1>5, <1>6, <1>11 DEF Critiques
<1> HIDE DEF all, c
<1>13. ASSUME NEW f \in S PROVE \E k \in DOMAIN c.issues : c.issues[k] = Canonical(f)
  <2>1. PICK k \in 1 .. Len(own) : own[k] = f
    BY <1>3, <1>9
  <2>2. k \in 1 .. Len(own) + Len(owed) /\ all[k] = Canonical(f)
    BY <2>1, <1>9, <1>10, <1>11
  <2> QED
    BY <2>2, <1>11, <1>12
<1>14. ASSUME NEW t \in Unmet(reply) PROVE \E k \in DOMAIN c.issues : c.issues[k] = Original(t)
  <2>1. PICK k \in 1 .. Len(owed) : owed[k] = t
    BY <1>4, <1>10
  <2>2. Len(own) + k \in 1 .. Len(own) + Len(owed) /\ all[Len(own) + k] = Original(t)
    BY <2>1, <1>9, <1>10, <1>11
  <2> QED
    BY <2>2, <1>11, <1>12
<1>15. ASSUME NEW k \in DOMAIN c.issues
       PROVE  \/ \E f \in Findings(reply) : c.issues[k] = Canonical(f)
              \/ \E t \in Unmet(reply) : c.issues[k] = Original(t)
  <2>1. k \in 1 .. Len(own) + Len(owed)
    BY <1>11, <1>12
  <2>2. CASE k \in 1 .. Len(own)
    BY <2>2, <1>9, <1>11, <1>12 DEF S
  <2>3. CASE k \notin 1 .. Len(own)
    <3>1. k - Len(own) \in 1 .. Len(owed) /\ Len(own) + (k - Len(own)) = k
      BY <2>1, <2>3, <1>9, <1>10
    <3>2. all[k] = second[k - Len(own)]
      BY <3>1, <1>11
    <3> QED
      BY <3>1, <3>2, <1>10, <1>12
  <2> QED
    BY <2>2, <2>3
<1> QED
  BY <1>12, <1>13, <1>14, <1>15 DEF S, c

(* A critique that passes reports nothing that blocks.                      *)
LEMMA PassReports ==
  ASSUME NEW reply, Answered(reply), Verdict(reply) = "pass"
  PROVE  Unmet(reply) = {} /\ \A f \in Findings(reply) : ~ Blocks(Canonical(f))
<1>1. /\ Unmet(reply) = {} /\ AuditFindings(reply) = {}
      /\ \/ OnlyLengths(reply)
         \/ \A k \in DOMAIN reply.issues : reply.issues[k].kind[2] # "blocking"
  BY DEF Verdict
<1>2. ASSUME NEW f \in OwnFindings(reply) PROVE ~ Blocks(Canonical(f))
  <2>1. PICK k \in Independent(reply) :
          f = [refs |-> {IssueRefs[k]}, category |-> reply.issues[k].kind[1],
               severity |-> SeverityOf(reply.issues[k]), texts |-> {Text(reply.issues[k])}]
    BY DEF OwnFindings
  <2>2. k \in DOMAIN reply.issues
    BY DEF Independent
  <2>3. SeverityOf(reply.issues[k]) # "blocking"
    BY <1>1, <2>2 DEF OnlyLengths, SeverityOf
  <2> QED
    BY <2>1, <2>3 DEF Blocks, Canonical
<1> QED
  BY <1>1, <1>2 DEF Findings

(* A finding that repeats a repair is of its kind, and the repair is unmet. *)
LEMMA LinkedRepairs ==
  ASSUME critiques \in Seq(Critiques),
         NEW reply, Answered(reply), ~ Refused(reply), NEW f \in Linked(reply)
  PROVE  /\ OwnerOf(reply, f) \in Unmet(reply)
         /\ f.category = Original(OwnerOf(reply, f)).category
         /\ f.severity = Original(OwnerOf(reply, f)).severity
<1> DEFINE t == OwnerOf(reply, f)
<1>1. f \in Findings(reply) /\ \E u \in Tests : Links(reply, u) \cap f.refs # {}
  BY DEF Linked
<1>2. t \in Tests /\ Links(reply, t) \cap f.refs # {}
  BY <1>1 DEF OwnerOf
<1> HIDE DEF t
<1>3. LinkFits(reply, t)
  BY <1>2 DEF Refused
<1>4. f.category = Original(t).category /\ f.severity = Original(t).severity
  BY <1>1, <1>2, <1>3 DEF LinkFits
<1>5. ~ reply.checks[t].met
  <2>1. CASE reply.checks[t].refs # {}
    BY <2>1, <1>3 DEF LinkFits
  <2>2. CASE reply.checks[t].refs = {}
    <3>1. PICK k \in Independent(reply) : reply.issues[k].repeats = t
      BY <1>2, <2>2 DEF Links
    <3>2. k \in DOMAIN reply.issues
      BY DEF Independent
    <3>3. IssueFits(reply, reply.issues[k]) /\ t # NoTest
      BY <3>2, <1>2, TestFacts DEF Refused, Tests
    <3> QED
      BY <3>1, <3>3 DEF IssueFits, MayRepeat
  <2> QED
    BY <2>1, <2>2
<1> QED
  BY <1>2, <1>4, <1>5 DEF Unmet, t

-----------------------------------------------------------------------------
(* The steps.                                                               *)

(* Before the first review nothing is reported.                             *)
LEMMA CriticStarts == CriticInit => CriticInv
<1> SUFFICES ASSUME CriticInit PROVE CriticInv
  OBVIOUS
<1>1. CritiquesInv
  BY DEF CriticInit, CritiquesInv
<1>2. RetainedInv /\ ReviewInv
  BY DEF CriticInit, RetainedInv, ReviewInv
<1>3. NothingReportedIsLost /\ UnmetRepairStays /\ AcceptedMeansSettled
  BY DEF CriticInit, NothingReportedIsLost, UnmetRepairStays, AcceptedMeansSettled
<1> QED
  BY <1>1, <1>2, <1>3 DEF CriticInv

(* An accepted answer adds a critique that says what it reports, and passes *)
(* only without a repair that blocks.                                       *)
LEMMA AcceptKeeps ==
  ASSUME CriticInv, NEW reply, Answered(reply), AcceptAnswer(reply)
  PROVE  CriticInv'
<1> DEFINE c == CritiqueOf(reply)
           n == Len(critiques)
<1>1. /\ critiques \in Seq(Critiques) /\ n \in Nat /\ step = "review" /\ released = {}
      /\ \A m \in 1 .. n : PassBlocksNothing(critiques[m])
      /\ ~ Refused(reply)
  BY DEF CriticInv, CritiquesInv, ReviewInv, AcceptAnswer
<1>2. /\ c \in Critiques /\ c.verdict = Verdict(reply)
      /\ \A f \in Findings(reply) \ Linked(reply) :
           \E k \in DOMAIN c.issues : c.issues[k] = Canonical(f)
      /\ \A t \in Unmet(reply) : \E k \in DOMAIN c.issues : c.issues[k] = Original(t)
      /\ \A k \in DOMAIN c.issues :
           \/ \E f \in Findings(reply) : c.issues[k] = Canonical(f)
           \/ \E t \in Unmet(reply) : c.issues[k] = Original(t)
  BY <1>1, CritiqueSays
<1>3. /\ critiques' = Append(critiques, c) /\ step' \in Leads(c)
      /\ retained' = {} /\ failed' = FALSE /\ unmet' = Unmet(reply) /\ released' = {}
      /\ reported' = {[finding |-> Canonical(f), owner |-> OwnerOf(reply, f)] :
                       f \in Findings(reply)}
  BY <1>1 DEF AcceptAnswer
<1> HIDE DEF c
<1>4. /\ critiques' \in Seq(Critiques) /\ Len(critiques') = n + 1 /\ critiques'[n + 1] = c
      /\ Tests \subseteq Tests'
      /\ \A t \in Tests : Original(t)' = Original(t)
      /\ \A t \in Tests' : \/ t \in Tests
                           \/ /\ t[1] = n + 1 /\ t[2] \in ActionableOf(c)
                              /\ Original(t)' = c.issues[t[2]]
  <2>1. Tests' = RepairTests(critiques') /\ \A t : Original(t)' = IssueAt(critiques', t)
    BY DEF Tests, Original, IssueAt
  <2>2. Tests = RepairTests(critiques) /\ \A t : Original(t) = IssueAt(critiques, t)
    BY DEF Tests, Original, IssueAt
  <2> QED
    BY <2>1, <2>2, <1>1, <1>2, <1>3, TestsGrow
<1>5. \A m \in 1 .. n : critiques'[m] = critiques[m]
  BY <1>1, <1>2, <1>3
<1>6. PassBlocksNothing(c)
  BY <1>2, PassReports DEF PassBlocksNothing
<1>7. CritiquesInv'
  <2>1. step' \in {"review", "adjudicate", "accepted", "rejected"}
    BY <1>3 DEF Leads
  <2>2. ASSUME NEW m \in 1 .. n + 1 PROVE PassBlocksNothing(critiques'[m])
    <3>1. m \in 1 .. n \/ m = n + 1
      BY <1>1
    <3> QED
      BY <3>1, <1>1, <1>4, <1>5, <1>6
  <2> QED
    BY <2>1, <2>2, <1>4 DEF CritiquesInv, PassBlocksNothing
<1>8. RetainedInv'
  BY <1>3 DEF RetainedInv
<1>9. Unmet(reply) \subseteq Tests
  BY DEF Unmet
<1>10. \A f \in Findings(reply) : OwnerOf(reply, f) \in Unmet(reply) \cup {NoTest}
  BY <1>1, LinkedRepairs DEF OwnerOf
<1>11. ReviewInv'
  <2>1. critiques' # << >>
    BY <1>1, <1>4
  <2>2. unmet' \subseteq Tests'
    BY <1>3, <1>4, <1>9
  <2>3. \A r \in reported' : r.owner \in Tests' \cup {NoTest}
    BY <1>3, <1>4, <1>9, <1>10
  <2> QED
    BY <2>1, <2>2, <2>3, <1>3 DEF ReviewInv
<1>12. LatestIssues' = {c.issues[k] : k \in DOMAIN c.issues}
  BY <1>4 DEF LatestIssues
<1>13. NothingReportedIsLost'
  <2> SUFFICES ASSUME NEW r \in reported'
               PROVE  \E issue \in LatestIssues' :
                        \/ issue = r.finding
                        \/ /\ r.owner # NoTest /\ issue = Original(r.owner)'
                           /\ issue.category = r.finding.category
                           /\ issue.severity = r.finding.severity
    BY DEF NothingReportedIsLost
  <2>1. PICK f \in Findings(reply) :
          r = [finding |-> Canonical(f), owner |-> OwnerOf(reply, f)]
    BY <1>3
  <2>2. CASE f \notin Linked(reply)
    BY <2>1, <2>2, <1>2, <1>12
  <2>3. CASE f \in Linked(reply)
    <3>1. PICK t \in Unmet(reply) :
            /\ t = OwnerOf(reply, f)
            /\ f.category = Original(t).category /\ f.severity = Original(t).severity
      BY <1>1, <2>3, LinkedRepairs
    <3>2. t # NoTest /\ Original(t)' = Original(t)
      BY <3>1, <1>1, <1>4, <1>9, TestFacts DEF Tests
    <3>3. Original(t) \in LatestIssues'
      BY <3>1, <1>2, <1>12
    <3> QED
      BY <2>1, <3>1, <3>2, <3>3 DEF Canonical
  <2> QED
    BY <2>2, <2>3
<1>14. UnmetRepairStays'
  <2> SUFFICES ASSUME NEW t \in Unmet(reply)
               PROVE  \E k \in ActionableOf(c) : c.issues[k] = Original(t)'
    BY <1>3, <1>4 DEF UnmetRepairStays
  <2>1. t \in Tests /\ Original(t)' = Original(t)
    BY <1>4, <1>9
  <2>2. Original(t).severity \in {"blocking", "major"}
    BY <2>1, <1>1, TestFacts DEF Tests, Original, IssueAt
  <2>3. c.verdict = "revise"
    BY <1>2 DEF Verdict
  <2>4. PICK k \in DOMAIN c.issues : c.issues[k] = Original(t)
    BY <1>2
  <2> QED
    BY <2>1, <2>2, <2>3, <2>4 DEF ActionableOf, Actionable, Blocks
<1>15. AcceptedMeansSettled'
  <2> SUFFICES ASSUME step' = "accepted", NEW t \in Tests', Blocks(Original(t)')
               PROVE  t[1] < LastAnswered' /\ t \notin unmet'
    BY DEF AcceptedMeansSettled, Blocks
  <2>1. \A k \in DOMAIN c.issues : ~ Blocks(c.issues[k])
    <3>1. \/ {k \in DOMAIN c.issues : Blocks(c.issues[k])} = {}
          \/ c.verdict # "revise"
      BY <1>3 DEF Leads
    <3> QED
      BY <3>1, <1>2, <1>6 DEF PassBlocksNothing, Critiques
  <2>2. LastAnswered' = n + 1
    BY <1>3, <1>4 DEF LastAnswered
  <2>3. t \in Tests
    <3>1. ASSUME t[2] \in ActionableOf(c), Original(t)' = c.issues[t[2]] PROVE FALSE
      BY <2>1, <3>1 DEF ActionableOf
    <3> QED
      BY <3>1, <1>4
  <2>4. t[1] \in 1 .. n
    BY <2>3, <1>1, TestFacts DEF Tests
  <2>5. t \notin Unmet(reply)
    BY <1>2, <1>4, <2>1, <2>3
  <2> QED
    BY <2>2, <2>4, <2>5, <1>1, <1>3
<1> QED
  BY <1>7, <1>8, <1>11, <1>13, <1>14, <1>15 DEF CriticInv

(* The number of issues of a kind that restate a finding is within bounds.  *)
LEMMA ClassifiedBounds ==
  ASSUME NEW reply, Answered(reply), reply.issues # << >>, NEW kind
  PROVE  Classified(reply, kind) \in [Routes \cup {None} -> 0 .. MaxReported]
<1>1. MaxReported \in Nat /\ MaxReported >= 1
  <2>1. IsFiniteSet(Alleging(reply.audit)) /\ Cardinality(Alleging(reply.audit)) < MaxReported
    BY RoutesFinite DEF Answered
  <2>2. Cardinality(Alleging(reply.audit)) \in Nat
    BY <2>1, FS_CardinalityType
  <2>3. MaxReported \in Nat
    BY CriticAssumption
  <2> QED
    BY <2>1, <2>2, <2>3
<1>2. ASSUME NEW S \in SUBSET DOMAIN reply.issues PROVE Cardinality(S) \in 0 .. MaxReported
  <2>1. S \in SUBSET {1}
    BY IssueFacts
  <2>2. IsFiniteSet({1}) /\ Cardinality({1}) = 1
    BY FS_Singleton
  <2>3. IsFiniteSet(S) /\ Cardinality(S) <= 1
    BY <2>1, <2>2, FS_Subset
  <2>4. Cardinality(S) \in Nat
    BY <2>3, FS_CardinalityType
  <2> QED
    BY <2>3, <2>4, <1>1
<1>3. \A r \in Routes \cup {None} :
        {k \in DOMAIN reply.issues : /\ reply.issues[k].kind = kind
                                      /\ reply.issues[k].restates = r}
          \in SUBSET DOMAIN reply.issues
  OBVIOUS
<1> QED
  BY <1>2, <1>3 DEF Classified

(* A refused answer leaves its classification, and nothing else.            *)
LEMMA RefuseKeeps ==
  ASSUME CriticInv, NEW reply, Answered(reply), RefuseAnswer(reply)
  PROVE  CriticInv'
<1>1. /\ UNCHANGED <<step, critiques, reported, unmet, released>>
      /\ retained' = (IF failed THEN retained ELSE Retainable(reply)) /\ failed' = TRUE
  BY DEF RefuseAnswer
<1>2. ASSUME NEW e \in Retainable(reply)
      PROVE  e.kind \in IssueKinds /\ e.choices \in [Routes \cup {None} -> 0 .. MaxReported]
  <2>1. PICK kind \in {reply.issues[k].kind : k \in DOMAIN reply.issues} :
          e = [kind |-> kind, choices |-> Classified(reply, kind)]
    BY DEF Retainable
  <2>2. kind \in IssueKinds /\ reply.issues # << >>
    BY <2>1, IssueFacts
  <2> QED
    BY <2>1, <2>2, ClassifiedBounds
<1>3. RetainedInv'
  BY <1>1, <1>2 DEF CriticInv, RetainedInv
<1> QED
  BY <1>1, <1>3 DEF CriticInv, CritiquesInv, ReviewInv, NothingReportedIsLost,
    UnmetRepairStays, AcceptedMeansSettled, LatestIssues, LastAnswered, Tests, Original

(* A failed call forgets the classification that was kept.                  *)
LEMMA FailureKeeps ==
  ASSUME CriticInv, CallFails
  PROVE  CriticInv'
<1>1. /\ UNCHANGED <<step, critiques, reported, unmet, released>>
      /\ retained' = {} /\ failed' = TRUE
  BY DEF CallFails
<1>2. RetainedInv'
  BY <1>1 DEF RetainedInv
<1> QED
  BY <1>1, <1>2 DEF CriticInv, CritiquesInv, ReviewInv, NothingReportedIsLost,
    UnmetRepairStays, AcceptedMeansSettled, LatestIssues, LastAnswered, Tests, Original

(* The adjudication releases issues of the last critique, in which what it  *)
(* asked for is still found, and accepts the scene only if none of the      *)
(* others blocks.                                                           *)
LEMMA AdjudicationKeeps ==
  ASSUME CriticInv, NEW freed, AdjudicateCritique(freed)
  PROVE  CriticInv'
<1> DEFINE n == Len(critiques)
           latest == critiques[n]
           Freed(issue) == [issue EXCEPT !.severity = "note"]
           issues == [k \in DOMAIN latest.issues |->
                        IF k \in freed THEN Freed(latest.issues[k]) ELSE latest.issues[k]]
           c == [latest EXCEPT !.issues = issues]
<1>1. /\ critiques \in Seq(Critiques) /\ n \in Nat /\ step = "adjudicate" /\ released = {}
      /\ \A m \in 1 .. n : PassBlocksNothing(critiques[m])
      /\ critiques # << >>
  BY DEF CriticInv, CritiquesInv, ReviewInv, AdjudicateCritique
<1>2. n \in 1 .. n /\ latest \in Critiques /\ PassBlocksNothing(latest)
  <2>1. n \in 1 .. n
    BY <1>1
  <2> QED
    BY <2>1, <1>1
<1>3. /\ critiques' = Append(critiques, c)
      /\ released' = {latest.issues[k] : k \in freed}
      /\ step' = Settled(freed, c)
      /\ freed \subseteq DOMAIN latest.issues
      /\ retained' = retained /\ failed' = failed /\ reported' = reported /\ unmet' = unmet
  BY <1>2 DEF AdjudicateCritique, Critiques
<1>4. /\ issues \in Seq(CritiqueIssues) /\ DOMAIN issues = DOMAIN latest.issues
      /\ \A k \in DOMAIN issues : /\ k \in freed => ~ Blocks(issues[k])
                                  /\ k \notin freed => issues[k] = latest.issues[k]
  <2>1. latest.issues \in Seq(CritiqueIssues)
    BY <1>2 DEF Critiques
  <2>2. ASSUME NEW issue \in CritiqueIssues
        PROVE  Freed(issue) \in CritiqueIssues /\ ~ Blocks(Freed(issue))
    BY <2>2 DEF CritiqueIssues, Severities, Blocks
  <2> HIDE DEF Freed, latest
  <2> QED
    BY <2>1, <2>2
<1>5. /\ c \in Critiques /\ c.issues = issues /\ c.verdict = latest.verdict
  <2> HIDE DEF issues, latest
  <2> QED
    BY <1>2, <1>4 DEF Critiques
<1> HIDE DEF c, issues
<1>6. /\ critiques' \in Seq(Critiques) /\ Len(critiques') = n + 1 /\ critiques'[n + 1] = c
      /\ Tests \subseteq Tests'
      /\ \A t \in Tests : Original(t)' = Original(t)
      /\ \A t \in Tests' : \/ t \in Tests
                           \/ /\ t[1] = n + 1 /\ t[2] \in ActionableOf(c)
                              /\ Original(t)' = c.issues[t[2]]
  <2>1. Tests' = RepairTests(critiques') /\ \A t : Original(t)' = IssueAt(critiques', t)
    BY DEF Tests, Original, IssueAt
  <2>2. Tests = RepairTests(critiques) /\ \A t : Original(t) = IssueAt(critiques, t)
    BY DEF Tests, Original, IssueAt
  <2> QED
    BY <2>1, <2>2, <1>1, <1>3, <1>5, TestsGrow
<1>7. \A m \in 1 .. n : critiques'[m] = critiques[m]
  BY <1>1, <1>3, <1>5
<1>8. PassBlocksNothing(c)
  BY <1>2, <1>4, <1>5 DEF PassBlocksNothing
<1>9. CritiquesInv'
  <2>1. step' \in {"review", "adjudicate", "accepted", "rejected"}
    BY <1>3 DEF Settled
  <2>2. ASSUME NEW m \in 1 .. n + 1 PROVE PassBlocksNothing(critiques'[m])
    <3>1. m \in 1 .. n \/ m = n + 1
      BY <1>1
    <3> QED
      BY <3>1, <1>1, <1>6, <1>7, <1>8
  <2> QED
    BY <2>1, <2>2, <1>6 DEF CritiquesInv, PassBlocksNothing
<1>10. RetainedInv'
  BY <1>3 DEF RetainedInv, CriticInv
<1>11. unmet \subseteq Tests /\ \A r \in reported : r.owner \in Tests \cup {NoTest}
  BY DEF CriticInv, ReviewInv
<1>12. ReviewInv'
  <2>1. critiques' # << >> /\ step' \notin {"review", "adjudicate"}
    BY <1>1, <1>3, <1>6 DEF Settled
  <2> QED
    BY <2>1, <1>3, <1>6, <1>11 DEF ReviewInv
<1>13. /\ LatestIssues = {latest.issues[k] : k \in DOMAIN latest.issues}
       /\ LatestIssues' = {c.issues[k] : k \in DOMAIN c.issues}
  BY <1>6 DEF LatestIssues
<1>14. \A k \in DOMAIN latest.issues :
         \/ latest.issues[k] \in released'
         \/ k \in DOMAIN c.issues /\ c.issues[k] = latest.issues[k]
  BY <1>3, <1>4, <1>5
<1>15. NothingReportedIsLost'
  <2> SUFFICES ASSUME NEW r \in reported
               PROVE  \E issue \in LatestIssues' \cup released' :
                        \/ issue = r.finding
                        \/ /\ r.owner # NoTest /\ issue = Original(r.owner)'
                           /\ issue.category = r.finding.category
                           /\ issue.severity = r.finding.severity
    BY <1>3 DEF NothingReportedIsLost
  <2>1. PICK issue \in LatestIssues :
          \/ issue = r.finding
          \/ /\ r.owner # NoTest /\ issue = Original(r.owner)
             /\ issue.category = r.finding.category /\ issue.severity = r.finding.severity
    BY <1>1 DEF CriticInv, NothingReportedIsLost
  <2>2. issue \in LatestIssues' \cup released'
    BY <1>13, <1>14
  <2>3. r.owner # NoTest => Original(r.owner)' = Original(r.owner)
    BY <1>6, <1>11
  <2> QED
    BY <2>1, <2>2, <2>3
<1>16. ASSUME NEW t \in unmet
       PROVE  /\ t \in Tests /\ Original(t)' = Original(t)
              /\ \E k \in ActionableOf(latest) : latest.issues[k] = Original(t)
  BY <1>1, <1>6, <1>11 DEF CriticInv, UnmetRepairStays
<1>17. UnmetRepairStays'
  <2> SUFFICES ASSUME NEW t \in unmet
               PROVE  \/ Original(t)' \in released'
                      \/ \E k \in ActionableOf(c) : c.issues[k] = Original(t)'
    BY <1>3, <1>6 DEF UnmetRepairStays
  <2>1. PICK k \in ActionableOf(latest) : latest.issues[k] = Original(t)
    BY <1>16
  <2>2. k \in DOMAIN latest.issues /\ Actionable(latest, latest.issues[k])
    BY DEF ActionableOf
  <2>3. CASE latest.issues[k] \in released'
    BY <2>1, <2>3, <1>16
  <2>4. CASE k \in DOMAIN c.issues /\ c.issues[k] = latest.issues[k]
    <3>1. k \in ActionableOf(c)
      BY <2>2, <2>4, <1>5 DEF ActionableOf, Actionable
    <3> QED
      BY <2>1, <2>4, <3>1, <1>16
  <2> QED
    BY <2>2, <2>3, <2>4, <1>14
<1>18. AcceptedMeansSettled'
  <2> SUFFICES ASSUME step' = "accepted", NEW t \in Tests', Blocks(Original(t)')
               PROVE  \/ Original(t)' \in released'
                      \/ t[1] < LastAnswered' /\ t \notin unmet'
    BY DEF AcceptedMeansSettled, Blocks
  <2>1. \A k \in DOMAIN c.issues : ~ Blocks(c.issues[k])
    BY <1>3 DEF Settled
  <2>2. t \in Tests /\ Original(t)' = Original(t)
    <3>1. ASSUME t[2] \in ActionableOf(c), Original(t)' = c.issues[t[2]] PROVE FALSE
      BY <2>1, <3>1 DEF ActionableOf
    <3> QED
      BY <3>1, <1>6
  <2>3. t[1] \in 1 .. n /\ t[2] \in ActionableOf(critiques[t[1]])
    BY <2>2, <1>1, TestFacts DEF Tests
  <2>4. LastAnswered' \in {n, n + 1}
    BY <1>1, <1>6 DEF LastAnswered
  <2>5. ASSUME NEW k \in DOMAIN latest.issues, latest.issues[k] = Original(t)
        PROVE  Original(t)' \in released'
    BY <2>1, <2>2, <2>5, <1>14
  <2>6. CASE t \in unmet
    BY <2>5, <2>6, <1>16 DEF ActionableOf
  <2>7. CASE t[1] = n
    BY <2>3, <2>5, <2>7 DEF ActionableOf, Original
  <2>8. CASE t \notin unmet /\ t[1] # n
    BY <2>3, <2>4, <2>8, <1>1, <1>3
  <2> QED
    BY <2>6, <2>7, <2>8
<1> QED
  BY <1>9, <1>10, <1>12, <1>15, <1>17, <1>18 DEF CriticInv

(* Every step keeps the invariant.                                          *)
LEMMA CriticSteps == CriticInv /\ [CriticNext]_criticVars => CriticInv'
<1> SUFFICES ASSUME CriticInv, [CriticNext]_criticVars PROVE CriticInv'
  OBVIOUS
<1>1. CASE UNCHANGED criticVars
  <2>1. UNCHANGED <<step, critiques, retained, failed, reported, unmet, released>>
    BY <1>1 DEF criticVars
  <2>2. /\ CritiquesInv' /\ RetainedInv' /\ Tests' = Tests /\ LatestIssues' = LatestIssues
        /\ LastAnswered' = LastAnswered /\ \A t : Original(t)' = Original(t)
    BY <2>1 DEF CriticInv, CritiquesInv, RetainedInv, Tests, LatestIssues, LastAnswered, Original
  <2>3. ReviewInv'
    BY <2>1, <2>2 DEF CriticInv, ReviewInv
  <2>4. NothingReportedIsLost' /\ UnmetRepairStays' /\ AcceptedMeansSettled'
    BY <2>1, <2>2 DEF CriticInv, NothingReportedIsLost, UnmetRepairStays, AcceptedMeansSettled
  <2> QED
    BY <2>2, <2>3, <2>4 DEF CriticInv
<1>2. ASSUME NEW reply \in Answers(AllChecks, {None}), AcceptAnswer(reply) PROVE CriticInv'
  <2>1. \A audit \in Audits : AllChecks[audit] \subseteq [Tests -> Checks(audit)]
    BY DEF AllChecks
  <2>2. Answered(reply)
    BY <2>1, AnswerFacts
  <2> QED
    BY <1>2, <2>2, AcceptKeeps
<1>3. ASSUME NEW reply \in Retaining, RefuseAnswer(reply) PROVE CriticInv'
  <2>1. \A audit \in Audits : AllMet[audit] \subseteq [Tests -> Checks(audit)]
    BY DEF AllMet, Checks
  <2>2. reply \in Answers(AllMet, {None, "form", "audit"})
    BY DEF Retaining
  <2>3. Answered(reply)
    BY <2>1, <2>2, AnswerFacts
  <2> QED
    BY <1>3, <2>3, RefuseKeeps
<1>4. CASE CallFails
  BY <1>4, FailureKeeps
<1>5. ASSUME NEW freed, AdjudicateCritique(freed) PROVE CriticInv'
  BY <1>5, AdjudicationKeeps
<1> QED
  BY <1>1, <1>2, <1>3, <1>4, <1>5 DEF CriticNext

(* The types are part of it.                                                *)
LEMMA CriticTypesFollow == CriticInv => CriticTypeOK
<1> SUFFICES ASSUME CriticInv PROVE CriticTypeOK
  OBVIOUS
<1>1. ASSUME NEW c \in Range(critiques)
      PROVE  /\ c.verdict \in {"pass", "revise"}
             /\ \A i \in Range(c.issues) : i.category \in Categories /\ i.severity \in Severities
             /\ c.verdict = "pass" => \A i \in Range(c.issues) : ~ Blocks(i)
  <2>1. PICK n \in 1 .. Len(critiques) : c = critiques[n]
    BY DEF Range, CriticInv, CritiquesInv
  <2>2. c \in Critiques /\ PassBlocksNothing(c)
    BY <2>1 DEF CriticInv, CritiquesInv
  <2>3. c.issues \in Seq(CritiqueIssues) /\ c.verdict \in {"pass", "revise"}
    BY <2>2 DEF Critiques
  <2>4. \A k \in DOMAIN c.issues : c.issues[k] \in CritiqueIssues
    BY <2>3
  <2> QED
    BY <2>2, <2>3, <2>4 DEF Range, PassBlocksNothing, CritiqueIssues
<1> QED
  BY <1>1 DEF CriticTypeOK, CriticInv, CritiquesInv, RetainedInv, ReviewInv

(* Whatever the critic answers, the types are right, for every assignment,  *)
(* every kind of issue and any number of reviews.                           *)
THEOREM CriticTypes == CriticSpec => []CriticTypeOK
BY CriticStarts, CriticSteps, CriticTypesFollow, PTL DEF CriticSpec

(* No finding of an accepted answer is lost by the consolidation.           *)
THEOREM ReportsAreKept == CriticSpec => []NothingReportedIsLost
<1>1. CriticInv => NothingReportedIsLost
  BY DEF CriticInv
<1> QED
  BY <1>1, CriticStarts, CriticSteps, PTL DEF CriticSpec

(* A repair found unmet is asked for again in its own words.                *)
THEOREM RepairsStay == CriticSpec => []UnmetRepairStays
<1>1. CriticInv => UnmetRepairStays
  BY DEF CriticInv
<1> QED
  BY <1>1, CriticStarts, CriticSteps, PTL DEF CriticSpec

(* An accepted scene has met every blocking repair that was not released.   *)
THEOREM AcceptedIsSettled == CriticSpec => []AcceptedMeansSettled
<1>1. CriticInv => AcceptedMeansSettled
  BY DEF CriticInv
<1> QED
  BY <1>1, CriticStarts, CriticSteps, PTL DEF CriticSpec

-----------------------------------------------------------------------------
(* DialogueRounds.                                                          *)

SpokenTurns == [pass : Nat, character : 0 .. 2, round : Nat]
Speeches ==
  [rounds : Nat \X Nat, current_round : Nat, briefing : Nat, turns : Seq(SpokenTurns),
   evaluations : Seq(SpokenTurns), completion_reason : {Nothing, Ended, Maximum}]

(* The rounds that were evaluated, each as it was made in this pass.        *)
RoundsOf(sp, n, count) ==
  \A r \in 1 .. count :
    /\ sp.turns[2 * r - 1] = ValidTurn(n, 0, r)
    /\ sp.turns[2 * r] = ValidTurn(n, 1, r)
    /\ sp.evaluations[r] = ValidTurn(n, 2, r)

(* At each node of a pass: how many turns there are for the rounds that     *)
(* were evaluated, and how many steps it took.                              *)
Within(sp, n, made, taken) ==
  LET count == Len(sp.evaluations)
  IN  /\ sp.briefing = n
      /\ Len(sp.turns) = 2 * count + made /\ taken = 1 + 3 * count + made
      /\ RoundsOf(sp, n, count)
      /\ made >= 1 => sp.turns[2 * count + 1] = ValidTurn(n, 0, count + 1)
      /\ made = 2 => sp.turns[2 * count + 2] = ValidTurn(n, 1, count + 1)
Speaking(sp, n, made, taken) ==
  /\ Within(sp, n, made, taken)
  /\ sp.current_round = Len(sp.evaluations) + 1 /\ sp.current_round <= sp.rounds[2]

PassInv ==
  /\ node \in {"draft", "director_briefing", "character_one", "character_two",
               "director_evaluation", "dialogue_integration"}
  /\ node # "draft" => speech.rounds \in Assigned /\ pass >= 1
  /\ node = "director_briefing" =>
       /\ speech.turns = << >> /\ speech.evaluations = << >>
       /\ speech.current_round = 1 /\ steps = 0
  /\ node = "character_one" => Speaking(speech, pass, 0, steps)
  /\ node = "character_two" => Speaking(speech, pass, 1, steps)
  /\ node = "director_evaluation" => Speaking(speech, pass, 2, steps)
  /\ node = "dialogue_integration" =>
       /\ Within(speech, pass, 0, steps) /\ Len(speech.evaluations) <= speech.rounds[2]
       /\ speech.completion_reason # Nothing

DialogueInv ==
  /\ DialogueTypeOK /\ speech \in Speeches /\ steps \in Nat
  /\ PassInv

(* What the fields of a dialogue are.                                       *)
LEMMA SpeechFields ==
  ASSUME NEW sp \in Speeches
  PROVE  /\ sp.rounds[1] \in Nat /\ sp.rounds[2] \in Nat
         /\ sp.current_round \in Nat /\ sp.briefing \in Nat
         /\ sp.turns \in Seq(SpokenTurns) /\ sp.evaluations \in Seq(SpokenTurns)
         /\ Len(sp.turns) \in Nat /\ Len(sp.evaluations) \in Nat
         /\ sp.completion_reason \in {Nothing, Ended, Maximum}
BY DEF Speeches

(* A dialogue is assigned at least one round.                               *)
LEMMA AssignedRounds ==
  ASSUME NEW rounds \in Assigned
  PROVE  /\ rounds \in Nat \X Nat /\ rounds[2] >= 1
<1>1. PICK m \in Minimums, n \in Maximums : rounds = <<m, n>> /\ m <= n
  BY DEF Assigned
<1>2. m \in Nat \ {0} /\ n \in Nat
  BY <1>1, DialogueAssumption
<1> QED
  BY <1>1, <1>2

(* An appended turn is the last, and the others stay.                       *)
LEMMA Appended ==
  ASSUME NEW s \in Seq(SpokenTurns), NEW t \in SpokenTurns
  PROVE  /\ Append(s, t) \in Seq(SpokenTurns) /\ Len(Append(s, t)) = Len(s) + 1
         /\ Append(s, t)[Len(s) + 1] = t
         /\ \A k \in 1 .. Len(s) : Append(s, t)[k] = s[k]
OBVIOUS

(* A pass starts without a turn.                                            *)
LEMMA DialogueStarts == DialogueInit => DialogueInv
<1> SUFFICES ASSUME DialogueInit PROVE DialogueInv
  OBVIOUS
<1>1. speech \in Speeches
  BY DEF DialogueInit, Speeches, Unassigned, Nothing, SpokenTurns
<1>2. DialogueTypeOK /\ steps \in Nat
  BY DialogueAssumption DEF DialogueInit, DialogueTypeOK
<1>3. PassInv
  BY DEF DialogueInit, PassInv
<1> QED
  BY <1>1, <1>2, <1>3 DEF DialogueInv

(* The writer hands over to the briefing.                                   *)
LEMMA DraftKeeps == ASSUME DialogueInv, Draft PROVE DialogueInv'
<1>1. PICK rounds \in Assigned : speech' = NewDialogue(rounds)
  BY DEF Draft
<1>2. rounds \in Nat \X Nat /\ rounds[2] >= 1
  BY <1>1, AssignedRounds
<1>3. speech \in Speeches /\ speech.completion_reason \in {Nothing, Ended, Maximum}
  BY SpeechFields DEF DialogueInv
<1>4. /\ speech' \in Speeches /\ speech'.rounds = rounds /\ speech'.current_round = 1
      /\ speech'.turns = << >> /\ speech'.evaluations = << >>
      /\ speech'.completion_reason = speech.completion_reason
  <2>1. << >> \in Seq(SpokenTurns) /\ 1 \in Nat
    OBVIOUS
  <2>2. speech' = [speech EXCEPT !.rounds = rounds, !.current_round = 1, !.turns = << >>,
                                 !.evaluations = << >>]
    BY <1>1 DEF NewDialogue
  <2> QED
    BY <2>1, <2>2, <1>2, <1>3 DEF Speeches
<1>5. /\ node' = "director_briefing" /\ steps' = 0 /\ pass' = pass + 1 /\ pass < MaxPasses
      /\ pass \in 0 .. MaxPasses
  BY DEF Draft, DialogueInv, DialogueTypeOK
<1>6. pass' \in 0 .. MaxPasses /\ pass' >= 1
  BY <1>5, DialogueAssumption
<1>7. DialogueTypeOK'
  BY <1>3, <1>4, <1>5, <1>6 DEF DialogueTypeOK
<1>8. PassInv'
  BY <1>4, <1>5, <1>6 DEF PassInv
<1> QED
  BY <1>4, <1>5, <1>7, <1>8 DEF DialogueInv

(* The briefing starts the first round.                                     *)
LEMMA BriefKeeps == ASSUME DialogueInv, Brief PROVE DialogueInv'
<1>1. speech \in Speeches /\ pass \in 0 .. MaxPasses /\ speech.rounds \in Assigned /\ pass >= 1
  BY DEF DialogueInv, DialogueTypeOK, PassInv, Brief
<1>2. pass \in Nat
  BY <1>1, DialogueAssumption
<1>3. /\ speech' \in Speeches /\ speech'.rounds = speech.rounds /\ speech'.briefing = pass
      /\ speech'.current_round = 1 /\ speech'.turns = << >> /\ speech'.evaluations = << >>
      /\ speech'.completion_reason = speech.completion_reason
  BY <1>1, <1>2 DEF Brief, DialogueInv, PassInv, Speeches
<1>4. node' = "character_one" /\ steps' = 1 /\ pass' = pass
  BY DEF Brief, Reached, DialogueInv, PassInv
<1>5. speech'.rounds[2] >= 1
  BY <1>1, <1>3, AssignedRounds
<1>6. DialogueTypeOK'
  BY <1>1, <1>3, <1>4 DEF DialogueTypeOK, DialogueInv
<1>7. Within(speech', pass', 0, steps')
  BY <1>3, <1>4 DEF Within, RoundsOf
<1>8. Speaking(speech', pass', 0, steps')
  BY <1>3, <1>5, <1>7, AssignedRounds DEF Speaking
<1>9. PassInv'
  BY <1>1, <1>3, <1>4, <1>8 DEF PassInv
<1> QED
  BY <1>3, <1>4, <1>6, <1>9 DEF DialogueInv

(* A turn is made of the round that is due.                                 *)
LEMMA SpokenTurn ==
  ASSUME NEW made \in 0 .. 1, NEW next, DialogueInv, Speaking(speech, pass, made, steps),
         pass \in Nat, pass >= 1, Speak(made, next)
  PROVE  /\ speech' \in Speeches /\ speech'.rounds = speech.rounds
         /\ speech'.completion_reason = speech.completion_reason
         /\ Speaking(speech', pass, made + 1, steps + 1)
         /\ node' = next /\ steps' = steps + 1 /\ pass' = pass
<1> DEFINE round == speech.current_round
           given == ValidTurn(pass, made, round)
           count == Len(speech.evaluations)
<1>1. speech \in Speeches /\ steps \in Nat
  BY DEF DialogueInv
<1>2. /\ round \in Nat /\ count \in Nat /\ Len(speech.turns) \in Nat
      /\ speech.turns \in Seq(SpokenTurns)
  BY <1>1, SpeechFields
<1>3. round = count + 1 /\ Len(speech.turns) = 2 * count + made /\ speech.briefing = pass
  BY DEF Speaking, Within
<1>4. speech.briefing # 0 /\ Sequenced(made)
  BY <1>2, <1>3 DEF Sequenced
<1>5. /\ speech' = [speech EXCEPT !.turns = Append(@, given)]
      /\ node' = next /\ steps' = steps + 1 /\ pass' = pass
  BY <1>4 DEF Speak, Reached
<1>6. given \in SpokenTurns
  BY <1>2 DEF ValidTurn, SpokenTurns
<1>7. /\ speech' \in Speeches /\ speech'.rounds = speech.rounds
      /\ speech'.turns = Append(speech.turns, given)
      /\ speech'.evaluations = speech.evaluations /\ speech'.briefing = speech.briefing
      /\ speech'.current_round = speech.current_round
      /\ speech'.completion_reason = speech.completion_reason
  <2>1. Append(speech.turns, given) \in Seq(SpokenTurns)
    BY <1>2, <1>6, Appended
  <2> HIDE DEF given
  <2> QED
    BY <1>1, <1>5, <2>1 DEF Speeches
<1>8. /\ Len(speech'.turns) = 2 * count + made + 1
      /\ speech'.turns[2 * count + made + 1] = ValidTurn(pass, made, count + 1)
      /\ \A k \in 1 .. 2 * count + made : speech'.turns[k] = speech.turns[k]
  <2>1. 2 * count + made = Len(speech.turns)
    BY <1>3
  <2>2. /\ Len(speech'.turns) = Len(speech.turns) + 1
        /\ speech'.turns[Len(speech.turns) + 1] = given
        /\ \A k \in 1 .. Len(speech.turns) : speech'.turns[k] = speech.turns[k]
    <3> HIDE DEF given
    <3> QED
      BY <1>2, <1>6, <1>7, Appended
  <2>3. given = ValidTurn(pass, made, count + 1)
    BY <1>3
  <2> QED
    BY <2>1, <2>2, <2>3
<1>9. \A r \in 1 .. count : 2 * r - 1 \in 1 .. 2 * count + made /\ 2 * r \in 1 .. 2 * count + made
  BY <1>2
<1>10. RoundsOf(speech', pass, count)
  <2>1. RoundsOf(speech, pass, count)
    BY DEF Speaking, Within
  <2> QED
    BY <2>1, <1>7, <1>8, <1>9 DEF RoundsOf
<1>11. made + 1 >= 1 => speech'.turns[2 * count + 1] = ValidTurn(pass, 0, count + 1)
  <2>1. CASE made = 0
    BY <2>1, <1>8, <1>2
  <2>2. CASE made = 1
    <3>1. speech.turns[2 * count + 1] = ValidTurn(pass, 0, count + 1)
      BY <2>2 DEF Speaking, Within
    <3>2. 2 * count + 1 \in 1 .. 2 * count + made
      BY <1>2, <2>2
    <3> QED
      BY <3>1, <3>2, <1>8
  <2> QED
    BY <2>1, <2>2
<1>12. made + 1 = 2 => speech'.turns[2 * count + 2] = ValidTurn(pass, 1, count + 1)
  BY <1>8, <1>2
<1>13. steps + 1 = 1 + 3 * count + (made + 1)
  <2>1. steps = 1 + 3 * count + made
    BY DEF Speaking, Within
  <2> HIDE DEF count
  <2> QED
    BY <2>1, <1>1, <1>2
<1>14. Within(speech', pass, made + 1, steps + 1)
  <2>1. Len(speech'.turns) = 2 * count + (made + 1)
    <3> HIDE DEF count
    <3> QED
      BY <1>8, <1>2
  <2> QED
    BY <2>1, <1>3, <1>7, <1>10, <1>11, <1>12, <1>13 DEF Within
<1>15. Speaking(speech', pass, made + 1, steps + 1)
  BY <1>7, <1>14 DEF Speaking
<1> QED
  BY <1>5, <1>7, <1>15

(* A character speaks in its turn.                                          *)
LEMMA CharactersKeep == ASSUME DialogueInv, CharacterOne \/ CharacterTwo PROVE DialogueInv'
<1>1. pass \in 0 .. MaxPasses /\ node # "draft" /\ speech.rounds \in Assigned /\ pass >= 1
  BY DEF DialogueInv, DialogueTypeOK, PassInv, CharacterOne, CharacterTwo
<1>2. pass \in Nat /\ steps \in Nat
  BY <1>1, DialogueAssumption DEF DialogueInv
<1>3. CASE CharacterOne
  <2>1. Speaking(speech, pass, 0, steps) /\ Speak(0, "character_two")
    BY <1>3 DEF DialogueInv, PassInv, CharacterOne
  <2>2. /\ speech' \in Speeches /\ speech'.rounds = speech.rounds
        /\ speech'.completion_reason = speech.completion_reason
        /\ Speaking(speech', pass, 0 + 1, steps + 1)
        /\ node' = "character_two" /\ steps' = steps + 1 /\ pass' = pass
    BY <2>1, <1>1, <1>2, SpokenTurn
  <2>3. DialogueTypeOK' /\ steps' \in Nat
    BY <2>2, <1>1, <1>2 DEF DialogueTypeOK, DialogueInv
  <2>4. PassInv'
    BY <2>2, <1>1 DEF PassInv
  <2> QED
    BY <2>2, <2>3, <2>4 DEF DialogueInv
<1>4. CASE CharacterTwo
  <2>1. Speaking(speech, pass, 1, steps) /\ Speak(1, "director_evaluation")
    BY <1>4 DEF DialogueInv, PassInv, CharacterTwo
  <2>2. /\ speech' \in Speeches /\ speech'.rounds = speech.rounds
        /\ speech'.completion_reason = speech.completion_reason
        /\ Speaking(speech', pass, 1 + 1, steps + 1)
        /\ node' = "director_evaluation" /\ steps' = steps + 1 /\ pass' = pass
    BY <2>1, <1>1, <1>2, SpokenTurn
  <2>3. DialogueTypeOK' /\ steps' \in Nat
    BY <2>2, <1>1, <1>2 DEF DialogueTypeOK, DialogueInv
  <2>4. PassInv'
    BY <2>2, <1>1 DEF PassInv
  <2> QED
    BY <2>2, <2>3, <2>4 DEF DialogueInv
<1> QED
  BY <1>3, <1>4

(* The evaluation closes the round; unless it ends the pass, the next round *)
(* is still within the maximum.                                             *)
LEMMA EvaluateKeeps == ASSUME DialogueInv, Evaluate PROVE DialogueInv'
<1> DEFINE round == speech.current_round
           given == ValidTurn(pass, 2, round)
           count == Len(speech.evaluations)
<1>1. /\ speech \in Speeches /\ steps \in Nat /\ pass \in 0 .. MaxPasses
      /\ speech.rounds \in Assigned /\ pass >= 1 /\ Speaking(speech, pass, 2, steps)
  BY DEF DialogueInv, DialogueTypeOK, PassInv, Evaluate
<1>2. pass \in Nat
  BY <1>1, DialogueAssumption
<1>3. /\ round \in Nat /\ count \in Nat /\ Len(speech.turns) \in Nat
      /\ speech.evaluations \in Seq(SpokenTurns) /\ minimum_rounds \in Nat /\ maximum_rounds \in Nat
  BY <1>1, SpeechFields DEF minimum_rounds, maximum_rounds
<1>4. /\ round = count + 1 /\ round <= maximum_rounds
      /\ Len(speech.turns) = 2 * count + 2 /\ speech.briefing = pass
      /\ steps = 1 + 3 * count + 2
  BY <1>1 DEF Speaking, Within, maximum_rounds
<1>5. speech.briefing # 0 /\ Sequenced(2)
  BY <1>1, <1>2, <1>3, <1>4 DEF Sequenced
<1>6. PICK e \in Evaluations :
        /\ speech' = Assessed(e) /\ pass' = pass
        /\ Reached(IF speech'.completion_reason # Nothing
                   THEN "dialogue_integration" ELSE "character_one")
  BY <1>5 DEF Evaluate
<1>7. given \in SpokenTurns
  BY <1>2, <1>3 DEF ValidTurn, SpokenTurns
<1> DEFINE assessed == [speech EXCEPT !.evaluations = Append(@, given)]
<1>8. /\ assessed \in Speeches /\ assessed.rounds = speech.rounds
      /\ assessed.turns = speech.turns /\ assessed.evaluations = Append(speech.evaluations, given)
      /\ assessed.briefing = speech.briefing /\ assessed.current_round = round
      /\ assessed.completion_reason = speech.completion_reason
  BY <1>1, <1>3, <1>7, Appended DEF Speeches
<1>9. /\ speech' \in Speeches /\ speech'.rounds = speech.rounds
      /\ speech'.turns = speech.turns /\ speech'.evaluations = Append(speech.evaluations, given)
      /\ speech'.briefing = speech.briefing
      /\ \/ speech'.completion_reason # Nothing
         \/ speech'.current_round = round + 1 /\ round < maximum_rounds
  <2>1. \/ speech' = [assessed EXCEPT !.completion_reason = Ended]
        \/ speech' = [assessed EXCEPT !.completion_reason = Maximum]
        \/ speech' = [assessed EXCEPT !.current_round = round + 1] /\ ~ round >= maximum_rounds
    BY <1>6 DEF Assessed
  <2> HIDE DEF assessed
  <2>2. CASE speech' = [assessed EXCEPT !.completion_reason = Ended]
    BY <2>2, <1>8 DEF Speeches, Ended, Nothing
  <2>3. CASE speech' = [assessed EXCEPT !.completion_reason = Maximum]
    BY <2>3, <1>8 DEF Speeches, Maximum, Nothing
  <2>4. CASE speech' = [assessed EXCEPT !.current_round = round + 1] /\ ~ round >= maximum_rounds
    <3>1. round < maximum_rounds /\ round + 1 \in Nat
      BY <2>4, <1>3
    <3> HIDE DEF round
    <3> QED
      BY <2>4, <3>1, <1>8, <1>3 DEF Speeches
  <2> QED
    BY <2>1, <2>2, <2>3, <2>4
<1>10. /\ Len(speech'.evaluations) = count + 1 /\ speech'.evaluations[count + 1] = given
       /\ \A k \in 1 .. count : speech'.evaluations[k] = speech.evaluations[k]
  BY <1>3, <1>7, <1>9, Appended
<1>11. steps' = 1 + 3 * (count + 1) + 0 /\ Len(speech'.turns) = 2 * (count + 1) + 0
  BY <1>3, <1>4, <1>6, <1>9 DEF Reached
<1>12. RoundsOf(speech', pass, count + 1)
  <2> SUFFICES ASSUME NEW r \in 1 .. count + 1
               PROVE  /\ speech'.turns[2 * r - 1] = ValidTurn(pass, 0, r)
                      /\ speech'.turns[2 * r] = ValidTurn(pass, 1, r)
                      /\ speech'.evaluations[r] = ValidTurn(pass, 2, r)
    BY DEF RoundsOf
  <2>1. CASE r \in 1 .. count
    <3>1. RoundsOf(speech, pass, count)
      BY <1>1 DEF Speaking, Within
    <3> QED
      BY <2>1, <3>1, <1>9, <1>10 DEF RoundsOf
  <2>2. CASE r = count + 1
    <3>1. /\ speech.turns[2 * count + 1] = ValidTurn(pass, 0, count + 1)
          /\ speech.turns[2 * count + 2] = ValidTurn(pass, 1, count + 1)
      BY <1>1 DEF Speaking, Within
    <3>2. 2 * r - 1 = 2 * count + 1 /\ 2 * r = 2 * count + 2
      BY <2>2, <1>3
    <3> QED
      BY <2>2, <3>1, <3>2, <1>4, <1>9, <1>10
  <2> QED
    BY <2>1, <2>2, <1>3
<1>13. Within(speech', pass', 0, steps')
  BY <1>4, <1>6, <1>9, <1>10, <1>11, <1>12 DEF Within
<1>14. DialogueTypeOK' /\ steps' \in Nat
  <2>1. speech'.completion_reason \in {Nothing, Ended, Maximum}
    BY <1>9, SpeechFields
  <2> QED
    BY <2>1, <1>1, <1>3, <1>6, <1>9, <1>11 DEF DialogueTypeOK, Reached
<1>15. CASE speech'.completion_reason # Nothing
  <2>1. node' = "dialogue_integration"
    BY <1>6, <1>15 DEF Reached
  <2>2. Len(speech'.evaluations) <= speech'.rounds[2]
    BY <1>4, <1>9, <1>10 DEF maximum_rounds
  <2>3. PassInv'
    BY <2>1, <2>2, <1>1, <1>6, <1>9, <1>13, <1>15 DEF PassInv
  <2> QED
    BY <2>3, <1>9, <1>14 DEF DialogueInv
<1>16. CASE speech'.completion_reason = Nothing
  <2>1. node' = "character_one"
    BY <1>6, <1>16 DEF Reached
  <2>2. /\ speech'.current_round = Len(speech'.evaluations) + 1
        /\ speech'.current_round <= speech'.rounds[2]
    BY <1>3, <1>4, <1>9, <1>10, <1>16 DEF maximum_rounds
  <2>3. Speaking(speech', pass', 0, steps')
    BY <2>2, <1>13 DEF Speaking
  <2>4. PassInv'
    BY <2>1, <2>3, <1>1, <1>6, <1>9 DEF PassInv
  <2> QED
    BY <2>4, <1>9, <1>14 DEF DialogueInv
<1> QED
  BY <1>15, <1>16

(* The end of a pass makes way for the next one.                            *)
LEMMA IntegrateKeeps == ASSUME DialogueInv, Integrate PROVE DialogueInv'
<1>1. /\ speech.completion_reason # Nothing /\ speech.briefing = pass /\ pass >= 1
  BY DEF DialogueInv, PassInv, Integrate, Within
<1>2. pass \in Nat
  BY DialogueAssumption DEF DialogueInv, DialogueTypeOK
<1>3. node' = "draft" /\ UNCHANGED <<speech, pass, steps>>
  BY <1>1, <1>2 DEF Integrate
<1> QED
  BY <1>3 DEF DialogueInv, DialogueTypeOK, PassInv

(* Every step keeps the invariant.                                          *)
LEMMA DialogueSteps == DialogueInv /\ [DialogueNext]_dialogueVars => DialogueInv'
<1> SUFFICES ASSUME DialogueInv, [DialogueNext]_dialogueVars PROVE DialogueInv'
  OBVIOUS
<1>1. CASE UNCHANGED dialogueVars
  BY <1>1 DEF dialogueVars, DialogueInv, DialogueTypeOK, PassInv, Speaking, Within, RoundsOf
<1>2. CASE DialogueNext
  BY <1>2, DraftKeeps, BriefKeeps, CharactersKeep, EvaluateKeeps, IntegrateKeeps DEF DialogueNext
<1> QED
  BY <1>1, <1>2

(* What is integrated is what the pass itself has made.                     *)
LEMMA PassIntegrates == DialogueInv => IntegratesThisPass
<1> SUFFICES ASSUME DialogueInv PROVE IntegratesThisPass
  OBVIOUS
<1>1. /\ speech \in Speeches /\ Len(speech.evaluations) \in Nat /\ speech.rounds[2] \in Nat
      /\ steps \in Nat /\ PassInv
  BY SpeechFields DEF DialogueInv
<1>2. ASSUME node # "draft" PROVE steps <= max_graph_steps
  <2>1. CASE node = "director_briefing"
    BY <2>1, <1>1 DEF PassInv, max_graph_steps, maximum_rounds
  <2>2. CASE node = "dialogue_integration"
    BY <2>2, <1>1 DEF PassInv, Within, max_graph_steps, maximum_rounds
  <2>3. CASE node \in {"character_one", "character_two", "director_evaluation"}
    <3>1. PICK made \in 0 .. 2 : Speaking(speech, pass, made, steps)
      BY <2>3, <1>1 DEF PassInv
    <3> QED
      BY <3>1, <1>1 DEF Speaking, Within, max_graph_steps, maximum_rounds
  <2> QED
    BY <2>1, <2>2, <2>3, <1>1, <1>2 DEF PassInv
<1>3. node # "state_error"
  BY <1>1 DEF PassInv
<1>4. ASSUME node = "dialogue_integration" PROVE Within(speech, pass, 0, steps)
  BY <1>1, <1>4 DEF PassInv
<1> QED
  BY <1>1, <1>2, <1>3, <1>4 DEF IntegratesThisPass, Within, RoundsOf

(* In every pass of every production, whatever rounds its scenes are        *)
(* configured with, the types are right.                                    *)
THEOREM DialogueTypes == DialogueSpec => []DialogueTypeOK
<1>1. DialogueInv => DialogueTypeOK
  BY DEF DialogueInv
<1> QED
  BY <1>1, DialogueStarts, DialogueSteps, PTL DEF DialogueSpec

(* A pass integrates its own whole rounds, within the steps counted for it, *)
(* and no node refuses the state that the others left.                      *)
THEOREM PassesIntegrate == DialogueSpec => []IntegratesThisPass
BY DialogueStarts, DialogueSteps, PassIntegrates, PTL DEF DialogueSpec

-----------------------------------------------------------------------------
(* MCServices.  Whichever part a behaviour is about, each component is one  *)
(* of its own in it, StoryLife with the fairness of its handlers.           *)
LEMMA ServicesCompose ==
  ServicesSpec => /\ LifeSpec /\ CampaignSpec /\ RecheckSpec /\ CriticSpec /\ BibleSpec
                  /\ DialogueSpec
<1> DEFINE moves ==
      /\ [LifeNext]_lifeVars /\ [CampaignNext]_campaignVars /\ [RecheckNext]_recheckVars
      /\ [CriticNext]_criticVars /\ [BibleNext]_bible /\ [DialogueNext]_dialogueVars
<1>1. ServicesInit => /\ LifeInit /\ CampaignInit /\ RecheckInit /\ CriticInit /\ BibleInit
                      /\ DialogueInit
  BY DEF ServicesInit
<1>2. [ServicesNext]_servicesVars => moves
  <2> SUFFICES ASSUME [ServicesNext]_servicesVars PROVE moves
    OBVIOUS
  <2>1. CASE UNCHANGED servicesVars
    BY <2>1 DEF servicesVars
  <2>2. CASE LifePart /\ UNCHANGED <<campaignVars, recheckVars, criticVars, bible, dialogueVars>>
    BY <2>2 DEF LifePart
  <2>3. CASE CampaignPart /\ UNCHANGED <<lifeVars, recheckVars, criticVars, bible, dialogueVars>>
    BY <2>3 DEF CampaignPart
  <2>4. CASE RecheckNext /\ UNCHANGED <<lifeVars, campaignVars, criticVars, bible, dialogueVars>>
    BY <2>4
  <2>5. CASE CriticNext /\ UNCHANGED <<lifeVars, campaignVars, recheckVars, bible, dialogueVars>>
    BY <2>5
  <2>6. CASE /\ BibleNext
             /\ UNCHANGED <<lifeVars, campaignVars, recheckVars, criticVars, dialogueVars>>
    BY <2>6
  <2>7. CASE DialogueNext /\ UNCHANGED <<lifeVars, campaignVars, recheckVars, criticVars, bible>>
    BY <2>7
  <2> QED
    BY <2>1, <2>2, <2>3, <2>4, <2>5, <2>6, <2>7 DEF ServicesNext
<1> QED
  BY <1>1, <1>2, PTL
  DEF ServicesSpec, LifeSpec, CampaignSpec, RecheckSpec, CriticSpec, BibleSpec, DialogueSpec

(* The types of all services are right.                                     *)
THEOREM ServicesTypes == ServicesSpec => []ServicesTypeOK
<1>1. ServicesTypeOK <=> /\ LifeTypeOK /\ CampaignTypeOK /\ RecheckTypeOK
                         /\ CriticTypeOK /\ BibleTypeOK /\ DialogueTypeOK
  BY DEF ServicesTypeOK
<1> QED
  BY <1>1, ServicesCompose, LifeTypes, CampaignTypes, RecheckTypes, CriticTypes, BibleTypes,
     DialogueTypes, PTL

(* What a character is said to know in a scene is what it is known to know  *)
(* afterwards, in the part that is about the Story Bible.                   *)
THEOREM KnowledgeStays == ServicesSpec => []KnowledgeOfScenes
<1>1. KnowledgeMeansWhatWasSaid => KnowledgeOfScenes
  BY DEF KnowledgeOfScenes
<1> QED
  BY <1>1, ServicesCompose, KnowledgeIsKept, PTL

(* And an answer within its rules is applied there.                         *)
THEOREM RulesHold == ServicesSpec => []RulesOfAnswers
<1>1. AnswersWithinTheRulesApply => RulesOfAnswers
  BY DEF RulesOfAnswers
<1> QED
  BY <1>1, ServicesCompose, RulesAreEnough, PTL
=============================================================================
