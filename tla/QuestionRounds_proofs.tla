------------------------ MODULE QuestionRounds_proofs ------------------------
(***************************************************************************)
(* Proofs about QuestionRounds, for every value of the constants.          *)
(***************************************************************************)
EXTENDS QuestionRounds, FiniteSetTheorems, TLAPS

-----------------------------------------------------------------------------
(* What the rules give *)

LEMMA PoolFits == Pool \in SUBSET Countries
  BY DEF Pool, CandidatePool

LEMMA KeyFits ==
  ASSUME NEW type \in GameTypes, NEW kind \in RoundKinds,
         NEW of \in SUBSET (Countries \cup Seeds)
  PROVE  Key(type, kind, of) \in Keys /\ Key(type, kind, of).type = type
  BY DEF Key, Keys

(* The key of a question is of the game form that was asked for.           *)
LEMMA KeysFit ==
  ASSUME NEW type \in GameTypes, NEW pool \in SUBSET Countries, NEW excluded,
         NEW kind \in Kinds(type, pool, excluded),
         NEW q \in QuestionsOf(type, kind, pool)
  PROVE  q.key \in Keys /\ q.key.type = type
<1>1. CASE type \in MultipleChoice
  <2>1. q \in ChoiceQuestions(type, pool)
    BY <1>1 DEF QuestionsOf, MultipleChoice
  <2>2. PICK t \in pool : \E shown : q = Question(Key(type, "target", {t}), shown, t)
    BY <2>1 DEF ChoiceQuestions
  <2>3. "target" \in RoundKinds /\ {t} \in SUBSET (Countries \cup Seeds)
    BY DEF RoundKinds
  <2> QED
    BY <2>2, <2>3, KeyFits DEF Question
<1>2. CASE type = "higher_lower"
  <2>1. q \in HigherLowerQuestions(pool, kind) /\ kind \in Metrics
    BY <1>2 DEF QuestionsOf, Kinds, MultipleChoice
  <2>2. PICK p \in pool \X pool :
          q = Question(Key("higher_lower", kind, {p[1], p[2]}), {p[1], p[2]}, p[1])
    BY <2>1 DEF HigherLowerQuestions
  <2>3. kind \in RoundKinds /\ {p[1], p[2]} \in SUBSET (Countries \cup Seeds)
    BY <2>1 DEF RoundKinds
  <2> QED
    BY <2>2, <2>3, <1>2, KeyFits DEF Question
<1>3. CASE type = "real_or_fake_flag"
  <2>1. q \in RealOrFakeQuestions(pool, kind) /\ kind \in {"real", "fake"}
    BY <1>3 DEF QuestionsOf, Kinds, MultipleChoice, NextRealOrFake
  <2>2. PICK flag \in pool \cup Seeds : q.key = Key("real_or_fake_flag", kind, {flag})
    BY <2>1 DEF RealOrFakeQuestions, Question
  <2>3. kind \in RoundKinds /\ {flag} \in SUBSET (Countries \cup Seeds)
    BY <2>1 DEF RoundKinds
  <2> QED
    BY <2>2, <2>3, <1>3, KeyFits
<1>4. CASE type = "odd_one_out"
  <2>1. kind \in {"continent", "fake_among_real", "real_among_fake"}
    BY <1>4 DEF Kinds, MultipleChoice
  <2>2. CASE kind = "continent"
    <3>1. q \in OddContinentQuestions(pool)
      BY <1>4, <2>2 DEF QuestionsOf, OddOneOutQuestions, MultipleChoice
    <3>2. PICK continent \in Majorities(pool) :
            \E three \in kSubset(3, OnContinent(pool, continent)),
               odd \in pool \ OnContinent(pool, continent) :
              q = Question(Key("odd_one_out", "continent", three \cup {odd}),
                           three \cup {odd}, odd)
      BY <3>1 DEF OddContinentQuestions
    <3>3. PICK three \in kSubset(3, OnContinent(pool, continent)),
               odd \in pool \ OnContinent(pool, continent) :
            q = Question(Key("odd_one_out", "continent", three \cup {odd}),
                         three \cup {odd}, odd)
      BY <3>2
    <3>4. /\ "continent" \in RoundKinds
          /\ three \cup {odd} \in SUBSET (Countries \cup Seeds)
      BY DEF RoundKinds, kSubset, OnContinent
    <3> QED
      BY <3>3, <3>4, <1>4, KeyFits DEF Question
  <2>3. CASE kind = "fake_among_real"
    <3>1. q \in FakeAmongRealQuestions(pool)
      BY <1>4, <2>3 DEF QuestionsOf, OddOneOutQuestions, MultipleChoice
    <3>2. PICK seed \in Seeds : q.key = Key("odd_one_out", "fake_among_real", {seed})
      BY <3>1 DEF FakeAmongRealQuestions, Question
    <3>3. "fake_among_real" \in RoundKinds /\ {seed} \in SUBSET (Countries \cup Seeds)
      BY DEF RoundKinds
    <3> QED
      BY <3>2, <3>3, <1>4, KeyFits DEF Question
  <2>4. CASE kind = "real_among_fake"
    <3>1. q \in RealAmongFakeQuestions(pool)
      BY <1>4, <2>4 DEF QuestionsOf, OddOneOutQuestions, MultipleChoice
    <3>2. PICK seed \in Seeds : q.key = Key("odd_one_out", "real_among_fake", {seed})
      BY <3>1 DEF RealAmongFakeQuestions, Question
    <3>3. "real_among_fake" \in RoundKinds /\ {seed} \in SUBSET (Countries \cup Seeds)
      BY DEF RoundKinds
    <3> QED
      BY <3>2, <3>3, <1>4, KeyFits DEF Question
  <2> QED
    BY <2>1, <2>2, <2>3, <2>4
<1> QED
  BY <1>1, <1>2, <1>3, <1>4 DEF GameTypes

(* So does what is built, with or without what is excluded.                *)
LEMMA BuiltFits ==
  ASSUME NEW type \in GameTypes, NEW pool \in SUBSET Countries, NEW exclude,
         NEW q \in Built(type, pool, exclude)
  PROVE  q.key \in Keys /\ q.key.type = type
<1>1. PICK excluded : q \in Selected(type, pool, excluded)
  BY DEF Built
<1>2. PICK kind \in Kinds(type, pool, excluded) : q \in QuestionsOf(type, kind, pool)
  BY <1>1 DEF Selected, Fresh
<1> QED
  BY <1>2, KeysFit

(* Forms that first look what is left do not fall back while each kind has *)
(* something left: what they build is not excluded.                        *)
LEMMA BuiltIsNew ==
  ASSUME NEW type \in MultipleChoice \cup {"higher_lower"},
         NEW pool \in SUBSET Countries, NEW exclude,
         \A kind \in Kinds(type, pool, {}) :
            \E q \in QuestionsOf(type, kind, pool) : q.key \notin exclude,
         NEW q \in Built(type, pool, exclude)
  PROVE  q.key \notin exclude
<1> DEFINE excluded == {k \in exclude : k.type = type}
<1>1. Kinds(type, pool, excluded) = Kinds(type, pool, {})
  BY DEF Kinds, MultipleChoice
<1>2. \A kind \in Kinds(type, pool, excluded) : kind # "continent" /\ ~Seeded(kind)
  BY <1>1 DEF Kinds, MultipleChoice, Metrics, Seeded
<1>3. \A kind \in Kinds(type, pool, excluded) : Fresh(type, kind, pool, excluded) # {}
  BY <1>1 DEF Fresh
<1>4. ~MayThrow(type, pool, excluded)
  BY <1>2, <1>3 DEF MayThrow, Fresh
<1>5. q \in Selected(type, pool, excluded)
  BY <1>4 DEF Built
<1>6. q.key \notin excluded
  BY <1>5 DEF Selected, Fresh
<1>7. q.key.type = type
  BY BuiltFits DEF GameTypes
<1> QED
  BY <1>6, <1>7

-----------------------------------------------------------------------------
(* Type correctness *)

LEMMA SetOfAppend ==
  ASSUME NEW S, NEW s \in Seq(S), NEW x \in S
  PROVE  AsSet(Append(s, x)) = AsSet(s) \cup {x}
<1> DEFINE t == Append(s, x)
<1>1. /\ DOMAIN s = 1..Len(s) /\ DOMAIN t = 1..(Len(s) + 1) /\ Len(s) \in Nat
      /\ \A i \in 1..Len(s) : t[i] = s[i]
      /\ t[Len(s) + 1] = x
  OBVIOUS
<1>2. \A i \in DOMAIN t : t[i] \in AsSet(s) \cup {x}
  BY <1>1 DEF AsSet
<1>3. \A i \in DOMAIN s : s[i] \in AsSet(t)
  BY <1>1 DEF AsSet
<1>4. x \in AsSet(t)
  BY <1>1 DEF AsSet
<1>5. AsSet(t) \subseteq AsSet(s) \cup {x}
  BY <1>2 DEF AsSet
<1>6. AsSet(s) \cup {x} \subseteq AsSet(t)
  BY <1>3, <1>4 DEF AsSet
<1> QED
  BY <1>5, <1>6

LEMMA InitTypeOK == Init => TypeOK
<1> SUFFICES ASSUME Init PROVE TypeOK
  OBVIOUS
<1>1. NoMatch.used = <<>> /\ NoMatch.previous = {}
  BY DEF NoMatch
<1>2. Exclude = {}
  BY <1>1 DEF Init, Exclude, AsSet
<1>3. matches \in 0..MaxMatches /\ recoveries \in 0..MaxRecoveries
  BY BoundsAssumption DEF Init
<1> QED
  BY <1>1, <1>2, <1>3 DEF Init, TypeOK

LEMMA TypeStep == TypeOK /\ [Next]_vars => TypeOK'
<1> SUFFICES ASSUME TypeOK, [Next]_vars PROVE TypeOK'
  OBVIOUS
<1> USE DEF TypeOK
<1>1. CASE UpdateConfig
  BY <1>1 DEF UpdateConfig, Exclude
<1>2. CASE StartMatch
  <2>0. /\ phase' = "COUNTDOWN" /\ timer' = TRUE /\ asked' = NoQuestion
        /\ config' = config /\ recoveries' = recoveries
    BY <1>2 DEF StartMatch
  <2>1. CASE match = NoMatch
    <3>1. /\ match' = [NoMatch EXCEPT !.gameType = config.gameType]
          /\ config.gameType \in GameTypes
      BY <1>2, <2>1, ConfigsAssumption DEF StartMatch
    <3>2. match' \in Matches /\ match'.used = <<>> /\ match'.previous = {}
      <4>1. <<>> \in Seq(Keys)
        OBVIOUS
      <4> QED
        BY <3>1, <4>1 DEF NoMatch, Matches
    <3>3. Exclude' = {}
      BY <3>2 DEF Exclude, AsSet
    <3>4. matches' \in 0..MaxMatches
      BY <1>2, <2>1, BoundsAssumption DEF StartMatch
    <3> QED
      BY <2>0, <3>2, <3>3, <3>4
  <2>2. CASE match # NoMatch
    <3>1. match \in Matches /\ match' = match /\ matches' = matches
      BY <1>2, <2>2 DEF StartMatch
    <3>2. Exclude' = Exclude
      BY <3>1 DEF Exclude
    <3> QED
      BY <2>0, <3>1, <3>2
  <2> QED
    BY <2>1, <2>2
<1>3. CASE StartRound
  <2>1. match \in Matches /\ match.gameType \in GameTypes
    BY <1>3 DEF StartRound, Matches
  <2>2. asked'.key \in Keys /\ asked'.key.type = match.gameType
    BY <1>3, <2>1, BuiltFits, PoolFits DEF StartRound
  <2>3. /\ match' \in Matches /\ match'.gameType = match.gameType
        /\ match'.used = Append(match.used, asked'.key)
        /\ match'.previous = match.previous
    <3>1. match' = [match EXCEPT !.used = Append(match.used, asked'.key)]
      BY <1>3 DEF StartRound
    <3>2. match.used \in Seq(Keys)
      BY <2>1 DEF Matches
    <3>3. Append(match.used, asked'.key) \in Seq(Keys)
      BY <2>2, <3>2
    <3> QED
      BY <2>1, <3>1, <3>3 DEF Matches
  <2>4. Exclude' = Exclude \cup {asked'.key}
    <3>1. match.used \in Seq(Keys)
      BY <2>1 DEF Matches
    <3> QED
      BY <2>2, <2>3, <3>1, SetOfAppend DEF Exclude
  <2> QED
    BY <1>3, <2>2, <2>3, <2>4 DEF StartRound
<1>4. CASE RefuseRound
  BY <1>4 DEF RefuseRound, Exclude
<1>5. CASE EndRound
  <2>1. match' \in Matches /\ Exclude' = Exclude /\ match'.gameType = match.gameType
    BY <1>5 DEF EndRound, Matches, Exclude
  <2> QED
    BY <1>5, <2>1 DEF EndRound
<1>6. CASE Recover
  <2>1. recoveries' \in 0..MaxRecoveries
    BY <1>6, BoundsAssumption DEF Recover
  <2> QED
    BY <1>6, <2>1 DEF Recover, Exclude
<1>7. CASE FinishMatch
  BY <1>7 DEF FinishMatch, Exclude
<1>8. CASE Rematch
  <2>1. match.gameType \in GameTypes /\ AsSet(match.used) \in SUBSET Keys
    BY <1>8 DEF Rematch, Matches, AsSet
  <2>2. /\ match' \in Matches /\ match'.gameType = match.gameType
        /\ match'.used = <<>> /\ match'.previous = AsSet(match.used)
    <3>1. <<>> \in Seq(Keys)
      OBVIOUS
    <3> QED
      BY <1>8, <2>1, <3>1 DEF Rematch, NoMatch, Matches
  <2>3. Exclude' \subseteq Exclude
    BY <2>2 DEF Exclude, AsSet
  <2>4. matches' \in 0..MaxMatches
    BY <1>8, BoundsAssumption DEF Rematch
  <2> QED
    BY <1>8, <2>2, <2>3, <2>4 DEF Rematch
<1>9. CASE UNCHANGED vars
  BY <1>9 DEF vars, Exclude
<1> QED
  BY <1>1, <1>2, <1>3, <1>4, <1>5, <1>6, <1>7, <1>8, <1>9 DEF Next

(* The documents fit, and the questions of a match and of the match before *)
(* are all of its game form.                                               *)
THEOREM TypeCorrect == Spec => []TypeOK
  BY InitTypeOK, TypeStep, PTL DEF Spec

-----------------------------------------------------------------------------
(* New questions while there are enough *)

(* What was asked before the last round.                                   *)
Before == {match.used[i] : i \in 1..(Len(match.used) - 1)}

(* Each kind has a question left that neither is in.                       *)
LeftOutside(keys) ==
  \A kind \in Kinds(match.gameType, Pool, {}) :
    \E q \in QuestionsOf(match.gameType, kind, Pool) : q.key \notin keys

LooksFirst == match.gameType \in MultipleChoice \cup {"higher_lower"}
AllNew == AllDifferent /\ AsSet(match.used) \cap match.previous = {}

(* To have counted enough questions is not inductive (there may be less to *)
(* count after a round than before); that one was left is.                 *)
NewWhileLeft ==
  /\ phase = "LOBBY" => match.used = <<>>
  /\ LooksFirst /\ LeftOutside(match.previous \cup Before) => AllNew

LEMMA BeforeIsSmall ==
  ASSUME match.used \in Seq(Keys), match.used # <<>>
  PROVE  IsFiniteSet(Before) /\ Cardinality(Before) <= Len(match.used) - 1
<1> DEFINE n == Len(match.used) - 1
           f == [i \in 1..n |-> match.used[i]]
<1>1. n \in Nat
  OBVIOUS
<1>2. IsFiniteSet(1..n) /\ Cardinality(1..n) = n
  BY <1>1, FS_Interval
<1>3. f \in Surjection(1..n, Before)
  BY DEF Before, Surjection
<1> HIDE DEF f
<1> QED
  BY <1>2, <1>3, FS_Surjection

(* If there are enough questions outside the match before, one is left.    *)
LEMMA EnoughLeavesOne ==
  ASSUME match.used \in Seq(Keys), match.used # <<>>, EnoughOutside(match.previous)
  PROVE  LeftOutside(match.previous \cup Before)
<1> SUFFICES ASSUME NEW kind \in Kinds(match.gameType, Pool, {})
             PROVE  \E q \in QuestionsOf(match.gameType, kind, Pool) :
                       q.key \notin match.previous \cup Before
  BY DEF LeftOutside
<1> DEFINE left == {q.key : q \in QuestionsOf(match.gameType, kind, Pool)}
                     \ match.previous
<1>1. Cardinality(left) >= Len(match.used) /\ Len(match.used) \in Nat
  BY DEF EnoughOutside
<1>2. ASSUME left \subseteq Before
      PROVE  FALSE
  <2>1. IsFiniteSet(left) /\ Cardinality(left) <= Cardinality(Before)
    BY <1>2, BeforeIsSmall, FS_Subset
  <2>2. Cardinality(left) \in Nat /\ Cardinality(Before) \in Nat
    BY <2>1, BeforeIsSmall, FS_CardinalityType
  <2> HIDE DEF left
  <2> QED
    BY <1>1, <2>1, <2>2, BeforeIsSmall
<1> QED
  BY <1>2

LEMMA RoundStep == TypeOK /\ NewWhileLeft /\ StartRound => NewWhileLeft'
<1> SUFFICES ASSUME TypeOK, NewWhileLeft, StartRound PROVE NewWhileLeft'
  OBVIOUS
<1> DEFINE key == asked'.key
<1>1. match \in Matches /\ match.gameType \in GameTypes /\ match.used \in Seq(Keys)
  BY DEF StartRound, TypeOK, Matches
<1>2. key \in Keys
  BY <1>1, BuiltFits, PoolFits DEF StartRound
<1>3. /\ match'.used = Append(match.used, key)
      /\ match'.previous = match.previous /\ match'.gameType = match.gameType
  BY <1>1 DEF StartRound, Matches
<1>4. /\ DOMAIN match'.used = 1..(Len(match.used) + 1)
      /\ DOMAIN match.used = 1..Len(match.used)
      /\ Len(match.used) \in Nat /\ Len(match'.used) = Len(match.used) + 1
      /\ \A i \in DOMAIN match.used : match'.used[i] = match.used[i]
      /\ match'.used[Len(match.used) + 1] = key
  BY <1>1, <1>2, <1>3
<1>5. AsSet(match'.used) = AsSet(match.used) \cup {key}
  BY <1>1, <1>2, <1>3, SetOfAppend
<1>6. Before' = AsSet(match.used)
  BY <1>4 DEF Before, AsSet
<1>7. Before \subseteq AsSet(match.used)
  BY <1>4 DEF Before, AsSet
<1>8. ASSUME LooksFirst', LeftOutside(match.previous \cup Before)'
      PROVE  AllNew'
  <2>1. LooksFirst /\ LeftOutside(match.previous \cup AsSet(match.used))
    BY <1>3, <1>6, <1>8 DEF LooksFirst, LeftOutside, StartRound, Pool
  <2>2. LeftOutside(match.previous \cup Before)
    BY <1>7, <2>1 DEF LeftOutside
  <2>3. AllNew
    BY <2>1, <2>2 DEF NewWhileLeft
  <2>4. key \notin Exclude
    BY <2>1, BuiltIsNew, PoolFits DEF LooksFirst, LeftOutside, Exclude, StartRound
  <2>5. AllDifferent'
    BY <1>4, <2>3, <2>4 DEF AllNew, AllDifferent, Exclude, AsSet
  <2> QED
    BY <1>3, <1>5, <2>3, <2>4, <2>5 DEF AllNew, Exclude
<1> QED
  BY <1>8 DEF NewWhileLeft, StartRound

LEMMA NewStep == TypeOK /\ NewWhileLeft /\ [Next]_vars => NewWhileLeft'
<1> SUFFICES ASSUME TypeOK, NewWhileLeft, [Next]_vars PROVE NewWhileLeft'
  OBVIOUS
<1>1. ASSUME UNCHANGED <<match.gameType, match.used, match.previous, config>>,
             phase' = "LOBBY" => phase = "LOBBY"
      PROVE  NewWhileLeft'
  BY <1>1 DEF NewWhileLeft, LooksFirst, LeftOutside, AllNew, AllDifferent,
              Before, Pool
<1>2. ASSUME match'.used = <<>>
      PROVE  NewWhileLeft'
  BY <1>2 DEF NewWhileLeft, AllNew, AllDifferent, AsSet
<1>3. CASE UpdateConfig
  <2>1. match'.used = <<>>
    BY <1>3 DEF UpdateConfig, NewWhileLeft
  <2> QED
    BY <2>1, <1>2
<1>4. CASE StartMatch
  <2>1. match'.used = <<>>
    BY <1>4 DEF StartMatch, NewWhileLeft, NoMatch
  <2> QED
    BY <2>1, <1>2
<1>5. CASE StartRound
  BY <1>5, RoundStep
<1>6. CASE RefuseRound
  BY <1>1, <1>6 DEF RefuseRound
<1>7. CASE EndRound
  <2>1. match \in Matches
    BY <1>7 DEF EndRound, TypeOK
  <2>2. UNCHANGED <<match.gameType, match.used, match.previous>>
    BY <1>7, <2>1 DEF EndRound, Matches
  <2> QED
    BY <1>1, <1>7, <2>2 DEF EndRound
<1>8. CASE Recover
  BY <1>1, <1>8 DEF Recover
<1>9. CASE FinishMatch
  BY <1>1, <1>9 DEF FinishMatch
<1>10. CASE Rematch
  <2>1. match'.used = <<>>
    BY <1>10 DEF Rematch, NoMatch
  <2> QED
    BY <2>1, <1>2
<1>11. CASE UNCHANGED vars
  BY <1>1, <1>11 DEF vars
<1> QED
  BY <1>3, <1>4, <1>5, <1>6, <1>7, <1>8, <1>9, <1>10, <1>11
     DEF Next

(* As long as the questions that the match before has not asked suffice,   *)
(* no question comes back, for any content, rounds and rematches.          *)
THEOREM QuestionsAreNew == Spec => []NewWhileEnough
<1>1. Init => NewWhileLeft
  <2> SUFFICES ASSUME Init PROVE NewWhileLeft
    OBVIOUS
  <2>1. match.used = <<>>
    BY DEF Init, NoMatch
  <2> QED
    BY <2>1 DEF NewWhileLeft, AllNew, AllDifferent, AsSet
<1>2. TypeOK /\ NewWhileLeft => NewWhileEnough
  <2> SUFFICES ASSUME TypeOK, NewWhileLeft, LooksFirst, EnoughOutside(match.previous)
               PROVE  AllDifferent /\ AsSet(match.used) \cap match.previous = {}
    BY DEF NewWhileEnough, LooksFirst
  <2>1. CASE match.used = <<>>
    BY <2>1 DEF AllDifferent, AsSet
  <2>2. CASE match.used # <<>>
    <3>1. match.used \in Seq(Keys)
      BY <2>2 DEF TypeOK, Matches, NoMatch
    <3> QED
      BY <2>2, <3>1, EnoughLeavesOne DEF NewWhileLeft, AllNew
  <2> QED
    BY <2>1, <2>2
<1> QED
  BY <1>1, <1>2, NewStep, TypeCorrect, PTL DEF Spec

-----------------------------------------------------------------------------
(* One right answer *)

LEMMA FieldsOfQuestion ==
  ASSUME NEW type, NEW kind, NEW of, NEW shown, NEW answer
  PROVE  LET q == Question(Key(type, kind, of), shown, answer)
         IN  q.key.type = type /\ q.key.kind = kind /\ q.shown = shown
               /\ q.answer = answer
  BY DEF Question, Key

LEMMA FinitePart ==
  ASSUME NEW S \in SUBSET Countries
  PROVE  IsFiniteSet(S) /\ Cardinality(S) \in Nat
  BY FlagsAssumption, FS_Subset, FS_CardinalityType

(* The wrong options: three others, near as long as there are any.         *)
LEMMA DistractorsFit ==
  ASSUME NEW pool \in SUBSET Countries, NEW target \in pool,
         NEW wrong \in Distractors(pool, target)
  PROVE  /\ wrong \subseteq pool \ {target} /\ Cardinality(wrong) = 3
         /\ \/ \A c \in wrong : Near(c, target)
            \/ \A c \in pool \ {target} : Near(c, target) => c \in wrong
<1> DEFINE others == pool \ {target}
           near == OnContinent(others, Facts[target].continent)
           missing == 3 - Cardinality(near)
<1>1. near \subseteq others /\ near = {c \in others : Near(c, target)}
  BY DEF OnContinent, Near
<1>2. IsFiniteSet(near) /\ Cardinality(near) \in Nat
  BY <1>1, FinitePart
<1>3. CASE missing <= 0
  <2>1. wrong \in kSubset(3, near)
    BY <1>3 DEF Distractors
  <2> QED
    BY <1>1, <2>1 DEF kSubset
<1>4. CASE ~(missing <= 0)
  <2>1. wrong \in {near \cup far : far \in kSubset(missing, others \ near)}
    BY <1>4 DEF Distractors
  <2>2. PICK far \in kSubset(missing, others \ near) : wrong = near \cup far
    BY <2>1
  <2>3. far \subseteq others \ near /\ Cardinality(far) = missing
    BY DEF kSubset
  <2>4. IsFiniteSet(far) /\ near \cap far = {}
    BY <2>3, FinitePart
  <2>5. Cardinality(wrong) = Cardinality(near) + Cardinality(far)
    <3> HIDE DEF near
    <3>1. Cardinality(near \cup far)
            = Cardinality(near) + Cardinality(far) - Cardinality(near \cap far)
      BY <1>2, <2>4, FS_Union
    <3>2. Cardinality(near \cap far) = 0
      BY <2>4, FS_EmptySet
    <3>3. Cardinality(far) \in Nat
      BY <2>4, FS_CardinalityType
    <3> QED
      BY <1>2, <2>2, <3>1, <3>2, <3>3
  <2>6. Cardinality(wrong) = 3
    <3> HIDE DEF near
    <3> QED
      BY <1>2, <2>3, <2>5
  <2> QED
    BY <1>1, <2>2, <2>3, <2>6
<1> QED
  BY <1>3, <1>4

LEMMA OneMore ==
  ASSUME NEW S \in SUBSET Countries, NEW x, x \notin S, Cardinality(S) = 3
  PROVE  Cardinality({x} \cup S) = 4
<1>1. Cardinality(S \cup {x}) = 4
  BY FinitePart, FS_AddElement
<1>2. {x} \cup S = S \cup {x}
  OBVIOUS
<1> QED
  BY <1>1, <1>2

LEMMA ChoiceIsGood ==
  ASSUME NEW type \in MultipleChoice, NEW q \in ChoiceQuestions(type, Pool)
  PROVE  q.key.type = type /\ GoodChoice(type, q.shown, q.answer)
<1> DEFINE suited == {c \in Pool : type = "capitals_mc" => Facts[c].capital}
           targets == {c \in suited : type = "country_shape_mc" => Facts[c].shape}
           Wrong(t) == IF type = "capitals_mc" THEN kSubset(3, suited \ {t})
                       ELSE Distractors(suited, t)
<1>1. PICK t \in targets : \E wrong \in Wrong(t) :
        q = Question(Key(type, "target", {t}), {t} \cup wrong, t)
  BY DEF ChoiceQuestions
<1>2. PICK wrong \in Wrong(t) :
        q = Question(Key(type, "target", {t}), {t} \cup wrong, t)
  BY <1>1
<1>3. t \in suited /\ suited \in SUBSET Countries /\ suited \subseteq Pool
  BY PoolFits
<1>4. /\ wrong \subseteq suited \ {t} /\ Cardinality(wrong) = 3
      /\ type # "capitals_mc" =>
            \/ \A c \in wrong : Near(c, t)
            \/ \A c \in suited \ {t} : Near(c, t) => c \in wrong
  <2>1. CASE type = "capitals_mc"
    BY <2>1 DEF kSubset
  <2>2. CASE type # "capitals_mc"
    <3>1. wrong \in Distractors(suited, t)
      BY <2>2
    <3> HIDE DEF suited, targets
    <3> QED
      BY <1>3, <2>2, <3>1, DistractorsFit
  <2> QED
    BY <2>1, <2>2
<1>5. q.key.type = type /\ q.shown = {t} \cup wrong /\ q.answer = t
  BY <1>2, FieldsOfQuestion
<1>6. Cardinality({t} \cup wrong) = 4
  BY <1>3, <1>4, OneMore
<1>7. type # "capitals_mc" => suited = Pool
  OBVIOUS
<1>8. GoodChoice(type, {t} \cup wrong, t)
  <2>1. t \in {t} \cup wrong /\ {t} \cup wrong \subseteq suited
    BY <1>3, <1>4
  <2>2. type # "capitals_mc" =>
          \/ \A c \in {t} \cup wrong : Near(c, t)
          \/ \A c \in Pool : Near(c, t) => c \in {t} \cup wrong
    BY <1>4, <1>7 DEF Near
  <2>3. type = "capitals_mc" => \A c \in {t} \cup wrong : Facts[c].capital
    BY <2>1
  <2>4. type = "country_shape_mc" => Facts[t].shape
    OBVIOUS
  <2> QED
    BY <1>3, <1>6, <2>1, <2>2, <2>3, <2>4 DEF GoodChoice
<1> QED
  BY <1>5, <1>8

LEMMA PairHasTwo ==
  ASSUME NEW a, NEW b, a # b
  PROVE  IsFiniteSet({a, b}) /\ Cardinality({a, b}) = 2
<1>1. IsFiniteSet({a}) /\ Cardinality({a}) = 1
  BY FS_Singleton
<1>2. IsFiniteSet({a} \cup {b}) /\ Cardinality({a} \cup {b}) = 1 + 1
  <2>1. b \notin {a}
    OBVIOUS
  <2> QED
    BY <1>1, <2>1, FS_AddElement
<1>3. {a} \cup {b} = {a, b}
  OBVIOUS
<1> QED
  BY <1>2, <1>3

LEMMA HigherIsRight ==
  ASSUME NEW metric \in Metrics, NEW q \in HigherLowerQuestions(Pool, metric)
  PROVE  /\ q.key.type = "higher_lower" /\ q.key.kind = metric
         /\ q.answer \in q.shown /\ Cardinality(q.shown) = 2
         /\ \A c \in q.shown \ {q.answer} :
               0 <= Facts[c].value[metric]
                 /\ Facts[c].value[metric] < Facts[q.answer].value[metric]
<1> DEFINE Value(c) == Facts[c].value[metric]
           known == {c \in Pool : Value(c) >= 0}
<1>1. PICK p \in {r \in known \X known : Value(r[1]) > Value(r[2])} :
        q = Question(Key("higher_lower", metric, {p[1], p[2]}), {p[1], p[2]}, p[1])
  BY DEF HigherLowerQuestions
<1>2. /\ q.key.type = "higher_lower" /\ q.key.kind = metric
      /\ q.shown = {p[1], p[2]} /\ q.answer = p[1]
  BY <1>1, FieldsOfQuestion
<1>3. /\ p[1] \in Countries /\ p[2] \in Countries
      /\ Value(p[2]) >= 0 /\ Value(p[1]) > Value(p[2])
  BY PoolFits
<1>4. Value(p[1]) \in Int /\ Value(p[2]) \in Int
  BY <1>3, FactsAssumption
<1>5. p[1] # p[2]
  BY <1>3, <1>4
<1>6. Cardinality({p[1], p[2]}) = 2
  BY <1>5, PairHasTwo
<1>7. \A c \in {p[1], p[2]} \ {p[1]} : c = p[2]
  OBVIOUS
<1> QED
  BY <1>2, <1>3, <1>4, <1>6, <1>7

LEMMA RealOrFakeIsRight ==
  ASSUME NEW kind \in {"real", "fake"}, NEW q \in RealOrFakeQuestions(Pool, kind)
  PROVE  /\ q.key.type = "real_or_fake_flag"
         /\ q.answer = "real" <=> q.shown \subseteq Pool
<1>1. PICK flag \in IF kind = "real" THEN Pool ELSE Seeds :
        q = Question(Key("real_or_fake_flag", kind, {flag}), {flag}, kind)
  BY DEF RealOrFakeQuestions
<1>2. q.key.type = "real_or_fake_flag" /\ q.shown = {flag} /\ q.answer = kind
  BY <1>1, FieldsOfQuestion
<1>3. kind = "real" <=> flag \in Pool
  BY PoolFits, FlagsAssumption
<1> QED
  BY <1>2, <1>3

LEMMA ThreeFakes ==
  ASSUME NEW seed
  PROVE  Cardinality({<<seed, i>> : i \in 0..2}) = 3
<1> DEFINE pair == {<<seed, 0>>, <<seed, 1>>}
<1>1. IsFiniteSet(pair) /\ Cardinality(pair) = 2
  <2>1. <<seed, 0>> # <<seed, 1>>
    OBVIOUS
  <2> QED
    BY <2>1, PairHasTwo, Zenon
<1>2. <<seed, 2>> \notin pair
  OBVIOUS
<1>3. {<<seed, i>> : i \in 0..2} = pair \cup {<<seed, 2>>}
  OBVIOUS
<1>4. Cardinality(pair \cup {<<seed, 2>>}) = 3
  <2> HIDE DEF pair
  <2> QED
    BY <1>1, <1>2, FS_AddElement
<1> QED
  BY <1>3, <1>4

LEMMA OddOneIsOdd ==
  ASSUME NEW kind \in {"continent", "fake_among_real", "real_among_fake"},
         NEW q \in OddOneOutQuestions(Pool, kind)
  PROVE  /\ q.key.type = "odd_one_out" /\ q.key.kind = kind
         /\ GoodOddOne(kind, q.shown, q.answer)
<1>1. CASE kind = "continent"
  <2>1. q \in OddContinentQuestions(Pool)
    BY <1>1 DEF OddOneOutQuestions
  <2>2. PICK continent \in Majorities(Pool) :
          \E three \in kSubset(3, OnContinent(Pool, continent)),
             odd \in Pool \ OnContinent(Pool, continent) :
            q = Question(Key("odd_one_out", "continent", three \cup {odd}),
                         three \cup {odd}, odd)
    BY <2>1 DEF OddContinentQuestions
  <2>3. PICK three \in kSubset(3, OnContinent(Pool, continent)),
             odd \in Pool \ OnContinent(Pool, continent) :
          q = Question(Key("odd_one_out", "continent", three \cup {odd}),
                       three \cup {odd}, odd)
    BY <2>2
  <2>4. /\ q.key.type = "odd_one_out" /\ q.key.kind = "continent"
        /\ q.shown = three \cup {odd} /\ q.answer = odd
    BY <2>3, FieldsOfQuestion
  <2>5. /\ three \subseteq Pool /\ odd \in Pool \ three
        /\ \A c \in three : Facts[c].continent = continent
        /\ Facts[odd].continent # continent /\ Cardinality(three) = 3
    BY DEF kSubset, OnContinent
  <2>6. q.shown \ {odd} = three
    BY <2>4, <2>5
  <2> QED
    BY <1>1, <2>4, <2>5, <2>6 DEF GoodOddOne, Near
<1>2. CASE kind = "fake_among_real"
  <2>1. q \in FakeAmongRealQuestions(Pool)
    BY <1>2 DEF OddOneOutQuestions
  <2>2. PICK seed \in Seeds : \E three \in kSubset(3, Pool) :
          q = Question(Key("odd_one_out", "fake_among_real", {seed}),
                       three \cup {seed}, seed)
    BY <2>1 DEF FakeAmongRealQuestions
  <2>3. PICK three \in kSubset(3, Pool) :
          q = Question(Key("odd_one_out", "fake_among_real", {seed}),
                       three \cup {seed}, seed)
    BY <2>2
  <2>4. /\ q.key.type = "odd_one_out" /\ q.key.kind = "fake_among_real"
        /\ q.shown = three \cup {seed} /\ q.answer = seed
    BY <2>3, FieldsOfQuestion
  <2>5. three \subseteq Pool /\ seed \notin Pool /\ Cardinality(three) = 3
    BY PoolFits, FlagsAssumption DEF kSubset
  <2>6. q.shown \ {seed} = three
    BY <2>4, <2>5
  <2> QED
    BY <1>2, <2>4, <2>5, <2>6 DEF GoodOddOne
<1>3. CASE kind = "real_among_fake"
  <2>1. q \in RealAmongFakeQuestions(Pool)
    BY <1>3 DEF OddOneOutQuestions
  <2>2. PICK seed \in Seeds : \E c \in Pool :
          q = Question(Key("odd_one_out", "real_among_fake", {seed}),
                       {c} \cup {<<seed, i>> : i \in 0..2}, c)
    BY <2>1 DEF RealAmongFakeQuestions
  <2>3. PICK c \in Pool :
          q = Question(Key("odd_one_out", "real_among_fake", {seed}),
                       {c} \cup {<<seed, i>> : i \in 0..2}, c)
    BY <2>2
  <2> DEFINE fakes == {<<seed, i>> : i \in 0..2}
  <2>4. /\ q.key.type = "odd_one_out" /\ q.key.kind = "real_among_fake"
        /\ q.shown = {c} \cup fakes /\ q.answer = c
    BY <2>3, FieldsOfQuestion
  <2>5. fakes \cap Pool = {}
    BY PoolFits, FlagsAssumption
  <2>6. Cardinality(fakes) = 3
    BY ThreeFakes
  <2> HIDE DEF fakes
  <2>7. q.shown \ {c} = fakes
    BY <2>4, <2>5
  <2> QED
    BY <1>3, <2>4, <2>5, <2>6, <2>7 DEF GoodOddOne
<1> QED
  BY <1>1, <1>2, <1>3

(* What a round asks is right for the pool it was drawn from.              *)
RightAnswer(q) ==
  LET type == q.key.type
      kind == q.key.kind
      right == q.answer
  IN  CASE type \in MultipleChoice -> GoodChoice(type, q.shown, right)
        [] type = "odd_one_out" -> GoodOddOne(kind, q.shown, right)
        [] type = "higher_lower" ->
              /\ right \in q.shown /\ Cardinality(q.shown) = 2
              /\ \A c \in q.shown \ {right} :
                    0 <= Facts[c].value[kind]
                      /\ Facts[c].value[kind] < Facts[right].value[kind]
        [] type = "real_or_fake_flag" -> right = "real" <=> q.shown \subseteq Pool

LEMMA BuiltIsRight ==
  ASSUME NEW type \in GameTypes, NEW exclude, NEW q \in Built(type, Pool, exclude)
  PROVE  RightAnswer(q)
<1>1. PICK excluded : q \in Selected(type, Pool, excluded)
  BY DEF Built
<1>2. PICK kind \in Kinds(type, Pool, excluded) : q \in QuestionsOf(type, kind, Pool)
  BY <1>1 DEF Selected, Fresh
<1>3. CASE type \in MultipleChoice
  <2>1. q \in ChoiceQuestions(type, Pool)
    BY <1>2, <1>3 DEF QuestionsOf, MultipleChoice
  <2> QED
    BY <1>3, <2>1, ChoiceIsGood DEF RightAnswer, MultipleChoice
<1>4. CASE type = "higher_lower"
  <2>1. q \in HigherLowerQuestions(Pool, kind) /\ kind \in Metrics
    BY <1>2, <1>4 DEF QuestionsOf, Kinds, MultipleChoice
  <2> QED
    BY <2>1, HigherIsRight DEF RightAnswer, MultipleChoice
<1>5. CASE type = "real_or_fake_flag"
  <2>1. q \in RealOrFakeQuestions(Pool, kind) /\ kind \in {"real", "fake"}
    BY <1>2, <1>5 DEF QuestionsOf, Kinds, MultipleChoice, NextRealOrFake
  <2> QED
    BY <2>1, RealOrFakeIsRight DEF RightAnswer, MultipleChoice
<1>6. CASE type = "odd_one_out"
  <2>1. /\ q \in OddOneOutQuestions(Pool, kind)
        /\ kind \in {"continent", "fake_among_real", "real_among_fake"}
    BY <1>2, <1>6 DEF QuestionsOf, Kinds, MultipleChoice
  <2> QED
    BY <2>1, OddOneIsOdd DEF RightAnswer, MultipleChoice
<1> QED
  BY <1>3, <1>4, <1>5, <1>6 DEF GameTypes

(* Every question has one right answer among its options, for any content  *)
(* and any choices of the host: in a round neither it nor the pool changes.*)
THEOREM OneAnswerIsRight == Spec => []OneRightAnswer
<1>1. Init => OneRightAnswer
  BY DEF Init, OneRightAnswer
<1>2. TypeOK /\ OneRightAnswer /\ [Next]_vars => OneRightAnswer'
  <2> SUFFICES ASSUME TypeOK, OneRightAnswer, [Next]_vars, phase' = "ROUND"
               PROVE  RightAnswer(asked)'
    BY DEF OneRightAnswer, RightAnswer
  <2>1. CASE StartRound
    <3>1. match.gameType \in GameTypes
      BY <2>1 DEF StartRound, TypeOK, Matches
    <3>2. asked' \in Built(match.gameType, Pool, Exclude)
      BY <2>1 DEF StartRound
    <3>3. RightAnswer(asked')
      BY <3>1, <3>2, BuiltIsRight
    <3>4. Pool' = Pool
      BY <2>1 DEF StartRound, Pool
    <3> QED
      BY <3>3, <3>4 DEF RightAnswer, GoodChoice, GoodOddOne
  <2>2. CASE ~StartRound
    <3>1. phase = "ROUND" /\ asked' = asked /\ config' = config
      BY <2>2 DEF Next, vars, UpdateConfig, StartMatch, RefuseRound, EndRound,
                  Recover, FinishMatch, Rematch
    <3>2. RightAnswer(asked)
      BY <3>1 DEF OneRightAnswer, RightAnswer
    <3> QED
      BY <3>1, <3>2 DEF RightAnswer, GoodChoice, GoodOddOne, Pool
  <2> QED
    BY <2>1, <2>2
<1> QED
  BY <1>1, <1>2, TypeCorrect, PTL DEF Spec
=============================================================================
