-------------------------- MODULE QuestionSelection --------------------------
(***************************************************************************)
(* How the question of a round is chosen (server/rules/question-           *)
(* selection.js, called for one round at a time by content-source.mjs).    *)
(*                                                                         *)
(* What random() decides is a set of outcomes here.  The order of the      *)
(* options is left out: the right answer is an option, not its place.  A   *)
(* question's key is a record: the game form (the prefix of the string),   *)
(* the kind of question, and the countries or the seed it is about.        *)
(***************************************************************************)
EXTENDS Integers, FiniteSetsExt

CONSTANTS
    Countries,      \* the content pool, by iso2
    Facts,          \* what the content says of each country
    Seeds           \* bound: seeds of generated flags

Difficulties == {"easy", "medium", "hard", "extreme"}
Metrics == {"population", "area", "gdp"}
MultipleChoice == {"flags_mc", "capitals_mc", "country_shape_mc"}
GameTypes ==
    MultipleChoice \cup {"real_or_fake_flag", "higher_lower", "odd_one_out"}

(* A metric that is not known (null) is negative.                          *)
ASSUME FactsAssumption ==
    \A c \in Countries :
        /\ Facts[c].difficulty \in Difficulties
        /\ Facts[c].capital \in BOOLEAN /\ Facts[c].shape \in BOOLEAN
        /\ \A m \in Metrics : Facts[c].value[m] \in Int

(* The pool is a list; a generated flag is that of no country.             *)
ASSUME FlagsAssumption ==
    /\ IsFiniteSet(Countries) /\ Seeds \cap Countries = {}
    /\ \A seed \in Seeds, i \in 0..2 : <<seed, i>> \notin Countries

CandidatePool(difficulty, continents) ==
    {c \in Countries : /\ Facts[c].difficulty = difficulty
                       /\ Facts[c].continent \in continents}

OnContinent(pool, continent) == {c \in pool : Facts[c].continent = continent}

RoundKinds ==
    {"target", "real", "fake", "continent", "fake_among_real", "real_among_fake"}
      \cup Metrics
Keys == [type : GameTypes, kind : RoundKinds, of : SUBSET (Countries \cup Seeds)]
Key(type, kind, of) == [type |-> type, kind |-> kind, of |-> of]

Question(key, shown, answer) ==
    [key |-> key, shown |-> shown, answer |-> answer]

-----------------------------------------------------------------------------
(* The wrong options: of the target's own continent if there are three,    *)
(* else all there are and some of elsewhere.                               *)
Distractors(pool, target) ==
    LET others == pool \ {target}
        near == OnContinent(others, Facts[target].continent)
        missing == 3 - Cardinality(near)
    IN  IF missing <= 0 THEN kSubset(3, near)
        ELSE {near \cup far : far \in kSubset(missing, others \ near)}

(* selectFlagsMcQuestion, selectCapitalsMcQuestion and                     *)
(* selectCountryShapeQuestion, before what is excluded is taken out.       *)
ChoiceQuestions(type, pool) ==
    LET suited == {c \in pool : type = "capitals_mc" => Facts[c].capital}
        targets == {c \in suited : type = "country_shape_mc" => Facts[c].shape}
        Wrong(t) == IF type = "capitals_mc" THEN kSubset(3, suited \ {t})
                    ELSE Distractors(suited, t)
    IN  UNION {{Question(Key(type, "target", {t}), {t} \cup wrong, t) :
                   wrong \in Wrong(t)} : t \in targets}

(* Mutant: two countries of the same value may be compared.                *)
HigherLowerQuestionsWithTies(pool, metric) ==
    LET Value(c) == Facts[c].value[metric]
        known == {c \in pool : Value(c) >= 0}
    IN  {Question(Key("higher_lower", metric, {p[1], p[2]}), {p[1], p[2]}, p[1]) :
            p \in {q \in known \X known : q[1] # q[2] /\ Value(q[1]) >= Value(q[2])}}

HigherLowerQuestions(pool, metric) ==
    LET Value(c) == Facts[c].value[metric]
        known == {c \in pool : Value(c) >= 0}
    IN  {Question(Key("higher_lower", metric, {p[1], p[2]}), {p[1], p[2]}, p[1]) :
            p \in {q \in known \X known : Value(q[1]) > Value(q[2])}}

RealOrFakeQuestions(pool, kind) ==
    {Question(Key("real_or_fake_flag", kind, {flag}), {flag}, kind) :
        flag \in IF kind = "real" THEN pool ELSE Seeds}

(* Continents with three countries or more that leave one for the odd one. *)
Majorities(pool) ==
    {continent \in {Facts[c].continent : c \in pool} :
        LET majority == OnContinent(pool, continent)
        IN  Cardinality(majority) >= 3 /\ majority # pool}

OddContinentQuestions(pool) ==
    UNION {{Question(Key("odd_one_out", "continent", three \cup {odd}),
                     three \cup {odd}, odd) :
               three \in kSubset(3, OnContinent(pool, continent)),
               odd \in pool \ OnContinent(pool, continent)} :
           continent \in Majorities(pool)}

(* One fake among three real flags, or one real flag among three fakes,    *)
(* each with a seed of its own.                                            *)
FakeAmongRealQuestions(pool) ==
    UNION {{Question(Key("odd_one_out", "fake_among_real", {seed}),
                     three \cup {seed}, seed) : three \in kSubset(3, pool)} :
           seed \in Seeds}

RealAmongFakeQuestions(pool) ==
    UNION {{Question(Key("odd_one_out", "real_among_fake", {seed}),
                     {c} \cup {<<seed, i>> : i \in 0..2}, c) : c \in pool} :
           seed \in Seeds}

OddOneOutQuestions(pool, kind) ==
    CASE kind = "continent" -> OddContinentQuestions(pool)
      [] kind = "fake_among_real" -> FakeAmongRealQuestions(pool)
      [] kind = "real_among_fake" -> RealAmongFakeQuestions(pool)

QuestionsOf(type, kind, pool) ==
    CASE type \in MultipleChoice -> ChoiceQuestions(type, pool)
      [] type = "higher_lower" -> HigherLowerQuestions(pool, kind)
      [] type = "real_or_fake_flag" -> RealOrFakeQuestions(pool, kind)
      [] type = "odd_one_out" -> OddOneOutQuestions(pool, kind)

-----------------------------------------------------------------------------
(* Real or fake: whichever was less often among what is excluded.          *)
NextRealOrFake(excluded) ==
    LET Count(kind) == Cardinality({k \in excluded : k.kind = kind})
    IN  IF Count("real") > Count("fake") THEN {"fake"}
        ELSE IF Count("fake") > Count("real") THEN {"real"}
        ELSE {"real", "fake"}

(* The kind is drawn before it is known what is left of that kind.         *)
Kinds(type, pool, excluded) ==
    CASE type \in MultipleChoice -> {"target"}
      [] type = "higher_lower" -> Metrics
      [] type = "real_or_fake_flag" -> NextRealOrFake(excluded)
      [] type = "odd_one_out" ->
            {"fake_among_real", "real_among_fake"}
              \cup (IF Majorities(pool) = {} THEN {} ELSE {"continent"})

(* A seed is drawn anew until it is new, and there are 2^32 of them: these *)
(* only run out with the bound Seeds.                                      *)
Seeded(kind) == kind \in {"fake", "fake_among_real", "real_among_fake"}

Fresh(type, kind, pool, excluded) ==
    {q \in QuestionsOf(type, kind, pool) : q.key \notin excluded}

(* selectRoundsForType for one round: what it may choose, and whether it   *)
(* may throw a RangeError.  Four countries are drawn first and tested      *)
(* after, fifty times over, so that it may give up with some left.         *)
Selected(type, pool, excluded) ==
    UNION {Fresh(type, kind, pool, excluded) : kind \in Kinds(type, pool, excluded)}

MayThrow(type, pool, excluded) ==
    \E kind \in Kinds(type, pool, excluded) :
        LET all == QuestionsOf(type, kind, pool)
            fresh == Fresh(type, kind, pool, excluded)
        IN  \/ all = {}
            \/ ~Seeded(kind) /\ fresh = {}
            \/ kind = "continent" /\ fresh # all

(* buildMatchQuestionPlan: with what is excluded, or else with nothing     *)
(* excluded; and whether there may be no question at all.                  *)
Built(type, pool, exclude) ==
    LET excluded == {k \in exclude : k.type = type}
    IN  Selected(type, pool, excluded)
          \cup (IF MayThrow(type, pool, excluded) THEN Selected(type, pool, {})
                ELSE {})

Unavailable(type, pool, exclude) ==
    LET excluded == {k \in exclude : k.type = type}
    IN  MayThrow(type, pool, excluded) /\ MayThrow(type, pool, {})
=============================================================================
