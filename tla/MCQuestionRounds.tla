-------------------------- MODULE MCQuestionRounds --------------------------
(* Instances of QuestionRounds for TLC: ten countries with the gaps that  *)
(* the content has (no capital, no shape, a metric that is not known or the *)
(* same for two), and what a host may choose.                               *)
EXTENDS QuestionRounds

CONSTANTS a1, a2, a3, o1, o2, e1, e2, e3, e4, h1

MCCountries == {a1, a2, a3, o1, o2, e1, e2, e3, e4, h1}

Country(continent, population, area, gdp) ==
    [difficulty |-> "easy", continent |-> continent,
     capital |-> TRUE, shape |-> TRUE,
     value |-> [population |-> population, area |-> area, gdp |-> gdp]]

MCFacts ==
    [c \in MCCountries |->
        CASE c = a1 -> Country("Asia", 3, 2, 1)
          [] c = a2 -> [Country("Asia", 3, 1, 2) EXCEPT !.shape = FALSE]
          [] c = a3 -> Country("Asia", -1, -1, 1)
          [] c = o1 -> Country("Oceania", 4, 3, -1)
          [] c = o2 -> [Country("Oceania", -1, -1, -1) EXCEPT !.capital = FALSE]
          [] c = h1 -> [Country("Asia", 9, 9, 9) EXCEPT !.difficulty = "hard"]
          [] c \in {e1, e2, e3, e4} -> Country("Europe", -1, -1, -1)]

Choice(gameType, totalRounds, continents) ==
    [gameType |-> gameType, totalRounds |-> totalRounds,
     difficulty |-> "easy", continents |-> continents]

(* Every game, with enough countries and, where that differs, with few.    *)
EveryGame ==
    {Choice(g, 2, {"Asia", "Oceania"}) : g \in GameTypes}
      \cup {Choice(g, 1, {"Asia"}) : g \in {"flags_mc", "odd_one_out"}}
      \cup {Choice("flags_mc", 1, {"Europe", "Oceania"})}
=============================================================================
